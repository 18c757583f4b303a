---------------------------- MODULE TuringProofs ----------------------------
(***************************************************************************)
(* The runtime of Project Turing for any items, chats, pools, memories and *)
(* threads.  Its parts share no state: the tick and its backlog            *)
(* (TuringTick), the lineage of memories and the dreams that make wisdom   *)
(* (MemoryWriters), the feed (OwnAccord), what is kept beside the memories *)
(* (MemoryViews) and what a prompt tells of them (TuringChat).  Each       *)
(* theorem is about its part's own specification, the last about the parts *)
(* together.                                                               *)
(***************************************************************************)
EXTENDS MCTuring, SetLemmas, SequenceTheorems

\* SetToSeq() lists every element of a finite set once.
LEMMA ListOfSet ==
  ASSUME NEW S, IsFiniteSet(S)
  PROVE  /\ SetToSeq(S) \in Seq(S)
         /\ Len(SetToSeq(S)) = Cardinality(S) /\ DOMAIN SetToSeq(S) = 1..Cardinality(S)
         /\ \A i, j \in 1..Cardinality(S) : SetToSeq(S)[i] = SetToSeq(S)[j] => i = j
         /\ \A k \in 1..Cardinality(S) : SetToSeq(S)[k] \in S
         /\ Cardinality(S) \in Nat
         /\ \A x \in S : \E k \in 1..Cardinality(S) : SetToSeq(S)[k] = x
<1>1. Cardinality(S) \in Nat /\ ExistsBijection(1..Cardinality(S), S)
  BY FS_CardinalityType
<1>2. \E f \in [1..Cardinality(S) -> S] : IsInjective(f)
  BY <1>1 DEF ExistsBijection, Bijection, Injection
<1>3. SetToSeq(S) \in [1..Cardinality(S) -> S] /\ IsInjective(SetToSeq(S))
  BY <1>2 DEF SetToSeq
<1>4. DOMAIN SetToSeq(S) = 1..Cardinality(S)
  BY <1>3
<1>5. SetToSeq(S) \in Seq(S)
  BY <1>1, <1>3, SeqDef
<1>6. Len(SetToSeq(S)) = Cardinality(S)
  BY <1>1, <1>4, <1>5, LenProperties
<1>7. SetToSeq(S) \in Surjection(1..Cardinality(S), S)
  <2>1. Cardinality(1..Cardinality(S)) = Cardinality(S)
    BY <1>1, FS_Interval
  <2>2. SetToSeq(S) \in Injection(1..Cardinality(S), S)
    BY <1>3 DEF Injection
  <2>3. QED
    BY <2>1, <2>2, FS_Injection
<1>8. \A x \in S : \E k \in 1..Cardinality(S) : SetToSeq(S)[k] = x
  BY <1>7 DEF Surjection
<1>9. QED
  BY <1>1, <1>3, <1>4, <1>5, <1>6, <1>8 DEF IsInjective

-----------------------------------------------------------------------------
(* The tick                                                                 *)

Items == { Deadline(d) : d \in Deadlines } \cup { Message(m) : m \in Chats }
           \cup { Daydream(p) : p \in Pools }
Handlers == Pools \cup {"motivation", "scheduler", "dispatch"}

TickTypeOK ==
    /\ handler \in Seq(Handlers) /\ sweep \in Seq(Items)
    /\ backlog \in SUBSET Items /\ IsFiniteSet(backlog)
    /\ due \in SUBSET Deadlines /\ IsFiniteSet(due)
    /\ inserted \in SUBSET Deadlines /\ buffer \in SUBSET Deadlines
    /\ schedules \in [Deadlines -> Nat] /\ delivered \in [Deadlines -> Nat]
    /\ candidate \in [Pools -> BOOLEAN]
    /\ imagining \in [Pools -> {"none", "running", "done"}]
    /\ client \in [Chats -> {"new", "waiting", "answered", "timed out"}]

\* While something of a sweep is left the dispatch is at the head of the tick:
\* the scheduler does not run before it has ended.
SweepIsDispatched == sweep # <<>> => Handling("dispatch")

\* What the sweep has in hand was noticed, and stays so until it is dispatched.
SweptIsInserted ==
    \A k \in 1..Len(sweep) : \A d \in Deadlines : sweep[k] = Deadline(d) => d \in inserted

\* The output of a deadline does not wait while the deadline itself does.
BufferedIsGone == \A d \in buffer : Deadline(d) \notin backlog

TickInv ==
    /\ TickTypeOK
    /\ SweepIsDispatched
    /\ SweptIsInserted
    /\ BufferedIsGone
    /\ BacklogIsSound

-----------------------------------------------------------------------------
(* What a tick has in hand                                                  *)

\* An order of the backlog is a sequence of its items, as long as it is large.
LEMMA ScoredFacts ==
  ASSUME TickTypeOK, NEW s \in ByScore, backlog # {}
  PROVE  /\ s \in Seq(backlog) /\ s # <<>>
         /\ Len(s) \in Nat \ {0}
<1>1. s \in [1..Cardinality(backlog) -> backlog]
  BY DEF ByScore, SetToSeqs
<1>2. Cardinality(backlog) \in Nat /\ Cardinality(backlog) # 0
  BY FS_CardinalityType, FS_EmptySet DEF TickTypeOK
<1>3. s \in Seq(backlog)
  BY <1>1, <1>2, SeqDef
<1>4. DOMAIN s = 1..Cardinality(backlog)
  BY <1>1
<1>5. Len(s) = Cardinality(backlog)
  BY <1>2, <1>3, <1>4, LenProperties
<1>6. QED
  BY <1>2, <1>3, <1>5, EmptySeq

\* The head of a tick is the only handler that runs.
LEMMA NothingInHand ==
  ASSUME TickTypeOK, SweepIsDispatched, NEW h, Handling(h), h # "dispatch"
  PROVE  sweep = <<>>
BY DEF SweepIsDispatched, Handling

LEMMA HandlerReturns ==
  ASSUME TickTypeOK, handler # <<>>
  PROVE  Tail(handler) \in Seq(Handlers)
BY HeadTailProperties DEF TickTypeOK

\* The items of the three kinds are told apart.
LEMMA KindsDiffer ==
  ASSUME NEW d, NEW m, NEW p
  PROVE  Deadline(d) # Message(m) /\ Deadline(d) # Daydream(p) /\ Message(m) # Daydream(p)
BY DEF Deadline, Message, Daydream

LEMMA ItemsOfAKind ==
  /\ \A d, e : Deadline(d) = Deadline(e) => d = e
  /\ \A m, n : Message(m) = Message(n) => m = n
  /\ \A p, q : Daydream(p) = Daydream(q) => p = q
BY DEF Deadline, Message, Daydream

-----------------------------------------------------------------------------
(* The steps                                                                *)

LEMMA TickInitially == TickInit => TickInv
<1> SUFFICES ASSUME TickInit PROVE TickInv
  OBVIOUS
<1>1. TickTypeOK
  BY FS_EmptySet DEF TickInit, TickTypeOK
<1>2. SweepIsDispatched /\ SweptIsInserted /\ BufferedIsGone
  BY DEF TickInit, SweepIsDispatched, SweptIsInserted, BufferedIsGone
<1>3. BacklogIsSound
  BY DEF TickInit, BacklogIsSound, DeadlinesArePlaced, WaitingHasAReason, NoStaleCandidate
<1>4. QED
  BY <1>1, <1>2, <1>3 DEF TickInv

LEMMA BeginTickInv == TickInv /\ BeginTick => TickInv'
<1> SUFFICES ASSUME TickInv, BeginTick PROVE TickInv'
  OBVIOUS
<1> USE DEF TickInv
<1>1. sweep = <<>>
  BY DEF SweepIsDispatched, Handling, BeginTick
<1>2. IsFiniteSet(Pools \ {LastPool})
  BY TickAssumption, FS_Subset DEF TickAssumption
<1>3. SetToSeq(Pools \ {LastPool}) \in Seq(Handlers)
  BY <1>2, ListOfSet, SeqDef DEF Handlers
<1>4. <<LastPool>> \in Seq(Handlers) /\ <<"motivation", "scheduler">> \in Seq(Handlers)
  BY TickAssumption DEF TickAssumption, Handlers
<1>5. Producers \in Seq(Handlers)
  BY <1>3, <1>4, ConcatProperties DEF Producers
<1>6. handler' \in Seq(Handlers)
  BY <1>4, <1>5, ConcatProperties DEF BeginTick
<1>7. TickTypeOK'
  BY <1>6 DEF TickTypeOK, BeginTick, dueVars, dreamVars, chatVars
<1>8. SweepIsDispatched' /\ SweptIsInserted' /\ BufferedIsGone'
  BY <1>1 DEF SweepIsDispatched, SweptIsInserted, BufferedIsGone, BeginTick, dueVars
<1>9. BacklogIsSound'
  BY DEF BacklogIsSound, DeadlinesArePlaced, WaitingHasAReason, NoStaleCandidate, BeginTick,
         dueVars, dreamVars, chatVars
<1>10. QED
  BY <1>7, <1>8, <1>9

LEMMA StartSweepInv == TickInv /\ StartSweep => TickInv'
<1> SUFFICES ASSUME TickInv, StartSweep PROVE TickInv'
  OBVIOUS
<1> USE DEF TickInv
<1>1. PICK s \in ByScore : sweep' = SubSeq(s, 1, IF Len(s) < TopX THEN Len(s) ELSE TopX)
  BY DEF StartSweep
<1>2. s \in Seq(backlog) /\ Len(s) \in Nat \ {0}
  BY <1>1, ScoredFacts DEF StartSweep
<1>3. sweep' \in Seq(backlog)
  BY <1>1, <1>2, TickAssumption, SubSeqProperties DEF TickAssumption
<1>4. sweep' \in Seq(Items)
  <2>1. Seq(backlog) \subseteq Seq(Items)
    <3>1. backlog \subseteq Items
      BY DEF TickTypeOK
    <3>2. QED
      BY <3>1, SeqDef
  <2>2. QED
    BY <1>3, <2>1
<1>5. Tail(handler) \in Seq(Handlers) /\ <<"dispatch">> \in Seq(Handlers)
  BY HandlerReturns DEF StartSweep, Handling, Handlers
<1>6. handler' \in Seq(Handlers) /\ handler' # <<>> /\ Head(handler') = "dispatch"
  BY <1>5, ConcatProperties DEF StartSweep
<1>7. TickTypeOK'
  BY <1>4, <1>6 DEF TickTypeOK, StartSweep, dueVars, dreamVars, chatVars
<1>8. SweepIsDispatched'
  BY <1>6 DEF SweepIsDispatched, Handling
<1>9. SweptIsInserted'
  <2>1. \A k \in 1..Len(sweep') : sweep'[k] \in backlog
    BY <1>3, ElementOfSeq
  <2>2. QED
    BY <2>1 DEF SweptIsInserted, BacklogIsSound, DeadlinesArePlaced, StartSweep, dueVars
<1>10. BufferedIsGone' /\ BacklogIsSound'
  BY DEF BufferedIsGone, BacklogIsSound, DeadlinesArePlaced, WaitingHasAReason, NoStaleCandidate,
         StartSweep, dueVars, dreamVars, chatVars
<1>11. QED
  BY <1>7, <1>8, <1>9, <1>10

LEMMA NoSweepInv == TickInv /\ NoSweep => TickInv'
<1> SUFFICES ASSUME TickInv, NoSweep PROVE TickInv'
  OBVIOUS
<1> USE DEF TickInv
<1>1. sweep = <<>>
  BY NothingInHand DEF NoSweep
<1>2. TickTypeOK'
  BY HandlerReturns DEF NoSweep, Handling, Return, TickTypeOK, dueVars, dreamVars, chatVars
<1>3. SweepIsDispatched' /\ SweptIsInserted' /\ BufferedIsGone'
  BY <1>1 DEF SweepIsDispatched, SweptIsInserted, BufferedIsGone, NoSweep, dueVars
<1>4. BacklogIsSound'
  BY DEF BacklogIsSound, DeadlinesArePlaced, WaitingHasAReason, NoStaleCandidate, NoSweep,
         dueVars, dreamVars, chatVars
<1>5. QED
  BY <1>2, <1>3, <1>4

\* The rest of a sweep is dispatched next; after the last item, or when a
\* handler raised, the tick goes on.
LEMMA NextItemFacts ==
  ASSUME TickTypeOK, SweepIsDispatched, SweptIsInserted, NEW i, Dispatched(i),
         NextItem \/ EndSweep
  PROVE  /\ handler' \in Seq(Handlers) /\ sweep' \in Seq(Items)
         /\ SweepIsDispatched'
         /\ \A k \in 1..Len(sweep') : \A d \in Deadlines : sweep'[k] = Deadline(d) => d \in inserted
         /\ \A d \in Deadlines : i = Deadline(d) => d \in inserted
<1>1. sweep # <<>> /\ handler # <<>> /\ Head(handler) = "dispatch" /\ i = sweep[1] /\ Len(sweep) \in Nat \ {0}
  <2>1. sweep \in Seq(Items) /\ sweep # <<>> /\ handler # <<>> /\ Head(handler) = "dispatch" /\ i = Head(sweep)
    BY DEF Dispatched, Handling, TickTypeOK
  <2>2. Len(sweep) \in Nat \ {0}
    BY <2>1, EmptySeq, LenProperties
  <2>3. QED
    BY <2>1, <2>2, HeadTailProperties
<1>2. Tail(handler) \in Seq(Handlers)
  BY <1>1, HandlerReturns
<1>3. \A d \in Deadlines : i = Deadline(d) => d \in inserted
  <2>1. 1 \in 1..Len(sweep)
    BY <1>1
  <2>2. QED
    BY <1>1, <2>1 DEF SweptIsInserted
<1>4. CASE EndSweep
  BY <1>2, <1>3, <1>4 DEF EndSweep, Return, SweepIsDispatched
<1>5. CASE NextItem
  <2>1. /\ Tail(sweep) \in Seq(Items) /\ Len(Tail(sweep)) = Len(sweep) - 1
        /\ \A k \in 1..Len(Tail(sweep)) : Tail(sweep)[k] = sweep[k + 1]
    BY <1>1, HeadTailProperties DEF TickTypeOK
  <2>2. \A k \in 1..Len(sweep') : \A d \in Deadlines : sweep'[k] = Deadline(d) => d \in inserted
    BY <1>1, <1>5, <2>1 DEF NextItem, SweptIsInserted
  <2>3. handler' \in Seq(Handlers)
    BY <1>2, <1>5 DEF NextItem, TickTypeOK
  <2>4. SweepIsDispatched'
    <3>1. CASE Len(sweep) = 1
      BY <1>5, <2>1, <3>1, EmptySeq DEF NextItem, SweepIsDispatched
    <3>2. CASE Len(sweep) # 1
      BY <1>1, <1>5, <3>2 DEF NextItem, SweepIsDispatched, Handling
    <3>3. QED
      BY <3>1, <3>2
  <2>5. QED
    BY <1>3, <1>5, <2>1, <2>2, <2>3, <2>4 DEF NextItem
<1>6. QED
  BY <1>4, <1>5

LEMMA DispatchDeadlineInv ==
  ASSUME TickInv, NEW d \in Deadlines, DispatchDeadline(d)
  PROVE  TickInv'
<1> USE DEF TickInv
<1>1. /\ handler' \in Seq(Handlers) /\ sweep' \in Seq(Items)
      /\ SweepIsDispatched'
      /\ \A k \in 1..Len(sweep') : \A e \in Deadlines : sweep'[k] = Deadline(e) => e \in inserted
      /\ d \in inserted
  BY NextItemFacts DEF DispatchDeadline
<1>2. TickTypeOK'
  <2>1. backlog' = backlog \ {Deadline(d)}
    BY DEF DispatchDeadline
  <2>2. IsFiniteSet(backlog') /\ backlog' \in SUBSET Items
    BY <2>1, FS_RemoveElement DEF TickTypeOK
  <2>3. QED
    BY <1>1, <2>2 DEF TickTypeOK, DispatchDeadline, dreamVars, chatVars
<1>3. SweptIsInserted'
  BY <1>1 DEF SweptIsInserted, DispatchDeadline
<1>4. BufferedIsGone'
  BY DEF BufferedIsGone, DispatchDeadline
<1>5. DeadlinesArePlaced'
  BY <1>1, ItemsOfAKind DEF BacklogIsSound, DeadlinesArePlaced, DispatchDeadline
<1>6. WaitingHasAReason' /\ NoStaleCandidate'
  BY KindsDiffer DEF BacklogIsSound, WaitingHasAReason, NoStaleCandidate, DispatchDeadline,
                     dreamVars, chatVars
<1>7. QED
  BY <1>1, <1>2, <1>3, <1>4, <1>5, <1>6 DEF BacklogIsSound

\* A chat message that is dispatched is answered or dropped.
LEMMA DispatchChatInv ==
  ASSUME TickInv, NEW m \in Chats, DispatchChat(m) \/ ChatRaises(m)
  PROVE  TickInv'
<1> USE DEF TickInv
<1>1. /\ handler' \in Seq(Handlers) /\ sweep' \in Seq(Items)
      /\ SweepIsDispatched'
      /\ \A k \in 1..Len(sweep') : \A e \in Deadlines : sweep'[k] = Deadline(e) => e \in inserted
  BY NextItemFacts DEF DispatchChat, ChatRaises
<1>2. /\ backlog' = backlog \ {Message(m)}
      /\ m \in replies' \/ m \in dropped'
      /\ replies \subseteq replies' /\ dropped \subseteq dropped'
      /\ UNCHANGED <<dueVars, dreamVars, client>>
  BY DEF DispatchChat, ChatRaises
<1>3. TickTypeOK'
  BY <1>1, <1>2, FS_Subset DEF TickTypeOK, dueVars, dreamVars
<1>4. SweptIsInserted' /\ BufferedIsGone'
  BY <1>1, <1>2 DEF SweptIsInserted, BufferedIsGone, dueVars
<1>5. DeadlinesArePlaced' /\ NoStaleCandidate'
  BY <1>2, KindsDiffer DEF BacklogIsSound, DeadlinesArePlaced, NoStaleCandidate, dueVars, dreamVars
<1>6. WaitingHasAReason'
  BY <1>2, ItemsOfAKind DEF BacklogIsSound, WaitingHasAReason
<1>7. QED
  BY <1>1, <1>3, <1>4, <1>5, <1>6 DEF BacklogIsSound

LEMMA SkipDaydreamInv ==
  ASSUME TickInv, NEW p \in Pools, SkipDaydream(p)
  PROVE  TickInv'
<1> USE DEF TickInv
<1>1. /\ handler' \in Seq(Handlers) /\ sweep' \in Seq(Items)
      /\ SweepIsDispatched'
      /\ \A k \in 1..Len(sweep') : \A e \in Deadlines : sweep'[k] = Deadline(e) => e \in inserted
  BY NextItemFacts DEF SkipDaydream
<1>2. UNCHANGED <<backlog, dueVars, dreamVars, chatVars>>
  BY DEF SkipDaydream
<1>3. TickTypeOK' /\ SweptIsInserted' /\ BufferedIsGone'
  BY <1>1, <1>2 DEF TickTypeOK, SweptIsInserted, BufferedIsGone, dueVars, dreamVars, chatVars
<1>4. BacklogIsSound'
  BY <1>2 DEF BacklogIsSound, DeadlinesArePlaced, WaitingHasAReason, NoStaleCandidate, dueVars,
              dreamVars, chatVars
<1>5. QED
  BY <1>1, <1>3, <1>4

LEMMA DispatchDaydreamInv ==
  ASSUME TickInv, NEW p \in Pools, NEW seed \in BOOLEAN, DispatchDaydream(p, seed)
  PROVE  TickInv'
<1> USE DEF TickInv
<1>1. /\ handler' \in Seq(Handlers) /\ sweep' \in Seq(Items)
      /\ SweepIsDispatched'
      /\ \A k \in 1..Len(sweep') : \A e \in Deadlines : sweep'[k] = Deadline(e) => e \in inserted
  BY NextItemFacts DEF DispatchDaydream
<1>2. backlog' = backlog \ {Daydream(p)} /\ UNCHANGED <<dueVars, chatVars>>
  BY DEF DispatchDaydream
<1>3. /\ candidate' \in [Pools -> BOOLEAN]
      /\ imagining' \in [Pools -> {"none", "running", "done"}]
      /\ \A q \in Pools \ {p} : candidate'[q] = candidate[q] /\ imagining'[q] = imagining[q]
  BY DEF DispatchDaydream, TickTypeOK, dreamVars
<1>4. TickTypeOK'
  BY <1>1, <1>2, <1>3, FS_Subset DEF TickTypeOK, dueVars, chatVars
<1>5. SweptIsInserted' /\ BufferedIsGone'
  BY <1>1, <1>2 DEF SweptIsInserted, BufferedIsGone, dueVars
<1>6. DeadlinesArePlaced' /\ WaitingHasAReason'
  BY <1>2, KindsDiffer DEF BacklogIsSound, DeadlinesArePlaced, WaitingHasAReason, dueVars, chatVars
<1>7. NoStaleCandidate'
  BY <1>2, <1>3 DEF BacklogIsSound, NoStaleCandidate
<1>8. QED
  BY <1>1, <1>4, <1>5, <1>6, <1>7 DEF BacklogIsSound

LEMMA ScheduleInv ==
  ASSUME TickInv, NEW d \in Deadlines, Schedule(d)
  PROVE  TickInv'
<1> USE DEF TickInv
<1>1. TickTypeOK'
  <2>1. IsFiniteSet(due \cup {d})
    BY FS_AddElement DEF TickTypeOK
  <2>2. schedules' \in [Deadlines -> Nat]
    <3>1. schedules \in [Deadlines -> Nat]
      BY DEF TickTypeOK
    <3>2. schedules[d] + 1 \in Nat
      BY <3>1
    <3>3. QED
      BY <3>1, <3>2 DEF Schedule
  <2>3. QED
    BY <2>1, <2>2 DEF TickTypeOK, Schedule, tickVars, dreamVars, chatVars
<1>2. SweepIsDispatched' /\ SweptIsInserted' /\ BufferedIsGone'
  BY DEF Schedule, SweepIsDispatched, Handling, SweptIsInserted, BufferedIsGone, tickVars
<1>3. DeadlinesArePlaced'
  <2>1. \A e \in Deadlines : delivered[e] \in Nat /\ schedules[e] \in Nat
    BY DEF TickTypeOK
  <2>2. \A e \in Deadlines : schedules'[e] = IF e = d THEN schedules[e] + 1 ELSE schedules[e]
    BY DEF TickTypeOK, Schedule
  <2>3. d \notin due /\ due' = due \cup {d} /\ UNCHANGED <<backlog, inserted, buffer, delivered>>
    BY DEF Schedule
  <2>4. QED
    BY <2>1, <2>2, <2>3 DEF BacklogIsSound, DeadlinesArePlaced
<1>4. WaitingHasAReason' /\ NoStaleCandidate'
  BY DEF BacklogIsSound, WaitingHasAReason, NoStaleCandidate, Schedule, dreamVars, chatVars
<1>5. QED
  BY <1>1, <1>2, <1>3, <1>4 DEF BacklogIsSound

\* Windows that open are noticed once, and of what is delivered nothing is left.
LEMMA SchedulerTickInv ==
  ASSUME TickInv, NEW done \in SUBSET Deliverable, SchedulerTick(done)
  PROVE  TickInv'
<1> USE DEF TickInv
<1>1. sweep = <<>>
  BY NothingInHand DEF SchedulerTick
<1>2. done \subseteq buffer /\ done \subseteq inserted /\ done \subseteq due /\ Open \cap done = {}
  BY DEF Deliverable, Open, BacklogIsSound, DeadlinesArePlaced, TickTypeOK
<1>3. \A d \in Deadlines : Deadline(d) \in backlog' <=> Deadline(d) \in backlog \/ d \in Open
  BY ItemsOfAKind DEF SchedulerTick
<1>4. TickTypeOK'
  <2>1. IsFiniteSet(Open) /\ Open \in SUBSET Deadlines
    BY FS_Subset DEF Open, TickTypeOK
  <2>2. IsFiniteSet({ Deadline(d) : d \in Open })
    <3>1. [d \in Open |-> Deadline(d)] \in Surjection(Open, { Deadline(d) : d \in Open })
      BY DEF Surjection
    <3>2. QED
      BY <2>1, <3>1, FS_Surjection
  <2>3. IsFiniteSet(backlog')
    BY <2>2, FS_Union DEF TickTypeOK, SchedulerTick
  <2>4. backlog' \in SUBSET Items
    BY <2>1 DEF TickTypeOK, SchedulerTick, Items
  <2>5. IsFiniteSet(due') /\ due' \in SUBSET Deadlines
    BY FS_Subset DEF TickTypeOK, SchedulerTick
  <2>6. delivered' \in [Deadlines -> Nat]
    <3>1. delivered \in [Deadlines -> Nat]
      BY DEF TickTypeOK
    <3>2. \A d \in Deadlines : delivered[d] \in Nat /\ delivered[d] + 1 \in Nat
      BY <3>1
    <3>3. QED
      BY <3>2 DEF SchedulerTick
  <2>7. handler' \in Seq(Handlers)
    BY HandlerReturns DEF SchedulerTick, Return, Handling
  <2>8. inserted' \in SUBSET Deadlines /\ buffer' \in SUBSET Deadlines
    BY <2>1 DEF TickTypeOK, SchedulerTick
  <2>9. UNCHANGED <<sweep, schedules, candidate, imagining, client>>
    BY DEF SchedulerTick, dreamVars, chatVars
  <2>10. QED
    BY <2>3, <2>4, <2>5, <2>6, <2>7, <2>8, <2>9 DEF TickTypeOK
<1>5. SweepIsDispatched' /\ SweptIsInserted'
  BY <1>1 DEF SweepIsDispatched, SweptIsInserted, SchedulerTick
<1>6. BufferedIsGone'
  BY <1>3 DEF BufferedIsGone, SchedulerTick, BacklogIsSound, DeadlinesArePlaced, Open, TickTypeOK
<1>7. DeadlinesArePlaced'
  <2> SUFFICES ASSUME NEW d \in Deadlines
               PROVE  /\ d \in inserted' <=> d \in buffer' \/ Deadline(d) \in backlog'
                      /\ d \in inserted' => d \in due'
                      /\ delivered'[d] + (IF d \in due' THEN 1 ELSE 0) = schedules'[d]
    BY DEF DeadlinesArePlaced
  <2>1. /\ d \in inserted <=> d \in buffer \/ Deadline(d) \in backlog
        /\ d \in inserted => d \in due
        /\ delivered[d] + (IF d \in due THEN 1 ELSE 0) = schedules[d]
        /\ delivered[d] \in Nat /\ schedules[d] \in Nat
    BY DEF BacklogIsSound, DeadlinesArePlaced, TickTypeOK
  <2>2. d \in buffer => Deadline(d) \notin backlog
    BY DEF BufferedIsGone
  <2>3. d \in Open => d \in due /\ d \notin inserted
    BY DEF Open
  <2>4. /\ inserted' = (inserted \cup Open) \ done /\ buffer' = buffer \ done /\ due' = due \ done
        /\ delivered'[d] = IF d \in done THEN delivered[d] + 1 ELSE delivered[d]
        /\ schedules' = schedules
    BY DEF SchedulerTick
  <2>5. QED
    BY <1>2, <1>3, <2>1, <2>2, <2>3, <2>4
<1>8. WaitingHasAReason' /\ NoStaleCandidate'
  BY KindsDiffer DEF BacklogIsSound, WaitingHasAReason, NoStaleCandidate, SchedulerTick, dreamVars,
                     chatVars
<1>9. QED
  BY <1>4, <1>5, <1>6, <1>7, <1>8 DEF BacklogIsSound

LEMMA ProducerTickInv ==
  ASSUME TickInv, NEW p \in Pools, ProducerTick(p)
  PROVE  TickInv'
<1> USE DEF TickInv
<1>1. sweep = <<>>
  BY NothingInHand, TickAssumption DEF ProducerTick, TickAssumption
<1>2. /\ backlog' \in {backlog, backlog \cup {Daydream(p)}, backlog \ {Daydream(p)}}
      /\ UNCHANGED <<sweep, dueVars, chatVars>>
  BY DEF ProducerTick
<1>3. /\ candidate' \in [Pools -> BOOLEAN]
      /\ imagining' \in [Pools -> {"none", "running", "done"}]
      /\ \A q \in Pools \ {p} : candidate'[q] = candidate[q] /\ imagining'[q] = imagining[q]
  BY DEF ProducerTick, TickTypeOK
<1>4. Daydream(p) \in backlog' => candidate'[p] /\ imagining'[p] # "running"
  <2>1. Daydream(p) \in backlog => candidate[p] /\ imagining[p] # "running"
    BY DEF BacklogIsSound, NoStaleCandidate
  <2>2. imagining'[p] = "running" => imagining[p] = "running"
    BY DEF ProducerTick, TickTypeOK
  <2>3. QED
    BY <2>1, <2>2 DEF ProducerTick, TickTypeOK, Busy
<1>5. TickTypeOK'
  <2>1. handler' \in Seq(Handlers)
    BY HandlerReturns DEF ProducerTick, Return, Handling
  <2>2. IsFiniteSet(backlog')
    <3>1. IsFiniteSet(backlog)
      BY DEF TickTypeOK
    <3>2. IsFiniteSet(backlog \cup {Daydream(p)}) /\ IsFiniteSet(backlog \ {Daydream(p)})
      BY <3>1, FS_AddElement, FS_RemoveElement
    <3>3. QED
      BY <1>2, <3>1, <3>2
  <2>3. backlog' \in SUBSET Items
    BY <1>2 DEF TickTypeOK, Items
  <2>4. QED
    BY <1>2, <1>3, <2>1, <2>2, <2>3 DEF TickTypeOK, dueVars, chatVars
<1>6. SweepIsDispatched' /\ SweptIsInserted'
  BY <1>1, <1>2 DEF SweepIsDispatched, SweptIsInserted
<1>7. BufferedIsGone' /\ DeadlinesArePlaced' /\ WaitingHasAReason'
  BY <1>2, KindsDiffer DEF BufferedIsGone, BacklogIsSound, DeadlinesArePlaced, WaitingHasAReason,
                           dueVars, chatVars
<1>8. NoStaleCandidate'
  BY <1>2, <1>3, <1>4, ItemsOfAKind DEF BacklogIsSound, NoStaleCandidate
<1>9. QED
  BY <1>5, <1>6, <1>7, <1>8 DEF BacklogIsSound

LEMMA PoolStepInv ==
  ASSUME TickInv, NEW p \in Pools,
         Imagined(p) \/ (\E to \in {"none", "low", "high"} : PressureChanges(p, to))
  PROVE  TickInv'
<1> USE DEF TickInv
<1>1. /\ UNCHANGED <<tickVars, backlog, dueVars, candidate, chatVars>>
      /\ imagining' \in [Pools -> {"none", "running", "done"}]
      /\ \A q \in Pools : imagining'[q] = "running" => imagining[q] = "running"
  BY DEF Imagined, PressureChanges, TickTypeOK, dreamVars
<1>2. TickTypeOK' /\ SweepIsDispatched' /\ SweptIsInserted' /\ BufferedIsGone'
  BY <1>1 DEF TickTypeOK, SweepIsDispatched, Handling, SweptIsInserted, BufferedIsGone, tickVars,
              dueVars, chatVars
<1>3. BacklogIsSound'
  BY <1>1 DEF BacklogIsSound, DeadlinesArePlaced, WaitingHasAReason, NoStaleCandidate, dueVars,
              chatVars
<1>4. QED
  BY <1>2, <1>3

LEMMA ClientInv ==
  ASSUME TickInv, NEW m \in Chats, Ask(m) \/ TakeReply(m) \/ TimeOut(m)
  PROVE  TickInv'
<1> USE DEF TickInv
<1>1. /\ UNCHANGED <<tickVars, dueVars, dreamVars, dropped>>
      /\ backlog' \in {backlog, backlog \cup {Message(m)}}
      /\ client' \in [Chats -> {"new", "waiting", "answered", "timed out"}]
      /\ client'[m] = "waiting" => Message(m) \in backlog'
      /\ \A n \in Chats \ {m} : client'[n] = client[n] /\ (n \in replies => n \in replies')
  BY DEF Ask, TakeReply, TimeOut, TickTypeOK
<1>2. TickTypeOK'
  <2>1. IsFiniteSet(backlog')
    <3>1. IsFiniteSet(backlog)
      BY DEF TickTypeOK
    <3>2. IsFiniteSet(backlog \cup {Message(m)})
      BY <3>1, FS_AddElement
    <3>3. QED
      BY <1>1, <3>1, <3>2
  <2>2. backlog' \in SUBSET Items
    BY <1>1 DEF TickTypeOK, Items
  <2>3. QED
    BY <1>1, <2>1, <2>2 DEF TickTypeOK, tickVars, dueVars, dreamVars
<1>3. SweepIsDispatched' /\ SweptIsInserted' /\ BufferedIsGone'
  BY <1>1, KindsDiffer DEF SweepIsDispatched, Handling, SweptIsInserted, BufferedIsGone, tickVars,
                           dueVars
<1>4. DeadlinesArePlaced' /\ NoStaleCandidate'
  BY <1>1, KindsDiffer DEF BacklogIsSound, DeadlinesArePlaced, NoStaleCandidate, dueVars, dreamVars
<1>5. WaitingHasAReason'
  BY <1>1 DEF BacklogIsSound, WaitingHasAReason
<1>6. QED
  BY <1>2, <1>3, <1>4, <1>5 DEF BacklogIsSound

LEMMA TickStepInv == TickInv /\ [TickNext]_turingTickVars => TickInv'
<1> SUFFICES ASSUME TickInv, [TickNext]_turingTickVars PROVE TickInv'
  OBVIOUS
<1>1. CASE BeginTick \/ StartSweep \/ NoSweep
  BY <1>1, BeginTickInv, StartSweepInv, NoSweepInv
<1>2. CASE \E d \in Deadlines : DispatchDeadline(d) \/ Schedule(d)
  BY <1>2, DispatchDeadlineInv, ScheduleInv
<1>3. CASE \E done \in SUBSET Deliverable : SchedulerTick(done)
  BY <1>3, SchedulerTickInv
<1>4. CASE \E p \in Pools : SkipDaydream(p) \/ ProducerTick(p) \/ Imagined(p)
                          \/ (\E seed \in BOOLEAN : DispatchDaydream(p, seed))
                          \/ (\E to \in {"none", "low", "high"} : PressureChanges(p, to))
  BY <1>4, SkipDaydreamInv, ProducerTickInv, PoolStepInv, DispatchDaydreamInv
<1>5. CASE \E m \in Chats : DispatchChat(m) \/ ChatRaises(m) \/ Ask(m) \/ TakeReply(m) \/ TimeOut(m)
  BY <1>5, DispatchChatInv, ClientInv
<1>6. CASE UNCHANGED turingTickVars
  BY <1>6 DEF TickInv, TickTypeOK, SweepIsDispatched, Handling, SweptIsInserted, BufferedIsGone,
              BacklogIsSound, DeadlinesArePlaced, WaitingHasAReason, NoStaleCandidate,
              turingTickVars, tickVars, dueVars, dreamVars, chatVars
<1>7. QED
  BY <1>1, <1>2, <1>3, <1>4, <1>5, <1>6 DEF TickNext

\* Whatever the chat threads, the executor and the handlers of a tick do, and
\* whichever of them raises: a deadline whose window was noticed is in the
\* backlog or in the delivery buffer and is delivered once for every
\* schedule(), a waiting client has something to wait for, and a queued
\* daydream is the one its producer knows of (motivation.py, scheduler.py,
\* daydream.py, runtime/chat.py).
THEOREM BacklogIsAlwaysSound == TickSpec => []BacklogIsSound
<1>1. TickInit => TickInv
  BY TickInitially
<1>2. TickInv /\ [TickNext]_turingTickVars => TickInv'
  BY TickStepInv
<1>3. TickInv => BacklogIsSound
  BY DEF TickInv
<1>4. QED
  BY <1>1, <1>2, <1>3, PTL DEF TickSpec

-----------------------------------------------------------------------------
(* Lineage                                                                  *)

Memories ==
    [tier : {"stance", "claim", "observation", "commitment", "regret", "lesson"},
     content : Sides \cup Values \cup {""}, lineage : SUBSET Nat, by : Nat, contradicted : Nat]

ToMark(i, n) == \E k \in 1..Len(writer) : writer[k] = <<i, n>>

\* What the writer at work has still to mark: memories that stand, once each,
\* for the newest memory, which names them; only commitments end commitments.
WriterInv ==
    /\ writer \in Seq(Nat \X Nat)
    /\ \A k \in 1..Len(writer) :
         LET i == writer[k][1]
             n == writer[k][2]
         IN  /\ n = Len(store) /\ i \in 1 .. n - 1
             /\ i \in store[n].lineage /\ store[i].by = 0
             /\ store[i].tier = "commitment" => store[n].tier = "commitment"
    /\ \A k, l \in 1..Len(writer) : writer[k][1] = writer[l][1] => k = l

\* A lesson that was written to its end has resolved both of its claims.
LessonsResolve ==
    \A m \in IdsOf("lesson") \ torn : \A i \in store[m].lineage :
        i \in Ids /\ (store[i].by = m \/ ToMark(i, m))

\* Only a later commitment supersedes a commitment.
CommitmentsFollow ==
    \A i \in IdsOf("commitment") :
        store[i].by # 0 => store[i].by \in IdsOf("commitment")

\* The detector speaks of claims.
DetectorInv ==
    /\ index \subseteq IdsOf("claim")
    /\ \A t \in triples \cup drafts : t[1] \in IdsOf("claim") /\ t[2] \in IdsOf("claim")

LineageInv ==
    /\ store \in Seq(Memories)
    /\ WriterInv
    /\ LineageIsMutual
    /\ LessonsResolve
    /\ CommitmentsFollow
    /\ DetectorInv

LEMMA IdsAreNumbers ==
  ASSUME store \in Seq(Memories)
  PROVE  /\ Ids = 1..Len(store) /\ Len(store) \in Nat
         /\ \A i \in Ids : store[i] \in Memories
BY LenProperties, ElementOfSeq DEF Ids

\* The greatest of some memories.
LEMMA GreatestId ==
  ASSUME store \in Seq(Memories), NEW S \in SUBSET Ids, S # {}
  PROVE  Max(S) \in S /\ \A y \in S : Max(S) >= y
<1>1. S \subseteq 1..Len(store) /\ Len(store) \in Nat
  BY IdsAreNumbers
<1> DEFINE T == { Len(store) - x : x \in S }
<1>2. T \subseteq Nat
  BY <1>1
<1>3. PICK e \in T : TRUE
  OBVIOUS
<1>4. PICK d \in T : \A n \in T : d <= n
  BY <1>2, <1>3, LeastNatural
<1>5. PICK x \in S : d = Len(store) - x
  OBVIOUS
<1>6. \A y \in S : x >= y
  <2> SUFFICES ASSUME NEW y \in S PROVE x >= y
    OBVIOUS
  <2>1. Len(store) - y \in T
    OBVIOUS
  <2>2. Len(store) - x <= Len(store) - y
    BY <1>4, <1>5, <2>1
  <2>3. x \in Nat /\ y \in Nat
    BY <1>1
  <2>4. QED
    BY <1>1, <2>2, <2>3
<1>7. QED
  BY <1>6 DEF Max

\* With the invariant the last commitment is in effect.
LEMMA LastIsEffective == LineageInv => LastCommitmentIsEffective
<1> SUFFICES ASSUME LineageInv, IdsOf("commitment") # {}
             PROVE  Effective = store[Max(IdsOf("commitment"))].content
  BY DEF LastCommitmentIsEffective
<1> DEFINE C == IdsOf("commitment")
<1>1. C \subseteq Ids /\ Heads("commitment") \subseteq C
  BY DEF IdsOf, Heads
<1>2. PICK m : m = Max(C)
  OBVIOUS
<1>3. m \in C /\ \A y \in C : m >= y
  BY <1>1, <1>2, GreatestId DEF LineageInv
<1>4. store[m].by = 0
  <2> SUFFICES ASSUME store[m].by # 0 PROVE FALSE
    OBVIOUS
  <2>1. store[m].by \in C
    BY <1>3 DEF LineageInv, CommitmentsFollow
  <2>2. store[m].by > m
    BY <1>1, <1>3 DEF LineageInv, LineageIsMutual
  <2>3. store[m].by \in Nat /\ m \in Nat
    BY <1>1, <1>3, <2>1, IdsAreNumbers DEF LineageInv
  <2>4. QED
    BY <1>3, <2>1, <2>2, <2>3
<1>5. m \in Heads("commitment")
  BY <1>3, <1>4 DEF Heads
<1>6. Max(Heads("commitment")) = m
  <2>1. Max(Heads("commitment")) \in Heads("commitment") /\ Max(Heads("commitment")) >= m
    BY <1>1, <1>5, GreatestId DEF LineageInv
  <2>2. m >= Max(Heads("commitment"))
    BY <1>1, <1>3, <2>1
  <2>3. Max(Heads("commitment")) \in Nat /\ m \in Nat
    BY <1>1, <1>3, <2>1, IdsAreNumbers DEF LineageInv
  <2>4. QED
    BY <2>1, <2>2, <2>3
<1>7. QED
  BY <1>2, <1>6 DEF Effective

\* With the invariant no two lessons resolve one claim.
LEMMA OneLessonForAClaim == LineageInv => ResolvedOnce
<1> SUFFICES ASSUME LineageInv, NEW m \in IdsOf("lesson") \ torn, NEW n \in IdsOf("lesson") \ torn,
                    NEW i \in store[m].lineage, i \in store[n].lineage
             PROVE  m = n
  BY DEF ResolvedOnce
<1>1. store[i].by = m \/ ToMark(i, m)
  BY DEF LineageInv, LessonsResolve
<1>2. store[i].by = n \/ ToMark(i, n)
  BY DEF LineageInv, LessonsResolve
<1>3. \A x : ToMark(i, x) => store[i].by = 0 /\ x = Len(store)
  BY DEF ToMark, LineageInv, WriterInv
<1>4. m # 0 /\ n # 0
  BY IdsAreNumbers DEF IdsOf, LineageInv
<1>5. QED
  BY <1>1, <1>2, <1>3, <1>4

LEMMA LineageInvSound == LineageInv => LineageIsSound
BY LastIsEffective, OneLessonForAClaim DEF LineageIsSound, LineageInv

-----------------------------------------------------------------------------
(* The writers' steps                                                       *)

StoreInv ==
    /\ store \in Seq(Memories)
    /\ WriterInv
    /\ LineageIsMutual
    /\ LessonsResolve
    /\ CommitmentsFollow

LEMMA AtRest ==
  ASSUME WriterInv, Idle
  PROVE  \A i, n : ~ToMark(i, n)
BY DEF Idle, ToMark

\* A memory is added while its writer is to mark those that stand, those of its
\* lineage that it ends.
LEMMA InsertInv ==
  ASSUME StoreInv, Idle, NEW m \in Memories, NEW marks \in SUBSET Ids, IsFiniteSet(marks),
         m.by = 0, marks \subseteq m.lineage, m.tier = "lesson" => m.lineage = marks,
         \A i \in marks : store[i].by = 0 /\ (store[i].tier = "commitment" => m.tier = "commitment"),
         Insert(m, marks), UNCHANGED torn
  PROVE  /\ StoreInv'
         /\ \A i \in Ids : i \in Ids' /\ store'[i] = store[i]
<1> DEFINE new == Len(store) + 1
           list == SetToSeq(marks)
           size == Cardinality(marks)
<1>1. /\ Ids = 1..Len(store) /\ Len(store) \in Nat
      /\ \A i \in Ids : store[i] \in Memories
  BY IdsAreNumbers DEF StoreInv
<1>2. /\ store' \in Seq(Memories) /\ Len(store') = new /\ Ids' = 1..new
      /\ \A i \in Ids : store'[i] = store[i]
      /\ store'[new] = m
  <2>1. store' = Append(store, m)
    BY DEF Insert
  <2>2. QED
    BY <1>1, <2>1, AppendProperties DEF StoreInv, Ids
<1>3. /\ list \in Seq(marks) /\ DOMAIN list = 1..size /\ size \in Nat /\ Len(list) = size
      /\ \A k, l \in 1..size : list[k] = list[l] => k = l
      /\ \A k \in 1..size : list[k] \in marks
      /\ \A i \in marks : \E k \in 1..size : list[k] = i
  BY ListOfSet
<1>4. writer' = [k \in 1..size |-> <<list[k], new>>]
  BY <1>3 DEF Insert
<1>5. writer' \in Seq(Nat \X Nat) /\ Len(writer') = size
  <2>1. \A k \in 1..size : <<list[k], new>> \in Nat \X Nat
    <3> SUFFICES ASSUME NEW k \in 1..size PROVE list[k] \in Nat /\ new \in Nat
      BY Zenon
    <3>1. list[k] \in Ids
      BY <1>3
    <3>2. QED
      BY <1>1, <3>1
  <2>2. writer' \in [1..size -> Nat \X Nat]
    BY <1>4, <2>1
  <2>3. writer' \in Seq(Nat \X Nat)
    BY <1>3, <2>2, SeqDef
  <2>4. QED
    BY <1>3, <2>2, <2>3, LenProperties
<1>6. WriterInv'
  <2>1. \A k \in 1..Len(writer') : writer'[k][1] = list[k] /\ writer'[k][2] = new
    BY <1>4, <1>5
  <2>2. \A k \in 1..Len(writer') :
           /\ writer'[k][2] = Len(store') /\ writer'[k][1] \in 1 .. writer'[k][2] - 1
           /\ writer'[k][1] \in store'[writer'[k][2]].lineage /\ store'[writer'[k][1]].by = 0
           /\ store'[writer'[k][1]].tier = "commitment" => store'[writer'[k][2]].tier = "commitment"
    <3> SUFFICES ASSUME NEW k \in 1..Len(writer')
                 PROVE  /\ list[k] \in 1 .. new - 1
                        /\ list[k] \in store'[new].lineage /\ store'[list[k]].by = 0
                        /\ store'[list[k]].tier = "commitment" => store'[new].tier = "commitment"
      BY <1>2, <2>1
    <3>1. list[k] \in marks /\ list[k] \in Ids
      BY <1>3, <1>5
    <3>2. store'[list[k]] = store[list[k]] /\ store'[new] = m /\ list[k] \in 1..Len(store)
      BY <1>1, <1>2, <3>1
    <3>3. list[k] \in 1 .. new - 1
      BY <1>1, <3>2
    <3>4. QED
      BY <3>1, <3>2, <3>3
  <2>3. \A k, l \in 1..Len(writer') : writer'[k][1] = writer'[l][1] => k = l
    <3> SUFFICES ASSUME NEW k \in 1..Len(writer'), NEW l \in 1..Len(writer'),
                        writer'[k][1] = writer'[l][1]
                 PROVE  k = l
      OBVIOUS
    <3>1. list[k] = list[l] /\ k \in 1..size /\ l \in 1..size
      BY <1>5, <2>1
    <3>2. QED
      BY <1>3, <3>1
  <2>4. QED
    BY <1>5, <2>2, <2>3 DEF WriterInv
<1>7. LineageIsMutual'
  <2> SUFFICES ASSUME NEW i \in Ids', store'[i].by # 0
               PROVE  store'[i].by \in Ids' /\ store'[i].by > i /\ i \in store'[store'[i].by].lineage
    BY DEF LineageIsMutual
  <2>1. i \in Ids
    BY <1>1, <1>2
  <2>2. store[i].by \in Ids /\ store[i].by > i /\ i \in store[store[i].by].lineage
    BY <1>2, <2>1 DEF StoreInv, LineageIsMutual
  <2>3. QED
    BY <1>1, <1>2, <2>1, <2>2
<1>8. LessonsResolve'
  <2> SUFFICES ASSUME NEW n \in IdsOf("lesson")' \ torn', NEW i \in store'[n].lineage
               PROVE  i \in Ids' /\ (store'[i].by = n \/ ToMark(i, n)')
    BY DEF LessonsResolve
  <2>1. CASE n = new
    <3>1. i \in marks
      BY <1>2, <2>1 DEF IdsOf
    <3>2. PICK k \in 1..size : list[k] = i
      BY <1>3, <3>1
    <3>3. writer'[k] = <<i, n>> /\ k \in 1..Len(writer')
      BY <1>4, <1>5, <2>1, <3>2
    <3>4. QED
      BY <1>1, <1>2, <3>1, <3>3 DEF ToMark
  <2>2. CASE n # new
    <3>1. n \in IdsOf("lesson") \ torn /\ i \in store[n].lineage
      BY <1>1, <1>2, <2>2 DEF IdsOf
    <3>2. i \in Ids /\ store[i].by = n
      BY <3>1, AtRest DEF StoreInv, LessonsResolve
    <3>3. QED
      BY <1>1, <1>2, <3>2
  <2>3. QED
    BY <2>1, <2>2
<1>9. CommitmentsFollow'
  <2> SUFFICES ASSUME NEW i \in IdsOf("commitment")', store'[i].by # 0
               PROVE  store'[i].by \in IdsOf("commitment")'
    BY DEF CommitmentsFollow
  <2>1. i \in IdsOf("commitment") /\ store[i].by # 0
    BY <1>1, <1>2 DEF IdsOf
  <2>2. store[i].by \in Ids /\ store[store[i].by].tier = "commitment"
    BY <2>1 DEF StoreInv, CommitmentsFollow, IdsOf
  <2>3. QED
    BY <1>1, <1>2, <2>1, <2>2 DEF IdsOf
<1>10. QED
  BY <1>1, <1>2, <1>6, <1>7, <1>8, <1>9 DEF StoreInv

LEMMA MarkedFacts ==
  ASSUME NEW m \in Memories, NEW new \in Nat
  PROVE  /\ Marked(m, new) \in Memories
         /\ Marked(m, new).by = new
         /\ Marked(m, new).tier = m.tier /\ Marked(m, new).lineage = m.lineage
<1> DEFINE count == m.contradicted + (IF store[new].tier = "regret" THEN 1 ELSE 0)
           r == [tier |-> m.tier, content |-> m.content, lineage |-> m.lineage, by |-> new,
                 contradicted |-> count]
<1>1. m = [tier |-> m.tier, content |-> m.content, lineage |-> m.lineage, by |-> m.by,
           contradicted |-> m.contradicted]
  BY DEF Memories
<1>2. Marked(m, new) = r
  <2>1. PICK c : c = count
    OBVIOUS
  <2>2. Marked(m, new) = [m EXCEPT !.by = new, !.contradicted = c]
    BY <2>1 DEF Marked
  <2>3. QED
    BY <1>1, <2>1, <2>2
<1>3. count \in Nat
  <2>1. m.contradicted \in Nat
    BY DEF Memories
  <2>2. PICK c : c = m.contradicted
    OBVIOUS
  <2>3. c + 1 \in Nat /\ c + 0 \in Nat
    BY <2>1, <2>2
  <2>4. QED
    BY <2>2, <2>3
<1>4. r \in Memories
  BY <1>3 DEF Memories
<1>5. QED
  BY <1>2, <1>4

\* What a writer has still to mark, one by one.
LEMMA PendingFacts ==
  ASSUME StoreInv, NEW k \in 1..Len(writer)
  PROVE  /\ writer[k][2] = Len(store) /\ writer[k][1] \in 1 .. Len(store) - 1
         /\ writer[k][1] \in store[Len(store)].lineage /\ store[writer[k][1]].by = 0
         /\ store[writer[k][1]].tier = "commitment" => store[Len(store)].tier = "commitment"
         /\ \A l \in 1..Len(writer) : writer[k][1] = writer[l][1] => k = l
BY DEF StoreInv, WriterInv

LEMMA MarkInv ==
  ASSUME StoreInv, Mark
  PROVE  /\ StoreInv'
         /\ \A i \in Ids : i \in Ids' /\ store'[i].tier = store[i].tier
<1>1. /\ Ids = 1..Len(store) /\ Len(store) \in Nat
      /\ \A i \in Ids : store[i] \in Memories
  BY IdsAreNumbers DEF StoreInv
<1>2. /\ writer \in Seq(Nat \X Nat) /\ writer # <<>> /\ Len(writer) \in Nat \ {0}
      /\ Head(writer) = writer[1]
  <2>1. writer \in Seq(Nat \X Nat) /\ writer # <<>>
    BY DEF StoreInv, WriterInv, Mark, Idle
  <2>2. QED
    BY <2>1, EmptySeq, LenProperties, HeadTailProperties
<1>3. PICK i, n : i = writer[1][1] /\ n = writer[1][2]
  OBVIOUS
<1>4. /\ n = Len(store) /\ i \in 1 .. n - 1
      /\ i \in store[n].lineage /\ store[i].by = 0
      /\ store[i].tier = "commitment" => store[n].tier = "commitment"
  <2>1. 1 \in 1..Len(writer)
    BY <1>2
  <2>2. QED
    BY <1>3, <2>1 DEF StoreInv, WriterInv
<1>5. store' = [store EXCEPT ![i] = Marked(store[i], n)] /\ writer' = Tail(writer) /\ UNCHANGED torn
  BY <1>2, <1>3 DEF Mark
<1>6. i \in Ids /\ n \in Ids /\ i # n /\ i < n /\ n # 0
  BY <1>1, <1>4
<1>7. /\ store' \in Seq(Memories) /\ Len(store') = Len(store) /\ Ids' = Ids
      /\ \A j \in Ids : /\ store'[j] \in Memories
                        /\ store'[j].tier = store[j].tier /\ store'[j].lineage = store[j].lineage
                        /\ store'[j].by = IF j = i THEN n ELSE store[j].by
  <2>1. /\ Marked(store[i], n) \in Memories /\ Marked(store[i], n).by = n
        /\ Marked(store[i], n).tier = store[i].tier /\ Marked(store[i], n).lineage = store[i].lineage
    BY <1>1, <1>4, <1>6, MarkedFacts
  <2>2. DOMAIN store' = DOMAIN store /\ store' \in [1..Len(store) -> Memories]
    BY <1>1, <1>5, <2>1 DEF StoreInv, Ids
  <2>3. store' \in Seq(Memories)
    BY <1>1, <2>2, SeqDef
  <2>4. Len(store') = Len(store)
    BY <1>1, <2>2, <2>3, LenProperties
  <2>5. \A j \in Ids : store'[j] = IF j = i THEN Marked(store[i], n) ELSE store[j]
    BY <1>5 DEF Ids
  <2>6. QED
    BY <1>1, <2>1, <2>2, <2>3, <2>4, <2>5 DEF Ids
<1>8. /\ writer' \in Seq(Nat \X Nat) /\ Len(writer') = Len(writer) - 1
      /\ \A k \in 1..Len(writer') : writer'[k] = writer[k + 1] /\ k + 1 \in 1..Len(writer) /\ k + 1 # 1
  BY <1>2, <1>5, HeadTailProperties
<1>9. WriterInv'
  <2> SUFFICES ASSUME NEW k \in 1..Len(writer')
               PROVE  /\ writer'[k][2] = n /\ writer'[k][1] \in 1 .. n - 1
                      /\ writer'[k][1] \in store'[n].lineage /\ store'[writer'[k][1]].by = 0
                      /\ store'[writer'[k][1]].tier = "commitment" => store'[n].tier = "commitment"
                      /\ \A l \in 1..Len(writer') : writer'[k][1] = writer'[l][1] => k = l
    BY <1>4, <1>7, <1>8 DEF WriterInv
  <2>1. k + 1 \in 1..Len(writer) /\ k + 1 # 1 /\ writer'[k] = writer[k + 1] /\ 1 \in 1..Len(writer)
    <3>1. k + 1 \in 1..Len(writer) /\ k + 1 # 1 /\ writer'[k] = writer[k + 1]
      BY <1>8
    <3>2. 1 \in 1..Len(writer)
      BY <1>2
    <3>3. QED
      BY <3>1, <3>2
  <2>2. PICK j : j = writer[k + 1][1]
    OBVIOUS
  <2>3. /\ writer[k + 1][2] = n /\ j \in 1 .. n - 1
        /\ j \in store[n].lineage /\ store[j].by = 0
        /\ store[j].tier = "commitment" => store[n].tier = "commitment"
        /\ \A l \in 1..Len(writer) : j = writer[l][1] => k + 1 = l
    BY <1>4, <2>1, <2>2, PendingFacts
  <2>4. j # i
    BY <1>3, <2>1, <2>3
  <2>5. j \in Ids
    BY <1>1, <1>4, <2>3
  <2>6. \A l \in 1..Len(writer') : j = writer'[l][1] => k = l
    <3> SUFFICES ASSUME NEW l \in 1..Len(writer'), j = writer'[l][1] PROVE k = l
      OBVIOUS
    <3>1. l + 1 \in 1..Len(writer) /\ writer'[l] = writer[l + 1]
      BY <1>8
    <3>2. k + 1 = l + 1
      BY <2>3, <3>1
    <3>3. k \in Int /\ l \in Int
      OBVIOUS
    <3>4. QED
      BY <3>2, <3>3
  <2>7. QED
    BY <1>6, <1>7, <2>1, <2>2, <2>3, <2>4, <2>5, <2>6
<1>10. LineageIsMutual'
  BY <1>1, <1>4, <1>6, <1>7 DEF LineageIsMutual, StoreInv
<1>11. LessonsResolve'
  <2> SUFFICES ASSUME NEW m \in IdsOf("lesson")' \ torn', NEW j \in store'[m].lineage
               PROVE  j \in Ids' /\ (store'[j].by = m \/ ToMark(j, m)')
    BY DEF LessonsResolve
  <2>1. m \in IdsOf("lesson") \ torn /\ j \in store[m].lineage /\ m \in Ids
    BY <1>5, <1>7 DEF IdsOf
  <2>2. j \in Ids /\ (store[j].by = m \/ ToMark(j, m))
    BY <2>1 DEF StoreInv, LessonsResolve
  <2>3. CASE store[j].by = m
    BY <1>1, <1>4, <1>7, <2>1, <2>2, <2>3
  <2>4. CASE ToMark(j, m)
    <3>1. PICK k \in 1..Len(writer) : writer[k] = <<j, m>>
      BY <2>4 DEF ToMark
    <3>2. CASE k = 1
      BY <1>3, <1>7, <2>2, <3>1, <3>2
    <3>3. CASE k # 1
      <4>1. k - 1 \in 1..Len(writer') /\ (k - 1) + 1 = k
        <5>1. k \in Nat /\ 2 <= k /\ k <= Len(writer) /\ Len(writer) \in Nat
          BY <1>2, <3>3
        <5>2. Len(writer') = Len(writer) - 1
          BY <1>8
        <5>3. QED
          BY <5>1, <5>2
      <4>2. writer'[k - 1] = <<j, m>>
        BY <1>8, <3>1, <4>1
      <4>3. QED
        BY <1>7, <2>2, <4>1, <4>2 DEF ToMark
    <3>4. QED
      BY <3>2, <3>3
  <2>5. QED
    BY <2>2, <2>3, <2>4
<1>12. CommitmentsFollow'
  <2>1. IdsOf("commitment")' = IdsOf("commitment")
    BY <1>7 DEF IdsOf
  <2>2. CommitmentsFollow
    BY DEF StoreInv
  <2>3. IdsOf("commitment") \subseteq Ids
    BY DEF IdsOf
  <2>4. \A j \in IdsOf("commitment") : store'[j].by # 0 => store'[j].by \in IdsOf("commitment")
    BY <1>4, <1>6, <1>7, <2>2, <2>3 DEF CommitmentsFollow, IdsOf
  <2> QED
    BY <2>1, <2>4 DEF CommitmentsFollow
<1>13. QED
  BY <1>7, <1>9, <1>10, <1>11, <1>12 DEF StoreInv

\* What the process has not marked when it ends is torn.
LEMMA CrashKeepsStore == StoreInv /\ Crash => StoreInv'
<1> SUFFICES ASSUME StoreInv, Crash PROVE StoreInv'
  OBVIOUS
<1>1. writer' = <<>> /\ UNCHANGED store /\ torn' = torn \cup { writer[k][2] : k \in DOMAIN writer }
  BY DEF Crash
<1>2. WriterInv'
  BY <1>1 DEF WriterInv
<1>3. LessonsResolve'
  <2> SUFFICES ASSUME NEW m \in IdsOf("lesson") \ torn', NEW i \in store[m].lineage
               PROVE  i \in Ids /\ store[i].by = m
    BY <1>1 DEF LessonsResolve, IdsOf, Ids
  <2>1. m \in IdsOf("lesson") \ torn
    BY <1>1
  <2>2. i \in Ids /\ (store[i].by = m \/ ToMark(i, m))
    BY <2>1 DEF StoreInv, LessonsResolve
  <2>3. ~ToMark(i, m)
    <3>1. DOMAIN writer = 1..Len(writer)
      BY LenProperties DEF StoreInv, WriterInv
    <3>2. QED
      BY <1>1, <3>1 DEF ToMark
  <2>4. QED
    BY <2>2, <2>3
<1>4. LineageIsMutual' /\ CommitmentsFollow' /\ store' \in Seq(Memories)
  BY <1>1 DEF StoreInv, LineageIsMutual, CommitmentsFollow, IdsOf, Ids
<1>5. QED
  BY <1>2, <1>3, <1>4 DEF StoreInv

\* Claims stay claims, so the detector still speaks of claims.
LEMMA DetectorStays ==
  ASSUME LineageInv, StoreInv',
         \A i \in Ids : i \in Ids' /\ store'[i].tier = store[i].tier,
         index' \subseteq index, triples' \cup drafts' \subseteq triples \cup drafts
  PROVE  LineageInv'
<1>1. IdsOf("claim") \subseteq IdsOf("claim")'
  BY DEF IdsOf
<1>2. DetectorInv'
  <2> SUFFICES ASSUME NEW t \in triples' \cup drafts'
               PROVE  t[1] \in IdsOf("claim")' /\ t[2] \in IdsOf("claim")'
    BY <1>1 DEF DetectorInv, LineageInv
  <2>1. t[1] \in IdsOf("claim") /\ t[2] \in IdsOf("claim")
    BY DEF DetectorInv, LineageInv
  <2>2. QED
    BY <1>1, <2>1
<1>3. QED
  BY <1>2 DEF LineageInv, StoreInv

LEMMA RememberInv ==
  ASSUME LineageInv, NEW tier \in {"stance", "claim", "observation"},
         NEW content \in Sides \cup Values \cup {""}, Remember(tier, content)
  PROVE  LineageInv'
<1>1. PICK m : m = Memory(tier, content, {})
  OBVIOUS
<1>2. m \in Memories /\ m.by = 0 /\ m.tier = tier /\ m.lineage = {}
  BY <1>1 DEF Memory, Memories
<1>3. Insert(m, {}) /\ Idle /\ UNCHANGED <<detectorVars, torn>>
  BY <1>1 DEF Remember
<1>4. StoreInv' /\ \A i \in Ids : i \in Ids' /\ store'[i] = store[i]
  BY <1>2, <1>3, InsertInv, FS_EmptySet DEF LineageInv, StoreInv
<1>5. QED
  BY <1>3, <1>4, DetectorStays DEF detectorVars

LEMMA RegretInv ==
  ASSUME LineageInv, NEW s \in Ids, Regret(s)
  PROVE  LineageInv'
<1>1. PICK m : m = Memory("regret", "", {s})
  OBVIOUS
<1>2. s \in Nat
  BY IdsAreNumbers DEF LineageInv
<1>3. m \in Memories /\ m.by = 0 /\ m.tier = "regret" /\ m.lineage = {s}
  BY <1>1, <1>2 DEF Memory, Memories
<1>4. Insert(m, {s}) /\ Idle /\ UNCHANGED <<detectorVars, torn>>
  BY <1>1 DEF Regret
<1>5. store[s].by = 0 /\ store[s].tier = "stance"
  BY DEF Regret, Heads, IdsOf
<1>6. StoreInv' /\ \A i \in Ids : i \in Ids' /\ store'[i] = store[i]
  BY <1>3, <1>4, <1>5, InsertInv, FS_Singleton DEF LineageInv, StoreInv
<1>7. QED
  BY <1>4, <1>6, DetectorStays DEF detectorVars

LEMMA TuneInv ==
  ASSUME LineageInv, NEW v \in Values, Tune(v)
  PROVE  LineageInv'
<1>1. PICK m, marks : m = Memory("commitment", v, Prior) /\ marks = Prior
  OBVIOUS
<1>2. marks \subseteq Heads("commitment") /\ IsFiniteSet(marks)
  <2>1. CASE Heads("commitment") = {}
    BY <1>1, <2>1, FS_EmptySet DEF Prior
  <2>2. CASE Heads("commitment") # {}
    <3>1. Heads("commitment") \in SUBSET Ids
      BY DEF Heads, IdsOf
    <3>2. Max(Heads("commitment")) \in Heads("commitment")
      BY <2>2, <3>1, GreatestId DEF LineageInv
    <3>3. QED
      BY <1>1, <2>2, <3>2, FS_Singleton DEF Prior
  <2>3. QED
    BY <2>1, <2>2
<1>3. marks \in SUBSET Ids /\ marks \in SUBSET Nat /\ \A i \in marks : store[i].by = 0
  BY <1>2, IdsAreNumbers DEF Heads, IdsOf, LineageInv
<1>4. m \in Memories /\ m.by = 0 /\ m.tier = "commitment" /\ m.lineage = marks
  BY <1>1, <1>3 DEF Memory, Memories
<1>5. Insert(m, marks) /\ Idle /\ UNCHANGED <<detectorVars, torn>>
  BY <1>1 DEF Tune
<1>6. StoreInv' /\ \A i \in Ids : i \in Ids' /\ store'[i] = store[i]
  BY <1>2, <1>3, <1>4, <1>5, InsertInv DEF LineageInv, StoreInv
<1>7. QED
  BY <1>5, <1>6, DetectorStays DEF detectorVars

LEMMA CollectInv ==
  ASSUME LineageInv, NEW t \in drafts, Collect(t)
  PROVE  LineageInv'
<1>1. t[1] \in IdsOf("claim") /\ t[2] \in IdsOf("claim")
  BY DEF LineageInv, DetectorInv
<1>2. UNCHANGED <<index, triples, torn>> /\ drafts' \subseteq drafts
  BY DEF Collect
<1>3. CASE Standing(t)
  <2>1. PICK m, marks : m = Memory("lesson", "", {t[1], t[2]}) /\ marks = {t[1], t[2]}
    OBVIOUS
  <2>2. /\ marks \in SUBSET Ids /\ marks \in SUBSET Nat
        /\ \A i \in marks : store[i].by = 0 /\ store[i].tier = "claim"
    <3>1. \A i \in marks : i \in Ids /\ store[i].by = 0 /\ store[i].tier = "claim"
      BY <1>1, <1>3, <2>1 DEF Standing, IdsOf
    <3>2. Ids \subseteq Nat
      BY IdsAreNumbers DEF LineageInv
    <3>3. QED
      BY <3>1, <3>2
  <2>3. IsFiniteSet(marks)
    <3>1. IsFiniteSet({t[1]} \cup {t[2]})
      BY FS_Singleton, FS_Union
    <3>2. marks = {t[1]} \cup {t[2]}
      BY <2>1
    <3>3. QED
      BY <3>1, <3>2
  <2>4. m \in Memories /\ m.by = 0 /\ m.tier = "lesson" /\ m.lineage = marks
    BY <2>1, <2>2 DEF Memory, Memories
  <2>5. Insert(m, marks) /\ Idle
    BY <1>3, <2>1 DEF Collect
  <2>6. StoreInv' /\ \A i \in Ids : i \in Ids' /\ store'[i] = store[i]
    BY <1>2, <2>2, <2>3, <2>4, <2>5, InsertInv DEF LineageInv, StoreInv
  <2>7. QED
    BY <1>2, <2>6, DetectorStays
<1>4. CASE ~Standing(t)
  <2>1. UNCHANGED <<store, writer, torn>>
    BY <1>2, <1>4 DEF Collect
  <2>2. StoreInv' /\ \A i \in Ids : i \in Ids' /\ store'[i].tier = store[i].tier
    BY <2>1 DEF LineageInv, StoreInv, WriterInv, LineageIsMutual, LessonsResolve, ToMark,
                CommitmentsFollow, IdsOf, Ids
  <2>3. QED
    BY <1>2, <2>2, DetectorStays
<1>5. QED
  BY <1>3, <1>4

\* The detector leaves the memories alone; what it finds is made of claims.
LEMMA ScanInv == LineageInv /\ Scan => LineageInv'
<1> SUFFICES ASSUME LineageInv, Scan PROVE LineageInv'
  OBVIOUS
<1>1. UNCHANGED <<store, writer, drafts, torn>>
  BY DEF Scan
<1>2. store' \in Seq(Memories) /\ WriterInv' /\ LineageIsMutual' /\ LessonsResolve' /\ CommitmentsFollow'
  BY <1>1 DEF LineageInv, WriterInv, LineageIsMutual, LessonsResolve, ToMark,
              CommitmentsFollow, IdsOf, Ids
<1>3. \A t \in Found : t[1] \in IdsOf("claim") /\ t[2] \in IdsOf("claim")
  BY DEF Found, LineageInv, DetectorInv
<1>4. IdsOf("claim")' = IdsOf("claim")
  BY <1>1 DEF IdsOf, Ids
<1>5. DetectorInv'
  BY <1>1, <1>3, <1>4 DEF Scan, LineageInv, DetectorInv
<1>6. QED
  BY <1>2, <1>5 DEF LineageInv

LEMMA LineageInitially == LineageInit => LineageInv
BY DEF LineageInit, LineageInv, WriterInv, LineageIsMutual, LessonsResolve, CommitmentsFollow,
       DetectorInv, ToMark, IdsOf, Ids

LEMMA LineageStepInv == LineageInv /\ [LineageNext]_lineageVars => LineageInv'
<1> SUFFICES ASSUME LineageInv, [LineageNext]_lineageVars PROVE LineageInv'
  OBVIOUS
<1>1. StoreInv
  BY DEF LineageInv, StoreInv
<1>2. CASE Mark
  BY <1>1, <1>2, MarkInv, DetectorStays DEF Mark, detectorVars
<1>3. CASE Scan
  BY <1>3, ScanInv
<1>4. CASE Crash
  <2>1. StoreInv' /\ \A i \in Ids : i \in Ids' /\ store'[i].tier = store[i].tier
    BY <1>1, <1>4, CrashKeepsStore DEF Crash, Ids
  <2>2. QED
    BY <1>4, <2>1, DetectorStays DEF Crash
<1>5. CASE Remember("stance", "")
  BY <1>5, RememberInv
<1>6. CASE \E side \in Sides : Remember("claim", side) \/ Remember("observation", side)
  BY <1>6, RememberInv
<1>7. CASE \E i \in Ids : Regret(i)
  BY <1>7, RegretInv
<1>8. CASE \E v \in Values : Tune(v)
  BY <1>8, TuneInv
<1>9. ASSUME UNCHANGED <<store, writer, index, torn>>,
             triples' \cup drafts' \subseteq triples \cup drafts
      PROVE  LineageInv'
  <2>1. StoreInv' /\ \A i \in Ids : i \in Ids' /\ store'[i].tier = store[i].tier
    BY <1>1, <1>9 DEF StoreInv, WriterInv, LineageIsMutual, LessonsResolve, ToMark,
                      CommitmentsFollow, IdsOf, Ids
  <2>2. QED
    BY <1>9, <2>1, DetectorStays
<1>10. CASE \E t \in triples : DispatchTriple(t)
  <2>1. PICK t \in triples : DispatchTriple(t)
    BY <1>10
  <2>2. triples' \cup drafts' \subseteq triples \cup drafts /\ UNCHANGED <<store, writer, index, torn>>
    BY <2>1 DEF DispatchTriple
  <2>3. QED
    BY <1>9, <2>2
<1>11. CASE \E t \in drafts : Collect(t)
  BY <1>11, CollectInv
<1>12. CASE \E t \in drafts : DraftFails(t)
  BY <1>9, <1>12 DEF DraftFails
<1>13. CASE UNCHANGED lineageVars
  BY <1>9, <1>13 DEF lineageVars, detectorVars
<1>14. QED
  BY <1>2, <1>3, <1>4, <1>5, <1>6, <1>7, <1>8, <1>10, <1>11, <1>12, <1>13 DEF LineageNext

\* Wherever the process ends between an insert and the marks that belong to it:
\* a superseded memory leads to a newer one that leads back, a claim is
\* resolved by one lesson, and the last commitment is the one in effect
\* (repo.py, write_paths.py, tuning.py, detectors/contradiction.py).
THEOREM LineageIsAlwaysSound == LineageSpec => []LineageIsSound
<1>1. LineageInit => LineageInv
  BY LineageInitially
<1>2. LineageInv /\ [LineageNext]_lineageVars => LineageInv'
  BY LineageStepInv
<1>3. LineageInv => LineageIsSound
  BY LineageInvSound
<1>4. QED
  BY <1>1, <1>2, <1>3, PTL DEF LineageSpec

-----------------------------------------------------------------------------
(* Dreams                                                                   *)

\* A candidate and a wisdom are an intent with a polarity.
DreamerInv ==
    /\ todo \in Seq(Intents \X Polarities)
    /\ wisdom \in SUBSET (Intents \X Polarities)
    /\ NoContradictingWisdom

\* The first of the patterns of success and failure, in whichever order.
LEMMA CandidatesArePatterns ==
  ASSUME NEW s \in SetToSeqs(Patterns)
  PROVE  Firsts(s) \in Seq(Intents \X Polarities)
<1>1. IsFiniteSet(Intents \X Polarities)
  <2>1. IsFiniteSet(Polarities)
    <3>1. IsFiniteSet({"regret"} \cup {"accomplishment"})
      BY FS_Singleton, FS_Union
    <3>2. Polarities = {"regret"} \cup {"accomplishment"}
      BY DEF Polarities
    <3>3. QED
      BY <3>1, <3>2
  <2>2. QED
    BY <2>1, FS_Product, DreamerAssumption DEF DreamerAssumption
<1>2. Patterns \subseteq Intents \X Polarities
  BY DEF Patterns
<1>3. Cardinality(Patterns) \in Nat
  BY <1>1, <1>2, FS_Subset, FS_CardinalityType
<1>4. s \in [1..Cardinality(Patterns) -> Intents \X Polarities]
  BY <1>2 DEF SetToSeqs
<1>5. s \in Seq(Intents \X Polarities)
  BY <1>3, <1>4, SeqDef
<1>6. Len(s) \in Nat /\ \A k \in 1..Len(s) : s[k] \in Intents \X Polarities
  BY <1>5, LenProperties, ElementOfSeq
<1>7. QED
  BY <1>6, SubSeqProperties, DreamerAssumption DEF Firsts, DreamerAssumption

LEMMA DreamerInitially == DreamerInit => DreamerInv
BY DEF DreamerInit, DreamerInv, NoContradictingWisdom

\* Only a review adds wisdom, and only what nothing in it contradicts.
LEMMA ReviewKeepsPeace == DreamerInv /\ Review => DreamerInv'
<1> SUFFICES ASSUME DreamerInv, Review PROVE DreamerInv'
  OBVIOUS
<1>1. PICK c : c = Head(todo)
  OBVIOUS
<1>2. c \in Intents \X Polarities /\ Tail(todo) \in Seq(Intents \X Polarities)
  BY <1>1, HeadTailProperties DEF Review, DreamerInv
<1>3. \/ wisdom' = wisdom
      \/ wisdom' = wisdom \cup {c} /\ ~Rejected(c)
  BY <1>1 DEF Review
<1>4. NoContradictingWisdom'
  <2> SUFFICES ASSUME NEW v \in wisdom', NEW w \in wisdom', v[1] = w[1] PROVE v = w
    BY DEF NoContradictingWisdom
  <2>1. CASE wisdom' = wisdom
    BY <2>1 DEF DreamerInv, NoContradictingWisdom
  <2>2. CASE wisdom' = wisdom \cup {c} /\ ~Rejected(c)
    <3>1. v \in Intents \X Polarities /\ w \in Intents \X Polarities
      BY <1>2, <2>2 DEF DreamerInv
    <3>2. v \in wisdom /\ w \in wisdom => v = w
      BY DEF DreamerInv, NoContradictingWisdom
    <3>3. \A x \in wisdom : x[1] = c[1] => x[2] = c[2]
      BY <2>2 DEF Rejected
    <3>4. v[2] = w[2] \/ v = w
      BY <2>2, <3>2, <3>3
    <3>5. QED
      BY <3>1, <3>4
  <2>3. QED
    BY <1>3, <2>1, <2>2
<1>5. todo' \in Seq(Intents \X Polarities) /\ wisdom' \in SUBSET (Intents \X Polarities)
  BY <1>2, <1>3 DEF Review, DreamerInv
<1>6. QED
  BY <1>4, <1>5 DEF DreamerInv

LEMMA DreamerStepInv == DreamerInv /\ [DreamerNext]_dreamerVars => DreamerInv'
<1> SUFFICES ASSUME DreamerInv, [DreamerNext]_dreamerVars PROVE DreamerInv'
  OBVIOUS
<1>1. CASE Review
  BY <1>1, ReviewKeepsPeace
<1>2. CASE FindPatterns
  <2>1. todo' \in Seq(Intents \X Polarities)
    BY <1>2, CandidatesArePatterns DEF FindPatterns
  <2>2. QED
    BY <1>2, <2>1 DEF FindPatterns, DreamerInv, NoContradictingWisdom
<1>3. ASSUME todo' \in {todo, <<>>}, UNCHANGED wisdom PROVE DreamerInv'
  <2>1. <<>> \in Seq(Intents \X Polarities)
    OBVIOUS
  <2>2. todo' \in Seq(Intents \X Polarities)
    BY <1>3, <2>1 DEF DreamerInv
  <2>3. wisdom' = wisdom
    BY <1>3
  <2>4. QED
    BY <2>2, <2>3 DEF DreamerInv, NoContradictingWisdom
<1>4. CASE \E i \in Intents, t \in Tiers : Experience(i, t) \/ Superseded(i, t)
  BY <1>3, <1>4 DEF Experience, Superseded, sessionVars
<1>5. CASE Skip \/ OpenSession \/ NoMarker \/ Affirm
  BY <1>3, <1>5 DEF Skip, OpenSession, NoMarker, Affirm, sessionVars
<1>6. CASE Finish \/ PhaseFails \/ NoFinalMarker \/ Restart
  BY <1>3, <1>6 DEF Finish, PhaseFails, Close, NoFinalMarker, Restart
<1>7. CASE UNCHANGED dreamerVars
  BY <1>3, <1>7 DEF dreamerVars, sessionVars
<1>8. QED
  BY <1>1, <1>2, <1>4, <1>5, <1>6, <1>7 DEF DreamerNext

\* Wisdom never contradicts wisdom: whatever is experienced between the
\* sessions, whichever write of one fails and however often the process is
\* restarted, no intent is held to succeed and to fail (dreaming.py).
THEOREM WisdomIsAtPeace == DreamerSpec => []NoContradictingWisdom
<1>1. DreamerInit => DreamerInv
  BY DreamerInitially
<1>2. DreamerInv /\ [DreamerNext]_dreamerVars => DreamerInv'
  BY DreamerStepInv
<1>3. DreamerInv => NoContradictingWisdom
  BY DEF DreamerInv
<1>4. QED
  BY <1>1, <1>2, <1>3, PTL DEF DreamerSpec

-----------------------------------------------------------------------------
(* Reading the news                                                         *)

Counts == [FeedItems -> Nat]
FeedTypeOK ==
    /\ seenIds \subseteq FeedItems /\ readQueue \in Counts
    /\ thinking \in [does : {"none", "opinion", "commitment"}, about : FeedItems \cup {"none"},
                     thenCommit : BOOLEAN]
    /\ thinking.does # "none" => thinking.about \in FeedItems
    /\ summaries \in Counts /\ prunedOnes \in Counts
    /\ opinions \in Counts /\ commitments \in Counts

\* A thought that is not finished still owes its opinion, or its commitment, and each has the
\* summary that began the thought.
OwesOpinion(i) == thinking.does = "opinion" /\ thinking.about = i
OwesCommitment(i) ==
    /\ thinking.about = i
    /\ thinking.does = "commitment" \/ (thinking.does = "opinion" /\ thinking.thenCommit)
ThoughtOK(i) ==
    /\ prunedOnes[i] <= summaries[i] /\ summaries[i] <= prunedOnes[i] + 1
    /\ opinions[i] <= summaries[i] /\ commitments[i] <= summaries[i]
    /\ OwesOpinion(i) => opinions[i] < summaries[i]
    /\ OwesCommitment(i) => commitments[i] < summaries[i]
FeedInv == FeedTypeOK /\ (\A i \in FeedItems : ThoughtOK(i)) /\ SeenIsRead

LEMMA FeedInitially == FeedInit => FeedInv
<1> SUFFICES ASSUME FeedInit PROVE FeedInv
  OBVIOUS
<1>1. FeedTypeOK
  BY DEF FeedInit, FeedTypeOK, Counts, PerItem, NotThinking
<1>2. \A i \in FeedItems : ThoughtOK(i)
  BY DEF FeedInit, ThoughtOK, OwesOpinion, OwesCommitment, PerItem, NotThinking
<1>3. SeenIsRead
  BY DEF FeedInit, SeenIsRead
<1> QED
  BY <1>1, <1>2, <1>3 DEF FeedInv

LEMMA Following ==
  ASSUME NEW i \in FeedItems, NEW opine \in BOOLEAN, NEW commit \in BOOLEAN
  PROVE  LET t == Follow(i, opine, commit) IN
         /\ t \in [does : {"none", "opinion", "commitment"}, about : FeedItems \cup {"none"},
                   thenCommit : BOOLEAN]
         /\ t.does # "none" => t.about = i
         /\ t.does = "opinion" <=> opine
         /\ t.does = "commitment" => commit
         /\ t.does = "opinion" /\ t.thenCommit => commit
BY DEF Follow, NotThinking

\* An item leaves the queue.
LEMMA Dequeued ==
  ASSUME FeedInv, NEW i \in FeedItems, Dequeue(i)
  PROVE  /\ thinking = NotThinking /\ readQueue' \in Counts
         /\ \A k \in FeedItems : k # i => readQueue'[k] = readQueue[k]
         /\ UNCHANGED <<seenIds, prunedOnes, opinions, commitments>>
BY DEF FeedInv, FeedTypeOK, Dequeue, Counts

LEMMA SummarizeKeeps ==
  ASSUME FeedInv, NEW i \in FeedItems, NEW opine \in BOOLEAN, NEW commit \in BOOLEAN,
         Summarize(i, opine, commit)
  PROVE  FeedInv'
<1>1. /\ thinking = NotThinking /\ readQueue' \in Counts
      /\ \A k \in FeedItems : k # i => readQueue'[k] = readQueue[k]
      /\ UNCHANGED <<seenIds, prunedOnes, opinions, commitments>>
  BY Dequeued DEF Summarize
<1>2. /\ ~ (summaries[i] > prunedOnes[i]) /\ summaries' = [summaries EXCEPT ![i] = @ + 1]
      /\ thinking' = Follow(i, opine, commit) /\ droppedOnes' = droppedOnes
  BY DEF Summarize, AlreadyRead
<1>3. FeedTypeOK /\ summaries \in Counts /\ prunedOnes \in Counts
      /\ opinions \in Counts /\ commitments \in Counts
  BY DEF FeedInv, FeedTypeOK
<1>4. /\ thinking' \in [does : {"none", "opinion", "commitment"}, about : FeedItems \cup {"none"},
                        thenCommit : BOOLEAN]
      /\ thinking'.does # "none" => thinking'.about = i
  BY <1>2, Following
<1>5. summaries' \in Counts /\ summaries'[i] = summaries[i] + 1
      /\ \A k \in FeedItems : k # i => summaries'[k] = summaries[k]
  BY <1>2, <1>3 DEF Counts
<1>6. FeedTypeOK'
  BY <1>1, <1>3, <1>4, <1>5 DEF FeedTypeOK
<1>7. ASSUME NEW k \in FeedItems PROVE ThoughtOK(k)'
  <2>1. ThoughtOK(k) /\ summaries[k] \in Nat /\ prunedOnes[k] \in Nat
        /\ opinions[k] \in Nat /\ commitments[k] \in Nat
    BY <1>3 DEF FeedInv, Counts
  <2>2. CASE k = i
    BY <1>1, <1>2, <1>5, <2>1, <2>2 DEF ThoughtOK
  <2>3. CASE k # i
    <3>1. ~ OwesOpinion(k)' /\ ~ OwesCommitment(k)'
      BY <1>4, <2>3 DEF OwesOpinion, OwesCommitment
    <3> QED
      BY <1>1, <1>5, <2>1, <2>3, <3>1 DEF ThoughtOK
  <2> QED
    BY <2>2, <2>3
<1>8. SeenIsRead'
  <2> SUFFICES ASSUME NEW k \in seenIds
               PROVE  readQueue'[k] > 0 \/ summaries'[k] > 0 \/ k \in droppedOnes
    BY <1>1, <1>2 DEF SeenIsRead
  <2>1. readQueue[k] > 0 \/ summaries[k] > 0 \/ k \in droppedOnes
    BY DEF FeedInv, SeenIsRead
  <2>2. k \in FeedItems /\ summaries[k] \in Nat
    BY <1>3 DEF FeedTypeOK, Counts
  <2> QED
    BY <1>1, <1>5, <2>1, <2>2
<1> QED
  BY <1>6, <1>7, <1>8 DEF FeedInv

\* Where neither the thought nor what was written changes, the invariant asks only about
\* the items that were seen.
LEMMA FeedRests ==
  ASSUME FeedInv, UNCHANGED <<thinking, feedMemories>>, seenIds' \subseteq FeedItems,
         readQueue' \in Counts, SeenIsRead'
  PROVE  FeedInv'
<1>1. FeedTypeOK'
  BY DEF FeedInv, FeedTypeOK, feedMemories
<1>2. \A i \in FeedItems : ThoughtOK(i)'
  BY DEF FeedInv, ThoughtOK, OwesOpinion, OwesCommitment, feedMemories
<1> QED
  BY <1>1, <1>2 DEF FeedInv

LEMMA PollKeeps ==
  ASSUME FeedInv, NEW doc \in [FeedItems -> 0 .. 2], Poll(doc)
  PROVE  FeedInv'
<1> DEFINE new == {i \in FeedItems : doc[i] > 0} \ seenIds
<1>1. /\ readQueue' = [i \in FeedItems |-> readQueue[i] + (IF i \in new THEN doc[i] ELSE 0)]
      /\ seenIds' = seenIds \cup new
      /\ UNCHANGED <<thinking, feedMemories, droppedOnes>>
  BY DEF Poll
<1>2. seenIds \subseteq FeedItems /\ readQueue \in Counts /\ SeenIsRead
  BY DEF FeedInv, FeedTypeOK
<1>3. \A i \in FeedItems : readQueue[i] \in Nat /\ doc[i] \in Nat
  BY <1>2 DEF Counts
<1>4. readQueue' \in Counts /\ seenIds' \subseteq FeedItems
  BY <1>1, <1>2, <1>3 DEF Counts
<1>5. SeenIsRead'
  <2> SUFFICES ASSUME NEW k \in seenIds'
               PROVE  readQueue'[k] > 0 \/ summaries[k] > 0 \/ k \in droppedOnes
    BY <1>1 DEF SeenIsRead, feedMemories
  <2>1. CASE k \in new
    BY <1>1, <1>3, <2>1
  <2>2. CASE k \notin new
    <3>1. k \in seenIds /\ k \in FeedItems /\ readQueue'[k] = readQueue[k]
      BY <1>1, <1>2, <1>3, <2>2
    <3> QED
      BY <1>2, <3>1 DEF SeenIsRead
  <2> QED
    BY <2>1, <2>2
<1> QED
  BY <1>1, <1>4, <1>5, FeedRests

LEMMA ConsumedKeeps ==
  ASSUME FeedInv, NEW i \in FeedItems, SkipRead(i) \/ Drop(i)
  PROVE  FeedInv'
<1>1. /\ thinking = NotThinking /\ readQueue' \in Counts
      /\ \A k \in FeedItems : k # i => readQueue'[k] = readQueue[k]
      /\ UNCHANGED <<seenIds, prunedOnes, opinions, commitments>>
  BY Dequeued DEF SkipRead, Drop
<1>2. UNCHANGED <<thinking, summaries>> /\ droppedOnes \subseteq droppedOnes'
      /\ (summaries[i] > prunedOnes[i] \/ i \in droppedOnes')
  BY DEF SkipRead, Drop, AlreadyRead
<1>3. seenIds \subseteq FeedItems /\ SeenIsRead /\ prunedOnes[i] \in Nat /\ summaries[i] \in Nat
  BY DEF FeedInv, FeedTypeOK, Counts
<1>4. SeenIsRead'
  <2> SUFFICES ASSUME NEW k \in seenIds
               PROVE  readQueue'[k] > 0 \/ summaries[k] > 0 \/ k \in droppedOnes'
    BY <1>1, <1>2 DEF SeenIsRead
  <2>1. CASE k = i
    BY <1>2, <1>3, <2>1
  <2>2. CASE k # i
    BY <1>1, <1>2, <1>3, <2>2 DEF SeenIsRead
  <2> QED
    BY <2>1, <2>2
<1>5. UNCHANGED <<thinking, feedMemories>>
  BY <1>1, <1>2 DEF feedMemories
<1> QED
  BY <1>1, <1>3, <1>4, <1>5, FeedRests

LEMMA WritesKeep ==
  ASSUME FeedInv, Opine \/ Commit \/ BreakOff
  PROVE  FeedInv'
<1>1. FeedTypeOK /\ SeenIsRead /\ \A i \in FeedItems : ThoughtOK(i)
  BY DEF FeedInv
<1>2. \A i \in FeedItems : /\ summaries[i] \in Nat /\ opinions[i] \in Nat
                           /\ commitments[i] \in Nat
  BY <1>1 DEF FeedTypeOK, Counts
<1>3. UNCHANGED <<seenIds, readQueue, summaries, prunedOnes, droppedOnes>>
  BY DEF Opine, Commit, BreakOff, feedMemories
<1>4. SeenIsRead'
  BY <1>1, <1>3 DEF SeenIsRead
<1>5. CASE Opine
  <2>1. PICK i : i = thinking.about
    OBVIOUS
  <2>2. PICK c : c = thinking.thenCommit
    OBVIOUS
  <2>3. /\ thinking.does = "opinion" /\ opinions' = [opinions EXCEPT ![i] = @ + 1]
        /\ thinking' = Follow(i, FALSE, c) /\ commitments' = commitments
    BY <1>5, <2>1, <2>2 DEF Opine
  <2>4. i \in FeedItems /\ c \in BOOLEAN
    BY <1>1, <2>1, <2>2, <2>3 DEF FeedTypeOK
  <2>5. /\ thinking' \in [does : {"none", "opinion", "commitment"}, about : FeedItems \cup {"none"},
                          thenCommit : BOOLEAN]
        /\ thinking'.does # "none" => thinking'.about = i
        /\ thinking'.does # "opinion" /\ (thinking'.does = "commitment" => c)
    BY <2>3, <2>4, Following
  <2>6. opinions' \in Counts /\ opinions'[i] = opinions[i] + 1
        /\ \A k \in FeedItems : k # i => opinions'[k] = opinions[k]
    BY <1>1, <2>3, <2>4 DEF FeedTypeOK, Counts
  <2>7. FeedTypeOK'
    BY <1>1, <1>3, <2>3, <2>4, <2>5, <2>6 DEF FeedTypeOK
  <2>8. ASSUME NEW k \in FeedItems PROVE ThoughtOK(k)'
    <3>1. ~ OwesOpinion(k)'
      BY <2>5 DEF OwesOpinion
    <3>2. OwesCommitment(k)' => OwesCommitment(k)
      BY <2>1, <2>2, <2>3, <2>5 DEF OwesCommitment
    <3>3. k = i => OwesOpinion(k)
      BY <2>1, <2>3 DEF OwesOpinion
    <3> QED
      BY <1>1, <1>2, <1>3, <2>3, <2>4, <2>6, <3>1, <3>2, <3>3 DEF ThoughtOK
  <2> QED
    BY <1>4, <2>7, <2>8 DEF FeedInv
<1>6. CASE Commit
  <2>1. PICK i : i = thinking.about
    OBVIOUS
  <2>2. /\ thinking.does = "commitment" /\ commitments' = [commitments EXCEPT ![i] = @ + 1]
        /\ thinking' = NotThinking /\ opinions' = opinions
    BY <1>6, <2>1 DEF Commit
  <2>3. i \in FeedItems
    BY <1>1, <2>1, <2>2 DEF FeedTypeOK
  <2>4. commitments' \in Counts /\ commitments'[i] = commitments[i] + 1
        /\ \A k \in FeedItems : k # i => commitments'[k] = commitments[k]
    BY <1>1, <2>2, <2>3 DEF FeedTypeOK, Counts
  <2>5. FeedTypeOK'
    BY <1>1, <1>3, <2>2, <2>4 DEF FeedTypeOK, NotThinking
  <2>6. ASSUME NEW k \in FeedItems PROVE ThoughtOK(k)'
    <3>1. ~ OwesOpinion(k)' /\ ~ OwesCommitment(k)'
      BY <2>2 DEF OwesOpinion, OwesCommitment, NotThinking
    <3>2. k = i => OwesCommitment(k)
      BY <2>1, <2>2 DEF OwesCommitment
    <3> QED
      BY <1>1, <1>2, <1>3, <2>2, <2>3, <2>4, <3>1, <3>2 DEF ThoughtOK
  <2> QED
    BY <1>4, <2>5, <2>6 DEF FeedInv
<1>7. CASE BreakOff
  <2>1. thinking' = NotThinking /\ UNCHANGED <<opinions, commitments>>
    BY <1>7 DEF BreakOff, feedMemories
  <2>2. FeedTypeOK'
    BY <1>1, <1>3, <2>1 DEF FeedTypeOK, NotThinking
  <2>3. \A k \in FeedItems : ThoughtOK(k)'
    BY <1>1, <1>3, <2>1 DEF ThoughtOK, OwesOpinion, OwesCommitment, NotThinking
  <2> QED
    BY <1>4, <2>2, <2>3 DEF FeedInv
<1> QED
  BY <1>5, <1>6, <1>7

LEMMA ForgettingKeeps ==
  ASSUME FeedInv, Reopen \/ \E i \in FeedItems : PruneSummary(i)
  PROVE  FeedInv'
<1>1. FeedTypeOK /\ SeenIsRead /\ \A i \in FeedItems : ThoughtOK(i)
  BY DEF FeedInv
<1>2. CASE Reopen
  <2>1. /\ seenIds' = {} /\ readQueue' = PerItem(0) /\ thinking' = NotThinking
        /\ UNCHANGED feedMemories
    BY <1>2 DEF Reopen
  <2>2. FeedTypeOK'
    BY <1>1, <2>1 DEF FeedTypeOK, NotThinking, PerItem, Counts, feedMemories
  <2>3. \A k \in FeedItems : ThoughtOK(k)'
    BY <1>1, <2>1 DEF ThoughtOK, OwesOpinion, OwesCommitment, NotThinking, feedMemories
  <2>4. SeenIsRead'
    BY <2>1 DEF SeenIsRead
  <2> QED
    BY <2>2, <2>3, <2>4 DEF FeedInv
<1>3. ASSUME NEW i \in FeedItems, PruneSummary(i) PROVE FeedInv'
  <2>1. /\ prunedOnes' = [prunedOnes EXCEPT ![i] = summaries[i]]
        /\ UNCHANGED <<seenIds, readQueue, thinking, summaries, opinions, commitments,
                       droppedOnes>>
    BY <1>3 DEF PruneSummary
  <2>2. \A k \in FeedItems : summaries[k] \in Nat /\ prunedOnes[k] \in Nat
    BY <1>1 DEF FeedTypeOK, Counts
  <2>3. FeedTypeOK'
    BY <1>1, <2>1, <2>2 DEF FeedTypeOK, Counts
  <2>4. ASSUME NEW k \in FeedItems PROVE ThoughtOK(k)'
    <3>1. prunedOnes'[k] = IF k = i THEN summaries[i] ELSE prunedOnes[k]
      BY <1>1, <2>1 DEF FeedTypeOK, Counts
    <3>2. ThoughtOK(k)
      BY <1>1
    <3> QED
      BY <2>1, <2>2, <3>1, <3>2 DEF ThoughtOK, OwesOpinion, OwesCommitment
  <2>5. SeenIsRead'
    BY <1>1, <2>1 DEF SeenIsRead
  <2> QED
    BY <2>3, <2>4, <2>5 DEF FeedInv
<1> QED
  BY <1>2, <1>3

LEMMA FeedStep == FeedInv /\ [FeedNext]_feedVars => FeedInv'
<1> SUFFICES ASSUME FeedInv, [FeedNext]_feedVars PROVE FeedInv'
  OBVIOUS
<1>1. ASSUME NEW doc \in [FeedItems -> 0 .. 2], Poll(doc) PROVE FeedInv'
  BY <1>1, PollKeeps
<1>2. ASSUME NEW i \in FeedItems, SkipRead(i) \/ Drop(i) PROVE FeedInv'
  BY <1>2, ConsumedKeeps
<1>3. ASSUME NEW i \in FeedItems, PruneSummary(i) PROVE FeedInv'
  BY <1>3, ForgettingKeeps
<1>4. ASSUME NEW i \in FeedItems, NEW opine \in BOOLEAN, NEW commit \in BOOLEAN,
             Summarize(i, opine, commit)
      PROVE  FeedInv'
  BY <1>4, SummarizeKeeps
<1>5. CASE Opine \/ Commit \/ BreakOff
  BY <1>5, WritesKeep
<1>6. CASE Reopen
  BY <1>6, ForgettingKeeps
<1>7. CASE UNCHANGED feedVars
  BY <1>7 DEF feedVars, feedMemories, FeedInv, FeedTypeOK, ThoughtOK, OwesOpinion,
              OwesCommitment, SeenIsRead
<1> QED
  BY <1>1, <1>2, <1>3, <1>4, <1>5, <1>6, <1>7 DEF FeedNext

LEMMA FeedInvHolds == FeedInv => FeedIsRead
BY DEF FeedInv, FeedIsRead, ReadOnce, ThoughtOK

-----------------------------------------------------------------------------
(* What the self writes for itself                                          *)

Note == [id : Nat, priority : Nat, about : Topics]
Dispatch == [does : {"none", "ask", "apply"}, read : SUBSET Note, removes : SUBSET Nat,
             adds : SUBSET Topics]
NotesTypeOK ==
    /\ written \in Nat
    /\ notes \subseteq Note /\ IsFiniteSet(notes)
    /\ \A n, m \in notes : n.id = m.id => n = m
    /\ \A n \in notes : n.id <= written
    /\ adding \in [Threads -> [does : {"none", "count", "select", "delete"}, over : Nat,
                               doomed : SUBSET Nat]]
    /\ \A t \in Threads : adding[t].does = "none" => adding[t] = NotAdding
    /\ keeping \in Dispatch
    /\ cutAdd \in BOOLEAN /\ spoken \in BOOLEAN

\* Once every add has counted, some add is about to take what is too many.
Undoomed(t) == {n \in notes : n.id \notin adding[t].doomed}
WillFit ==
    \/ Cardinality(notes) <= MaxNotes
    \/ \E t \in Threads :
          \/ adding[t].does = "select" /\ Cardinality(notes) <= MaxNotes + adding[t].over
          \/ adding[t].does = "delete" /\ Cardinality(Undoomed(t)) <= MaxNotes
AllCounted == \A t \in Threads : adding[t].does # "count"
NotesInv ==
    /\ NotesTypeOK
    /\ AllCounted /\ ~cutAdd => WillFit
    /\ spoken => voice \in {0, 1}

LEMMA NotesInitially == NotesAssumption /\ NotesInit => NotesInv
<1> SUFFICES ASSUME NotesAssumption, NotesInit PROVE NotesInv
  OBVIOUS
<1>1. Cardinality(notes) = 0 /\ IsFiniteSet(notes)
  BY FS_EmptySet DEF NotesInit
<1>2. NotesTypeOK
  BY <1>1 DEF NotesInit, NotesTypeOK, NotAdding, Resting, Dispatch
<1>3. WillFit
  BY <1>1 DEF WillFit, NotesAssumption
<1> QED
  BY <1>2, <1>3 DEF NotesInit, NotesInv

\* While adds do not cross, at most one is running, and it will leave as many as there is
\* room for.
StayInv ==
    /\ takenAway \in Nat /\ crossedAdds \in BOOLEAN
    /\ NotesStay
    /\ ~crossedAdds =>
          /\ \A t, u \in Threads : adding[t] # NotAdding /\ adding[u] # NotAdding => t = u
          /\ \A t \in Threads :
                /\ adding[t].does = "select" => Cardinality(notes) >= MaxNotes + adding[t].over
                /\ adding[t].does = "delete" => Cardinality(Undoomed(t)) >= MaxNotes

LEMMA StayInitially == NotesAssumption /\ NotesInit => StayInv
<1> SUFFICES ASSUME NotesAssumption, NotesInit PROVE StayInv
  OBVIOUS
<1>1. Cardinality(notes) = 0
  BY FS_EmptySet DEF NotesInit
<1>2. takenAway = 0 /\ crossedAdds = FALSE /\ written = 0
      /\ adding = [t \in Threads |-> NotAdding]
  BY DEF NotesInit
<1>3. \A t \in Threads : adding[t] = NotAdding /\ adding[t].does = "none"
  BY <1>2 DEF NotAdding
<1>4. NotesStay
  BY <1>1, <1>2 DEF NotesStay
<1> QED
  BY <1>2, <1>3, <1>4 DEF StayInv

LEMMA NotesInvHolds == NotesInv /\ StayInv => NotesAreKept
<1> SUFFICES ASSUME NotesInv, StayInv PROVE NotesAreKept
  OBVIOUS
<1>1. ASSUME \A t \in Threads : adding[t] = NotAdding, ~cutAdd
      PROVE  Cardinality(notes) <= MaxNotes
  BY <1>1 DEF NotesInv, AllCounted, WillFit, NotAdding
<1> QED
  BY <1>1 DEF NotesInv, StayInv, NotesAreKept, NotesFit, VoiceIsItsOwn

\* Where only notes go, what was going to fit still is.
LEMMA FewerNotesFit ==
  ASSUME NotesAssumption, NotesTypeOK, AllCounted /\ ~cutAdd => WillFit,
         notes' \subseteq notes, UNCHANGED <<adding, cutAdd>>
  PROVE  /\ IsFiniteSet(notes') /\ \A n, m \in notes' : n.id = m.id => n = m
         /\ (AllCounted /\ ~cutAdd => WillFit)'
<1>1. IsFiniteSet(notes') /\ Cardinality(notes') <= Cardinality(notes)
      /\ Cardinality(notes') \in Nat /\ Cardinality(notes) \in Nat
  BY FS_Subset, FS_CardinalityType DEF NotesTypeOK
<1>2. ASSUME NEW t \in Threads
      PROVE  /\ Cardinality(Undoomed(t)') <= Cardinality(Undoomed(t))
             /\ Cardinality(Undoomed(t)') \in Nat /\ Cardinality(Undoomed(t)) \in Nat
             /\ adding[t].over \in Nat
  <2>1. Undoomed(t)' \subseteq Undoomed(t) /\ Undoomed(t) \subseteq notes
    BY DEF Undoomed
  <2>2. IsFiniteSet(Undoomed(t)) /\ IsFiniteSet(Undoomed(t)')
    BY <1>1, <2>1, FS_Subset DEF NotesTypeOK
  <2>3. adding[t].over \in Nat
    BY DEF NotesTypeOK
  <2> QED
    BY <2>1, <2>2, <2>3, FS_Subset, FS_CardinalityType
<1>3. WillFit => WillFit'
  <2>1. CASE Cardinality(notes) <= MaxNotes
    BY <1>1, <2>1 DEF WillFit, NotesAssumption
  <2>2. ASSUME NEW t \in Threads, adding[t].does = "select",
               Cardinality(notes) <= MaxNotes + adding[t].over
        PROVE  WillFit'
    <3>1. Cardinality(notes') <= MaxNotes + adding'[t].over
      BY <1>1, <1>2, <2>2 DEF NotesAssumption
    <3> QED
      BY <2>2, <3>1 DEF WillFit
  <2>3. ASSUME NEW t \in Threads, adding[t].does = "delete", Cardinality(Undoomed(t)) <= MaxNotes
        PROVE  WillFit'
    <3>1. Cardinality(Undoomed(t)') <= MaxNotes
      BY <1>2, <2>3 DEF NotesAssumption
    <3> QED
      BY <2>3, <3>1 DEF WillFit
  <2> QED
    BY <2>1, <2>2, <2>3 DEF WillFit
<1> QED
  BY <1>1, <1>3 DEF NotesTypeOK, AllCounted

LEMMA InsertNoteKeeps ==
  ASSUME NotesAssumption, NotesInv, NEW t \in Threads, NEW priority \in Nat, NEW about \in Topics,
         InsertNote(t, priority, about), keeping' \in Dispatch
  PROVE  NotesInv'
<1>1. PICK n : n = [id |-> written + 1, priority |-> priority, about |-> about]
  OBVIOUS
<1>2. /\ adding[t] = NotAdding /\ written' = written + 1 /\ notes' = notes \cup {n}
      /\ adding' = [adding EXCEPT ![t].does = "count"]
      /\ UNCHANGED <<voice, spoken, cutAdd>>
  BY <1>1 DEF InsertNote, voiceOnly, noteHistory
<1>3. NotesTypeOK
  BY DEF NotesInv
<1>4. PICK a : a = [does |-> "count", over |-> 0, doomed |-> {}]
  OBVIOUS
<1>5. adding' = [adding EXCEPT ![t] = a]
  <2>1. a = [adding[t] EXCEPT !.does = "count"]
    BY <1>2, <1>4 DEF NotAdding
  <2> QED
    BY <1>2, <1>3, <2>1 DEF NotesTypeOK
<1>6. \A u \in Threads : adding'[u] = IF u = t THEN a ELSE adding[u]
  BY <1>3, <1>5 DEF NotesTypeOK
<1>7. /\ n \in Note /\ n.id = written + 1
      /\ \A m \in notes : m.id \in Nat /\ m.id <= written /\ m.id # n.id
  <2>1. n \in Note /\ n.id = written + 1 /\ written \in Nat
    BY <1>1, <1>3 DEF NotesTypeOK, Note
  <2>2. \A m \in notes : m.id \in Nat /\ m.id <= written
    BY <1>3 DEF NotesTypeOK, Note
  <2> QED
    BY <2>1, <2>2
<1>8. NotesTypeOK'
  <2>1. written' \in Nat /\ notes' \subseteq Note
        /\ IsFiniteSet(notes')
    BY <1>2, <1>3, <1>7, FS_AddElement DEF NotesTypeOK
  <2>2. \A m, k \in notes' : m.id = k.id => m = k
    BY <1>2, <1>3, <1>7 DEF NotesTypeOK
  <2>3. \A m \in notes' : m.id <= written'
    <3> SUFFICES ASSUME NEW m \in notes' PROVE m.id <= written'
      OBVIOUS
    <3>1. written \in Nat
      BY <1>3 DEF NotesTypeOK
    <3> QED
      BY <1>2, <1>7, <3>1
  <2>4. a \in [does : {"none", "count", "select", "delete"}, over : Nat, doomed : SUBSET Nat]
    BY <1>4
  <2>5. adding' \in [Threads -> [does : {"none", "count", "select", "delete"}, over : Nat,
                                 doomed : SUBSET Nat]]
    BY <1>3, <1>5, <2>4 DEF NotesTypeOK
  <2>6. \A u \in Threads : adding'[u].does = "none" => adding'[u] = NotAdding
    BY <1>3, <1>4, <1>6 DEF NotesTypeOK
  <2> QED
    BY <1>2, <1>3, <2>1, <2>2, <2>3, <2>5, <2>6 DEF NotesTypeOK
<1>9. ~ AllCounted'
  BY <1>4, <1>6 DEF AllCounted
<1> QED
  BY <1>2, <1>8, <1>9 DEF NotesInv

\* The counting of the last that had not counted.
LEMMA CountNotesKeeps ==
  ASSUME NotesAssumption, NotesInv, NEW t \in Threads, CountNotes(t)
  PROVE  NotesInv'
<1> DEFINE count == Cardinality(notes)
<1>1. PICK a : a = IF count > MaxNotes
                   THEN [does |-> "select", over |-> count - MaxNotes, doomed |-> {}]
                   ELSE NotAdding
  OBVIOUS
<1>2. /\ adding' = [adding EXCEPT ![t] = a] /\ cutAdd' = FALSE
      /\ UNCHANGED <<notes, written, keeping, voice, spoken>>
  BY <1>1 DEF CountNotes, voiceOnly
<1>3. NotesTypeOK /\ count \in Nat
  BY FS_CardinalityType DEF NotesInv, NotesTypeOK
<1> HIDE DEF count
<1>4. \A u \in Threads : adding'[u] = IF u = t THEN a ELSE adding[u]
  BY <1>2, <1>3 DEF NotesTypeOK
<1>5. /\ a \in [does : {"none", "count", "select", "delete"}, over : Nat, doomed : SUBSET Nat]
      /\ a.does = "none" => a = NotAdding
  <2>1. CASE count > MaxNotes
    <3>1. count - MaxNotes \in Nat
      BY <1>3, <2>1 DEF NotesAssumption
    <3> QED
      BY <1>1, <2>1, <3>1
  <2>2. CASE ~ (count > MaxNotes)
    BY <1>1, <2>2 DEF NotAdding
  <2> QED
    BY <2>1, <2>2
<1>6. NotesTypeOK'
  BY <1>2, <1>3, <1>4, <1>5 DEF NotesTypeOK
<1>7. WillFit'
  <2>1. CASE count > MaxNotes
    <3>1. a.does = "select" /\ a.over = count - MaxNotes
      BY <1>1, <2>1
    <3>2. count <= MaxNotes + a.over
      BY <1>3, <3>1 DEF NotesAssumption
    <3> QED
      BY <1>2, <1>4, <3>1, <3>2 DEF WillFit, count
  <2>2. CASE ~ (count > MaxNotes)
    BY <1>2, <1>3, <2>2 DEF WillFit, count, NotesAssumption
  <2> QED
    BY <2>1, <2>2
<1> QED
  BY <1>2, <1>6, <1>7 DEF NotesInv

\* How many notes come before a note tells it from every other.
Below(n) == {m \in notes : Before(m, n)}
LEMMA NotesAreRanked ==
  ASSUME NotesTypeOK
  PROVE  /\ \A n \in notes : /\ Cardinality(Below(n)) \in Nat
                              /\ Cardinality(Below(n)) < Cardinality(notes)
         /\ \A n, m \in notes : n # m => Cardinality(Below(n)) # Cardinality(Below(m))
<1> DEFINE below(n) == {m \in notes : Before(m, n)}
           c == Cardinality(notes)
<1>1. IsFiniteSet(notes) /\ c \in Nat
  BY FS_CardinalityType DEF NotesTypeOK
<1>3. \A n \in notes : n.id \in Nat /\ n.priority \in Nat
  BY DEF NotesTypeOK, Note
<1>4. ASSUME NEW n \in notes
      PROVE  /\ IsFiniteSet(below(n)) /\ Cardinality(below(n)) \in Nat
             /\ Cardinality(below(n)) < c /\ n \notin below(n)
  <2>1. n \notin below(n)
    BY <1>3 DEF Before
  <2>2. below(n) \subseteq notes \ {n}
    BY <2>1
  <2>3. IsFiniteSet(notes \ {n}) /\ Cardinality(notes \ {n}) = c - 1
    BY <1>1, FS_RemoveElement
  <2>4. IsFiniteSet(below(n)) /\ Cardinality(below(n)) <= Cardinality(notes \ {n})
        /\ Cardinality(below(n)) \in Nat
    BY <2>2, <2>3, FS_Subset, FS_CardinalityType
  <2> HIDE DEF below, c
  <2> QED
    BY <1>1, <2>1, <2>3, <2>4
<1>5. ASSUME NEW n \in notes, NEW m \in notes, Before(n, m)
      PROVE  Cardinality(below(n)) < Cardinality(below(m))
  <2>1. below(n) \cup {n} \subseteq below(m)
    <3> SUFFICES ASSUME NEW x \in notes, Before(x, n) PROVE Before(x, m)
      BY <1>5
    <3> QED
      BY <1>3, <1>5 DEF Before
  <2>2. Cardinality(below(n) \cup {n}) = Cardinality(below(n)) + 1
    BY <1>4, FS_AddElement
  <2>3. Cardinality(below(n) \cup {n}) <= Cardinality(below(m))
    BY <1>4, <2>1, FS_Subset
  <2>4. Cardinality(below(n)) \in Nat /\ Cardinality(below(m)) \in Nat
    BY <1>4
  <2> HIDE DEF below
  <2> QED
    BY <2>2, <2>3, <2>4
<1>6. \A n, m \in notes : n # m => Before(n, m) \/ Before(m, n)
  <2> SUFFICES ASSUME NEW n \in notes, NEW m \in notes, n # m
               PROVE  Before(n, m) \/ Before(m, n)
    OBVIOUS
  <2>1. n.id # m.id
    BY DEF NotesTypeOK
  <2> QED
    BY <1>3, <2>1 DEF Before
<1>7. ASSUME NEW n \in notes, NEW m \in notes, n # m
      PROVE  Cardinality(below(n)) # Cardinality(below(m))
  <2>1. Cardinality(below(n)) \in Nat /\ Cardinality(below(m)) \in Nat
    BY <1>4
  <2>2. Cardinality(below(n)) < Cardinality(below(m))
        \/ Cardinality(below(m)) < Cardinality(below(n))
    BY <1>5, <1>6, <1>7
  <2> HIDE DEF below
  <2> QED
    BY <2>1, <2>2
<1>8. \A n : below(n) = Below(n)
  BY DEF Below
<1> HIDE DEF below
<1> QED
  BY <1>4, <1>7, <1>8

\* As many notes as asked for are the lowest, if there are so many.
LEMMA LowestAreEnough ==
  ASSUME NotesAssumption, NotesTypeOK, NEW k \in Nat, Cardinality(notes) <= MaxNotes + k
  PROVE  /\ IsFiniteSet(notes \ Lowest(k)) /\ Cardinality(notes \ Lowest(k)) \in Nat
         /\ Cardinality(notes \ Lowest(k)) <= MaxNotes
<1> DEFINE below(n) == {m \in notes : Before(m, n)}
           rest == notes \ Lowest(k)
           c == Cardinality(notes)
           f == [n \in rest |-> Cardinality(below(n))]
<1>1. IsFiniteSet(notes) /\ c \in Nat /\ MaxNotes \in Nat
  BY FS_CardinalityType DEF NotesTypeOK, NotesAssumption
<1>2. IsFiniteSet(rest) /\ Cardinality(rest) \in Nat
  BY <1>1, FS_Subset, FS_CardinalityType
<1>3. \A n \in notes : n.id \in Nat /\ n.priority \in Nat
  BY DEF NotesTypeOK, Note
<1>4. \A n \in notes : Cardinality(below(n)) \in Nat /\ Cardinality(below(n)) < c
  BY NotesAreRanked DEF Below
<1>6. \A n, m \in notes : n # m => Cardinality(below(n)) # Cardinality(below(m))
  BY NotesAreRanked DEF Below
<1>7. \A n \in rest : n \in notes /\ k <= Cardinality(below(n))
  <2> SUFFICES ASSUME NEW n \in rest PROVE k <= Cardinality(below(n))
    OBVIOUS
  <2>1. ~ (Cardinality(below(n)) < k) /\ Cardinality(below(n)) \in Nat
    BY <1>4 DEF Lowest
  <2> HIDE DEF below
  <2> QED
    BY <2>1
<1>8. CASE k <= c
  <2>1. IsFiniteSet(k .. (c - 1)) /\ Cardinality(k .. (c - 1)) <= c - k
        /\ Cardinality(k .. (c - 1)) \in Nat
    <3>1. c - 1 \in Int /\ k \in Int
      BY <1>1
    <3> HIDE DEF c
    <3>2. IsFiniteSet(k .. (c - 1))
          /\ Cardinality(k .. (c - 1)) = IF k > c - 1 THEN 0 ELSE c - 1 - k + 1
      BY <3>1, FS_Interval
    <3> QED
      BY <1>1, <1>8, <3>2
  <2>2. f \in Injection(rest, k .. (c - 1))
    <3>1. \A n \in rest : f[n] \in k .. (c - 1)
      <4> SUFFICES ASSUME NEW n \in rest PROVE Cardinality(below(n)) \in k .. (c - 1)
        OBVIOUS
      <4>1. Cardinality(below(n)) \in Nat /\ Cardinality(below(n)) < c
            /\ k <= Cardinality(below(n))
        BY <1>4, <1>7
      <4> HIDE DEF below, c
      <4> QED
        BY <1>1, <4>1
    <3>2. \A n, m \in rest : f[n] = f[m] => n = m
      <4> SUFFICES ASSUME NEW n \in rest, NEW m \in rest, n # m
                   PROVE  Cardinality(below(n)) # Cardinality(below(m))
        OBVIOUS
      <4> QED
        BY <1>6
    <3>3. f \in [rest -> k .. (c - 1)]
      BY <3>1
    <3> HIDE DEF f, rest, c
    <3> QED
      BY <3>2, <3>3 DEF Injection, IsInjective
  <2> HIDE DEF f, rest
  <2>3. Cardinality(rest) <= Cardinality(k .. (c - 1))
    BY <2>1, <2>2, FS_Injection
  <2> HIDE DEF c
  <2>4. c <= MaxNotes + k
    BY DEF c
  <2>5. Cardinality(rest) <= MaxNotes
    BY <1>1, <1>2, <2>1, <2>3, <2>4
  <2> QED
    BY <1>2, <2>5 DEF rest
<1>9. CASE ~ (k <= c)
  <2>1. rest = {}
    <3> SUFFICES ASSUME NEW n \in rest PROVE FALSE
      OBVIOUS
    <3>1. Cardinality(below(n)) \in Nat /\ Cardinality(below(n)) < c
          /\ k <= Cardinality(below(n))
      BY <1>4, <1>7
    <3> HIDE DEF below, c, rest
    <3> QED
      BY <1>1, <1>9, <3>1
  <2>2. Cardinality(rest) = 0
    BY <2>1, FS_EmptySet
  <2> HIDE DEF rest
  <2> QED
    BY <1>1, <1>2, <2>2 DEF rest
<1> QED
  BY <1>8, <1>9

\* No more are the lowest than were asked for.
LEMMA LowestAreFew ==
  ASSUME NotesTypeOK, NEW k \in Nat
  PROVE  /\ IsFiniteSet(notes \ Lowest(k)) /\ Cardinality(notes \ Lowest(k)) \in Nat
         /\ Cardinality(notes) <= Cardinality(notes \ Lowest(k)) + k
<1> DEFINE low == Lowest(k)
           f == [n \in low |-> Cardinality(Below(n))]
<1>1. IsFiniteSet(notes) /\ Cardinality(notes) \in Nat /\ low \subseteq notes
  BY FS_CardinalityType DEF NotesTypeOK, Lowest
<1>2. IsFiniteSet(low) /\ Cardinality(low) \in Nat
      /\ IsFiniteSet(notes \ low) /\ Cardinality(notes \ low) \in Nat
  BY <1>1, FS_Subset, FS_CardinalityType
<1>3. IsFiniteSet(0 .. (k - 1)) /\ Cardinality(0 .. (k - 1)) = k
  <2>1. 0 \in Int /\ k - 1 \in Int
    OBVIOUS
  <2>2. IsFiniteSet(0 .. (k - 1))
        /\ Cardinality(0 .. (k - 1)) = IF 0 > k - 1 THEN 0 ELSE k - 1 - 0 + 1
    BY <2>1, FS_Interval
  <2> QED
    BY <2>2
<1>4. f \in Injection(low, 0 .. (k - 1))
  <2>1. \A n \in low : Cardinality(Below(n)) \in 0 .. (k - 1)
    <3> SUFFICES ASSUME NEW n \in low PROVE Cardinality(Below(n)) \in 0 .. (k - 1)
      OBVIOUS
    <3>1. Cardinality(Below(n)) \in Nat /\ Cardinality(Below(n)) < k
      BY NotesAreRanked DEF Lowest, Below
    <3> QED
      BY <3>1
  <2>2. \A n, m \in low : n # m => Cardinality(Below(n)) # Cardinality(Below(m))
    BY <1>1, NotesAreRanked
  <2>3. f \in [low -> 0 .. (k - 1)] /\ \A n, m \in low : f[n] = f[m] => n = m
    BY <2>1, <2>2
  <2> HIDE DEF f, low
  <2> QED
    BY <2>3 DEF Injection, IsInjective
<1> HIDE DEF f, low
<1>5. Cardinality(low) <= k
  BY <1>3, <1>4, FS_Injection
<1>6. Cardinality(notes) = Cardinality(low) + Cardinality(notes \ low)
  <2>1. notes = low \cup (notes \ low) /\ low \cap (notes \ low) = {}
    BY <1>1
  <2>2. Cardinality(low \cup (notes \ low))
        = Cardinality(low) + Cardinality(notes \ low) - Cardinality(low \cap (notes \ low))
    BY <1>2, FS_Union
  <2>3. Cardinality(low \cap (notes \ low)) = 0
    BY <2>1, FS_EmptySet
  <2>4. Cardinality(notes) = Cardinality(low \cup (notes \ low))
    BY <2>1
  <2> QED
    BY <1>2, <2>2, <2>3, <2>4
<1>7. Cardinality(notes) <= Cardinality(notes \ low) + k
  BY <1>2, <1>5, <1>6
<1> QED
  BY <1>2, <1>7 DEF low

LEMMA SelectNotesKeeps ==
  ASSUME NotesAssumption, NotesInv, NEW t \in Threads, SelectNotes(t)
  PROVE  NotesInv'
<1>1. PICK a : a = [adding[t] EXCEPT !.does = "delete",
                                     !.doomed = {n.id : n \in Lowest(adding[t].over)}]
  OBVIOUS
<1>2. NotesTypeOK
  BY DEF NotesInv
<1>3. /\ adding[t].does = "select" /\ adding' = [adding EXCEPT ![t] = a]
      /\ UNCHANGED <<notes, written, keeping, voice, spoken, cutAdd>>
  BY <1>1, <1>2 DEF SelectNotes, voiceOnly, noteHistory, NotesTypeOK
<1>4. /\ a \in [does : {"none", "count", "select", "delete"}, over : Nat, doomed : SUBSET Nat]
      /\ a.does = "delete" /\ a.doomed = {n.id : n \in Lowest(adding[t].over)}
  <2>1. {n.id : n \in Lowest(adding[t].over)} \in SUBSET Nat
    BY <1>2 DEF NotesTypeOK, Note, Lowest
  <2>2. adding[t] \in [does : {"none", "count", "select", "delete"}, over : Nat,
                       doomed : SUBSET Nat]
    BY <1>2 DEF NotesTypeOK
  <2>3. PICK d : d = {n.id : n \in Lowest(adding[t].over)}
    OBVIOUS
  <2>4. d \in SUBSET Nat /\ a = [adding[t] EXCEPT !.does = "delete", !.doomed = d]
    BY <1>1, <2>1, <2>3
  <2> QED
    BY <2>2, <2>3, <2>4
<1>5. \A u \in Threads : adding'[u] = IF u = t THEN a ELSE adding[u]
  BY <1>2, <1>3 DEF NotesTypeOK
<1>6. NotesTypeOK'
  BY <1>2, <1>3, <1>4, <1>5 DEF NotesTypeOK
<1>7. ASSUME AllCounted', ~ cutAdd' PROVE WillFit'
  <2>1. AllCounted /\ ~ cutAdd
    BY <1>3, <1>5, <1>7 DEF AllCounted
  <2>2. WillFit
    BY <2>1 DEF NotesInv
  <2>3. CASE Cardinality(notes) <= MaxNotes
    BY <1>3, <2>3 DEF WillFit
  <2>4. CASE Cardinality(notes) <= MaxNotes + adding[t].over
    <3>1. adding[t].over \in Nat
      BY <1>2 DEF NotesTypeOK
    <3>2. Undoomed(t)' \subseteq notes \ Lowest(adding[t].over)
      BY <1>3, <1>4, <1>5 DEF Undoomed
    <3>3. /\ IsFiniteSet(notes \ Lowest(adding[t].over))
          /\ Cardinality(notes \ Lowest(adding[t].over)) \in Nat
          /\ Cardinality(notes \ Lowest(adding[t].over)) <= MaxNotes
      BY <1>2, <2>4, <3>1, LowestAreEnough
    <3>4. Cardinality(Undoomed(t)') <= Cardinality(notes \ Lowest(adding[t].over))
          /\ Cardinality(Undoomed(t)') \in Nat
      BY <3>2, <3>3, FS_Subset, FS_CardinalityType
    <3>5. Cardinality(Undoomed(t)') <= MaxNotes
      BY <3>3, <3>4 DEF NotesAssumption
    <3> QED
      BY <1>4, <1>5, <3>5 DEF WillFit
  <2>5. ASSUME NEW u \in Threads, u # t,
               \/ adding[u].does = "select" /\ Cardinality(notes) <= MaxNotes + adding[u].over
               \/ adding[u].does = "delete" /\ Cardinality(Undoomed(u)) <= MaxNotes
        PROVE  WillFit'
    <3>1. adding'[u] = adding[u] /\ Undoomed(u)' = Undoomed(u)
      BY <1>3, <1>5, <2>5 DEF Undoomed
    <3> QED
      BY <1>3, <2>5, <3>1 DEF WillFit
  <2> QED
    BY <1>3, <2>2, <2>3, <2>4, <2>5 DEF WillFit
<1> QED
  BY <1>3, <1>6, <1>7 DEF NotesInv

LEMMA DeleteNoteKeeps ==
  ASSUME NotesAssumption, NotesInv, NEW t \in Threads, DeleteNote(t)
  PROVE  NotesInv'
<1>1. NotesTypeOK /\ (AllCounted /\ ~cutAdd => WillFit)
  BY DEF NotesInv
<1>2. UNCHANGED <<written, keeping, voice, spoken, cutAdd>> /\ adding[t].does = "delete"
  BY DEF DeleteNote, voiceOnly, noteHistory
<1>3. CASE adding[t].doomed = {}
  <2>1. adding' = [adding EXCEPT ![t] = NotAdding] /\ notes' = notes
    BY <1>3 DEF DeleteNote
  <2>2. \A u \in Threads : adding'[u] = IF u = t THEN NotAdding ELSE adding[u]
    BY <1>1, <2>1 DEF NotesTypeOK
  <2>3. NotesTypeOK'
    BY <1>1, <1>2, <2>1, <2>2 DEF NotesTypeOK, NotAdding
  <2>4. ASSUME AllCounted', ~ cutAdd' PROVE WillFit'
    <3>1. AllCounted /\ WillFit
      BY <1>1, <1>2, <2>2, <2>4 DEF AllCounted
    <3>2. Undoomed(t) = notes
      BY <1>3 DEF Undoomed
    <3>3. ASSUME NEW u \in Threads, u # t PROVE Undoomed(u)' = Undoomed(u) /\ adding'[u] = adding[u]
      BY <2>1, <2>2, <3>3 DEF Undoomed
    <3> QED
      BY <1>2, <2>1, <3>1, <3>2, <3>3 DEF WillFit
  <2> QED
    BY <1>2, <2>3, <2>4 DEF NotesInv, NotesInv
<1>4. CASE adding[t].doomed # {}
  <2>1. PICK id : /\ notes' = {n \in notes : n.id # id}
                  /\ adding' = [adding EXCEPT ![t].doomed = @ \ {id}]
    BY <1>4 DEF DeleteNote
  <2>2. PICK a : a = [adding[t] EXCEPT !.doomed = @ \ {id}]
    OBVIOUS
  <2>3. adding' = [adding EXCEPT ![t] = a]
    BY <1>1, <2>1, <2>2 DEF NotesTypeOK
  <2>4. /\ a \in [does : {"none", "count", "select", "delete"}, over : Nat, doomed : SUBSET Nat]
        /\ a.does = "delete" /\ a.doomed = adding[t].doomed \ {id}
    <3>1. PICK b : b = adding[t]
      OBVIOUS
    <3>2. PICK d : d = b.doomed \ {id}
      OBVIOUS
    <3>3. /\ b \in [does : {"none", "count", "select", "delete"}, over : Nat, doomed : SUBSET Nat]
          /\ b.does = "delete" /\ a = [b EXCEPT !.doomed = d]
      BY <1>1, <1>2, <2>2, <3>1, <3>2 DEF NotesTypeOK
    <3>4. d \in SUBSET Nat
      BY <3>2, <3>3
    <3> QED
      BY <3>1, <3>2, <3>3, <3>4
  <2>5. \A u \in Threads : adding'[u] = IF u = t THEN a ELSE adding[u]
    BY <1>1, <2>3 DEF NotesTypeOK
  <2>6. notes' \subseteq notes /\ IsFiniteSet(notes')
    BY <1>1, <2>1, FS_Subset DEF NotesTypeOK
  <2>7. NotesTypeOK'
    BY <1>1, <1>2, <2>3, <2>4, <2>5, <2>6 DEF NotesTypeOK
  <2>8. ASSUME AllCounted', ~ cutAdd' PROVE WillFit'
    <3>1. AllCounted /\ WillFit
      BY <1>1, <1>2, <2>5, <2>8 DEF AllCounted
    <3>2. Cardinality(notes') <= Cardinality(notes) /\ Cardinality(notes') \in Nat
          /\ Cardinality(notes) \in Nat
      BY <1>1, <2>6, FS_Subset, FS_CardinalityType DEF NotesTypeOK
    <3>3. ASSUME NEW u \in Threads
          PROVE  /\ Cardinality(Undoomed(u)') <= Cardinality(Undoomed(u))
                 /\ Cardinality(Undoomed(u)') \in Nat /\ Cardinality(Undoomed(u)) \in Nat
      <4>1. Undoomed(u)' \subseteq Undoomed(u) /\ Undoomed(u) \subseteq notes
        BY <2>1, <2>4, <2>5 DEF Undoomed
      <4>2. IsFiniteSet(Undoomed(u)) /\ IsFiniteSet(Undoomed(u)')
        BY <1>1, <4>1, FS_Subset DEF NotesTypeOK
      <4> QED
        BY <4>1, <4>2, FS_Subset, FS_CardinalityType
    <3>4. ASSUME NEW u \in Threads, adding[u].does = "select",
                 Cardinality(notes) <= MaxNotes + adding[u].over
          PROVE  WillFit'
      <4>1. adding'[u] = adding[u] /\ adding[u].over \in Nat
        BY <1>1, <1>2, <2>5, <3>4 DEF NotesTypeOK
      <4>2. Cardinality(notes') <= MaxNotes + adding'[u].over
        BY <3>2, <3>4, <4>1 DEF NotesAssumption
      <4> QED
        BY <3>4, <4>1, <4>2 DEF WillFit
    <3>5. ASSUME NEW u \in Threads, adding[u].does = "delete", Cardinality(Undoomed(u)) <= MaxNotes
          PROVE  WillFit'
      <4>1. adding'[u].does = "delete"
        BY <2>4, <2>5, <3>5
      <4>2. Cardinality(Undoomed(u)') <= MaxNotes
        BY <3>3, <3>5 DEF NotesAssumption
      <4> QED
        BY <4>1, <4>2 DEF WillFit
    <3>6. CASE Cardinality(notes) <= MaxNotes
      BY <3>2, <3>6 DEF WillFit, NotesAssumption
    <3> QED
      BY <3>1, <3>4, <3>5, <3>6 DEF WillFit
  <2> QED
    BY <1>2, <2>7, <2>8 DEF NotesInv
<1> QED
  BY <1>3, <1>4

LEMMA RebootKeeps ==
  ASSUME NotesAssumption, NotesInv, NEW hasSeed \in BOOLEAN, Reboot(hasSeed)
  PROVE  NotesInv'
<1>1. /\ cutAdd' = (cutAdd \/ \E t \in Threads : adding[t] # NotAdding)
      /\ adding' = [t \in Threads |-> NotAdding] /\ keeping' = Resting
      /\ voice' = IF hasSeed THEN Seeded(voice) ELSE voice
      /\ UNCHANGED <<notes, written, spoken>>
  BY DEF Reboot, SomeAdds
<1>2. NotesTypeOK /\ (AllCounted /\ ~cutAdd => WillFit)
  BY DEF NotesInv
<1>3. NotesTypeOK'
  BY <1>1, <1>2 DEF NotesTypeOK, NotAdding, Resting, Dispatch
<1>4. ASSUME ~ cutAdd' PROVE WillFit'
  <2>1. ~ cutAdd /\ \A t \in Threads : adding[t] = NotAdding
    BY <1>1, <1>2, <1>4 DEF NotesTypeOK
  <2>2. Cardinality(notes) <= MaxNotes
    BY <1>2, <2>1 DEF AllCounted, WillFit, NotAdding
  <2> QED
    BY <1>1, <2>2 DEF WillFit
<1>5. spoken' => voice' \in {0, 1}
  BY <1>1 DEF NotesInv, Seeded, NoVoice
<1> QED
  BY <1>3, <1>4, <1>5 DEF NotesInv

\* The maintenance, but for what it adds, and the voice.
LEMMA KeepingKeeps ==
  ASSUME NotesAssumption, NotesInv,
         \/ ReadNotes \/ Kept \/ AskVoice
         \/ \E removes \in SUBSET Nat, adds \in SUBSET Topics : NotesReply(removes, adds)
         \/ \E id : RemoveNote(id)
         \/ \E text \in {0, 1} : Speak(text)
         \/ \E changes \in BOOLEAN : VoiceReply(changes)
  PROVE  NotesInv'
<1>1. NotesTypeOK /\ (AllCounted /\ ~cutAdd => WillFit)
  BY DEF NotesInv
<1>2. /\ notes' \subseteq notes /\ UNCHANGED <<written, adding, cutAdd>>
      /\ spoken' \in BOOLEAN /\ (spoken' => voice' \in {0, 1})
  <2>1. spoken \in BOOLEAN /\ (spoken => voice \in {0, 1})
    BY DEF NotesInv, NotesTypeOK
  <2>2. ASSUME NEW id, RemoveNote(id)
        PROVE  notes' \subseteq notes /\ UNCHANGED <<written, adding, cutAdd, spoken, voice>>
    BY <2>2 DEF RemoveNote, voiceOnly
  <2>3. CASE ReadNotes \/ Kept \/ AskVoice
    BY <2>1, <2>3 DEF ReadNotes, Kept, AskVoice, voiceOnly, noteHistory
  <2>6. ASSUME NEW removes, NEW adds, NotesReply(removes, adds)
        PROVE  UNCHANGED <<notes, written, adding, cutAdd, spoken, voice>>
    BY <2>6 DEF NotesReply, voiceOnly, noteHistory
  <2>4. CASE \E text \in {0, 1} : Speak(text)
    BY <2>1, <2>4 DEF Speak, noteHistory
  <2>5. CASE \E changes \in BOOLEAN : VoiceReply(changes)
    BY <2>1, <2>5 DEF VoiceReply, noteHistory
  <2> QED
    BY <2>1, <2>2, <2>3, <2>4, <2>5, <2>6
<1>3. keeping' \in Dispatch
  <2>1. CASE ReadNotes
    <3>1. keeping' = [does |-> "ask", read |-> notes, removes |-> {}, adds |-> {}]
      BY <2>1 DEF ReadNotes, Resting
    <3> QED
      BY <1>1, <3>1 DEF NotesTypeOK, Dispatch
  <2>2. CASE Kept
    BY <2>2 DEF Kept, Resting, Dispatch
  <2>3. ASSUME NEW removes \in SUBSET Nat, NEW adds \in SUBSET Topics, NotesReply(removes, adds)
        PROVE  keeping' \in Dispatch
    BY <1>1, <2>3 DEF NotesReply, NotesTypeOK, Dispatch
  <2>4. ASSUME NEW id, RemoveNote(id) PROVE keeping' \in Dispatch
    <3>1. keeping' = [keeping EXCEPT !.removes = @ \ {id}]
      BY <2>4 DEF RemoveNote
    <3> QED
      BY <1>1, <3>1 DEF NotesTypeOK, Dispatch
  <2>5. CASE keeping' = keeping
    BY <1>1, <2>5 DEF NotesTypeOK
  <2> QED
    BY <2>1, <2>2, <2>3, <2>4, <2>5 DEF AskVoice, Speak, VoiceReply
<1>4. /\ IsFiniteSet(notes') /\ \A n, m \in notes' : n.id = m.id => n = m
      /\ (AllCounted /\ ~cutAdd => WillFit)'
  BY <1>1, <1>2, FewerNotesFit
<1>5. NotesTypeOK'
  BY <1>1, <1>2, <1>3, <1>4 DEF NotesTypeOK
<1> QED
  BY <1>2, <1>4, <1>5 DEF NotesInv

LEMMA KeepNoteKeeps ==
  ASSUME NotesAssumption, NotesInv, NEW about \in Topics, NEW p \in {1, 3}, KeepNote(about, p)
  PROVE  NotesInv'
<1>1. NotesTypeOK /\ (AllCounted /\ ~cutAdd => WillFit) /\ Keeper \in Threads
  BY DEF NotesInv, Threads
<1>2. keeping' = [keeping EXCEPT !.adds = @ \ {about}] /\ about \in keeping.adds
  BY DEF KeepNote
<1>3. keeping' \in Dispatch
  BY <1>1, <1>2 DEF NotesTypeOK, Dispatch
<1>4. CASE InsertNote(Keeper, p, about)
  BY <1>1, <1>3, <1>4, InsertNoteKeeps
<1>5. CASE UNCHANGED <<notes, written, adding, voiceOnly, stops, noteHistory>>
  <2>1. UNCHANGED <<notes, written, adding, voice, spoken, cutAdd>>
    BY <1>5 DEF voiceOnly, noteHistory
  <2>2. /\ IsFiniteSet(notes') /\ \A n, m \in notes' : n.id = m.id => n = m
        /\ (AllCounted /\ ~cutAdd => WillFit)'
    BY <1>1, <2>1, FewerNotesFit
  <2>3. NotesTypeOK'
    BY <1>1, <1>3, <2>1, <2>2 DEF NotesTypeOK
  <2> QED
    BY <2>1, <2>2, <2>3 DEF NotesInv
<1> QED
  BY <1>4, <1>5 DEF KeepNote

LEMMA NotesStep == NotesAssumption /\ NotesInv /\ [NotesNext]_noteVars => NotesInv'
<1> SUFFICES ASSUME NotesAssumption, NotesInv, [NotesNext]_noteVars PROVE NotesInv'
  OBVIOUS
<1>1. ASSUME NEW t \in Threads, CountNotes(t) PROVE NotesInv'
  BY <1>1, CountNotesKeeps
<1>2. ASSUME NEW t \in Threads, SelectNotes(t) PROVE NotesInv'
  BY <1>2, SelectNotesKeeps
<1>3. ASSUME NEW t \in Threads, DeleteNote(t) PROVE NotesInv'
  BY <1>3, DeleteNoteKeeps
<1>4. ASSUME NEW t \in Threads, NEW a \in Topics, NoteDown(t, a) PROVE NotesInv'
  <2>1. InsertNote(t, 2, a) /\ keeping' \in Dispatch
    BY <1>4 DEF NoteDown, NotesInv, NotesTypeOK
  <2> QED
    BY <2>1, InsertNoteKeeps
<1>5. ASSUME NEW a \in Topics, NEW p \in {1, 3}, KeepNote(a, p) PROVE NotesInv'
  BY <1>5, KeepNoteKeeps
<1>6. \A removes \in SUBSET {n.id : n \in keeping.read} : removes \in SUBSET Nat
  BY DEF NotesInv, NotesTypeOK, Dispatch, Note
<1>7. CASE \/ ReadNotes \/ Kept \/ AskVoice
           \/ \E removes \in SUBSET Nat, adds \in SUBSET Topics : NotesReply(removes, adds)
           \/ \E id : RemoveNote(id)
           \/ \E text \in {0, 1} : Speak(text)
           \/ \E changes \in BOOLEAN : VoiceReply(changes)
  BY <1>7, KeepingKeeps
<1>8. ASSUME NEW hasSeed \in BOOLEAN, Reboot(hasSeed) PROVE NotesInv'
  BY <1>8, RebootKeeps
<1>9. CASE UNCHANGED noteVars
  BY <1>9 DEF noteVars, voiceOnly, noteHistory, NotesInv, NotesTypeOK, AllCounted, WillFit, Undoomed
<1> QED
  BY <1>1, <1>2, <1>3, <1>4, <1>5, <1>7, <1>8, <1>9, <1>6 DEF NotesNext

\* An add or a removal while no add is running, or one that crosses.
LEMMA InsertStays ==
  ASSUME NotesAssumption, NotesInv, StayInv, NEW t \in Threads, NEW priority \in Nat,
         NEW about \in Topics, InsertNote(t, priority, about)
  PROVE  StayInv'
<1>1. PICK n : n = [id |-> written + 1, priority |-> priority, about |-> about]
  OBVIOUS
<1>2. /\ written' = written + 1 /\ notes' = notes \cup {n}
      /\ adding' = [adding EXCEPT ![t].does = "count"]
      /\ takenAway' = takenAway /\ crossedAdds' = (crossedAdds \/ SomeAdds)
  BY <1>1 DEF InsertNote
<1>3. NotesTypeOK
  BY DEF NotesInv
<1>4. Cardinality(notes') = Cardinality(notes) + 1 /\ Cardinality(notes) \in Nat /\ written \in Nat
  <2>1. n \notin notes
    <3>1. \A m \in notes : m.id \in Nat /\ m.id <= written
      BY <1>3 DEF NotesTypeOK, Note
    <3>2. n.id = written + 1 /\ written \in Nat
      BY <1>1, <1>3 DEF NotesTypeOK
    <3> QED
      BY <3>1, <3>2
  <2>2. IsFiniteSet(notes) /\ written \in Nat
    BY <1>3 DEF NotesTypeOK
  <2> QED
    BY <1>2, <2>1, <2>2, FS_AddElement, FS_CardinalityType
<1>5. takenAway' \in Nat /\ crossedAdds' \in BOOLEAN
  BY <1>2 DEF StayInv
<1>6. ASSUME ~crossedAdds'
      PROVE  /\ \/ Cardinality(notes') + takenAway' >= written'
                \/ Cardinality(notes') + takenAway' >= MaxNotes
             /\ \A u \in Threads : adding'[u] # NotAdding => u = t
             /\ \A u \in Threads : adding'[u].does \notin {"select", "delete"}
  <2>1. ~crossedAdds /\ \A u \in Threads : adding[u] = NotAdding
    BY <1>2, <1>6 DEF SomeAdds
  <2>2. takenAway \in Nat /\ (\/ Cardinality(notes) + takenAway >= written
                             \/ Cardinality(notes) + takenAway >= MaxNotes)
    BY <2>1 DEF StayInv, NotesStay
  <2>3. \/ Cardinality(notes') + takenAway' >= written'
        \/ Cardinality(notes') + takenAway' >= MaxNotes
    BY <1>2, <1>4, <2>2 DEF NotesAssumption
  <2>4. \A u \in Threads : u # t => adding'[u] = NotAdding
    BY <1>2, <1>3, <2>1 DEF NotesTypeOK
  <2>5. adding'[t].does = "count"
    BY <1>2, <1>3 DEF NotesTypeOK
  <2> QED
    BY <2>3, <2>4, <2>5 DEF NotAdding
<1> QED
  BY <1>5, <1>6 DEF StayInv, NotesStay

\* The statements of an add, which is the only one if no adds cross.
LEMMA AddStays ==
  ASSUME NotesAssumption, NotesInv, StayInv, NEW t \in Threads,
         CountNotes(t) \/ SelectNotes(t) \/ DeleteNote(t)
  PROVE  StayInv'
<1>1. NotesTypeOK /\ MaxNotes \in Nat /\ IsFiniteSet(notes) /\ Cardinality(notes) \in Nat
  BY FS_CardinalityType DEF NotesInv, NotesTypeOK, NotesAssumption
<1>2. UNCHANGED <<written, takenAway, crossedAdds>> /\ adding[t] # NotAdding
  BY DEF CountNotes, SelectNotes, DeleteNote, noteHistory, NotAdding
<1>3. PICK a : adding' = [adding EXCEPT ![t] = a]
  BY DEF CountNotes, SelectNotes, DeleteNote
<1>4. adding'[t] = a /\ \A u \in Threads : u # t => adding'[u] = adding[u]
  BY <1>1, <1>3 DEF NotesTypeOK
<1>5. takenAway' \in Nat /\ crossedAdds' \in BOOLEAN /\ takenAway \in Nat
  BY <1>2 DEF StayInv
<1>6. ASSUME ~crossedAdds
      PROVE  /\ \A u \in Threads : u # t => adding'[u] = NotAdding
             /\ \/ Cardinality(notes) + takenAway >= written
                \/ Cardinality(notes) + takenAway >= MaxNotes
  BY <1>2, <1>4, <1>6 DEF StayInv, NotesStay
<1>7. CASE CountNotes(t)
  <2>1. /\ notes' = notes
        /\ adding' = [adding EXCEPT ![t] =
                        IF Cardinality(notes) > MaxNotes
                        THEN [does |-> "select", over |-> Cardinality(notes) - MaxNotes,
                              doomed |-> {}]
                        ELSE NotAdding]
    BY <1>7 DEF CountNotes
  <2>2. adding'[t] = IF Cardinality(notes) > MaxNotes
                     THEN [does |-> "select", over |-> Cardinality(notes) - MaxNotes, doomed |-> {}]
                     ELSE NotAdding
    BY <1>1, <2>1 DEF NotesTypeOK
  <2>3. /\ adding'[t].does # "delete"
        /\ adding'[t].does = "select" => Cardinality(notes) >= MaxNotes + adding'[t].over
    <3>1. CASE Cardinality(notes) > MaxNotes
      BY <1>1, <2>2, <3>1
    <3>2. CASE ~ (Cardinality(notes) > MaxNotes)
      BY <2>2, <3>2 DEF NotAdding
    <3> QED
      BY <3>1, <3>2
  <2> QED
    BY <1>2, <1>5, <1>6, <2>1, <2>3 DEF StayInv, NotesStay, NotAdding
<1>8. CASE SelectNotes(t)
  <2>1. /\ notes' = notes /\ adding[t].does = "select" /\ adding[t].over \in Nat
        /\ adding'[t].does = "delete" /\ adding'[t].doomed = {n.id : n \in Lowest(adding[t].over)}
    <3>1. /\ notes' = notes /\ adding[t].does = "select" /\ adding[t].over \in Nat
      BY <1>1, <1>8 DEF SelectNotes, NotesTypeOK
    <3>2. PICK d : d = {n.id : n \in Lowest(adding[t].over)}
      OBVIOUS
    <3>3. adding' = [adding EXCEPT ![t].does = "delete", ![t].doomed = d]
      BY <1>8, <3>2 DEF SelectNotes
    <3>4. adding'[t].does = "delete" /\ adding'[t].doomed = d
      BY <1>1, <3>3 DEF NotesTypeOK
    <3> QED
      BY <3>1, <3>2, <3>4
  <2>2. notes \ Lowest(adding[t].over) \subseteq Undoomed(t)'
    <3> SUFFICES ASSUME NEW n \in notes, n \notin Lowest(adding[t].over)
                 PROVE  n.id \notin adding'[t].doomed
      BY <2>1 DEF Undoomed
    <3>1. \A m \in notes : m.id = n.id => m = n
      BY <1>1 DEF NotesTypeOK
    <3>2. \A m \in Lowest(adding[t].over) : m \in notes
      BY DEF Lowest
    <3> QED
      BY <2>1, <3>1, <3>2
  <2>3. IsFiniteSet(Undoomed(t)') /\ Cardinality(Undoomed(t)') \in Nat
    <3>1. Undoomed(t)' \subseteq notes
      BY <2>1 DEF Undoomed
    <3> QED
      BY <1>1, <3>1, FS_Subset, FS_CardinalityType
  <2>4. Cardinality(notes) <= Cardinality(Undoomed(t)') + adding[t].over
    <3>1. Cardinality(notes \ Lowest(adding[t].over)) <= Cardinality(Undoomed(t)')
      BY <2>2, <2>3, FS_Subset
    <3>2. /\ Cardinality(notes \ Lowest(adding[t].over)) \in Nat
          /\ Cardinality(notes) <= Cardinality(notes \ Lowest(adding[t].over)) + adding[t].over
      BY <1>1, <2>1, LowestAreFew
    <3> QED
      BY <1>1, <2>1, <2>3, <3>1, <3>2
  <2>5. ~crossedAdds => Cardinality(Undoomed(t)') >= MaxNotes
    <3>1. ~crossedAdds => Cardinality(notes) >= MaxNotes + adding[t].over
      BY <2>1 DEF StayInv
    <3> QED
      BY <1>1, <2>1, <2>3, <2>4, <3>1
  <2> QED
    BY <1>2, <1>5, <1>6, <2>1, <2>5 DEF StayInv, NotesStay, NotAdding
<1>9. CASE DeleteNote(t)
  <2>1. CASE adding[t].doomed = {}
    <3>1. notes' = notes /\ adding'[t] = NotAdding
      BY <1>1, <1>9, <2>1 DEF DeleteNote, NotesTypeOK
    <3> QED
      BY <1>2, <1>5, <1>6, <3>1 DEF StayInv, NotesStay, NotAdding
  <2>2. CASE adding[t].doomed # {}
    <3>1. PICK id : /\ notes' = {n \in notes : n.id # id} /\ id = Min(adding[t].doomed)
                    /\ adding' = [adding EXCEPT ![t].doomed = @ \ {id}]
      BY <1>9, <2>2 DEF DeleteNote
    <3>2. adding'[t].doomed = adding[t].doomed \ {id} /\ adding'[t].does = "delete"
      BY <1>1, <1>9, <3>1 DEF DeleteNote, NotesTypeOK
    <3>3. id \in adding[t].doomed
      <4>1. adding[t].doomed \in SUBSET Nat
        BY <1>1 DEF NotesTypeOK
      <4> QED
        BY <2>2, <3>1, <4>1, LeastNatural DEF Min
    <3>4. Undoomed(t)' = Undoomed(t)
      BY <3>1, <3>2, <3>3 DEF Undoomed
    <3>5. IsFiniteSet(notes') /\ Cardinality(notes') \in Nat /\ Undoomed(t) \subseteq notes'
      <4>1. notes' \subseteq notes
        BY <3>1
      <4> QED
        BY <1>1, <3>4, <4>1, FS_Subset, FS_CardinalityType DEF Undoomed
    <3>6. Cardinality(Undoomed(t)) <= Cardinality(notes') /\ Cardinality(Undoomed(t)) \in Nat
      BY <3>5, FS_Subset, FS_CardinalityType
    <3>7. ~crossedAdds => Cardinality(Undoomed(t)) >= MaxNotes
      BY <1>9 DEF StayInv, DeleteNote
    <3>8. ~crossedAdds => Cardinality(notes') + takenAway >= MaxNotes
      BY <1>1, <1>5, <3>5, <3>6, <3>7
    <3> QED
      BY <1>2, <1>5, <1>6, <3>2, <3>4, <3>7, <3>8 DEF StayInv, NotesStay, NotAdding
  <2> QED
    BY <2>1, <2>2
<1> QED
  BY <1>7, <1>8, <1>9

LEMMA RemoveStays ==
  ASSUME NotesAssumption, NotesInv, StayInv, NEW id, RemoveNote(id)
  PROVE  StayInv'
<1>1. NotesTypeOK /\ MaxNotes \in Nat /\ IsFiniteSet(notes) /\ Cardinality(notes) \in Nat
      /\ written \in Nat
  BY FS_CardinalityType DEF NotesInv, NotesTypeOK, NotesAssumption
<1>2. /\ notes' = {n \in notes : n.id # id} /\ UNCHANGED <<written, adding>>
      /\ takenAway' = takenAway + (IF \E n \in notes : n.id = id THEN 1 ELSE 0)
      /\ crossedAdds' = (crossedAdds \/ SomeAdds)
  BY DEF RemoveNote
<1>3. takenAway \in Nat /\ takenAway' \in Nat /\ crossedAdds' \in BOOLEAN
  BY <1>2 DEF StayInv
<1>4. Cardinality(notes') \in Nat /\ Cardinality(notes') + takenAway' >= Cardinality(notes) + takenAway
  <2>1. CASE \E n \in notes : n.id = id
    <3>1. PICK n \in notes : n.id = id
      BY <2>1
    <3>2. notes' = notes \ {n}
      BY <1>1, <1>2, <3>1 DEF NotesTypeOK
    <3>3. Cardinality(notes') = Cardinality(notes) - 1 /\ Cardinality(notes') \in Nat
      BY <1>1, <3>2, FS_RemoveElement, FS_CardinalityType
    <3>4. takenAway' = takenAway + 1
      BY <1>2, <2>1
    <3> QED
      BY <1>1, <1>3, <3>3, <3>4
  <2>2. CASE ~ \E n \in notes : n.id = id
    <3>1. notes' = notes /\ takenAway' = takenAway
      BY <1>2, <1>3, <2>2
    <3> QED
      BY <1>1, <1>3, <3>1
  <2> QED
    BY <2>1, <2>2
<1>5. ASSUME ~crossedAdds'
      PROVE  /\ \/ Cardinality(notes') + takenAway' >= written
                \/ Cardinality(notes') + takenAway' >= MaxNotes
             /\ \A u \in Threads : adding'[u] = NotAdding
  <2>1. ~crossedAdds /\ \A u \in Threads : adding[u] = NotAdding
    BY <1>2, <1>5 DEF SomeAdds
  <2>2. \/ Cardinality(notes) + takenAway >= written
        \/ Cardinality(notes) + takenAway >= MaxNotes
    BY <2>1 DEF StayInv, NotesStay
  <2> QED
    BY <1>1, <1>2, <1>3, <1>4, <2>1, <2>2
<1> QED
  BY <1>2, <1>3, <1>5 DEF StayInv, NotesStay, NotAdding

LEMMA NotesStayStep ==
  NotesAssumption /\ NotesInv /\ StayInv /\ [NotesNext]_noteVars => StayInv'
<1> SUFFICES ASSUME NotesAssumption, NotesInv, StayInv, [NotesNext]_noteVars PROVE StayInv'
  OBVIOUS
<1>1. CASE UNCHANGED <<notes, written, adding, takenAway, crossedAdds>>
  BY <1>1 DEF StayInv, NotesStay, Undoomed
<1>2. ASSUME NEW t \in Threads, CountNotes(t) \/ SelectNotes(t) \/ DeleteNote(t) PROVE StayInv'
  BY <1>2, AddStays
<1>3. ASSUME NEW t \in Threads, NEW a \in Topics, NoteDown(t, a) PROVE StayInv'
  BY <1>3, InsertStays DEF NoteDown
<1>4. ASSUME NEW a \in Topics, NEW p \in {1, 3}, KeepNote(a, p) PROVE StayInv'
  <2>1. CASE InsertNote(Keeper, p, a)
    <3>1. Keeper \in Threads /\ p \in Nat
      BY <1>4 DEF Threads
    <3> QED
      BY <2>1, <3>1, InsertStays
  <2>2. CASE UNCHANGED <<notes, written, adding, voiceOnly, stops, noteHistory>>
    BY <1>1, <2>2 DEF noteHistory
  <2> QED
    BY <1>4, <2>1, <2>2 DEF KeepNote
<1>5. ASSUME NEW id, RemoveNote(id) PROVE StayInv'
  BY <1>5, RemoveStays
<1>6. ASSUME NEW hasSeed, Reboot(hasSeed) PROVE StayInv'
  <2>1. UNCHANGED <<notes, written, takenAway, crossedAdds>>
        /\ adding' = [t \in Threads |-> NotAdding]
    BY <1>6 DEF Reboot
  <2> QED
    BY <2>1 DEF StayInv, NotesStay, NotAdding
<1>7. CASE ReadNotes \/ Kept \/ AskVoice \/ UNCHANGED noteVars
  BY <1>1, <1>7 DEF ReadNotes, Kept, AskVoice, noteVars, noteHistory
<1>8. ASSUME NEW removes, NEW adds, NotesReply(removes, adds) PROVE StayInv'
  BY <1>1, <1>8 DEF NotesReply, noteHistory
<1>9. ASSUME NEW text, Speak(text) PROVE StayInv'
  BY <1>1, <1>9 DEF Speak, noteHistory
<1>10. ASSUME NEW changes, VoiceReply(changes) PROVE StayInv'
  BY <1>1, <1>10 DEF VoiceReply, noteHistory
<1> QED
  BY <1>2, <1>3, <1>4, <1>5, <1>6, <1>7, <1>8, <1>9, <1>10 DEF NotesNext

-----------------------------------------------------------------------------
(* What is derived from the memories                                        *)

ViewsTypeOK ==
    /\ tierOf \in [Records -> {"none", "durable", "weak"}]
    /\ unindexed \in [Inserters -> Nat]
    /\ rebuild \in [phase : {"start", "durable", "weak", "done", "skipped"}, todo : SUBSET Records]
    /\ narrated \in [Records -> Nat] /\ noted \in [Records -> Nat]
    /\ journalSeen \in Nat /\ actorSeen \in Nat /\ bornAfter \in Nat /\ badPolls \in Nat

\* Memories that are in the index, were tried, or are about to be indexed by the thread that
\* inserted them; those of a table that was read are among them, or still to do.
Covered == vectors \cup unembedded \cup {unindexed[t] : t \in Inserters}
IndexOK ==
    /\ rebuild.phase = "durable" => OfTier("durable") \subseteq Covered \cup rebuild.todo
    /\ rebuild.phase \in {"weak", "done"} =>
          Present \ softDeleted \subseteq Covered \cup rebuild.todo
    /\ rebuild.phase = "done" => rebuild.todo = {}

\* What was told or noted is no newer than what was seen, but for polls that broke off.
SeenOK ==
    /\ journalSeen <= Latest /\ actorSeen <= Latest
    /\ \A m \in Records :
          /\ tierOf[m] = "none" => narrated[m] = 0 /\ noted[m] = 0
          /\ m > journalSeen => narrated[m] <= badPolls
          /\ m > actorSeen => noted[m] = 0
ViewsInv == ViewsTypeOK /\ IndexOK /\ SeenOK /\ JournalIsComplete /\ ActsOnce

LEMMA GreatestRecord ==
  ASSUME ViewsAssumption, NEW S, S # {}, S \subseteq Records
  PROVE  /\ Max(S) \in S /\ Max(S) \in Nat
         /\ \A m \in S : m \in Nat /\ m <= Max(S)
<1>1. Records \subseteq Nat
  BY DEF Records
<1>2. IsFiniteSet(Records)
  <2>1. MaxRecords \in Int
    BY DEF ViewsAssumption
  <2> QED
    BY <2>1, FS_Interval DEF Records
<1>3. IsFiniteSet(S)
  BY <1>2, FS_Subset
<1> QED
  BY <1>1, <1>3, GreatestNatural

LEMMA LatestIsLatest ==
  ASSUME ViewsAssumption
  PROVE  Latest \in Nat /\ \A m \in Present : m \in Nat /\ m <= Latest
<1>1. Present \subseteq Records
  BY DEF Present
<1>2. CASE Present = {}
  BY <1>2 DEF Latest
<1>3. CASE Present # {}
  BY <1>1, <1>3, GreatestRecord DEF Latest
<1> QED
  BY <1>2, <1>3

LEMMA TiersArePresent ==
  ASSUME ViewsAssumption, ViewsTypeOK, NEW m \in OfTier("durable") \cup OfTier("weak")
  PROVE  m \in Records /\ m \in Nat /\ m \in Present /\ m <= Latest /\ tierOf[m] # "none"
<1>1. m \in Records /\ tierOf[m] # "none" /\ m \in Present
  BY DEF OfTier, Present
<1> QED
  BY <1>1, LatestIsLatest

LEMMA GreatestOf ==
  ASSUME ViewsAssumption, ViewsTypeOK, NEW S, S # {}, S \subseteq OfTier("durable")
  PROVE  Max(S) \in S /\ Max(S) \in Nat /\ Max(S) <= Latest /\ \A m \in S : m <= Max(S)
<1>1. S \subseteq Records
  BY DEF OfTier
<1> QED
  BY <1>1, GreatestRecord, TiersArePresent

LEMMA ViewsInitially == ViewsAssumption /\ ViewsInit => ViewsInv
<1> SUFFICES ASSUME ViewsAssumption, ViewsInit PROVE ViewsInv
  OBVIOUS
<1>1. ViewsTypeOK
  BY DEF ViewsInit, ViewsTypeOK, Rebuilding
<1>2. Present = {}
  BY DEF ViewsInit, Present, OfTier
<1>3. IndexOK
  BY DEF ViewsInit, IndexOK, Rebuilding
<1>4. SeenOK
  BY <1>2 DEF ViewsInit, SeenOK, Latest
<1>5. JournalIsComplete /\ ActsOnce
  BY DEF ViewsInit, JournalIsComplete, ActsOnce, OfTier
<1> QED
  BY <1>1, <1>3, <1>4, <1>5 DEF ViewsInv

LEMMA InsertRecordKeeps ==
  ASSUME ViewsAssumption, ViewsInv, NEW t \in Inserters, NEW tier \in {"durable", "weak"},
         InsertRecord(t, tier)
  PROVE  ViewsInv'
<1>1. PICK n : n = Latest + 1
  OBVIOUS
<1>2. /\ unindexed[t] = 0 /\ Latest < MaxRecords
      /\ tierOf' = [tierOf EXCEPT ![n] = tier] /\ unindexed' = [unindexed EXCEPT ![t] = n]
      /\ UNCHANGED <<replaced, softDeleted, vectors, unembedded, rebuild, narrated, journalSeen,
                     badPolls, noted, actorSeen, acted, bornAfter>>
  BY <1>1 DEF InsertRecord, journalVars, actorVars
<1>3. ViewsTypeOK /\ IndexOK /\ SeenOK /\ JournalIsComplete /\ ActsOnce
  BY DEF ViewsInv
<1>4. Latest \in Nat /\ \A m \in Present : m \in Nat /\ m <= Latest
  BY <1>3, LatestIsLatest
<1>5. n \in Records /\ n \in Nat /\ n > Latest
  BY <1>1, <1>2, <1>4 DEF Records, ViewsAssumption
<1>6. \A m \in Records : tierOf'[m] = IF m = n THEN tier ELSE tierOf[m]
  BY <1>2, <1>3 DEF ViewsTypeOK
<1>7. ViewsTypeOK'
  BY <1>2, <1>3, <1>5 DEF ViewsTypeOK
<1>8. Present' = Present \cup {n} /\ OfTier("durable")' \subseteq OfTier("durable") \cup {n}
  BY <1>5, <1>6 DEF Present, OfTier
<1>9. Covered \subseteq Covered' \cup {0} /\ n \in Covered'
  <2>1. \A u \in Inserters : unindexed'[u] = IF u = t THEN n ELSE unindexed[u]
    BY <1>2, <1>3 DEF ViewsTypeOK
  <2> QED
    BY <1>2, <2>1 DEF Covered
<1>10. IndexOK'
  <2>1. 0 \notin Records
    BY DEF Records
  <2>2. OfTier("durable") \subseteq Records /\ Present \subseteq Records
    BY DEF OfTier, Present
  <2> QED
    BY <1>2, <1>3, <1>8, <1>9, <2>1, <2>2 DEF IndexOK
<1>11. Latest' \in Nat /\ \A m \in Present' : m <= Latest'
  <2>1. Present' \subseteq Records /\ Present' # {}
    BY <1>5, <1>8 DEF Present
  <2>2. Latest' = Max(Present')
    BY <2>1 DEF Latest
  <2> QED
    BY <2>1, <2>2, GreatestRecord
<1>12. Latest <= Latest'
  BY <1>4, <1>5, <1>8, <1>11
<1>13. /\ journalSeen \in Nat /\ actorSeen \in Nat
       /\ journalSeen <= Latest /\ actorSeen <= Latest
  BY <1>3 DEF ViewsTypeOK, SeenOK
<1>14. SeenOK'
  <2>1. journalSeen <= Latest' /\ actorSeen <= Latest'
    BY <1>4, <1>11, <1>12, <1>13
  <2> QED
    BY <1>2, <1>3, <1>6, <2>1 DEF SeenOK
<1>15. n > journalSeen /\ n > actorSeen
  BY <1>4, <1>5, <1>13
<1>16. ~ (n <= journalSeen) /\ ~ (n <= actorSeen)
  BY <1>5, <1>13, <1>15
<1>17. JournalIsComplete' /\ ActsOnce'
  <2>1. JournalIsComplete'
    BY <1>2, <1>3, <1>8, <1>16 DEF JournalIsComplete
  <2>2. ActsOnce'
    BY <1>2, <1>3, <1>8, <1>16 DEF ActsOnce
  <2> QED
    BY <2>1, <2>2
<1> QED
  BY <1>7, <1>10, <1>14, <1>17 DEF ViewsInv

\* Where the rows stay, and what was told and noted.
LEMMA IndexingKeeps ==
  ASSUME ViewsAssumption, ViewsInv, UNCHANGED <<rowVars, journalVars, actorVars, bornAfter>>,
         unindexed' \in [Inserters -> Nat],
         rebuild' \in [phase : {"start", "durable", "weak", "done", "skipped"}, todo : SUBSET Records],
         IndexOK'
  PROVE  ViewsInv'
<1>1. UNCHANGED <<tierOf, replaced, softDeleted, narrated, journalSeen, badPolls, noted, actorSeen,
                  acted, bornAfter>>
  BY DEF rowVars, journalVars, actorVars
<1>2. ViewsTypeOK /\ SeenOK /\ JournalIsComplete /\ ActsOnce
  BY DEF ViewsInv
<1>3. ViewsTypeOK'
  BY <1>1, <1>2 DEF ViewsTypeOK
<1>4. Latest' = Latest /\ OfTier("durable")' = OfTier("durable")
  BY <1>1 DEF Latest, Present, OfTier
<1>5. SeenOK'
  BY <1>1, <1>2, <1>4 DEF SeenOK
<1>6. JournalIsComplete' /\ ActsOnce'
  BY <1>1, <1>2, <1>4 DEF JournalIsComplete, ActsOnce
<1> QED
  BY <1>3, <1>5, <1>6 DEF ViewsInv

LEMMA IndexRecordKeeps ==
  ASSUME ViewsAssumption, ViewsInv, NEW t \in Inserters, NEW ok \in BOOLEAN, IndexRecord(t, ok)
  PROVE  ViewsInv'
<1>1. /\ unindexed' = [unindexed EXCEPT ![t] = 0] /\ rebuild' = rebuild
      /\ vectors \cup unembedded \cup {unindexed[t]} \subseteq vectors' \cup unembedded'
      /\ UNCHANGED <<rowVars, journalVars, actorVars, bornAfter>>
  BY DEF IndexRecord, Embedded
<1>2. ViewsTypeOK /\ IndexOK
  BY DEF ViewsInv
<1>3. \A u \in Inserters : unindexed'[u] = IF u = t THEN 0 ELSE unindexed[u]
  BY <1>1, <1>2 DEF ViewsTypeOK
<1>4. Covered \subseteq Covered'
  BY <1>1, <1>3 DEF Covered
<1>5. IndexOK'
  BY <1>1, <1>2, <1>4 DEF IndexOK, rowVars, Present, OfTier
<1>6. unindexed' \in [Inserters -> Nat] /\ rebuild' \in [phase : {"start", "durable", "weak", "done", "skipped"}, todo : SUBSET Records]
  BY <1>1, <1>2 DEF ViewsTypeOK
<1> QED
  BY <1>1, <1>5, <1>6, IndexingKeeps

LEMMA ReadTableKeeps ==
  ASSUME ViewsAssumption, ViewsInv, ReadTable
  PROVE  ViewsInv'
<1>1. /\ rebuild.todo = {} /\ rebuild.phase \notin {"done", "skipped"}
      /\ UNCHANGED <<rowVars, unindexed, vectors, unembedded, journalVars, actorVars, bornAfter>>
  BY DEF ReadTable
<1>2. ViewsTypeOK /\ IndexOK /\ rebuild.phase \in {"start", "durable", "weak", "done", "skipped"}
  BY DEF ViewsInv, ViewsTypeOK
<1>3. OfTier("durable") \subseteq Records /\ OfTier("weak") \subseteq Records
      /\ Present \subseteq OfTier("durable") \cup OfTier("weak")
  BY <1>2 DEF OfTier, Present, ViewsTypeOK
<1>4. Covered' = Covered /\ OfTier("durable")' = OfTier("durable") /\ Present' = Present
      /\ softDeleted' = softDeleted
  BY <1>1 DEF Covered, OfTier, Present, rowVars
<1>5. CASE rebuild.phase = "start"
  <2>1. rebuild' = [phase |-> "durable", todo |-> OfTier("durable")]
    BY <1>1, <1>5 DEF ReadTable
  <2>2. rebuild'.phase = "durable" /\ rebuild'.todo = OfTier("durable")
    BY <2>1
  <2>3. IndexOK'
    BY <1>4, <2>2 DEF IndexOK
  <2>4. unindexed' \in [Inserters -> Nat] /\ rebuild' \in [phase : {"start", "durable", "weak", "done", "skipped"}, todo : SUBSET Records]
    BY <1>1, <1>2, <1>3, <2>1 DEF ViewsTypeOK
  <2> QED
    BY <1>1, <2>3, <2>4, IndexingKeeps
<1>6. CASE rebuild.phase = "durable"
  <2>1. rebuild' = [phase |-> "weak", todo |-> OfTier("weak") \ softDeleted]
    BY <1>1, <1>6 DEF ReadTable
  <2>2. rebuild'.phase = "weak" /\ rebuild'.todo = OfTier("weak") \ softDeleted
    BY <2>1
  <2>3. IndexOK'
    BY <1>1, <1>2, <1>3, <1>4, <1>6, <2>2 DEF IndexOK
  <2>4. unindexed' \in [Inserters -> Nat] /\ rebuild' \in [phase : {"start", "durable", "weak", "done", "skipped"}, todo : SUBSET Records]
    BY <1>1, <1>2, <1>3, <2>1 DEF ViewsTypeOK
  <2> QED
    BY <1>1, <2>3, <2>4, IndexingKeeps
<1>7. CASE rebuild.phase = "weak"
  <2>1. rebuild' = [phase |-> "done", todo |-> {}]
    BY <1>1, <1>7 DEF ReadTable, Rebuilding
  <2>2. rebuild'.phase = "done" /\ rebuild'.todo = {}
    BY <2>1
  <2>3. IndexOK'
    BY <1>1, <1>2, <1>4, <1>7, <2>2 DEF IndexOK
  <2>4. unindexed' \in [Inserters -> Nat] /\ rebuild' \in [phase : {"start", "durable", "weak", "done", "skipped"}, todo : SUBSET Records]
    BY <1>1, <1>2, <2>1 DEF ViewsTypeOK
  <2> QED
    BY <1>1, <2>3, <2>4, IndexingKeeps
<1> QED
  BY <1>1, <1>2, <1>5, <1>6, <1>7

LEMMA IndexAgainKeeps ==
  ASSUME ViewsAssumption, ViewsInv, NEW ok \in BOOLEAN, IndexAgain(ok)
  PROVE  ViewsInv'
<1>1. PICK m : m = Max(rebuild.todo)
  OBVIOUS
<1>2. /\ rebuild.todo # {} /\ rebuild' = [rebuild EXCEPT !.todo = @ \ {m}]
      /\ vectors \cup unembedded \cup {m} \subseteq vectors' \cup unembedded'
      /\ UNCHANGED <<rowVars, unindexed, journalVars, actorVars, bornAfter>>
  BY <1>1 DEF IndexAgain, Embedded
<1>3. ViewsTypeOK /\ IndexOK
  BY DEF ViewsInv
<1>4. /\ rebuild'.phase = rebuild.phase /\ rebuild'.todo = rebuild.todo \ {m}
      /\ rebuild' \in [phase : {"start", "durable", "weak", "done", "skipped"}, todo : SUBSET Records]
  BY <1>2, <1>3 DEF ViewsTypeOK
<1>5. Covered \cup {m} \subseteq Covered'
  BY <1>2 DEF Covered
<1>6. IndexOK'
  BY <1>2, <1>3, <1>4, <1>5 DEF IndexOK, rowVars, Present, OfTier
<1>7. unindexed' \in [Inserters -> Nat]
  BY <1>2, <1>3 DEF ViewsTypeOK
<1> QED
  BY <1>2, <1>4, <1>6, <1>7, IndexingKeeps

LEMMA RowsChangeKeeps ==
  ASSUME ViewsAssumption, ViewsInv, NEW m \in Records, Replace(m) \/ SoftDelete(m)
  PROVE  ViewsInv'
<1>1. /\ replaced \subseteq replaced' /\ softDeleted \subseteq softDeleted'
      /\ UNCHANGED <<tierOf, unindexed, vectors, unembedded, rebuild, narrated, journalSeen, badPolls,
                     noted, actorSeen, acted, bornAfter>>
  BY DEF Replace, SoftDelete, indexVars, journalVars, actorVars
<1>2. ViewsTypeOK /\ IndexOK /\ SeenOK /\ JournalIsComplete /\ ActsOnce
  BY DEF ViewsInv
<1>3. Latest' = Latest /\ OfTier("durable")' = OfTier("durable") /\ Present' = Present
      /\ Covered' = Covered
  BY <1>1 DEF Latest, Present, OfTier, Covered
<1>4. ViewsTypeOK'
  BY <1>1, <1>2 DEF ViewsTypeOK
<1>5. IndexOK'
  BY <1>1, <1>2, <1>3 DEF IndexOK
<1>6. SeenOK'
  BY <1>1, <1>2, <1>3 DEF SeenOK
<1>7. JournalIsComplete' /\ ActsOnce'
  BY <1>1, <1>2, <1>3 DEF JournalIsComplete, ActsOnce
<1> QED
  BY <1>4, <1>5, <1>6, <1>7 DEF ViewsInv

LEMMA JournalKeeps ==
  ASSUME ViewsAssumption, ViewsInv, PollJournal \/ \E last \in Records : PollBreaksOff(last)
  PROVE  ViewsInv'
<1>1. ViewsTypeOK /\ IndexOK /\ SeenOK /\ JournalIsComplete /\ ActsOnce
  BY DEF ViewsInv
<1>2. /\ UNCHANGED <<tierOf, replaced, softDeleted, unindexed, vectors, unembedded, rebuild,
                     noted, actorSeen, acted, bornAfter>>
  BY DEF PollJournal, PollBreaksOff, rowVars, indexVars, actorVars
<1>3. Latest' = Latest /\ OfTier("durable")' = OfTier("durable") /\ Present' = Present
      /\ Covered' = Covered
  BY <1>2 DEF Latest, Present, OfTier, Covered
<1>4. IndexOK'
  BY <1>1, <1>2, <1>3 DEF IndexOK
<1>5. ActsOnce'
  BY <1>1, <1>2, <1>3 DEF ActsOnce
<1>6. \A m \in Records : narrated[m] \in Nat /\ m \in Nat
  BY <1>1 DEF ViewsTypeOK, Records
<1>7. badPolls \in Nat /\ journalSeen \in Nat /\ journalSeen <= Latest
  BY <1>1 DEF ViewsTypeOK, SeenOK
<1>8. \A m \in Newer : m \in Records /\ m > journalSeen /\ tierOf[m] # "none"
  BY DEF Newer, OfTier
<1>9. CASE PollJournal
  <2>1. /\ narrated' = [m \in Records |-> narrated[m] + (IF m \in Newer THEN 1 ELSE 0)]
        /\ journalSeen' = Max(Newer) /\ badPolls' = badPolls /\ Newer # {}
    BY <1>9 DEF PollJournal
  <2>2. /\ Max(Newer) \in Newer /\ Max(Newer) \in Nat /\ Max(Newer) <= Latest
        /\ \A m \in Newer : m <= Max(Newer)
    BY <1>1, <2>1, GreatestOf DEF Newer
  <2>3. \A m \in Records : narrated'[m] = IF m \in Newer THEN narrated[m] + 1 ELSE narrated[m]
    BY <1>6, <2>1
  <2>4. ViewsTypeOK'
    BY <1>1, <1>2, <1>6, <2>1, <2>2, <2>3 DEF ViewsTypeOK
  <2>5. Max(Newer) > journalSeen
    BY <1>8, <2>2
  <2>6. ASSUME NEW m \in Records
        PROVE  /\ tierOf[m] = "none" => narrated'[m] = 0
               /\ m > journalSeen' => narrated'[m] <= badPolls
               /\ narrated'[m] <= 1 + badPolls
    <3>1. CASE m \in Newer
      <4>1. narrated[m] <= badPolls
        BY <1>1, <1>8, <3>1 DEF SeenOK
      <4>2. ~ (m > journalSeen')
        BY <1>6, <2>1, <2>2, <3>1
      <4> QED
        BY <1>6, <1>7, <1>8, <2>3, <3>1, <4>1, <4>2
    <3>2. CASE m \notin Newer
      <4>1. m > journalSeen' => m > journalSeen
        BY <1>6, <1>7, <2>1, <2>2, <2>5
      <4> QED
        BY <1>1, <2>3, <3>2, <4>1 DEF SeenOK, JournalIsComplete
    <3> QED
      BY <3>1, <3>2
  <2>7. SeenOK'
    BY <1>1, <1>2, <1>3, <2>1, <2>2, <2>6 DEF SeenOK
  <2>8. JournalIsComplete'
    <3>1. ASSUME NEW m \in OfTier("durable"), bornAfter < m PROVE narrated'[m] > 0
                 \/ ~ (m <= journalSeen')
      <4>1. m \in Records
        BY DEF OfTier
      <4>2. CASE m \in Newer
        BY <1>6, <2>3, <4>1, <4>2
      <4>3. CASE m \notin Newer
        <5>1. m <= journalSeen
          BY <1>6, <1>7, <4>1, <4>3 DEF Newer
        <5> QED
          BY <1>1, <2>3, <3>1, <4>1, <4>3, <5>1 DEF JournalIsComplete
      <4> QED
        BY <4>2, <4>3
    <3> QED
      BY <1>2, <1>3, <2>1, <2>6, <3>1 DEF JournalIsComplete
  <2> QED
    BY <1>4, <1>5, <2>4, <2>7, <2>8 DEF ViewsInv
<1>10. ASSUME NEW last \in Records, PollBreaksOff(last) PROVE ViewsInv'
  <2>1. /\ narrated' = [m \in Records |->
                          narrated[m] + (IF m \in Newer /\ m <= last THEN 1 ELSE 0)]
        /\ badPolls' = badPolls + 1 /\ journalSeen' = journalSeen
    BY <1>10 DEF PollBreaksOff
  <2>2. \A m \in Records : /\ narrated'[m] \in {narrated[m], narrated[m] + 1}
                           /\ m \notin Newer => narrated'[m] = narrated[m]
    BY <1>6, <2>1
  <2>3. ViewsTypeOK'
    BY <1>1, <1>2, <1>6, <1>7, <2>1 DEF ViewsTypeOK
  <2>4. ASSUME NEW m \in Records
        PROVE  /\ tierOf[m] = "none" => narrated'[m] = 0
               /\ m > journalSeen => narrated'[m] <= badPolls + 1
               /\ narrated'[m] <= 1 + (badPolls + 1)
    BY <1>1, <1>6, <1>7, <1>8, <2>2 DEF SeenOK, JournalIsComplete
  <2>5. SeenOK'
    BY <1>1, <1>2, <1>3, <2>1, <2>4 DEF SeenOK
  <2>6. JournalIsComplete'
    <3>1. ASSUME NEW m \in OfTier("durable"), bornAfter < m, m <= journalSeen
          PROVE  narrated'[m] > 0
      <4>1. m \in Records /\ narrated[m] > 0
        BY <1>1, <3>1 DEF OfTier, JournalIsComplete
      <4> QED
        BY <1>6, <2>2, <4>1
    <3> QED
      BY <1>2, <1>3, <2>1, <2>4, <3>1 DEF JournalIsComplete
  <2> QED
    BY <1>4, <1>5, <2>3, <2>5, <2>6 DEF ViewsInv
<1> QED
  BY <1>9, <1>10

LEMMA ActorKeeps ==
  ASSUME ViewsAssumption, ViewsInv, NEW fails, PollActor(fails)
  PROVE  ViewsInv'
<1>1. ViewsTypeOK /\ IndexOK /\ SeenOK /\ JournalIsComplete /\ ActsOnce
  BY DEF ViewsInv
<1>2. /\ UNCHANGED <<tierOf, replaced, softDeleted, unindexed, vectors, unembedded, rebuild,
                     narrated, journalSeen, badPolls, bornAfter>>
      /\ noted' = [m \in Records |->
                     noted[m] + (IF m \in (Fresh \ acted) \ fails THEN 1 ELSE 0)]
      /\ acted' = acted \cup Fresh /\ actorSeen' = Max(Fresh) /\ Fresh # {}
  BY DEF PollActor, rowVars, indexVars, journalVars
<1>3. Latest' = Latest /\ OfTier("durable")' = OfTier("durable") /\ Present' = Present
      /\ Covered' = Covered
  BY <1>2 DEF Latest, Present, OfTier, Covered
<1>4. IndexOK'
  BY <1>1, <1>2, <1>3 DEF IndexOK
<1>5. JournalIsComplete'
  BY <1>1, <1>2, <1>3 DEF JournalIsComplete
<1>6. \A m \in Records : noted[m] \in Nat /\ m \in Nat
  BY <1>1 DEF ViewsTypeOK, Records
<1>7. \A m \in Fresh : /\ m \in Records /\ m > actorSeen /\ tierOf[m] # "none" /\ noted[m] = 0
  BY <1>1 DEF Fresh, OfTier, SeenOK
<1>8. /\ Max(Fresh) \in Fresh /\ Max(Fresh) \in Nat /\ Max(Fresh) <= Latest
      /\ \A m \in Fresh : m <= Max(Fresh)
  BY <1>1, <1>2, GreatestOf DEF Fresh
<1>9. \A m \in Records : noted'[m] = noted[m] \/ (m \in Fresh /\ noted'[m] = 1)
  BY <1>2, <1>6, <1>7
<1>10. ViewsTypeOK'
  <2>1. noted' \in [Records -> Nat]
    BY <1>2, <1>6
  <2> QED
    BY <1>1, <1>2, <1>8, <2>1 DEF ViewsTypeOK
<1>11. actorSeen \in Nat /\ Max(Fresh) > actorSeen
  BY <1>1, <1>7, <1>8 DEF ViewsTypeOK
<1>12. SeenOK'
  <2>1. ASSUME NEW m \in Records
        PROVE  /\ tierOf[m] = "none" => noted'[m] = 0
               /\ m > actorSeen' => noted'[m] = 0
    <3>1. CASE m \in Fresh
      BY <1>2, <1>6, <1>7, <1>8, <3>1
    <3>2. CASE m \notin Fresh
      <4>1. m > actorSeen' => m > actorSeen
        BY <1>2, <1>6, <1>8, <1>11
      <4> QED
        BY <1>1, <1>9, <3>2, <4>1 DEF SeenOK
    <3> QED
      BY <3>1, <3>2
  <2> QED
    BY <1>1, <1>2, <1>3, <1>8, <2>1 DEF SeenOK
<1>13. ActsOnce'
  <2>1. \A m \in Records : noted'[m] <= 1
    BY <1>1, <1>9 DEF ActsOnce
  <2>2. ASSUME NEW m \in OfTier("durable") \ replaced, bornAfter < m, m <= actorSeen'
        PROVE  m \in acted'
    <3>1. CASE m \in Fresh
      BY <1>2, <3>1
    <3>2. CASE m \notin Fresh
      <4>1. m \in Records /\ m <= actorSeen
        BY <1>6, <1>11, <3>2 DEF Fresh, OfTier
      <4> QED
        BY <1>1, <1>2, <2>2, <4>1 DEF ActsOnce
    <3> QED
      BY <3>1, <3>2
  <2> QED
    BY <1>2, <1>3, <2>1, <2>2 DEF ActsOnce
<1> QED
  BY <1>4, <1>5, <1>10, <1>12, <1>13 DEF ViewsInv

LEMMA StartAgainKeeps ==
  ASSUME ViewsAssumption, ViewsInv, NEW skips \in BOOLEAN, StartAgain(skips)
  PROVE  ViewsInv'
<1>1. ViewsTypeOK /\ SeenOK /\ JournalIsComplete /\ ActsOnce
  BY DEF ViewsInv
<1>2. /\ unindexed' = [t \in Inserters |-> 0]
      /\ rebuild' = Rebuilding(IF skips THEN "skipped" ELSE "start")
      /\ journalSeen' = Latest /\ actorSeen' = Latest /\ bornAfter' = Latest
      /\ UNCHANGED <<tierOf, replaced, softDeleted, narrated, badPolls, noted>>
  BY DEF StartAgain, rowVars
<1>3. Latest' = Latest /\ OfTier("durable")' = OfTier("durable")
  BY <1>2 DEF Latest, Present, OfTier
<1>4. Latest \in Nat /\ \A m \in Present : m \in Nat /\ m <= Latest
  BY <1>1, LatestIsLatest
<1>5. ViewsTypeOK'
  BY <1>1, <1>2, <1>4 DEF ViewsTypeOK, Rebuilding
<1>6. IndexOK'
  BY <1>2 DEF IndexOK, Rebuilding
<1>7. \A m \in Records : m \in Nat /\ (m > Latest => tierOf[m] = "none")
  <2> SUFFICES ASSUME NEW m \in Records PROVE m \in Nat /\ (m > Latest => tierOf[m] = "none")
    OBVIOUS
  <2>1. m \in Nat
    BY DEF Records
  <2>2. tierOf[m] # "none" => m \in Present
    BY DEF Present, OfTier
  <2> QED
    BY <1>4, <2>1, <2>2
<1>8. SeenOK'
  <2>1. badPolls \in Nat
    BY <1>1 DEF ViewsTypeOK
  <2>2. \A m \in Records : /\ tierOf[m] = "none" => narrated[m] = 0 /\ noted[m] = 0
                           /\ m > Latest => narrated[m] <= badPolls /\ noted[m] = 0
    BY <1>1, <1>7, <2>1 DEF SeenOK
  <2>3. Latest <= Latest
    BY <1>4
  <2> QED
    BY <1>2, <1>3, <2>2, <2>3 DEF SeenOK
<1>9. \A m \in OfTier("durable") : ~ (Latest < m)
  <2> SUFFICES ASSUME NEW m \in OfTier("durable"), Latest < m PROVE FALSE
    OBVIOUS
  <2>1. m \in Nat /\ m <= Latest
    BY <1>1, TiersArePresent
  <2> QED
    BY <1>4, <2>1
<1>10. JournalIsComplete' /\ ActsOnce'
  BY <1>1, <1>2, <1>3, <1>9 DEF JournalIsComplete, ActsOnce
<1> QED
  BY <1>5, <1>6, <1>8, <1>10 DEF ViewsInv

LEMMA ViewsStep == ViewsAssumption /\ ViewsInv /\ [ViewsNext]_viewVars => ViewsInv'
<1> SUFFICES ASSUME ViewsAssumption, ViewsInv, [ViewsNext]_viewVars PROVE ViewsInv'
  OBVIOUS
<1>1. ASSUME NEW t \in Inserters, NEW tier \in {"durable", "weak"}, InsertRecord(t, tier)
      PROVE  ViewsInv'
  BY <1>1, InsertRecordKeeps
<1>2. ASSUME NEW ok \in BOOLEAN, IndexAgain(ok) PROVE ViewsInv'
  BY <1>2, IndexAgainKeeps
<1>3. ASSUME NEW ok \in BOOLEAN, NEW t \in Inserters, IndexRecord(t, ok) PROVE ViewsInv'
  BY <1>3, IndexRecordKeeps
<1>4. CASE ReadTable
  BY <1>4, ReadTableKeeps
<1>5. ASSUME NEW m \in Records, Replace(m) \/ SoftDelete(m) PROVE ViewsInv'
  BY <1>5, RowsChangeKeeps
<1>6. CASE PollJournal \/ \E last \in Records : PollBreaksOff(last)
  BY <1>6, JournalKeeps
<1>7. ASSUME NEW fails \in SUBSET Records, PollActor(fails) PROVE ViewsInv'
  BY <1>7, ActorKeeps
<1>8. ASSUME NEW skips \in BOOLEAN, StartAgain(skips) PROVE ViewsInv'
  BY <1>8, StartAgainKeeps
<1>9. CASE UNCHANGED viewVars
  BY <1>9 DEF viewVars, rowVars, indexVars, journalVars, actorVars, ViewsInv, ViewsTypeOK, IndexOK,
              SeenOK, JournalIsComplete, ActsOnce, Latest, Present, OfTier, Covered
<1> QED
  BY <1>1, <1>2, <1>3, <1>4, <1>5, <1>6, <1>7, <1>8, <1>9 DEF ViewsNext

LEMMA ViewsInvHolds == ViewsInv => ViewsFollow
<1> SUFFICES ASSUME ViewsInv, rebuild = Rebuilding("done")
             PROVE  Present \ softDeleted \subseteq Covered
  BY DEF ViewsInv, ViewsFollow, IndexIsComplete, Covered
<1>1. rebuild.phase = "done" /\ rebuild.todo = {}
  BY DEF Rebuilding
<1> QED
  BY <1>1 DEF ViewsInv, IndexOK

-----------------------------------------------------------------------------
(* What a prompt tells                                                      *)

Row == [kind : RowKinds, gone : {"no", "deleted", "superseded"}]
PromptTypeOK ==
    /\ memoryRows \in Seq(Row) /\ Len(memoryRows) <= MaxRows
    /\ found \in [Searches -> SUBSET Nat]
\* Only wisdom is superseded, and no prompt is being made when it is.
FoundOK ==
    /\ \A m \in Replaced : memoryRows[m].kind = "wisdom"
    /\ \A s \in Searches : found[s] \subseteq {0} \cup DOMAIN memoryRows
                           /\ found[s] \cap Replaced = {}
    /\ prompting = "idle" => \A s \in Searches : found[s] = Pending
PromptInv == PromptTypeOK /\ FoundOK /\ RetrievalFits

\* Of a finite set of numbers the newest few are among the newest more.
LEMMA NewestAreNewer ==
  ASSUME NEW S, S \subseteq Nat, IsFiniteSet(S), NEW few \in Nat, NEW more \in Nat, few <= more
  PROVE  Newest(S, few) \subseteq Newest(S, more) /\ Newest(S, more) \subseteq S
<1> SUFFICES ASSUME NEW m \in S, Cardinality({k \in S : k > m}) < few
             PROVE  Cardinality({k \in S : k > m}) < more
  BY DEF Newest
<1>1. IsFiniteSet({k \in S : k > m})
  BY FS_Subset
<1>2. Cardinality({k \in S : k > m}) \in Nat
  BY <1>1, FS_CardinalityType
<1> QED
  BY <1>2

LEMMA FoundAreFinite ==
  ASSUME PromptTypeOK, FoundOK, NEW s \in Searches
  PROVE  found[s] \subseteq Nat /\ IsFiniteSet(found[s])
<1>1. IsFiniteSet({0} \cup DOMAIN memoryRows)
  <2>1. DOMAIN memoryRows = 1 .. Len(memoryRows) /\ Len(memoryRows) \in Nat
    BY DEF PromptTypeOK
  <2>2. 1 \in Int /\ Len(memoryRows) \in Int
    BY <2>1
  <2>3. IsFiniteSet(1 .. Len(memoryRows))
    BY <2>2, FS_Interval
  <2> QED
    BY <2>1, <2>3, FS_Singleton, FS_Union
<1>2. found[s] \subseteq {0} \cup DOMAIN memoryRows
  BY DEF FoundOK
<1> QED
  BY <1>1, <1>2, FS_Subset DEF PromptTypeOK

\* Composed or not, the sections tell apart what the searches found.
LEMMA SectionsAreWhole ==
  ASSUME PromptAssumption, PromptTypeOK, FoundOK
  PROVE  PromptsAreWhole
<1>1. "wisdom" \in Searches
  BY DEF Searches
<1>2. WisdomSection \subseteq SkippedWisdom /\ SkippedWisdom \subseteq found["wisdom"]
  BY <1>1, FoundAreFinite, NewestAreNewer DEF PromptAssumption, WisdomSection, SkippedWisdom
<1>3. ASSUME NEW m \in Shown
      PROVE  Cardinality({s \in {<<1, WisdomSection>>, <<2, DurableSection>>,
                   <<3, RecentSection>>, <<4, CapturedSection>>} : m \in s[2]}) = 1
  <2> DEFINE told == {s \in {<<1, WisdomSection>>, <<2, DurableSection>>,
                             <<3, RecentSection>>, <<4, CapturedSection>>} : m \in s[2]}
  <2>1. \E one : told = {one}
    <3>1. CASE m \in WisdomSection
      <4>1. told = {<<1, WisdomSection>>}
        BY <1>2, <3>1 DEF DurableSection, RecentSection, CapturedSection
      <4> QED
        BY <4>1
    <3>2. CASE m \in DurableSection
      <4>1. told = {<<2, DurableSection>>}
        BY <1>2, <3>2 DEF DurableSection, RecentSection, CapturedSection
      <4> QED
        BY <4>1
    <3>3. CASE m \in RecentSection
      <4>1. told = {<<3, RecentSection>>}
        BY <1>2, <3>3 DEF RecentSection, CapturedSection
      <4> QED
        BY <4>1
    <3>4. CASE m \in CapturedSection
      <4>1. told = {<<4, CapturedSection>>}
        BY <1>2, <3>4 DEF CapturedSection
      <4> QED
        BY <4>1
    <3> QED
      BY <3>1, <3>2, <3>3, <3>4 DEF Shown
  <2> HIDE DEF told
  <2>2. Cardinality(told) = 1
    BY <2>1, FS_Singleton
  <2> QED
    BY <2>2 DEF told
<1>4. Shown \cap Replaced = {}
  <2>1. \A s \in {"wisdom", "durable", "recent", "captured"} : found[s] \cap Replaced = {}
    BY DEF FoundOK, Searches
  <2> QED
    BY <1>2, <2>1 DEF Shown, DurableSection, RecentSection, CapturedSection
<1>5. (found["durable"] \cup found["recent"] \cup found["captured"]) \ Shown
         \subseteq SkippedWisdom \ WisdomSection
  BY DEF Shown, DurableSection, RecentSection, CapturedSection
<1> QED
  BY <1>3, <1>4, <1>5 DEF PromptsAreWhole

-----------------------------------------------------------------------------
(* What fits a budget                                                       *)

LEMMA TokensAreNumbers ==
  ASSUME PromptAssumption, NEW set \in SUBSET (1 .. MaxRows)
  PROVE  /\ TokensOf(set) \in Nat /\ TokensOf({}) = 0
         /\ \A few \in SUBSET set : TokensOf(few) <= TokensOf(set)
<1>1. IsFiniteSet(1 .. MaxRows)
  <2>1. MaxRows \in Int
    BY DEF PromptAssumption
  <2> QED
    BY <2>1, FS_Interval
<1>2. CostOf \in [1 .. MaxRows -> Nat]
  BY DEF PromptAssumption
<1> QED
  BY <1>1, <1>2, SumsAreMonotonic DEF TokensOf

\* What fits is the set from its oldest that fits on.
LEMMA WhatFitsFits ==
  ASSUME PromptAssumption, NEW set \in SUBSET (1 .. MaxRows), NEW room \in Int
  PROVE  /\ FirstFitting(set, room) \subseteq set
         /\ FirstFitting(set, room) # {} => TokensOf(FirstFitting(set, room)) <= room
<1> DEFINE from(m) == {k \in set : k >= m}
           fits == {m \in set : TokensOf(from(m)) <= room}
<1>0. set \subseteq Nat
  BY DEF PromptAssumption
<1>1. FirstFitting(set, room) = fits
  BY DEF FirstFitting
<1>2. ASSUME fits # {} PROVE TokensOf(fits) <= room
  <2>1. PICK m \in fits : \A k \in fits : m <= k
    <3>1. fits \subseteq Nat
      BY <1>0
    <3> HIDE DEF fits
    <3> QED
      BY <1>2, <3>1, LeastNatural
  <2>2. \A k \in from(m) : TokensOf(from(k)) <= TokensOf(from(m))
    <3> SUFFICES ASSUME NEW k \in from(m) PROVE TokensOf(from(k)) <= TokensOf(from(m))
      OBVIOUS
    <3>1. from(k) \subseteq from(m) /\ from(m) \in SUBSET (1 .. MaxRows)
      <4>1. k \in Nat /\ m \in Nat /\ k >= m
        BY <1>0, <2>1
      <4>2. \A j \in set : j \in Nat /\ (j >= k => j >= m)
        BY <1>0, <4>1
      <4> QED
        BY <4>2
    <3> HIDE DEF from
    <3> QED
      BY <3>1, TokensAreNumbers
  <2>3. \A k \in from(m) : TokensOf(from(k)) \in Nat
    BY TokensAreNumbers
  <2>4. TokensOf(from(m)) \in Nat /\ TokensOf(from(m)) <= room
    BY <2>1, TokensAreNumbers
  <2>5. from(m) \subseteq fits
    <3> SUFFICES ASSUME NEW k \in from(m) PROVE TokensOf(from(k)) <= room
      OBVIOUS
    <3>1. TokensOf(from(k)) \in Nat /\ TokensOf(from(k)) <= TokensOf(from(m))
      BY <2>2, <2>3
    <3> HIDE DEF from
    <3> QED
      BY <2>4, <3>1
  <2>6. fits \subseteq from(m)
    BY <2>1
  <2>7. fits = from(m)
    BY <2>5, <2>6
  <2> HIDE DEF from, fits
  <2> QED
    BY <2>4, <2>7
<1> HIDE DEF fits
<1>3. fits \subseteq set
  BY DEF fits
<1> QED
  BY <1>1, <1>2, <1>3

LEMMA GreaterOfTwo ==
  ASSUME NEW a \in Nat, NEW b \in Nat
  PROVE  Max({a, b}) \in Nat /\ a <= Max({a, b}) /\ b <= Max({a, b})
<1>1. IsFiniteSet({a, b}) /\ {a, b} # {} /\ {a, b} \subseteq Nat
  <2>1. {a, b} = {a} \cup {b}
    OBVIOUS
  <2>2. IsFiniteSet({a}) /\ IsFiniteSet({b})
    BY FS_Singleton
  <2> QED
    BY <2>1, <2>2, FS_Union
<1> QED
  BY <1>1, GreatestNatural

LEMMA NothingFits ==
  ASSUME PromptAssumption, retrieved' = Nothing
  PROVE  RetrievalFits'
<1>1. TokensOf({}) = 0
  BY TokensAreNumbers, {} \in SUBSET (1 .. MaxRows)
<1>2. retrieved'.budget = 0 /\ retrieved'.durable = {} /\ retrieved'.other = {}
  BY DEF Nothing
<1>3. 0 <= Max({0, DurableTokens})
  BY GreaterOfTwo DEF PromptAssumption
<1> QED
  BY <1>1, <1>2, <1>3 DEF RetrievalFits

LEMMA RetrieveFits ==
  ASSUME PromptAssumption, PromptInv, NEW budget \in Budgets, Retrieve(budget)
  PROVE  RetrievalFits'
<1>1. /\ budget \in Nat /\ DurableTokens \in Nat /\ MaxRows \in Nat
      /\ memoryRows \in Seq(Row) /\ Len(memoryRows) <= MaxRows
  BY DEF PromptAssumption, PromptInv, PromptTypeOK
<1>2. DOMAIN memoryRows \subseteq 1 .. MaxRows
  BY <1>1
<1>3. PICK all : all = OfKind({"wisdom"}) \ Replaced
  OBVIOUS
<1>4. PICK others : others = OfKind(RowKinds \ {"wisdom"}) \ Deleted
  OBVIOUS
<1>5. PICK durable : durable = FirstFitting(all, DurableTokens)
  OBVIOUS
<1>6. PICK left : left = LeftFor(budget, durable)
  OBVIOUS
<1>7. PICK other : other = FirstFitting(others, left)
  OBVIOUS
<1>8. retrieved' = [budget |-> budget, durable |-> durable, other |-> other]
  BY <1>3, <1>4, <1>5, <1>6, <1>7 DEF Retrieve
<1>9. retrieved'.budget = budget /\ retrieved'.durable = durable /\ retrieved'.other = other
  BY <1>8
<1>10. all \in SUBSET (1 .. MaxRows) /\ others \in SUBSET (1 .. MaxRows)
  BY <1>2, <1>3, <1>4 DEF OfKind
<1>11. durable \in SUBSET (1 .. MaxRows) /\ (durable # {} => TokensOf(durable) <= DurableTokens)
  <2>1. DurableTokens \in Int
    BY <1>1
  <2> QED
    BY <1>5, <1>10, <2>1, WhatFitsFits
<1>12. TokensOf(durable) \in Nat /\ TokensOf({}) = 0
  BY <1>11, TokensAreNumbers
<1>13. left = budget - TokensOf(durable) /\ left \in Int
  BY <1>1, <1>6, <1>12 DEF LeftFor
<1>14. other \in SUBSET (1 .. MaxRows) /\ (other # {} => TokensOf(other) <= left)
  BY <1>7, <1>10, <1>13, WhatFitsFits
<1>15. TokensOf(other) \in Nat
  BY <1>14, TokensAreNumbers
<1>16. /\ Max({budget, DurableTokens}) \in Nat
       /\ budget <= Max({budget, DurableTokens}) /\ DurableTokens <= Max({budget, DurableTokens})
  BY <1>1, GreaterOfTwo
<1>17. TokensOf(durable) <= DurableTokens
  <2>1. CASE durable = {}
    <3>1. TokensOf(durable) = 0
      BY <1>12, <2>1
    <3> QED
      BY <1>1, <3>1
  <2>2. CASE durable # {}
    BY <1>11, <2>2
  <2> QED
    BY <2>1, <2>2
<1>18. other # {} => TokensOf(durable) + TokensOf(other) <= budget
  BY <1>1, <1>12, <1>13, <1>14, <1>15
<1>19. TokensOf(durable) + TokensOf(other) <= Max({budget, DurableTokens})
  <2>1. CASE other = {}
    BY <1>1, <1>12, <1>16, <1>17, <2>1
  <2>2. CASE other # {}
    BY <1>1, <1>12, <1>15, <1>16, <1>18, <2>2
  <2> QED
    BY <2>1, <2>2
<1> QED
  BY <1>9, <1>18, <1>19 DEF RetrievalFits

-----------------------------------------------------------------------------
(* The steps                                                                *)

LEMMA PromptInitially == PromptAssumption /\ PromptInit => PromptInv
<1> SUFFICES ASSUME PromptAssumption, PromptInit PROVE PromptInv
  OBVIOUS
<1>1. memoryRows = <<>> /\ found = [s \in Searches |-> Pending] /\ retrieved = Nothing
  BY DEF PromptInit
<1>2. PromptTypeOK
  BY <1>1 DEF PromptTypeOK, Pending, PromptAssumption
<1>3. FoundOK
  BY <1>1 DEF FoundOK, Replaced, Pending
<1>4. RetrievalFits
  <2>1. TokensOf({}) = 0
    BY TokensAreNumbers, {} \in SUBSET (1 .. MaxRows)
  <2>2. retrieved.budget = 0 /\ retrieved.durable = {} /\ retrieved.other = {}
    BY <1>1 DEF Nothing
  <2>3. 0 <= Max({0, DurableTokens})
    BY GreaterOfTwo DEF PromptAssumption
  <2> QED
    BY <2>1, <2>2, <2>3 DEF RetrievalFits
<1> QED
  BY <1>2, <1>3, <1>4 DEF PromptInv

\* A memory more changes nothing of what was found.
LEMMA RowAdded ==
  ASSUME PromptAssumption, PromptTypeOK, NEW kind \in RowKinds, Len(memoryRows) < MaxRows,
         memoryRows' = Append(memoryRows, [kind |-> kind, gone |-> "no"])
  PROVE  /\ memoryRows' \in Seq(Row) /\ Len(memoryRows') <= MaxRows
         /\ DOMAIN memoryRows \subseteq DOMAIN memoryRows' /\ Replaced' = Replaced
         /\ \A m \in DOMAIN memoryRows : memoryRows'[m] = memoryRows[m]
<1>1. PICK new : new = [kind |-> kind, gone |-> "no"]
  OBVIOUS
<1>2. new \in Row /\ new.gone = "no"
  BY <1>1 DEF Row
<1>3. memoryRows \in Seq(Row)
  BY DEF PromptTypeOK
<1>4. /\ memoryRows' \in Seq(Row) /\ Len(memoryRows') = Len(memoryRows) + 1
      /\ memoryRows'[Len(memoryRows) + 1] = new
      /\ \A m \in 1 .. Len(memoryRows) : memoryRows'[m] = memoryRows[m]
  BY <1>1, <1>2, <1>3, AppendProperties
<1>5. DOMAIN memoryRows = 1 .. Len(memoryRows) /\ DOMAIN memoryRows' = 1 .. (Len(memoryRows) + 1)
      /\ Len(memoryRows) \in Nat
  BY <1>3, <1>4
<1>6. Replaced' = Replaced
  BY <1>2, <1>4, <1>5 DEF Replaced
<1>7. Len(memoryRows') <= MaxRows
  BY <1>4, <1>5 DEF PromptAssumption
<1> QED
  BY <1>4, <1>5, <1>6, <1>7

LEMMA AddRowKeeps ==
  ASSUME PromptAssumption, PromptInv, NEW kind \in RowKinds, AddRow(kind)
  PROVE  PromptInv'
<1>1. /\ Len(memoryRows) < MaxRows /\ retrieved' = Nothing /\ UNCHANGED <<prompting, found>>
      /\ memoryRows' = Append(memoryRows, [kind |-> kind, gone |-> "no"])
  BY DEF AddRow
<1>2. PromptTypeOK /\ FoundOK
  BY DEF PromptInv
<1>3. /\ memoryRows' \in Seq(Row) /\ Len(memoryRows') <= MaxRows
      /\ DOMAIN memoryRows \subseteq DOMAIN memoryRows' /\ Replaced' = Replaced
      /\ \A m \in DOMAIN memoryRows : memoryRows'[m] = memoryRows[m]
  BY <1>1, <1>2, RowAdded
<1>4. PromptTypeOK'
  BY <1>1, <1>2, <1>3 DEF PromptTypeOK
<1>5. FoundOK'
  <2>1. Replaced \subseteq DOMAIN memoryRows
    BY DEF Replaced
  <2> QED
    BY <1>1, <1>2, <1>3, <2>1 DEF FoundOK
<1> QED
  BY <1>1, <1>4, <1>5, NothingFits DEF PromptInv

LEMMA RowGoesKeeps ==
  ASSUME PromptAssumption, PromptInv, NEW m \in DOMAIN memoryRows, RowGoes(m)
  PROVE  PromptInv'
<1>1. PromptTypeOK /\ FoundOK
  BY DEF PromptInv
<1>2. PICK old : old = memoryRows[m]
  OBVIOUS
<1>3. PICK new : new = [old EXCEPT !.gone = IF old.kind = "wisdom" THEN "superseded" ELSE "deleted"]
  OBVIOUS
<1>4. /\ prompting = "idle" /\ memoryRows' = [memoryRows EXCEPT ![m] = new]
      /\ retrieved' = Nothing /\ UNCHANGED <<prompting, found>>
  BY <1>2, <1>3 DEF RowGoes
<1>5. old \in Row
  BY <1>1, <1>2 DEF PromptTypeOK
<1>6. new \in Row /\ new.kind = old.kind /\ (new.gone = "superseded" => old.kind = "wisdom")
  BY <1>3, <1>5 DEF Row
<1>7. /\ memoryRows' \in Seq(Row) /\ Len(memoryRows') = Len(memoryRows)
      /\ DOMAIN memoryRows' = DOMAIN memoryRows
      /\ \A k \in DOMAIN memoryRows : memoryRows'[k] = IF k = m THEN new ELSE memoryRows[k]
  BY <1>1, <1>4, <1>6, ExceptSeq DEF PromptTypeOK
<1>8. PromptTypeOK'
  BY <1>1, <1>4, <1>7 DEF PromptTypeOK
<1>9. \A k \in Replaced' : memoryRows'[k].kind = "wisdom"
  BY <1>1, <1>2, <1>6, <1>7 DEF FoundOK, Replaced
<1>10. FoundOK'
  <2>1. 0 \notin Replaced'
    BY <1>1, <1>7 DEF Replaced, PromptTypeOK
  <2>2. \A s \in Searches : found'[s] = {0}
    BY <1>1, <1>4 DEF FoundOK, Pending
  <2> QED
    BY <1>4, <1>9, <2>1, <2>2 DEF FoundOK, Pending
<1> QED
  BY <1>4, <1>8, <1>10, NothingFits DEF PromptInv

LEMMA StartPromptKeeps ==
  ASSUME PromptAssumption, PromptInv, StartPrompt
  PROVE  PromptInv'
<1>1. PromptTypeOK /\ FoundOK
  BY DEF PromptInv
<1>2. prompting' = "searching" /\ retrieved' = Nothing /\ memoryRows' = memoryRows
      /\ Replaced' = Replaced
  BY DEF StartPrompt, Replaced
<1>3. \A s \in Searches :
         /\ s \in DOMAIN found'
         /\ \/ found'[s] = Pending
            \/ found'[s] = OfKind({"wisdom"}) \ Replaced
            \/ found'[s] = Newest(OfKind({"capture"}) \ Deleted, TopCaptured)
            \/ found'[s] = Newest(OfKind({"read"}) \ Deleted, TopRead)
  <2>1. found' = [s \in Searches |->
          CASE s = "wisdom" -> OfKind({"wisdom"}) \ Replaced
            [] s = "captured" -> Newest(OfKind({"capture"}) \ Deleted, TopCaptured)
            [] s = "read" -> Newest(OfKind({"read"}) \ Deleted, TopRead)
            [] OTHER -> Pending]
    BY DEF StartPrompt
  <2> QED
    BY <2>1
<1>4. \A s \in Searches : found'[s] \subseteq {0} \cup DOMAIN memoryRows /\ found'[s] \cap Replaced = {}
  <2>1. DOMAIN memoryRows \subseteq Nat /\ 0 \notin DOMAIN memoryRows
    BY <1>1 DEF PromptTypeOK
  <2>2. Newest(OfKind({"capture"}) \ Deleted, TopCaptured) \subseteq OfKind({"capture"})
        /\ Newest(OfKind({"read"}) \ Deleted, TopRead) \subseteq OfKind({"read"})
    BY DEF Newest
  <2>3. OfKind({"capture"}) \cap Replaced = {} /\ OfKind({"read"}) \cap Replaced = {}
    BY <1>1 DEF FoundOK, OfKind
  <2>4. 0 \notin Replaced
    BY <2>1 DEF Replaced
  <2>5. OfKind({"wisdom"}) \subseteq DOMAIN memoryRows /\ OfKind({"capture"}) \subseteq DOMAIN memoryRows
        /\ OfKind({"read"}) \subseteq DOMAIN memoryRows
    BY DEF OfKind
  <2> QED
    BY <1>3, <2>2, <2>3, <2>4, <2>5 DEF Pending
<1>5. found' \in [Searches -> SUBSET Nat]
  <2>1. DOMAIN memoryRows \subseteq Nat
    BY <1>1 DEF PromptTypeOK
  <2>2. DOMAIN found' = Searches /\ found' = [s \in Searches |-> found'[s]]
    BY DEF StartPrompt
  <2> QED
    BY <1>4, <2>1, <2>2
<1>6. PromptTypeOK' /\ FoundOK'
  BY <1>1, <1>2, <1>4, <1>5 DEF PromptTypeOK, FoundOK
<1> QED
  BY <1>2, <1>6, NothingFits DEF PromptInv

LEMMA SearchKeeps ==
  ASSUME PromptAssumption, PromptInv, NEW s \in {"durable", "recent"},
         NEW hits \in SUBSET DOMAIN memoryRows, Search(s, hits)
  PROVE  PromptInv'
<1>1. PromptTypeOK /\ FoundOK /\ RetrievalFits
  BY DEF PromptInv
<1>2. /\ prompting = "searching" /\ found' = [found EXCEPT ![s] = hits]
      /\ hits \cap Replaced = {} /\ UNCHANGED <<memoryRows, prompting, retrieved>>
  BY DEF Search, SimilarDurable, SimilarRecent
<1>3. hits \subseteq Nat
  BY <1>1 DEF PromptTypeOK
<1>4. PromptTypeOK'
  BY <1>1, <1>2, <1>3 DEF PromptTypeOK
<1>5. \A r \in Searches : found'[r] = IF r = s THEN hits ELSE found[r]
  BY <1>1, <1>2 DEF PromptTypeOK
<1>6. FoundOK'
  BY <1>1, <1>2, <1>5 DEF FoundOK, Replaced
<1>7. RetrievalFits'
  BY <1>1, <1>2 DEF RetrievalFits
<1> QED
  BY <1>4, <1>6, <1>7 DEF PromptInv

LEMMA AnsweredKeeps ==
  ASSUME PromptAssumption, PromptInv, NEW remember \in BOOLEAN, Answered(remember)
  PROVE  PromptInv'
<1>1. PromptTypeOK /\ FoundOK /\ RetrievalFits
  BY DEF PromptInv
<1>2. prompting' = "idle" /\ found' = [s \in Searches |-> Pending] /\ retrieved' = retrieved
  BY DEF Answered
<1>3. /\ memoryRows' \in Seq(Row) /\ Len(memoryRows') <= MaxRows
      /\ \A m \in Replaced' : memoryRows'[m].kind = "wisdom"
  <2>1. CASE memoryRows' = memoryRows
    BY <1>1, <2>1 DEF PromptTypeOK, FoundOK, Replaced
  <2>2. CASE /\ Len(memoryRows) < MaxRows
             /\ memoryRows' = Append(memoryRows, [kind |-> "capture", gone |-> "no"])
    <3>1. "capture" \in RowKinds
      BY DEF RowKinds
    <3>2. /\ memoryRows' \in Seq(Row) /\ Len(memoryRows') <= MaxRows /\ Replaced' = Replaced
          /\ \A m \in DOMAIN memoryRows : memoryRows'[m] = memoryRows[m]
      BY <1>1, <2>2, <3>1, RowAdded
    <3>3. Replaced \subseteq DOMAIN memoryRows
      BY DEF Replaced
    <3> QED
      BY <1>1, <3>2, <3>3 DEF FoundOK
  <2> QED
    BY <2>1, <2>2 DEF Answered
<1>4. PromptTypeOK'
  BY <1>2, <1>3 DEF PromptTypeOK, Pending
<1>5. FoundOK'
  <2>1. 0 \notin Replaced'
    BY <1>3 DEF Replaced
  <2> QED
    BY <1>2, <1>3, <2>1 DEF FoundOK, Pending
<1>6. RetrievalFits'
  BY <1>1, <1>2 DEF RetrievalFits
<1> QED
  BY <1>4, <1>5, <1>6 DEF PromptInv

LEMMA PromptStep == PromptAssumption /\ PromptInv /\ [PromptNext]_promptVars => PromptInv'
<1> SUFFICES ASSUME PromptAssumption, PromptInv, [PromptNext]_promptVars PROVE PromptInv'
  OBVIOUS
<1>1. ASSUME NEW kind \in RowKinds, AddRow(kind) PROVE PromptInv'
  BY <1>1, AddRowKeeps
<1>2. ASSUME NEW m \in DOMAIN memoryRows, RowGoes(m) PROVE PromptInv'
  BY <1>2, RowGoesKeeps
<1>3. CASE StartPrompt
  BY <1>3, StartPromptKeeps
<1>4. ASSUME NEW s \in {"durable", "recent"}, NEW hits \in SUBSET DOMAIN memoryRows, Search(s, hits)
      PROVE  PromptInv'
  BY <1>4, SearchKeeps
<1>5. CASE Compose
  <2>1. prompting' # "idle" /\ UNCHANGED <<memoryRows, found, retrieved>>
    BY <1>5 DEF Compose
  <2> QED
    BY <2>1 DEF PromptInv, PromptTypeOK, FoundOK, RetrievalFits, Replaced
<1>6. ASSUME NEW remember \in BOOLEAN, Answered(remember) PROVE PromptInv'
  BY <1>6, AnsweredKeeps
<1>7. ASSUME NEW budget \in Budgets, Retrieve(budget) PROVE PromptInv'
  <2>1. UNCHANGED <<memoryRows, prompting, found>>
    BY <1>7 DEF Retrieve
  <2>2. PromptTypeOK' /\ FoundOK'
    BY <2>1 DEF PromptInv, PromptTypeOK, FoundOK, Replaced
  <2> QED
    BY <1>7, <2>2, RetrieveFits DEF PromptInv
<1>8. CASE UNCHANGED promptVars
  BY <1>8 DEF promptVars, PromptInv, PromptTypeOK, FoundOK, RetrievalFits, Replaced
<1> QED
  BY <1>1, <1>2, <1>3, <1>4, <1>5, <1>6, <1>7, <1>8 DEF PromptNext

LEMMA PromptInvHolds == PromptAssumption /\ PromptInv => PromptIsSound
  BY SectionsAreWhole DEF PromptInv, PromptIsSound

-----------------------------------------------------------------------------
(* The parts together                                                       *)

\* What the self knows is sound in the runtime of all parts: an item of a feed is read once;
\* working memory fits, none of it is evicted without need while adds do not cross, and the voice
\* is the self's own; index, journal and actor follow the memories; and a prompt tells what its
\* searches found, once.
THEOREM KnowledgeIsAlwaysSound == TuringSpec => []KnowledgeIsSound
<1> USE NotesAssumption, ViewsAssumption, PromptAssumption
<1> DEFINE KnowledgeInv == FeedInv /\ NotesInv /\ StayInv /\ ViewsInv /\ PromptInv
<1>1. TuringInit => KnowledgeInv
  BY FeedInitially, NotesInitially, StayInitially, ViewsInitially, PromptInitially
     DEF TuringInit
<1>2. KnowledgeInv /\ [TuringNext]_<<part, turingTickVars, lineageVars, dreamerVars, bootstrapVars,
                         skillVars, nodeVars, feedVars, noteVars, viewVars, producerVars,
                         deskVars, conduitVars, promptVars>>
      => KnowledgeInv'
  <2> SUFFICES ASSUME KnowledgeInv,
                      [TuringNext]_<<part, turingTickVars, lineageVars, dreamerVars, bootstrapVars,
                         skillVars, nodeVars, feedVars, noteVars, viewVars, producerVars,
                         deskVars, conduitVars, promptVars>>
               PROVE  KnowledgeInv'
    OBVIOUS
  <2>1. [FeedNext]_feedVars /\ [NotesNext]_noteVars /\ [ViewsNext]_viewVars /\ [PromptNext]_promptVars
    BY DEF TuringNext
  <2> QED
    BY <2>1, FeedStep, NotesStep, NotesStayStep, ViewsStep, PromptStep
<1>3. KnowledgeInv => KnowledgeIsSound
  BY FeedInvHolds, NotesInvHolds, ViewsInvHolds, PromptInvHolds DEF KnowledgeIsSound
<1> QED
  BY <1>1, <1>2, <1>3, PTL DEF TuringSpec
=============================================================================
