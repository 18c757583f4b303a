----------------------------- MODULE MemoryViews -----------------------------
(***************************************************************************)
(* What is kept beside the memories: what the self writes for itself, and  *)
(* what is derived from the memories.  The two share no state.             *)
(***************************************************************************)
EXTENDS Integers, FiniteSets, FiniteSetsExt

(***************************************************************************)
(* What the self writes for itself: working memory (working_memory.py) and *)
(* the voice section (voice_section.py).  Threads of the chat server write *)
(* to both (_on_sentinel, runtime/main.py) while the maintenance, on the   *)
(* main thread, reads them, asks the model and writes what it replied.     *)
(* Nothing locks: the statements of all threads interleave.                *)
(***************************************************************************)

CONSTANTS
    Writers,        \* threads of the chat server
    Keeper,         \* the maintenance
    Topics,         \* what a note may say
    MaxNotes,       \* notes kept, 10 in the code
    MaxWritten,     \* bound: notes written
    MaxVoice,       \* bound: times the voice is written
    MaxStops        \* bound: ends of the process

ASSUME NotesAssumption == MaxNotes \in Nat

VARIABLES
    notes,          \* the rows: [id, priority, about], ids in the order of creation
    written,        \* notes ever written
    adding,         \* thread -> the step of its add(), the overflow, the ids to delete
    keeping,        \* the maintenance's dispatch: what it read, what it still does
    voice,          \* text of the voice section, NoVoice without a row
    voiceWrites, spoken, voicing, stops,
    cutAdd,         \* an add ended between its insert and its eviction
    takenAway,      \* notes that the maintenance removed
    crossedAdds     \* notes were inserted or removed while an add was running

noteVars == <<notes, written, adding, keeping, voice, voiceWrites, spoken, voicing, stops, cutAdd,
              takenAway, crossedAdds>>
noteHistory == <<cutAdd, takenAway, crossedAdds>>
voiceOnly == <<voice, voiceWrites, spoken, voicing>>

NoVoice == 0 - 1
Threads == Writers \cup {Keeper}
NotAdding == [does |-> "none", over |-> 0, doomed |-> {}]
Resting == [does |-> "none", read |-> {}, removes |-> {}, adds |-> {}]

NotesInit ==
    /\ notes = {} /\ written = 0 /\ adding = [t \in Threads |-> NotAdding]
    /\ keeping = Resting
    /\ voice = NoVoice /\ voiceWrites = 0 /\ spoken = FALSE /\ voicing = FALSE
    /\ stops = 0 /\ cutAdd = FALSE /\ takenAway = 0 /\ crossedAdds = FALSE

SomeAdds == \E t \in Threads : adding[t] # NotAdding

\* add(): the row is inserted and committed ...
InsertNote(t, priority, about) ==
    /\ adding[t] = NotAdding /\ written < MaxWritten
    /\ written' = written + 1
    /\ notes' = notes \cup {[id |-> written', priority |-> priority, about |-> about]}
    /\ adding' = [adding EXCEPT ![t].does = "count"]
    /\ crossedAdds' = (crossedAdds \/ SomeAdds)
    /\ UNCHANGED <<voiceOnly, stops, cutAdd, takenAway>>

NoteDown(t, about) == t \in Writers /\ InsertNote(t, 2, about) /\ UNCHANGED keeping

\* ... then the rows are counted ...
X_CountNotes(t) ==
    /\ adding[t].does = "count"
    /\ adding' = [adding EXCEPT ![t] =
                    IF Cardinality(notes) > MaxNotes
                    THEN [does |-> "select", over |-> 1, doomed |-> {}]
                    ELSE NotAdding]
    /\ cutAdd' = FALSE
    /\ UNCHANGED <<notes, written, keeping, voiceOnly, stops, takenAway, crossedAdds>>
CountNotes(t) ==
    /\ adding[t].does = "count"
    /\ adding' = [adding EXCEPT ![t] =
                    IF Cardinality(notes) > MaxNotes
                    THEN [does |-> "select", over |-> Cardinality(notes) - MaxNotes,
                          doomed |-> {}]
                    ELSE NotAdding]
    /\ cutAdd' = FALSE
    /\ UNCHANGED <<notes, written, keeping, voiceOnly, stops, takenAway, crossedAdds>>

\* ... as many of the least important and oldest as were counted too many are
\* looked up ...
Before(n, m) == n.priority < m.priority \/ (n.priority = m.priority /\ n.id < m.id)
X_Lowest(k) == {n \in notes : Cardinality({m \in notes : Before(m, n)}) <= k}
Lowest(k) == {n \in notes : Cardinality({m \in notes : Before(m, n)}) < k}
SelectNotes(t) ==
    /\ adding[t].does = "select"
    /\ adding' = [adding EXCEPT ![t].does = "delete",
                                ![t].doomed = {n.id : n \in Lowest(adding[t].over)}]
    /\ UNCHANGED <<notes, written, keeping, voiceOnly, stops, noteHistory>>

\* ... and deleted, one by one.
DeleteNote(t) ==
    /\ adding[t].does = "delete"
    /\ IF adding[t].doomed = {}
       THEN adding' = [adding EXCEPT ![t] = NotAdding] /\ UNCHANGED notes
       ELSE LET id == Min(adding[t].doomed) IN
            /\ notes' = {n \in notes : n.id # id}
            /\ adding' = [adding EXCEPT ![t].doomed = @ \ {id}]
    /\ UNCHANGED <<written, keeping, voiceOnly, stops, noteHistory>>

\* The maintenance reads the notes and asks the model ...
ReadNotes ==
    /\ keeping = Resting /\ ~voicing
    /\ keeping' = [Resting EXCEPT !.does = "ask", !.read = notes]
    /\ UNCHANGED <<notes, written, adding, voiceOnly, stops, noteHistory>>

\* ... which says what to remove and what to add, or nothing that parses ...
NotesReply(removes, adds) ==
    /\ keeping.does = "ask"
    /\ keeping' = [keeping EXCEPT !.does = "apply", !.removes = removes, !.adds = adds]
    /\ UNCHANGED <<notes, written, adding, voiceOnly, stops, noteHistory>>

\* ... the removals, by id, come first ...
RemoveNote(id) ==
    /\ keeping.does = "apply" /\ id \in keeping.removes
    /\ notes' = {n \in notes : n.id # id}
    /\ keeping' = [keeping EXCEPT !.removes = @ \ {id}]
    /\ takenAway' = takenAway + (IF \E n \in notes : n.id = id THEN 1 ELSE 0)
    /\ crossedAdds' = (crossedAdds \/ SomeAdds)
    /\ UNCHANGED <<written, adding, voiceOnly, stops, cutAdd>>

\* ... then what was not among the notes it read is added.
KeepNote(about, priority) ==
    /\ keeping.does = "apply" /\ keeping.removes = {} /\ about \in keeping.adds
    /\ adding[Keeper] = NotAdding
    /\ keeping' = [keeping EXCEPT !.adds = @ \ {about}]
    /\ IF \E n \in keeping.read : n.about = about
       THEN UNCHANGED <<notes, written, adding, voiceOnly, stops, noteHistory>>
       ELSE InsertNote(Keeper, priority, about)

Kept ==
    /\ keeping.does = "apply" /\ keeping.removes = {} /\ keeping.adds = {}
    /\ adding[Keeper] = NotAdding
    /\ keeping' = Resting
    /\ UNCHANGED <<notes, written, adding, voiceOnly, stops, noteHistory>>

\* The chat sets the voice; a text is 1, an empty one 0, the operator's seed 2.
Speak(text) ==
    /\ voiceWrites < MaxVoice
    /\ voice' = text /\ voiceWrites' = voiceWrites + 1 /\ spoken' = TRUE
    /\ UNCHANGED <<notes, written, adding, keeping, voicing, stops, noteHistory>>

\* The voice's maintenance asks the model and sets what it says, if it says any.
AskVoice ==
    /\ keeping = Resting /\ ~voicing
    /\ voicing' = TRUE
    /\ UNCHANGED <<notes, written, adding, keeping, voice, voiceWrites, spoken, stops, noteHistory>>
VoiceReply(changes) ==
    /\ voicing /\ voiceWrites < MaxVoice
    /\ voicing' = FALSE
    /\ IF changes THEN voice' = 1 /\ voiceWrites' = voiceWrites + 1 /\ spoken' = TRUE
       ELSE UNCHANGED <<voice, voiceWrites, spoken>>
    /\ UNCHANGED <<notes, written, adding, keeping, stops, noteHistory>>

\* Startup seeds the voice from a file: only where there is no row yet.
X_Seeded(v) == IF v \in {NoVoice, 0} THEN 2 ELSE v
Seeded(v) == IF v = NoVoice THEN 2 ELSE v
Reboot(hasSeed) ==
    /\ stops < MaxStops /\ stops' = stops + 1
    /\ cutAdd' = (cutAdd \/ SomeAdds)
    /\ adding' = [t \in Threads |-> NotAdding]
    /\ keeping' = Resting /\ voicing' = FALSE
    /\ voice' = IF hasSeed THEN Seeded(voice) ELSE voice
    /\ UNCHANGED <<notes, written, voiceWrites, spoken, takenAway, crossedAdds>>

NotesNext ==
    \/ \E t \in Threads :
          CountNotes(t) \/ SelectNotes(t) \/ DeleteNote(t) \/ \E a \in Topics : NoteDown(t, a)
    \/ ReadNotes
    \/ \E removes \in SUBSET {n.id : n \in keeping.read}, adds \in SUBSET Topics :
          NotesReply(removes, adds)
    \/ \E id \in keeping.removes : RemoveNote(id)
    \/ \E a \in Topics, p \in {1, 3} : KeepNote(a, p)
    \/ Kept
    \/ \E text \in {0, 1} : Speak(text)
    \/ AskVoice \/ \E changes \in BOOLEAN : VoiceReply(changes)
    \/ \E hasSeed \in BOOLEAN : Reboot(hasSeed)

NotesSpec == NotesInit /\ [][NotesNext]_noteVars

-----------------------------------------------------------------------------
(* Properties                                                              *)

\* When no add is running, working memory is within its limit, however the adds
\* that are done were interleaved; an add that was cut is made up for by the next.
NotesFit ==
    (\A t \in Threads : adding[t] = NotAdding) /\ ~cutAdd => Cardinality(notes) <= MaxNotes

\* Once the self has spoken, no start of the process puts the operator's text in
\* the place of its own, an empty one included.
VoiceIsItsOwn == spoken => voice # 2

\* Where no other thread inserts or removes a note while an add is running, no note
\* goes for want of room that there was: the notes and those the maintenance removed
\* are as many as were written, or at least as many as there is room for, the ends of
\* the process included.  Where adds do cross, each may evict for the same overflow.
NotesStay ==
    ~crossedAdds => \/ Cardinality(notes) + takenAway >= written
                    \/ Cardinality(notes) + takenAway >= MaxNotes

\* The self's notes are bounded, none is evicted without need where adds do not
\* cross, and its voice is its own.
NotesAreKept == NotesFit /\ NotesStay /\ VoiceIsItsOwn

\* "Over-capacity inserts trigger eviction of [...] entries until at-or-below
\* capacity" (specs/working-memory.md:30): no more than what is too many goes.
EvictsOnlyOverflow ==
    [][\A t \in Threads :
         (adding[t].does = "delete" /\ adding'[t].doomed # adding[t].doomed /\ notes' # notes)
            => Cardinality(notes) > MaxNotes]_noteVars

-----------------------------------------------------------------------------
(***************************************************************************)
(* What is derived from the memories of a self: the embedding index in     *)
(* memory (runtime/embedding_index.py, runtime/indexing_repo.py), rebuilt  *)
(* by a thread of its own after a start while the main thread and the chat *)
(* server's threads insert; the journal (runtime/journal.py) and the notes *)
(* of the actor (runtime/actor.py), which poll for what is newer than the  *)
(* newest they have seen.  Memories are numbered as they are created.      *)
(***************************************************************************)

CONSTANTS
    Inserters,      \* threads that insert memories
    MainThread,     \* the one of them that mints durable memories, and polls
    MaxRecords,     \* bound: memories
    MaxFaults       \* bound: embeddings and writes that fail, restarts

ASSUME ViewsAssumption == MaxRecords \in Nat

VARIABLES
    tierOf,         \* memory -> "none", "durable" or "weak"
    replaced,       \* durable memories with a successor
    softDeleted,    \* weak memories that were pruned
    unindexed,      \* thread -> the memory it has committed and not yet indexed
    vectors,        \* memories in the index
    unembedded,     \* memories whose embedding failed in this process
    rebuild,        \* the rebuilding thread: its phase, what its query returned
    narrated,       \* memory -> entries in the journal
    journalSeen,    \* stamp of the newest entry it has seen
    noted,          \* memory -> notes of the actor
    actorSeen, acted,
    bornAfter,      \* stamp of the last start
    badPolls,       \* polls of the journal that broke off
    faults

rowVars == <<tierOf, replaced, softDeleted>>
indexVars == <<unindexed, vectors, unembedded, rebuild>>
journalVars == <<narrated, journalSeen, badPolls>>
actorVars == <<noted, actorSeen, acted>>
viewVars == <<rowVars, indexVars, journalVars, actorVars, bornAfter, faults>>

Records == 1..MaxRecords
OfTier(tier) == {m \in Records : tierOf[m] = tier}
Present == Records \ OfTier("none")
Latest == IF Present = {} THEN 0 ELSE Max(Present)

\* A start: the index is empty, and the thread reads the durable memories first,
\* or is told to skip the rebuild.
Rebuilding(phase) == [phase |-> phase, todo |-> {}]

ViewsInit ==
    /\ tierOf = [m \in Records |-> "none"] /\ replaced = {} /\ softDeleted = {}
    /\ unindexed = [t \in Inserters |-> 0] /\ vectors = {} /\ unembedded = {}
    /\ rebuild \in {Rebuilding("start"), Rebuilding("skipped")}
    /\ narrated = [m \in Records |-> 0] /\ journalSeen = 0 /\ badPolls = 0
    /\ noted = [m \in Records |-> 0] /\ actorSeen = 0 /\ acted = {}
    /\ bornAfter = 0 /\ faults = 0

\* insert(): the row is committed ...
InsertRecord(t, tier) ==
    /\ unindexed[t] = 0 /\ Latest < MaxRecords
    /\ tier = "durable" => t = MainThread
    /\ tierOf' = [tierOf EXCEPT ![Latest + 1] = tier]
    /\ unindexed' = [unindexed EXCEPT ![t] = Latest + 1]
    /\ UNCHANGED <<replaced, softDeleted, vectors, unembedded, rebuild, journalVars, actorVars,
                   bornAfter, faults>>

\* A memory is embedded by a call of the provider; if it fails it is left out.
Embedded(m, ok) ==
    /\ vectors' = IF ok THEN vectors \cup {m} ELSE vectors
    /\ unembedded' = IF ok THEN unembedded ELSE unembedded \cup {m}
    /\ IF ok THEN UNCHANGED faults ELSE faults < MaxFaults /\ faults' = faults + 1

\* ... and then indexed.
IndexRecord(t, ok) ==
    /\ unindexed[t] # 0
    /\ Embedded(unindexed[t], ok)
    /\ unindexed' = [unindexed EXCEPT ![t] = 0]
    /\ UNCHANGED <<rowVars, rebuild, journalVars, actorVars, bornAfter>>

\* The rebuild reads one table, indexes what it read, and reads the other.
X_ReadTable ==
    /\ rebuild.todo = {} /\ rebuild.phase \in {"start", "durable"}
    /\ rebuild' = IF rebuild.phase = "start"
                  THEN [phase |-> "durable", todo |-> OfTier("durable")]
                  ELSE Rebuilding("done")
    /\ UNCHANGED <<rowVars, unindexed, vectors, unembedded, journalVars, actorVars,
                   bornAfter, faults>>
ReadTable ==
    /\ rebuild.todo = {} /\ rebuild.phase \notin {"done", "skipped"}
    /\ rebuild' = CASE rebuild.phase = "start" ->
                           [phase |-> "durable", todo |-> OfTier("durable")]
                    [] rebuild.phase = "durable" ->
                           [phase |-> "weak", todo |-> OfTier("weak") \ softDeleted]
                    [] rebuild.phase = "weak" -> Rebuilding("done")
    /\ UNCHANGED <<rowVars, unindexed, vectors, unembedded, journalVars, actorVars,
                   bornAfter, faults>>

IndexAgain(ok) ==
    /\ rebuild.todo # {}
    /\ LET m == Max(rebuild.todo) IN
       Embedded(m, ok) /\ rebuild' = [rebuild EXCEPT !.todo = @ \ {m}]
    /\ UNCHANGED <<rowVars, unindexed, journalVars, actorVars, bornAfter>>

\* A durable memory gets a successor; a weak one is pruned.  The index is not told.
Replace(m) ==
    /\ m \in OfTier("durable") \ replaced /\ unindexed[MainThread] = 0
    /\ replaced' = replaced \cup {m}
    /\ UNCHANGED <<tierOf, softDeleted, indexVars, journalVars, actorVars, bornAfter, faults>>
SoftDelete(m) ==
    /\ m \in OfTier("weak") \ softDeleted /\ unindexed[MainThread] = 0
    /\ softDeleted' = softDeleted \cup {m}
    /\ UNCHANGED <<tierOf, replaced, indexVars, journalVars, actorVars, bornAfter, faults>>

\* The journal writes what is newer, oldest first; what it has seen moves when all
\* of it is written.
Newer == {m \in OfTier("durable") : m > journalSeen}
PollJournal ==
    /\ unindexed[MainThread] = 0 /\ Newer # {}
    /\ narrated' = [m \in Records |-> narrated[m] + (IF m \in Newer THEN 1 ELSE 0)]
    /\ journalSeen' = Max(Newer)
    /\ UNCHANGED <<rowVars, indexVars, badPolls, actorVars, bornAfter, faults>>
X_PollBreaksOff(last) ==
    /\ unindexed[MainThread] = 0 /\ last \in Newer /\ faults < MaxFaults
    /\ narrated' = [m \in Records |->
                      narrated[m] + (IF m \in Newer /\ m <= last THEN 1 ELSE 0)]
    /\ journalSeen' = Max(Newer)
    /\ badPolls' = badPolls + 1 /\ faults' = faults + 1
    /\ UNCHANGED <<rowVars, indexVars, actorVars, bornAfter>>
PollBreaksOff(last) ==
    /\ unindexed[MainThread] = 0 /\ last \in Newer /\ faults < MaxFaults
    /\ narrated' = [m \in Records |->
                      narrated[m] + (IF m \in Newer /\ m <= last THEN 1 ELSE 0)]
    /\ badPolls' = badPolls + 1 /\ faults' = faults + 1
    /\ UNCHANGED <<rowVars, indexVars, journalSeen, actorVars, bornAfter>>

\* The actor notes what is newer and still stands; a note that fails counts as
\* written.
Fresh == {m \in OfTier("durable") \ replaced : m > actorSeen}
X_PollActor(fails) ==
    /\ unindexed[MainThread] = 0 /\ Fresh # {} /\ fails = {}
    /\ noted' = [m \in Records |-> noted[m] + (IF m \in Fresh \ acted THEN 1 ELSE 0)]
    /\ acted' = acted \cup Fresh
    /\ actorSeen' = Max(Fresh) + 1
    /\ UNCHANGED <<rowVars, indexVars, journalVars, bornAfter, faults>>
PollActor(fails) ==
    /\ unindexed[MainThread] = 0 /\ Fresh # {} /\ fails \subseteq Fresh \ acted
    /\ faults + Cardinality(fails) <= MaxFaults /\ faults' = faults + Cardinality(fails)
    /\ noted' = [m \in Records |->
                   noted[m] + (IF m \in (Fresh \ acted) \ fails THEN 1 ELSE 0)]
    /\ acted' = acted \cup Fresh
    /\ actorSeen' = Max(Fresh)
    /\ UNCHANGED <<rowVars, indexVars, journalVars, bornAfter>>

\* The process is restarted: everything before now counts as seen.
StartAgain(skips) ==
    /\ faults < MaxFaults /\ faults' = faults + 1
    /\ unindexed' = [t \in Inserters |-> 0] /\ vectors' = {} /\ unembedded' = {}
    /\ rebuild' = Rebuilding(IF skips THEN "skipped" ELSE "start")
    /\ journalSeen' = Latest /\ actorSeen' = Latest /\ acted' = {} /\ bornAfter' = Latest
    /\ UNCHANGED <<rowVars, narrated, badPolls, noted>>

ViewsNext ==
    \/ \E t \in Inserters, tier \in {"durable", "weak"} : InsertRecord(t, tier)
    \/ \E ok \in BOOLEAN : IndexAgain(ok) \/ \E t \in Inserters : IndexRecord(t, ok)
    \/ ReadTable
    \/ \E m \in Records : Replace(m) \/ SoftDelete(m) \/ PollBreaksOff(m)
    \/ PollJournal
    \/ \E fails \in SUBSET Records : PollActor(fails)
    \/ \E skips \in BOOLEAN : StartAgain(skips)

ViewsSpec == ViewsInit /\ [][ViewsNext]_viewVars

-----------------------------------------------------------------------------
(* Properties                                                              *)

\* When the rebuild is through, whatever was inserted, replaced or pruned while it
\* ran, every memory that stands is in the index, except those that a thread is
\* about to index and those that could not be embedded.
IndexIsComplete ==
    rebuild = Rebuilding("done") =>
        Present \ softDeleted \subseteq
            vectors \cup unembedded \cup {unindexed[t] : t \in Inserters}

\* The journal tells every durable memory of this process up to the newest it has
\* seen, and tells none twice but where a poll broke off.
JournalIsComplete ==
    /\ \A m \in OfTier("durable") : bornAfter < m /\ m <= journalSeen => narrated[m] > 0
    /\ \A m \in Records : narrated[m] <= 1 + badPolls

\* The actor notes a memory at most once, restarts included, and passes over none
\* that stands: what is older than the newest it has seen was acted on, or replaced.
ActsOnce ==
    /\ \A m \in Records : noted[m] <= 1
    /\ \A m \in OfTier("durable") \ replaced : bornAfter < m /\ m <= actorSeen => m \in acted

\* Index, journal and notes follow the memories.
ViewsFollow == IndexIsComplete /\ JournalIsComplete /\ ActsOnce

\* "Every event is full-detail forever" (specs/journal.md:14).
EveryEventIsTold ==
    \A m \in OfTier("durable") : m <= journalSeen => narrated[m] > 0
=============================================================================
