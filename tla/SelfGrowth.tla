----------------------------- MODULE SelfGrowth -----------------------------
(***************************************************************************)
(* How a self grows: the nodes its tools write, and the concepts and       *)
(* skills its producers build. The two share no state here.                *)
(***************************************************************************)
EXTENDS Integers, Sequences, FiniteSets, FiniteSetsExt, SequencesExt

(***************************************************************************)
(* The nodes of a self and the tools that write them: passions and their   *)
(* order (self_nodes.py), a todo and its revisions (self_todos.py) and the *)
(* retest of the personality (self_personality.py), over self_repo.py,     *)
(* where every statement commits by itself.  A tool reads, checks, and     *)
(* writes row by row; it may be cut between any two, and nothing keeps two *)
(* callers apart but the keys of the tables.                               *)
(***************************************************************************)

CONSTANTS
    Hands,          \* who calls the tools
    Passions,
    RankGap,        \* what rerank_passions() adds to stay clear, 10 in the code
    RetestAnswers,  \* items of a retest, 20 in the code
    MaxCalls        \* bound: calls of tools

VARIABLES
    rank,           \* passion -> its rank, or Unranked if it was not noted
    wired,          \* nodes with their contributor
    selfTodo,           \* the todo's text and status
    todoHistory,    \* its revisions, of which [before, after] are kept
    score,          \* retests that moved the scores ...
    extraAnswers,   \* ... answers they added to those of the bootstrap ...
    retestRows,     \* ... and their revision rows
    call,           \* hand -> the tool it is in, and how far
    calls,
    overlapped,     \* two calls ran at the same time, once
    cutOff,         \* a call was cut, once
    collided        \* a key of a table refused a row, once

nodeRows == <<rank, wired, selfTodo, todoHistory, score, extraAnswers, retestRows>>
nodeVars == <<nodeRows, call, calls, overlapped, cutOff, collided>>

Unranked == 0 - 1
Noted == {p \in Passions : rank[p] # Unranked}
Count == Cardinality(Noted)
ASSUME NodesAssumption ==
    IsFiniteSet(Passions) /\ RankGap \in Nat /\ RetestAnswers \in Nat \ {0}

NoCall == [does |-> "none", order |-> <<>>, at |-> 0, text |-> 0]
Call(does, order, at, text) == [does |-> does, order |-> order, at |-> at, text |-> text]

NodesInit ==
    /\ rank = [p \in Passions |-> Unranked] /\ wired = {}
    /\ selfTodo = [text |-> 0, status |-> "active"] /\ todoHistory = <<>>
    /\ score = 0 /\ extraAnswers = 0 /\ retestRows = 0
    /\ call = [h \in Hands |-> NoCall] /\ calls = 0
    /\ overlapped = FALSE /\ cutOff = FALSE /\ collided = FALSE

\* _require_ready(): every answer of the bootstrap, and not one more.
Ready == extraAnswers = 0

Begin(h, c) ==
    /\ call[h] = NoCall /\ calls < MaxCalls
    /\ call' = [call EXCEPT ![h] = c] /\ calls' = calls + 1
    /\ overlapped' = (overlapped \/ \E g \in Hands : call[g] # NoCall)
    /\ UNCHANGED <<nodeRows, cutOff, collided>>

\* A tool goes on with its next statement, or returns.
Onward(h, c) ==
    /\ call' = [call EXCEPT ![h] = c]
    /\ UNCHANGED <<calls, overlapped, cutOff>>

\* A statement that a key refuses raises out of the tool.
Collides(h) ==
    /\ Onward(h, NoCall) /\ collided' = TRUE
    /\ UNCHANGED nodeRows

NotePassion(h, p) ==
    /\ Ready /\ p \notin Noted
    /\ Begin(h, Call("insert", <<p>>, Max({rank[q] : q \in Passions}) + 1, 0))

InsertPassion(h) ==
    /\ call[h].does = "insert"
    /\ IF \E q \in Noted : rank[q] = call[h].at \/ q = call[h].order[1]
       THEN Collides(h)
       ELSE /\ rank' = [rank EXCEPT ![call[h].order[1]] = call[h].at]
            /\ Onward(h, [call[h] EXCEPT !.does = "wire"])
            /\ UNCHANGED <<wired, selfTodo, todoHistory, score, extraAnswers, retestRows, collided>>

Wire(h) ==
    /\ call[h].does = "wire"
    /\ wired' = wired \cup Range(call[h].order)
    /\ Onward(h, NoCall)
    /\ UNCHANGED <<rank, selfTodo, todoHistory, score, extraAnswers, retestRows, collided>>

\* An order that names every passion: all are moved up, out of the way ...
X_Rerank(h, order) ==
    /\ Ready /\ Noted # {} /\ Range(order) = Noted /\ Len(order) = Count
    /\ Begin(h, Call("down", order, 1, 0))
Rerank(h, order) ==
    /\ Ready /\ Noted # {} /\ Range(order) = Noted /\ Len(order) = Count
    /\ Begin(h, Call("up", order, 1, Count + RankGap))

\* ... and then down to their places, one row after the other.
MovePassion(h, does, place, after) ==
    /\ call[h].does = does
    /\ LET p == call[h].order[call[h].at] IN
       IF \E q \in Noted \ {p} : rank[q] = place
       THEN Collides(h)
       ELSE /\ rank' = [rank EXCEPT ![p] = place]
            /\ Onward(h, IF call[h].at < Len(call[h].order)
                        THEN [call[h] EXCEPT !.at = @ + 1] ELSE after)
            /\ UNCHANGED <<wired, selfTodo, todoHistory, score, extraAnswers, retestRows, collided>>
MoveUp(h) == MovePassion(h, "up", call[h].at - 1 + call[h].text,
                         [call[h] EXCEPT !.does = "down", !.at = 1])
MoveDown(h) == MovePassion(h, "down", call[h].at - 1, NoCall)

\* The todo is read; its row is written back whole, text and status.
ReviseTodo(h, text) ==
    Ready /\ selfTodo.status = "active" /\ Begin(h, Call("revise", <<selfTodo.text>>, 0, text))
CompleteTodo(h) ==
    Ready /\ selfTodo.status = "active" /\ Begin(h, Call("completed", <<>>, 0, selfTodo.text))
ArchiveTodo(h) ==
    Ready /\ selfTodo.status # "completed" /\ Begin(h, Call("archived", <<>>, 0, selfTodo.text))

UpdateTodo(h, does, status, after) ==
    /\ call[h].does = does
    /\ selfTodo' = [text |-> call[h].text, status |-> status]
    /\ Onward(h, after)
    /\ UNCHANGED <<rank, wired, todoHistory, score, extraAnswers, retestRows, collided>>
EndTodo(h, status) == UpdateTodo(h, status, status, NoCall)
UpdateText(h) == UpdateTodo(h, "revise", "active", [call[h] EXCEPT !.does = "number"])

\* The number of a revision is read first, and is a key.
ReadNumber(h) ==
    /\ call[h].does = "number"
    /\ Onward(h, [call[h] EXCEPT !.does = "history", !.at = Len(todoHistory) + 1])
    /\ UNCHANGED <<nodeRows, collided>>
X_InsertRevision(h) ==
    /\ call[h].does = "history"
    /\ todoHistory' = Append(todoHistory, [before |-> call[h].text, after |-> call[h].text])
    /\ Onward(h, NoCall)
    /\ UNCHANGED <<rank, wired, selfTodo, score, extraAnswers, retestRows, collided>>
InsertRevision(h) ==
    /\ call[h].does = "history"
    /\ IF call[h].at # Len(todoHistory) + 1
       THEN Collides(h)
       ELSE /\ todoHistory' = Append(todoHistory, [before |-> call[h].order[1],
                                                   after |-> call[h].text])
            /\ Onward(h, NoCall)
            /\ UNCHANGED <<rank, wired, selfTodo, score, extraAnswers, retestRows, collided>>

\* A retest whose answers are all valid: scores from what was read, then the
\* answers, then the revision.
Retest(h) == Begin(h, Call("scores", <<>>, 0, score))
X_MoveScores(h) ==
    /\ call[h].does = "scores"
    /\ score' = call[h].text + 1
    /\ Onward(h, NoCall)
    /\ UNCHANGED <<rank, wired, selfTodo, todoHistory, extraAnswers, retestRows, collided>>
MoveScores(h) ==
    /\ call[h].does = "scores"
    /\ score' = call[h].text + 1
    /\ Onward(h, [call[h] EXCEPT !.does = "answers"])
    /\ UNCHANGED <<rank, wired, selfTodo, todoHistory, extraAnswers, retestRows, collided>>
AddAnswer(h) ==
    /\ call[h].does = "answers"
    /\ extraAnswers' = extraAnswers + 1
    /\ Onward(h, IF call[h].at + 1 < RetestAnswers THEN [call[h] EXCEPT !.at = @ + 1]
                ELSE [call[h] EXCEPT !.does = "row"])
    /\ UNCHANGED <<rank, wired, selfTodo, todoHistory, score, retestRows, collided>>
AddRetestRow(h) ==
    /\ call[h].does = "row"
    /\ retestRows' = retestRows + 1
    /\ Onward(h, NoCall)
    /\ UNCHANGED <<rank, wired, selfTodo, todoHistory, score, extraAnswers, collided>>

\* A call is cut: its caller's process ends.
CutOff(h) ==
    /\ call[h] # NoCall
    /\ call' = [call EXCEPT ![h] = NoCall] /\ cutOff' = TRUE
    /\ UNCHANGED <<nodeRows, calls, overlapped, collided>>

NodesNext ==
    \E h \in Hands :
        \/ \E p \in Passions : NotePassion(h, p)
        \/ \E order \in SetToSeqs(Noted) : Rerank(h, order)
        \/ InsertPassion(h) \/ Wire(h) \/ MoveUp(h) \/ MoveDown(h)
        \/ \E text \in {1, 2} : ReviseTodo(h, text)
        \/ CompleteTodo(h) \/ ArchiveTodo(h)
        \/ \E status \in {"completed", "archived"} : EndTodo(h, status)
        \/ UpdateText(h) \/ ReadNumber(h) \/ InsertRevision(h)
        \/ Retest(h) \/ MoveScores(h) \/ AddAnswer(h) \/ AddRetestRow(h)
        \/ CutOff(h)

NodesSpec == NodesInit /\ [][NodesNext]_nodeVars

-----------------------------------------------------------------------------
(* Properties                                                              *)

Quiet == \A h \in Hands : call[h] = NoCall

\* Calls that come one after the other and are not cut take their whole effect
\* and no key is in their way: the ranks are 0, 1, 2 ..., the history of the todo
\* leads to its text, and a retest has its answers and its row.
CallsTakeEffect ==
    ~overlapped /\ ~cutOff =>
        /\ ~collided
        /\ Quiet => /\ {rank[p] : p \in Noted} = 0..(Count - 1) /\ Noted \subseteq wired
                    /\ selfTodo.text = (IF todoHistory = <<>> THEN 0 ELSE Last(todoHistory).after)
                    /\ \A i \in 2..Len(todoHistory) :
                          todoHistory[i].before = todoHistory[i - 1].after
                    /\ score = retestRows /\ extraAnswers = RetestAnswers * retestRows

\* Calls that do not overlap, cut or not: a rerank that reaches its second phase
\* ends with the order that was asked for, whatever an earlier one left behind.
RerankRepairs ==
    ~overlapped =>
        \A h \in Hands : call[h].does = "down" =>
            \A i \in 1..(call[h].at - 1) : rank[call[h].order[i]] = i - 1

\* The tools do what they are asked for when they are used one at a time, and a
\* rerank that was cut can be made up for.
NodesAreSound == CallsTakeEffect /\ RerankRepairs

\* "A completed todo stays completed forever" (specs/self-todos.md:52), and a
\* revision beside the completion is serialized (:64).
CompletedStays == [][selfTodo.status = "completed" => selfTodo'.status = "completed"]_nodeVars

\* "The call is atomic: either all ranks update or none" (specs/self-nodes.md:38).
RerankIsAtomic == Quiet => {rank[p] : p \in Noted} = 0..(Count - 1)

\* A self that is ready stays ready: the rows it counts (specs/self-write-preconditions.md:26)
\* are not what a retest adds to (specs/personality.md:48).
ReadyStaysReady == Quiet => Ready

-----------------------------------------------------------------------------
(***************************************************************************)
(* The four producers of producers/concept_skill_producers.py: the self    *)
(* invents concepts, builds skills from those that matter to it, practises *)
(* its weak skills and reviews its practice.  A producer queues an item in *)
(* memory; the dispatch of the item asks the model and then writes several *)
(* rows, each committed by itself, so it may be cut between any two.       *)
(* Nothing else that runs writes skills: note_skill(), practice_skill()    *)
(* and downgrade_skill() of self_nodes.py:133-204 stand behind tools whose *)
(* handlers only acknowledge (self_tool_registry.py:130), and are left     *)
(* out, so a level here is one of the producers'.                          *)
(***************************************************************************)

CONSTANTS
    ConceptNames,   \* what the model may call a concept ...
    SkillNames,     \* ... and a skill
    LowerCase,      \* skill name -> its name in lower case
    FirstLevel,     \* level of a new skill, 0.1 in the code
    WeakBelow,      \* skills are practised below it, 0.8 in the code
    TopLevel,       \* 1.0 in the code
    MinAttempts,    \* attempts before practice is reviewed, 3 in the code
    MaxAgenda,      \* bound: items queued
    MaxAttempts,    \* bound: attempts at one skill, and reviews
    MaxCuts         \* bound: dispatches that are cut

VARIABLES
    conceptRows,    \* concept -> "none", or how much it matters: "little", "much"
    skillLevel,     \* skill -> its level, or NoSkill
    attemptRows,    \* skill -> outcomes of its attempts, counted in the same commit
    todoRows,       \* skills with a todo to develop them
    tellings,       \* kind of dispatch -> memories it wrote
    agenda,         \* item -> how often it is queued
    hand,           \* what is left of the dispatch that runs
    cuts            \* kind of dispatch -> how often one was cut

skillRowVars == <<conceptRows, skillLevel, attemptRows, todoRows, tellings>>
skillVars == <<skillRowVars, agenda, hand, cuts>>

NoSkill == 0 - 1
Skills == {s \in SkillNames : skillLevel[s] # NoSkill}
Kinds == {"invention", "building", "practice", "refinement"}
Agenda == {[kind |-> "invention", about |-> "anything"]}
    \cup [kind : {"building"}, about : ConceptNames]
    \cup [kind : {"practice", "refinement"}, about : SkillNames]
IdleHand == [does |-> "none", kind |-> "none", about |-> "none", outcome |-> "none"]
Gain == [success |-> 2, partial |-> 1, fail |-> 0 - 1]

\* The levels in the code's tenths.
ASSUME SkillsAssumption ==
    /\ IsFiniteSet(ConceptNames) /\ IsFiniteSet(SkillNames)
    /\ TopLevel \in Nat /\ FirstLevel \in 0..TopLevel

SkillsInit ==
    /\ conceptRows = [c \in ConceptNames |-> "none"]
    /\ skillLevel = [s \in SkillNames |-> NoSkill]
    /\ attemptRows = [s \in SkillNames |-> <<>>]
    /\ todoRows = {} /\ tellings = [k \in Kinds |-> 0]
    /\ agenda = [i \in Agenda |-> 0] /\ hand = IdleHand /\ cuts = [k \in Kinds |-> 0]

Queued(kind, about) ==
    /\ hand = IdleHand
    /\ MapThenSumSet(LAMBDA i : agenda[i], Agenda) < MaxAgenda
    /\ agenda' = [agenda EXCEPT ![[kind |-> kind, about |-> about]] = @ + 1]
    /\ UNCHANGED <<skillRowVars, hand, cuts>>

\* on_tick() of each producer: it queues an item now and then, of what it sees now.
SubmitInvention == Queued("invention", "anything")
SubmitBuilding(c) == conceptRows[c] = "much" /\ Queued("building", c)
SubmitPractice(s) == s \in Skills /\ skillLevel[s] < WeakBelow /\ Queued("practice", s)
SubmitRefinement(s) ==
    s \in Skills /\ Len(attemptRows[s]) >= MinAttempts /\ Queued("refinement", s)

Taken(kind, about) ==
    LET i == [kind |-> kind, about |-> about] IN
    /\ hand = IdleHand /\ agenda[i] > 0
    /\ agenda' = [agenda EXCEPT ![i] = @ - 1]
    /\ UNCHANGED cuts

Then(does, kind, about, outcome) ==
    hand' = [does |-> does, kind |-> kind, about |-> about, outcome |-> outcome]

\* The model fails, or its reply does not parse.
NoReply(i) == Taken(i.kind, i.about) /\ UNCHANGED <<skillRowVars, hand>>

\* A concept that is known is invented in vain.
Invent(c, matters) ==
    /\ Taken("invention", "anything")
    /\ IF conceptRows[c] # "none"
       THEN UNCHANGED <<skillRowVars, hand>>
       ELSE /\ conceptRows' = [conceptRows EXCEPT ![c] = matters]
            /\ Then("memory", "invention", c, "none")
            /\ UNCHANGED <<skillLevel, attemptRows, todoRows, tellings>>

\* So is a skill that is there, however it is spelled.
X_Known(s) == s \in Skills
Known(s) == \E t \in Skills : LowerCase[t] = LowerCase[s]
Build(c, s) ==
    /\ Taken("building", c)
    /\ IF Known(s)
       THEN UNCHANGED <<skillRowVars, hand>>
       ELSE /\ skillLevel' = [skillLevel EXCEPT ![s] = FirstLevel]
            /\ Then("todo", "building", s, "none")
            /\ UNCHANGED <<conceptRows, attemptRows, todoRows, tellings>>

\* The memory that should follow is an observation of weight 0.6, above the bound
\* of its tier: the repository refuses it, and the dispatch ends with the error.
AddTodo ==
    /\ hand.does = "todo"
    /\ todoRows' = todoRows \cup {hand.about}
    /\ hand' = IdleHand
    /\ UNCHANGED <<conceptRows, skillLevel, attemptRows, tellings, agenda, cuts>>

\* The attempt and its count are one commit ...
Practise(s, outcome) ==
    /\ Len(attemptRows[s]) < MaxAttempts
    /\ Taken("practice", s)
    /\ attemptRows' = [attemptRows EXCEPT ![s] = Append(@, outcome)]
    /\ Then("level", "practice", s, outcome)
    /\ UNCHANGED <<conceptRows, skillLevel, todoRows, tellings>>

Clamped(n) == IF n < 0 THEN 0 ELSE IF n > TopLevel THEN TopLevel ELSE n
After(level, outcome) == Clamped(level + Gain[outcome])

\* ... and the level, of the row as it is then, is another.
X_Relevel ==
    /\ hand.does = "level"
    /\ skillLevel' = [skillLevel EXCEPT ![hand.about] = After(FirstLevel, hand.outcome)]
    /\ Then("memory", "practice", hand.about, hand.outcome)
    /\ UNCHANGED <<conceptRows, attemptRows, todoRows, tellings, agenda, cuts>>
Relevel ==
    /\ hand.does = "level"
    /\ skillLevel' = [skillLevel EXCEPT ![hand.about] = After(@, hand.outcome)]
    /\ Then("memory", "practice", hand.about, hand.outcome)
    /\ UNCHANGED <<conceptRows, attemptRows, todoRows, tellings, agenda, cuts>>

\* A review of the attempts writes its insight and nothing else.
Refine(s) ==
    /\ tellings.refinement < MaxAttempts
    /\ Taken("refinement", s)
    /\ IF attemptRows[s] = <<>>
       THEN UNCHANGED <<skillRowVars, hand>>
       ELSE /\ tellings' = [tellings EXCEPT !.refinement = @ + 1]
            /\ UNCHANGED <<conceptRows, skillLevel, attemptRows, todoRows, hand>>

Tell ==
    /\ hand.does = "memory"
    /\ tellings' = [tellings EXCEPT ![hand.kind] = @ + 1]
    /\ hand' = IdleHand
    /\ UNCHANGED <<conceptRows, skillLevel, attemptRows, todoRows, agenda, cuts>>

\* A write raises, and the dispatch ends there; or the process does, and the
\* queue is lost with it.
Cut(processEnds) ==
    /\ hand # IdleHand /\ \A k \in Kinds : cuts[k] < MaxCuts
    /\ cuts' = [cuts EXCEPT ![hand.kind] = @ + 1]
    /\ hand' = IdleHand
    /\ agenda' = IF processEnds THEN [i \in Agenda |-> 0] ELSE agenda
    /\ UNCHANGED skillRowVars

SkillsNext ==
    \/ SubmitInvention
    \/ \E c \in ConceptNames : SubmitBuilding(c)
    \/ \E s \in SkillNames : SubmitPractice(s) \/ SubmitRefinement(s) \/ Refine(s)
    \/ \E i \in Agenda : NoReply(i)
    \/ \E c \in ConceptNames, matters \in {"little", "much"} : Invent(c, matters)
    \/ \E c \in ConceptNames, s \in SkillNames : Build(c, s)
    \/ AddTodo \/ Relevel \/ Tell
    \/ \E s \in SkillNames, outcome \in DOMAIN Gain : Practise(s, outcome)
    \/ \E processEnds \in BOOLEAN : Cut(processEnds)

SkillsSpec == SkillsInit /\ [][SkillsNext]_skillVars

-----------------------------------------------------------------------------
(* Properties                                                              *)

Distance(a, b) == IF a < b THEN b - a ELSE a - b
Running(does, about) ==
    IF hand.does = does /\ (about = "any" \/ hand.about = about) THEN 1 ELSE 0

\* The level the producers give a skill is what its attempts, replayed, make of
\* it; a practice that was cut before it set the level is off by its own gain
\* and by no more, however the attempts after it went.
LevelIsEarned ==
    \A s \in Skills :
        Distance(skillLevel[s], FoldLeft(After, FirstLevel, attemptRows[s]))
            <= 2 * (cuts.practice + Running("level", s))

\* One skill of a name; what was invented or practised was told, unless the telling
\* was cut; a skill has its todo in the same sense, and nothing adds it later.
WorkIsTold ==
    /\ \A s, t \in Skills : LowerCase[s] = LowerCase[t] => s = t
    /\ LET untold(kind, done) ==
               done \in tellings[kind]..(tellings[kind] + cuts[kind] +
                                            (IF hand.kind = kind THEN 1 ELSE 0))
       IN  /\ untold("invention", Cardinality({c \in ConceptNames : conceptRows[c] # "none"}))
           /\ untold("practice", MapThenSumSet(LAMBDA s : Len(attemptRows[s]), SkillNames))
           /\ Cardinality(Skills \ todoRows) <= cuts.building + Running("todo", "any")
    /\ todoRows \subseteq Skills

\* specs/concepts-skills-goals.md:88 has a built skill told by an affirmation; no run
\* checks it, for the code does not keep it: see AddTodo.
BuildingIsTold ==
    Cardinality(Skills) <= tellings.building + cuts.building + Running("todo", "any")

\* Concepts, skills and practice add up, whatever was cut.
SkillsAreSound == LevelIsEarned /\ WorkIsTold
=============================================================================
