------------------------------- MODULE MCTuring -------------------------------
(***************************************************************************)
(* The parts of Project Turing.  They share no state here and are checked  *)
(* in one run, as in MCServices.                                           *)
(***************************************************************************)
EXTENDS TuringTick, MemoryWriters, SelfBootstrap, SelfGrowth, OwnAccord,
        MemoryViews, TuringChat, SelfConduit

VARIABLE part

MCOpens == [d \in Deadlines |-> 1]
MCDeliver == [d \in Deadlines |-> 2]
MCLower == [s \in SkillNames |-> IF s = "Run" THEN "run" ELSE s]
MCMaxOf == [stance |-> 1, claim |-> 3, observation |-> 1, commitment |-> 2]

MCCostOf == <<1, 3, 1>>
MCBlockLists == {<<"voice", "journal">>, <<"goal", "read-code">>}

Parts == {"tick", "lineage", "dreamer", "bootstrap", "skills", "nodes", "feed", "notes", "views",
          "producers", "desk", "conduit", "prompt"}

TuringInit ==
    /\ part \in Parts
    /\ TickInit /\ (part = "tick" \/ \A p \in Pools : pressure[p] = "none")
    /\ LineageInit /\ DreamerInit
    /\ BootstrapInit /\ SkillsInit /\ NodesInit
    /\ FeedInit /\ NotesInit
    /\ ViewsInit /\ (part = "views" \/ rebuild = Rebuilding("start"))
    /\ ProducersInit /\ (part = "producers" \/ ~strong)
    /\ DeskInit /\ (part = "desk" \/ \A c \in DeskChats : chat[c].way = "openai")
    /\ ConduitSelfInit /\ PromptInit

TuringNext ==
    /\ UNCHANGED part
    /\ IF part = "tick" THEN TickNext ELSE UNCHANGED turingTickVars
    /\ IF part = "lineage" THEN LineageNext ELSE UNCHANGED lineageVars
    /\ IF part = "dreamer" THEN DreamerNext ELSE UNCHANGED dreamerVars
    /\ IF part = "bootstrap" THEN BootstrapNext ELSE UNCHANGED bootstrapVars
    /\ IF part = "skills" THEN SkillsNext ELSE UNCHANGED skillVars
    /\ IF part = "nodes" THEN NodesNext ELSE UNCHANGED nodeVars
    /\ IF part = "feed" THEN FeedNext ELSE UNCHANGED feedVars
    /\ IF part = "notes" THEN NotesNext ELSE UNCHANGED noteVars
    /\ IF part = "views" THEN ViewsNext ELSE UNCHANGED viewVars
    /\ IF part = "producers" THEN ProducersNext ELSE UNCHANGED producerVars
    /\ IF part = "desk" THEN DeskNext ELSE UNCHANGED deskVars
    /\ IF part = "conduit" THEN ConduitSelfNext ELSE UNCHANGED conduitVars
    /\ IF part = "prompt" THEN PromptNext ELSE UNCHANGED promptVars

TuringSpec ==
    TuringInit /\ [][TuringNext]_<<part, turingTickVars, lineageVars, dreamerVars, bootstrapVars,
                                   skillVars, nodeVars, feedVars, noteVars, viewVars, producerVars,
                                   deskVars, conduitVars, promptVars>>

\* The self is born whole or visibly unfinished; levels and ranks are those its producers'
\* attempts and its calls have earned; what it does of its own accord is done once; a request is
\* answered only after its decision is remembered, and a rating is rewarded once.
SelfIsSound ==
    /\ BootstrapIsSound /\ SkillsAreSound /\ NodesAreSound /\ OwnAccordIsSound
    /\ DeskIsSound /\ ConduitIsOrderly

\* An item of a feed is read once.  Notes fit, none is evicted without need where adds do not
\* cross, and the voice is the self's own.  What is derived from the memories follows them.  A
\* prompt tells what its searches found, once.
KnowledgeIsSound == FeedIsRead /\ NotesAreKept /\ ViewsFollow /\ PromptIsSound
=============================================================================
