------------------------------ MODULE AgentTurn ------------------------------
(***************************************************************************)
(* One turn of an agent: Agent.handle() of agents/base.py with the tool    *)
(* loop of agents/strategies/react.py.  Turns of one session run side by   *)
(* side and meet in its history.  Any awaited call may raise: the strategy *)
(* turns some exceptions into an apology, the steps after it turn none.    *)
(***************************************************************************)
EXTENDS Naturals, Sequences, FiniteSets, SequencesExt

CONSTANTS
    Turns,          \* turns of one session
    MaxRounds,      \* max_rounds of the strategy
    CallLists       \* the tool calls a model's message may hold

\* A call's arguments are small enough or not.
Call == {"fine", "oversize"}

ASSUME TurnAssumption ==
    /\ MaxRounds \in Nat
    /\ CallLists \subseteq Seq(Call)

VARIABLES
    step,       \* where handle() is
    round,      \* round_num
    calls,      \* tool calls of the current message still to be run
    offered,    \* tool calls of the messages appended so far
    tools,      \* tool_history
    injected,   \* whether learnings were injected
    reply,      \* whether the strategy has a response
    learned,    \* what the turn put in the learning store
    session,    \* the history in the session store
    charged,    \* charge_usage() calls
    outcomes,   \* outcomes recorded
    mark        \* mark_outcome() of the injected learnings

turnVars == <<step, round, calls, offered, tools, injected, reply, learned,
              session, charged, outcomes, mark>>
loopVars == <<round, calls, offered, tools>>
storeVars == <<learned, session, charged, outcomes, mark>>

\* Whether the tool was run, and whether its result reads as a success.
ToolResult == [call : Call, ran : BOOLEAN, good : BOOLEAN]
After == {"rca", "extract", "promote", "save", "charge", "outcome", "mark"}
Ended == {"answered", "blocked", "apologised", "raised"}

TurnInit ==
    /\ step = [t \in Turns |-> "scan"]
    /\ round = [t \in Turns |-> 0]
    /\ calls = [t \in Turns |-> <<>>]
    /\ offered = [t \in Turns |-> 0]
    /\ tools = [t \in Turns |-> <<>>]
    /\ injected = [t \in Turns |-> FALSE]
    /\ reply = [t \in Turns |-> FALSE]
    /\ learned = [t \in Turns |-> {}]
    /\ session = <<>>
    /\ charged = [t \in Turns |-> 0]
    /\ outcomes = [t \in Turns |-> 0]
    /\ mark = [t \in Turns |-> "none"]

To(t, place) == step' = [step EXCEPT ![t] = place]
ToolsFailed(t) == \E k \in DOMAIN tools[t] : ~tools[t][k].good

-----------------------------------------------------------------------------
(* Before the strategy                                                      *)

Scan(t, clean) ==
    /\ step[t] = "scan"
    /\ To(t, IF clean THEN "history" ELSE "blocked")
    /\ UNCHANGED <<loopVars, injected, reply, storeVars>>

\* History is read now and not again, whatever other turns save meanwhile.
ReadHistory(t) ==
    /\ step[t] = "history"
    /\ To(t, "build")
    /\ UNCHANGED <<loopVars, injected, reply, storeVars>>

Build(t, some) ==
    /\ step[t] = "build"
    /\ injected' = [injected EXCEPT ![t] = some]
    /\ To(t, "llm")
    /\ UNCHANGED <<loopVars, reply, storeVars>>

-----------------------------------------------------------------------------
(* The tool loop                                                            *)

\* The message has no tool calls, or the rounds are used up and its calls are
\* left alone.
Reasoned(t, asks, text) ==
    /\ step[t] = "llm"
    /\ asks = <<>> \/ round[t] >= MaxRounds
    /\ reply' = [reply EXCEPT ![t] = text]
    /\ To(t, "rca")
    /\ UNCHANGED <<loopVars, injected, storeVars>>

AskTools(t, asks) ==
    /\ step[t] = "llm"
    /\ asks # <<>> /\ round[t] < MaxRounds
    /\ calls' = [calls EXCEPT ![t] = asks]
    /\ offered' = [offered EXCEPT ![t] = @ + Len(asks)]
    /\ To(t, "tools")
    /\ UNCHANGED <<round, tools, injected, reply, storeVars>>

\* The next call: the sentinel denies it, or the tool is run.  Oversized
\* arguments are replaced by {}, and the call is run all the same.
X_RunToolSkipDenied(t, denied, good) ==
    /\ step[t] = "tools"
    /\ denied => ~good
    /\ tools' = [tools EXCEPT ![t] = IF denied THEN @ ELSE
                   Append(@, [call |-> Head(calls[t]), ran |-> ~denied, good |-> good])]
    /\ calls' = [calls EXCEPT ![t] = Tail(@)]
    /\ IF Len(calls[t]) = 1
       THEN round' = [round EXCEPT ![t] = @ + 1] /\ To(t, "llm")
       ELSE UNCHANGED <<round, step>>
    /\ UNCHANGED <<offered, injected, reply, storeVars>>
RunTool(t, denied, good) ==
    /\ step[t] = "tools"
    /\ denied => ~good
    /\ tools' = [tools EXCEPT ![t] =
                   Append(@, [call |-> Head(calls[t]), ran |-> ~denied, good |-> good])]
    /\ calls' = [calls EXCEPT ![t] = Tail(@)]
    /\ IF Len(calls[t]) = 1
       THEN round' = [round EXCEPT ![t] = @ + 1] /\ To(t, "llm")
       ELSE UNCHANGED <<round, step>>
    /\ UNCHANGED <<offered, injected, reply, storeVars>>

\* ValueError, RuntimeError, TimeoutError and OSError become an apology.
StrategyFails(t) ==
    /\ step[t] \in {"llm", "tools"}
    /\ To(t, "apologised")
    /\ UNCHANGED <<loopVars, injected, reply, storeVars>>

-----------------------------------------------------------------------------
(* After the strategy                                                       *)

\* Root cause of a turn with failed tools, when the extractor finds one.
ExtractRca(t, found) ==
    /\ step[t] = "rca"
    /\ found => ToolsFailed(t)
    /\ learned' = IF found THEN [learned EXCEPT ![t] = @ \cup {"rca"}] ELSE learned
    /\ To(t, "extract")
    /\ UNCHANGED <<loopVars, injected, reply, session, charged, outcomes, mark>>

ExtractLearnings(t, found) ==
    /\ step[t] = "extract"
    /\ found => tools[t] # <<>>
    /\ learned' = IF found THEN [learned EXCEPT ![t] = @ \cup {"corrections"}] ELSE learned
    /\ To(t, IF injected[t] THEN "promote" ELSE "save")
    /\ UNCHANGED <<loopVars, injected, reply, session, charged, outcomes, mark>>

Promote(t) ==
    /\ step[t] = "promote"
    /\ To(t, "save")
    /\ UNCHANGED <<loopVars, injected, reply, storeVars>>

\* The two messages are appended in one call.
X_SaveAlways(t) ==
    /\ step[t] = "save"
    /\ session' = session \o <<<<t, "user">>, <<t, "assistant">>>>
    /\ To(t, "charge")
    /\ UNCHANGED <<loopVars, injected, reply, learned, charged, outcomes, mark>>
Save(t) ==
    /\ step[t] = "save"
    /\ session' = IF reply[t] THEN session \o <<<<t, "user">>, <<t, "assistant">>>> ELSE session
    /\ To(t, "charge")
    /\ UNCHANGED <<loopVars, injected, reply, learned, charged, outcomes, mark>>

Charge(t) ==
    /\ step[t] = "charge"
    /\ charged' = [charged EXCEPT ![t] = @ + 1]
    /\ To(t, "outcome")
    /\ UNCHANGED <<loopVars, injected, reply, learned, session, outcomes, mark>>

RecordOutcome(t) ==
    /\ step[t] = "outcome"
    /\ outcomes' = [outcomes EXCEPT ![t] = @ + 1]
    /\ To(t, IF injected[t] THEN "mark" ELSE "answered")
    /\ UNCHANGED <<loopVars, injected, reply, learned, session, charged, mark>>

MarkOutcome(t) ==
    /\ step[t] = "mark"
    /\ mark' = [mark EXCEPT ![t] = IF ToolsFailed(t) THEN "failure" ELSE "success"]
    /\ To(t, "answered")
    /\ UNCHANGED <<loopVars, injected, reply, learned, session, charged, outcomes>>

\* Every other exception, and every one outside the strategy, leaves handle().
Raise(t) ==
    /\ step[t] \notin Ended
    /\ To(t, "raised")
    /\ UNCHANGED <<loopVars, injected, reply, storeVars>>

-----------------------------------------------------------------------------
TurnStep(t) ==
    \/ \E clean \in BOOLEAN : Scan(t, clean)
    \/ ReadHistory(t)
    \/ \E some \in BOOLEAN : Build(t, some)
    \/ \E asks \in CallLists : AskTools(t, asks) \/ \E text \in BOOLEAN : Reasoned(t, asks, text)
    \/ \E denied, good \in BOOLEAN : RunTool(t, denied, good)
    \/ StrategyFails(t)
    \/ \E found \in BOOLEAN : ExtractRca(t, found) \/ ExtractLearnings(t, found)
    \/ Promote(t) \/ Save(t) \/ Charge(t) \/ RecordOutcome(t) \/ MarkOutcome(t)
    \/ Raise(t)

TurnNext == \E t \in Turns : TurnStep(t)

TurnSpec == TurnInit /\ [][TurnNext]_turnVars

-----------------------------------------------------------------------------
(* Properties                                                              *)

\* The model is never called with a tool call unanswered: between rounds every
\* call of the messages so far has its result, denied ones included, and no
\* more rounds were run than the strategy allows.
CallsAreAnswered ==
    \A t \in Turns :
        /\ round[t] <= MaxRounds
        /\ step[t] = "llm" => Len(tools[t]) = offered[t]
        /\ step[t] \in After \cup {"answered"} => calls[t] = <<>> /\ Len(tools[t]) = offered[t]

\* A turn that is answered has done everything handle() is to do after it: it
\* was remembered if it has a reply, charged and recorded once, and the
\* learnings it was given were marked with what became of its tools.
AnsweredTurnIsComplete ==
    \A t \in Turns : step[t] = "answered" =>
        /\ (<<t, "assistant">> \in Range(session)) = reply[t]
        /\ charged[t] = 1 /\ outcomes[t] = 1
        /\ mark[t] # "none" <=> injected[t]
        /\ mark[t] = "success" => ~ToolsFailed(t)

\* A turn owes nothing: no call its result, no answer its bookkeeping.
TurnsAreSettled == CallsAreAnswered /\ AnsweredTurnIsComplete

\* "JSON bomb protection: reject args > 32KB": a rejected call is not run.
RejectedCallsAreNotRun ==
    \A t \in Turns : \A k \in DOMAIN tools[t] :
        tools[t][k].call = "oversize" => ~tools[t][k].ran
=============================================================================
