------------------------------- MODULE Conduit -------------------------------
(***************************************************************************)
(* The request pipeline, src/stronghold/conduit.py, with the model client  *)
(* it steers, api/litellm_client.py.  route_request() is a coroutine:      *)
(* between its awaits (classifier, quota, coin ledger, agent) the requests *)
(* of all users interleave over the session maps and over the one list of  *)
(* fallback models that the client keeps.                                  *)
(*                                                                         *)
(* Every provider offers one model, so models are named by their provider. *)
(***************************************************************************)
EXTENDS Naturals, Sequences, FiniteSets, SequencesExt

CONSTANTS
    Requests,
    SessionOf,      \* the session of a request, or NoSession
    NoSession,
    Providers,
    ConfigOrder,    \* the models in the order of the configuration
    QualityOrder,   \* the models, highest quality first
    Sharing,        \* providers that use the data they are sent
    ArbiterModel,   \* the model of the arbiter's identity
    Specialists,    \* agents other than the arbiter
    MaxConsents,    \* _MAX_CONSENT_ENTRIES
    MaxSticky,      \* _MAX_STICKY_SESSIONS
    Nobody          \* no agent, no provider

Sessions == { SessionOf[r] : r \in Requests } \ {NoSession}
Answered == {"done", "rejected", "failed"}

ASSUME ConduitAssumption ==
    /\ IsFiniteSet(Requests) /\ IsFiniteSet(Providers)
    /\ Nobody \notin Providers
    /\ QualityOrder \in Seq(Providers)
    /\ Providers \subseteq Range(QualityOrder)
    /\ ConfigOrder \in Seq(Providers) \ {<<>>}
    /\ ArbiterModel \in Providers
    /\ MaxConsents \in Nat

VARIABLES
    active,     \* the providers the configuration calls active
    at,         \* the await a request is at
    text,       \* whether its last user message begins with a word of consent
    agent,      \* the agent a request is for, then the one it is dispatched to
    model,      \* model_to_use
    runners,    \* the candidates after the selected one
    called,     \* the last call of the model client: request, providers it was sent to
    sticky,     \* _session_agents
    consents,   \* _session_consents
    pending,    \* _consent_pending
    fallback,   \* llm._fallback_models
    asked       \* per session: what its users were ever asked about

conduitMaps == <<active, sticky, consents, pending, fallback, asked>>
conduitVars == <<at, text, agent, model, runners, called, conduitMaps>>

ConduitInit ==
    /\ active \in (SUBSET Providers) \ {{}}
    /\ at = [r \in Requests |-> "new"]
    /\ text = [r \in Requests |-> FALSE]
    /\ agent = [r \in Requests |-> Nobody]
    /\ model = [r \in Requests |-> Nobody]
    /\ runners = [r \in Requests |-> <<>>]
    /\ called = [by |-> Nobody, models |-> {}]
    /\ sticky = [s \in Sessions |-> Nobody]
    /\ consents = [s \in Sessions |-> {}]
    /\ pending = [s \in Sessions |-> Nobody]
    /\ fallback = <<>>
    /\ asked = [s \in Sessions |-> {}]

HasSession(r) == SessionOf[r] # NoSession
Goto(r, place) == at' = [at EXCEPT ![r] = place]

\* The coroutine is over and its locals are gone.
Leave(r, place) ==
    /\ Goto(r, place)
    /\ text' = [text EXCEPT ![r] = FALSE]
    /\ agent' = [agent EXCEPT ![r] = Nobody]
    /\ model' = [model EXCEPT ![r] = Nobody]
    /\ runners' = [runners EXCEPT ![r] = <<>>]

-----------------------------------------------------------------------------
(* Bounded maps: a map over its limit loses its oldest keys.  Which keys    *)
(* are oldest is left open, but a key that was just inserted is not.        *)

Keys(map, empty) == { s \in Sessions : map[s] # empty }
Excess(map, empty, limit) ==
    IF Cardinality(Keys(map, empty)) > limit THEN Cardinality(Keys(map, empty)) - limit ELSE 0
Trimmed(map, empty, limit, spared) ==
    { [s \in Sessions |-> IF s \in old THEN empty ELSE map[s]] :
        old \in { o \in SUBSET (Keys(map, empty) \ spared) :
                    Cardinality(o) = Excess(map, empty, limit) } }

-----------------------------------------------------------------------------
(* The router: the routable models that fit the intent, best first (scores  *)
(* differ); without any of them the best routable one and no candidates;    *)
(* without a routable provider a RoutingError (Nobody).                     *)

Candidates(routable, order) == SelectSeq(order, LAMBDA p : p \in routable)
BestOf(routable, order) ==
    order[CHOOSE k \in DOMAIN order : /\ order[k] \in routable
                                      /\ \A j \in 1 .. k - 1 : order[j] \notin routable]
Select(routable, order) ==
    IF routable \cap Range(order) # {} THEN BestOf(routable, order)
    ELSE IF routable # {} THEN BestOf(routable, QualityOrder)
    ELSE Nobody

Consented(r) == IF HasSession(r) THEN consents[SessionOf[r]] ELSE {}
Routable(r) == active \cap ((Providers \ Sharing) \cup Consented(r))

\* complete(): the model, the fallbacks the client holds at that moment, and
\* then every model there is, until one answers.
Tried(r, first) ==
    LET known == <<first>> \o fallback
    IN  known \o SetToSeq(Providers \ Range(known))

-----------------------------------------------------------------------------
(* route_request() between its awaits                                       *)

Arrive(r, affirmative) ==
    /\ at[r] = "new"
    /\ Goto(r, "classify")
    /\ text' = [text EXCEPT ![r] = affirmative]
    /\ UNCHANGED <<agent, model, runners, called, conduitMaps>>

\* An ambiguous request goes to the arbiter before quota, consent and coins
\* have been looked at.
Ambiguous(r) ==
    /\ at[r] = "classify"
    /\ Goto(r, "clarify")
    /\ model' = [model EXCEPT ![r] = ArbiterModel]
    /\ UNCHANGED <<text, agent, runners, called, conduitMaps>>

\* Stickiness, for an intent without an agent of its own, then the answer to a
\* pending question about data sharing: any message takes the question away.
X_ResolveAnyone(r) ==
    LET s == SessionOf[r] IN
    IF HasSession(r) /\ \E q \in Sessions : pending[q] # Nobody /\ text[r]
    THEN /\ consents' = [consents EXCEPT ![s] = @ \cup
                          { pending[q] : q \in { z \in Sessions : pending[z] # Nobody } }]
         /\ pending' = [pending EXCEPT ![s] = Nobody]
    ELSE UNCHANGED <<consents, pending>>
ResolveConsent(r) ==
    LET s == SessionOf[r] IN
    IF HasSession(r) /\ pending[s] # Nobody
    THEN /\ pending' = [pending EXCEPT ![s] = Nobody]
         /\ IF text[r]
            THEN consents' \in Trimmed([consents EXCEPT ![s] = @ \cup {pending[s]}],
                                       {}, MaxConsents, {s})
            ELSE UNCHANGED consents
    ELSE UNCHANGED <<consents, pending>>

Classified(r, target, hinted) ==
    /\ at[r] = "classify"
    /\ agent' = [agent EXCEPT ![r] =
                  IF target = Nobody /\ ~hinted /\ HasSession(r)
                  THEN sticky[SessionOf[r]] ELSE target]
    /\ ResolveConsent(r)
    /\ Goto(r, "quota")
    /\ UNCHANGED <<text, model, runners, called, active, sticky, fallback, asked>>

\* All providers used up: QuotaExhaustedError.
QuotaExhausted(r) ==
    /\ at[r] = "quota"
    /\ Leave(r, "rejected")
    /\ UNCHANGED <<called, conduitMaps>>

\* Whether a data-sharing provider without consent would score higher; without
\* a session nobody is asked.
Unconsented(r) == (active \cap Sharing) \ Consented(r)
MustAsk(r, order) ==
    /\ HasSession(r)
    /\ Select(active, order) \in Unconsented(r)
    /\ \/ Select(Routable(r), order) = Nobody
       \/ Candidates(active, order) # <<>>

X_AskUnbounded(r, order) ==
    /\ at[r] = "quota"
    /\ MustAsk(r, order)
    /\ LET s == SessionOf[r]
           p == Select(active, order)
       IN  /\ pending' = [pending EXCEPT ![s] = p]
           /\ asked' = [asked EXCEPT ![s] = @ \cup {p}]
    /\ model' = [model EXCEPT ![r] = ArbiterModel]
    /\ Goto(r, "consent")
    /\ UNCHANGED <<text, agent, runners, called, active, sticky, consents, fallback>>
AskConsent(r, order) ==
    /\ at[r] = "quota"
    /\ MustAsk(r, order)
    /\ LET s == SessionOf[r]
           p == Select(active, order)
       IN  /\ pending' \in Trimmed([pending EXCEPT ![s] = p], Nobody, MaxConsents, {s})
           /\ asked' = [asked EXCEPT ![s] = @ \cup {p}]
    /\ model' = [model EXCEPT ![r] = ArbiterModel]
    /\ Goto(r, "consent")
    /\ UNCHANGED <<text, agent, runners, called, active, sticky, consents, fallback>>

\* The model selected, or on a RoutingError the first of the configuration.
X_ChosenUnfiltered(r, order) == Select(active, order)
Chosen(r, order) ==
    IF Select(Routable(r), order) = Nobody THEN ConfigOrder[1]
    ELSE Select(Routable(r), order)
RunnersUp(r, order) ==
    SelectSeq(Candidates(Routable(r), order), LAMBDA p : p # Chosen(r, order))

SelectModel(r, order) ==
    /\ at[r] = "quota"
    /\ ~MustAsk(r, order)
    /\ model' = [model EXCEPT ![r] = Chosen(r, order)]
    /\ runners' = [runners EXCEPT ![r] = RunnersUp(r, order)]
    /\ Goto(r, "coins")
    /\ UNCHANGED <<text, agent, called, conduitMaps>>

\* ensure_can_afford() raises.
CannotAfford(r) ==
    /\ at[r] = "coins"
    /\ Leave(r, "rejected")
    /\ UNCHANGED <<called, conduitMaps>>

\* Detail is asked for unless the session already sticks to that agent.
NeedsDetail(r) ==
    /\ at[r] = "coins"
    /\ agent[r] # Nobody
    /\ HasSession(r) => sticky[SessionOf[r]] # agent[r]
    /\ Goto(r, "detail")
    /\ UNCHANGED <<text, agent, model, runners, called, conduitMaps>>

\* The agent is fixed, the session sticks to a specialist, and the runners-up
\* become the client's fallback models.
Dispatch(r) ==
    /\ at[r] = "coins"
    /\ IF HasSession(r) /\ agent[r] # Nobody
       THEN sticky' \in Trimmed([sticky EXCEPT ![SessionOf[r]] = agent[r]], Nobody, MaxSticky, {})
       ELSE UNCHANGED sticky
    /\ fallback' = runners[r]
    /\ Goto(r, "dispatch")
    /\ UNCHANGED <<text, agent, model, runners, called, active, consents, pending, asked>>

\* handle(): the agent's model is called, tried times over until one answers.
Answers(r, tried) ==
    /\ at[r] \in {"clarify", "consent", "detail", "dispatch"}
    /\ tried \in 1 .. Len(Tried(r, model[r]))
    /\ called' = [by |-> r, models |-> Range(SubSeq(Tried(r, model[r]), 1, tried))]
    /\ sticky' = IF at[r] = "detail" /\ HasSession(r)
                 THEN [sticky EXCEPT ![SessionOf[r]] = agent[r]] ELSE sticky
    /\ Leave(r, "done")
    /\ UNCHANGED <<active, consents, pending, fallback, asked>>

\* handle() raises (the warden, a store, or a status the client does not retry).
Fails(r) ==
    /\ at[r] \in {"clarify", "consent", "detail", "dispatch"}
    /\ Leave(r, "failed")
    /\ UNCHANGED <<called, conduitMaps>>

-----------------------------------------------------------------------------
\* The models that fit an intent, best score first.
Orders == { q \in SeqOf(Providers, Cardinality(Providers)) : IsInjective(q) }

RouteStep(r) ==
    \/ Ambiguous(r)
    \/ \E target \in Specialists \cup {Nobody}, hinted \in BOOLEAN : Classified(r, target, hinted)
    \/ QuotaExhausted(r)
    \/ \E order \in Orders :
         AskConsent(r, order) \/ SelectModel(r, order)
    \/ CannotAfford(r)
    \/ NeedsDetail(r)
    \/ Dispatch(r)
    \/ \E tried \in 1 .. Cardinality(Providers) + Len(fallback) : Answers(r, tried)
    \/ Fails(r)

ConduitNext ==
    \E r \in Requests : (\E affirmative \in BOOLEAN : Arrive(r, affirmative)) \/ RouteStep(r)

ConduitSpec == ConduitInit /\ [][ConduitNext]_conduitVars

-----------------------------------------------------------------------------
(* Properties                                                              *)

\* However the requests of several sessions interleave and maps are trimmed, a
\* session consents only to what it was itself asked about (steps 4b and 6b).
ConsentWasAsked == \A s \in Sessions : consents[s] \subseteq asked[s]

\* A model picked for a request with a session never belongs to a data-sharing
\* provider that session was not asked about, also when the router finds no
\* model and the first of the configuration is taken (steps 5b to 6b).
SessionModelsWereAsked ==
    \A r \in Requests :
        HasSession(r) /\ at[r] \in {"coins", "detail", "dispatch"} /\ model[r] \in Sharing
            => model[r] \in asked[SessionOf[r]]

\* The consent maps keep to their limit (SEC-013).
ConsentMapsBounded ==
    /\ Cardinality(Keys(consents, {})) <= MaxConsents
    /\ Cardinality(Keys(pending, Nobody)) <= MaxConsents

\* Consent is a session's own, from the question to the model that is picked,
\* and remembering it never outgrows its limit.
ConsentIsOwn == ConsentWasAsked /\ SessionModelsWereAsked /\ ConsentMapsBounded

\* The map of sticky sessions keeps to its limit ("Evict oldest entries when
\* exceeded"): the way through NeedsDetail never evicts.
StickyMapBounded == Cardinality(Keys(sticky, Nobody)) <= MaxSticky

\* "Data-sharing providers are excluded from routing unless consented": what a
\* data-sharing provider is sent comes from a session that consents to it.
SharingNeedsConsent ==
    [][called' # called => called'.models \cap Sharing \subseteq Consented(called'.by)]_conduitVars

=============================================================================
