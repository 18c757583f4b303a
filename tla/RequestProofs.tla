--------------------------- MODULE RequestProofs ----------------------------
(***************************************************************************)
(* The parts a request passes: who may ask, what a session consented to,   *)
(* what one turn of an agent owes, what a user may spend, and what the     *)
(* history of a session shows.  Each theorem is about its part's own       *)
(* specification and any sets of actors.                                   *)
(***************************************************************************)
EXTENDS Conduit, AgentTurn, Accounts, CoinLedger, SessionStores,
        SetLemmas, SequenceTheorems

-----------------------------------------------------------------------------
(* Consent                                                                  *)

LEMMA SessionsAreFinite == ConduitAssumption => IsFiniteSet(Sessions)
<1> SUFFICES ASSUME ConduitAssumption PROVE IsFiniteSet(Sessions)
  OBVIOUS
<1> DEFINE R == { r \in Requests : HasSession(r) }
           f == [r \in R |-> SessionOf[r]]
<1>1. IsFiniteSet(R)
  BY FS_Subset DEF ConduitAssumption
<1>2. f \in Surjection(R, Sessions)
  BY DEF Surjection, Sessions, HasSession
<1>3. QED
  BY <1>1, <1>2, FS_Surjection

LEMMA OrdersAreSequences ==
  ASSUME NEW order \in Orders
  PROVE  order \in Seq(Providers)
BY DEF Orders, SeqOf

\* The first routable model of an order is routable.
LEMMA FirstIsRoutable ==
  ASSUME NEW order \in Seq(Providers), NEW routable, routable \cap Range(order) # {}
  PROVE  BestOf(routable, order) \in routable
<1> DEFINE Fit == { k \in DOMAIN order : order[k] \in routable }
<1>1. Fit \subseteq Nat
  OBVIOUS
<1>2. PICK e \in Fit : TRUE
  BY DEF Range
<1>3. PICK k \in Fit : \A j \in Fit : k <= j
  BY <1>1, <1>2, LeastNatural
<1>4. \A j \in 1 .. k - 1 : order[j] \notin routable
  <2> SUFFICES ASSUME NEW j \in 1 .. k - 1, order[j] \in routable PROVE FALSE
    OBVIOUS
  <2>1. j \in DOMAIN order /\ ~(k <= j)
    OBVIOUS
  <2>2. QED
    BY <1>3, <2>1
<1>5. k \in DOMAIN order /\ order[k] \in routable
  OBVIOUS
<1>6. QED
  BY <1>4, <1>5 DEF BestOf

\* The router picks a routable model whenever there is one.
LEMMA SelectedIsRoutable ==
  ASSUME ConduitAssumption, NEW order \in Orders, NEW routable \in SUBSET Providers
  PROVE  /\ routable # {} => Select(routable, order) \in routable
         /\ routable = {} => Select(routable, order) = Nobody
<1>1. order \in Seq(Providers) /\ QualityOrder \in Seq(Providers)
  BY OrdersAreSequences DEF ConduitAssumption
<1>2. CASE routable \cap Range(order) # {}
  BY <1>1, <1>2, FirstIsRoutable DEF Select
<1>3. CASE routable \cap Range(order) = {} /\ routable # {}
  <2>1. routable \cap Range(QualityOrder) # {}
    BY <1>3 DEF ConduitAssumption
  <2>2. QED
    BY <1>1, <1>3, <2>1, FirstIsRoutable DEF Select
<1>4. CASE routable = {}
  BY <1>4 DEF Select
<1>5. QED
  BY <1>2, <1>3, <1>4

\* A trimmed map holds what it held, or nothing, and keeps to its cap.
LEMMA TrimmedKeepsToLimit ==
  ASSUME ConduitAssumption, NEW map, NEW empty, NEW cap \in Nat, NEW spared,
         NEW new \in Trimmed(map, empty, cap, spared)
  PROVE  /\ new = [s \in Sessions |-> new[s]]
         /\ \A s \in Sessions : new[s] \in {map[s], empty}
         /\ Cardinality(Keys(new, empty)) <= cap
<1>1. PICK old \in SUBSET (Keys(map, empty) \ spared) :
          /\ Cardinality(old) = Excess(map, empty, cap)
          /\ new = [s \in Sessions |-> IF s \in old THEN empty ELSE map[s]]
  BY DEF Trimmed
<1>2. Keys(new, empty) = Keys(map, empty) \ old
  BY <1>1 DEF Keys
<1>3. IsFiniteSet(Keys(map, empty))
  BY SessionsAreFinite, FS_Subset DEF Keys
<1>4. /\ Cardinality(Keys(map, empty)) \in Nat
      /\ old \in SUBSET Keys(map, empty)
  BY <1>1, <1>3, FS_CardinalityType
<1>5. Cardinality(Keys(new, empty)) = Cardinality(Keys(map, empty)) - Cardinality(old)
  <2>1. Keys(map, empty) \cap old = old
    BY <1>4
  <2>2. QED
    BY <1>2, <1>3, <2>1, FS_Difference
<1>6. Cardinality(Keys(new, empty)) <= cap
  BY <1>1, <1>4, <1>5 DEF Excess
<1>7. QED
  BY <1>1, <1>6

ConduitTypeOK ==
    /\ active \in (SUBSET Providers) \ {{}}
    /\ at \in [Requests -> {"new", "classify", "quota", "coins", "clarify", "consent", "detail",
                            "dispatch"} \cup Answered]
    /\ model \in [Requests -> Providers \cup {Nobody}]
    /\ consents \in [Sessions -> SUBSET Providers]
    /\ pending \in [Sessions -> Providers \cup {Nobody}]
    /\ asked \in [Sessions -> SUBSET Providers]

\* What a session is yet to answer, it was asked.
PendingWasAsked == \A s \in Sessions : pending[s] # Nobody => pending[s] \in asked[s]

ConduitInv ==
    /\ ConduitTypeOK /\ PendingWasAsked
    /\ ConsentWasAsked /\ SessionModelsWereAsked /\ ConsentMapsBounded

LEMMA ConduitInitially == ConduitAssumption /\ ConduitInit => ConduitInv
<1> SUFFICES ASSUME ConduitAssumption, ConduitInit PROVE ConduitInv
  OBVIOUS
<1>1. ConduitTypeOK /\ PendingWasAsked /\ ConsentWasAsked /\ SessionModelsWereAsked
  BY DEF ConduitInit, ConduitTypeOK, PendingWasAsked, ConsentWasAsked, SessionModelsWereAsked
<1>2. Keys(consents, {}) = {} /\ Keys(pending, Nobody) = {}
  BY DEF ConduitInit, Keys
<1>3. /\ Cardinality(Keys(consents, {})) = 0
      /\ Cardinality(Keys(pending, Nobody)) = 0
  BY <1>2, FS_EmptySet
<1>4. QED
  BY <1>1, <1>3 DEF ConduitInv, ConsentMapsBounded, ConduitAssumption

LEMMA SessionOfRequest ==
  ASSUME NEW r \in Requests, HasSession(r)
  PROVE  SessionOf[r] \in Sessions
BY DEF Sessions, HasSession

\* The model a request with a session gets, it was asked about or shares nothing.
LEMMA ChosenWasAsked ==
  ASSUME ConduitAssumption, ConduitInv, NEW r \in Requests, NEW order \in Orders,
         ~MustAsk(r, order)
  PROVE  /\ Chosen(r, order) \in Providers
         /\ HasSession(r) /\ Chosen(r, order) \in Sharing
              => Chosen(r, order) \in asked[SessionOf[r]]
<1>0. Routable(r) \in SUBSET Providers /\ active \in SUBSET Providers /\ active # {}
  BY DEF ConduitInv, ConduitTypeOK, Routable
<1>1. CASE Routable(r) # {}
  <2>1. Chosen(r, order) \in Routable(r)
    BY <1>0, <1>1, SelectedIsRoutable DEF Chosen, ConduitAssumption
  <2>2. HasSession(r) => consents[SessionOf[r]] \subseteq asked[SessionOf[r]]
    BY SessionOfRequest DEF ConduitInv, ConsentWasAsked
  <2>3. QED
    BY <1>0, <2>1, <2>2 DEF Routable, Consented
<1>2. CASE Routable(r) = {}
  <2>1. Select(Routable(r), order) = Nobody
    BY <1>0, <1>2, SelectedIsRoutable
  <2>2. Chosen(r, order) \in Providers
    BY <2>1 DEF Chosen, ConduitAssumption
  <2>3. Select(active, order) \in active
    BY <1>0, SelectedIsRoutable
  <2>4. Select(active, order) \in Unconsented(r)
    BY <1>0, <1>2, <2>3 DEF Unconsented, Routable
  <2>5. ~HasSession(r)
    BY <2>1, <2>4 DEF MustAsk
  <2>6. QED
    BY <2>2, <2>5
<1>3. QED
  BY <1>1, <1>2

LEMMA ArriveKeeps ==
  ASSUME ConduitInv, NEW r \in Requests, NEW affirmative \in BOOLEAN, Arrive(r, affirmative)
  PROVE  ConduitInv'
<1>1. ConduitTypeOK' /\ PendingWasAsked' /\ ConsentWasAsked' /\ ConsentMapsBounded'
  BY DEF Arrive, Goto, conduitMaps, ConduitInv, ConduitTypeOK, PendingWasAsked,
         ConsentWasAsked, ConsentMapsBounded, Keys
<1>2. SessionModelsWereAsked'
  BY DEF Arrive, Goto, conduitMaps, ConduitInv, ConduitTypeOK, SessionModelsWereAsked
<1>3. QED
  BY <1>1, <1>2 DEF ConduitInv

\* A request moves on, or away, and the maps of consent stay.
LEMMA MoveKeeps ==
  ASSUME ConduitInv, NEW r \in Requests,
         NEW place \in {"clarify", "detail", "dispatch"} \cup Answered,
         at' = [at EXCEPT ![r] = place],
         NEW new \in Providers \cup {Nobody}, model' = [model EXCEPT ![r] = new],
         place \in {"detail", "dispatch"} => at[r] = "coins" /\ new = model[r],
         UNCHANGED <<active, consents, pending, asked>>
  PROVE  ConduitInv'
<1>1. ConduitTypeOK'
  BY DEF ConduitInv, ConduitTypeOK
<1>2. PendingWasAsked' /\ ConsentWasAsked' /\ ConsentMapsBounded'
  BY DEF ConduitInv, PendingWasAsked, ConsentWasAsked, ConsentMapsBounded, Keys
<1>3. SessionModelsWereAsked'
  BY DEF ConduitInv, ConduitTypeOK, SessionModelsWereAsked, Answered
<1>4. QED
  BY <1>1, <1>2, <1>3 DEF ConduitInv

LEMMA LeaveKeeps ==
  ASSUME ConduitInv, NEW r \in Requests, NEW place \in Answered, Leave(r, place),
         UNCHANGED <<active, consents, pending, asked>>
  PROVE  ConduitInv'
BY MoveKeeps DEF Leave, Goto, Answered

LEMMA ClassifiedKeeps ==
  ASSUME ConduitAssumption, ConduitInv, NEW r \in Requests, NEW target, NEW hinted,
         Classified(r, target, hinted)
  PROVE  ConduitInv'
<1> DEFINE s == SessionOf[r]
<1>0. /\ at' = [at EXCEPT ![r] = "quota"]
      /\ UNCHANGED <<model, active, asked>>
      /\ ResolveConsent(r)
  BY DEF Classified, Goto
<1>1. SessionModelsWereAsked'
  BY <1>0 DEF ConduitInv, ConduitTypeOK, SessionModelsWereAsked
<1>2. CASE UNCHANGED <<consents, pending>>
  <2>1. ConduitTypeOK'
    BY <1>0, <1>2 DEF ConduitInv, ConduitTypeOK
  <2>2. PendingWasAsked' /\ ConsentWasAsked' /\ ConsentMapsBounded'
    BY <1>0, <1>2 DEF ConduitInv, PendingWasAsked, ConsentWasAsked, ConsentMapsBounded, Keys
  <2>3. QED
    BY <1>1, <2>1, <2>2 DEF ConduitInv
<1>3. CASE HasSession(r) /\ pending[s] # Nobody
  <2>0. /\ s \in Sessions
        /\ pending' = [pending EXCEPT ![s] = Nobody]
        /\ pending[s] \in asked[s] /\ pending[s] \in Providers
    BY <1>0, <1>3, SessionOfRequest
       DEF ResolveConsent, ConduitInv, PendingWasAsked, ConduitTypeOK
  <2>1. /\ pending' \in [Sessions -> Providers \cup {Nobody}]
        /\ PendingWasAsked'
    BY <1>0, <2>0 DEF ConduitInv, ConduitTypeOK, PendingWasAsked
  <2>2. Cardinality(Keys(pending', Nobody)) <= MaxConsents
    <3>1. Keys(pending', Nobody) = Keys(pending, Nobody) \ {s}
      BY <2>0 DEF Keys, ConduitInv, ConduitTypeOK
    <3>2. IsFiniteSet(Keys(pending, Nobody))
      BY SessionsAreFinite, FS_Subset DEF Keys
    <3>3. Keys(pending', Nobody) \in SUBSET Keys(pending, Nobody)
      BY <3>1
    <3>4. /\ Cardinality(Keys(pending', Nobody)) <= Cardinality(Keys(pending, Nobody))
          /\ Cardinality(Keys(pending', Nobody)) \in Nat
          /\ Cardinality(Keys(pending, Nobody)) \in Nat
      BY <3>2, <3>3, FS_Subset, FS_CardinalityType
    <3>5. QED
      BY <3>4 DEF ConduitInv, ConsentMapsBounded, ConduitAssumption
  <2>3. CASE UNCHANGED consents
    <3>1. ConduitTypeOK'
      BY <1>0, <2>1, <2>3 DEF ConduitInv, ConduitTypeOK
    <3>2. ConsentWasAsked' /\ ConsentMapsBounded'
      BY <1>0, <2>2, <2>3 DEF ConduitInv, ConsentWasAsked, ConsentMapsBounded, Keys
    <3>3. QED
      BY <1>1, <2>1, <3>1, <3>2 DEF ConduitInv
  <2>4. CASE text[r]
    <3> DEFINE wider == [consents EXCEPT ![s] = consents[s] \cup {pending[s]}]
    <3>1. consents' \in Trimmed(wider, {}, MaxConsents, {s})
      BY <1>0, <1>3, <2>4 DEF ResolveConsent
    <3>2. wider \in [Sessions -> SUBSET Providers] /\ \A q \in Sessions : wider[q] \subseteq asked[q]
      BY <2>0 DEF ConduitInv, ConduitTypeOK, ConsentWasAsked
    <3> HIDE DEF wider
    <3>3. /\ consents' = [q \in Sessions |-> consents'[q]]
          /\ \A q \in Sessions : consents'[q] \in {wider[q], {}}
          /\ Cardinality(Keys(consents', {})) <= MaxConsents
      BY <3>1, TrimmedKeepsToLimit DEF ConduitAssumption
    <3>4. consents' \in [Sessions -> SUBSET Providers]
      BY <3>2, <3>3
    <3>5. ConduitTypeOK'
      BY <1>0, <2>1, <3>4 DEF ConduitInv, ConduitTypeOK
    <3>6. ConsentWasAsked'
      BY <1>0, <3>2, <3>3 DEF ConsentWasAsked
    <3>7. ConsentMapsBounded'
      BY <2>2, <3>3 DEF ConsentMapsBounded, Keys
    <3>8. QED
      BY <1>1, <2>1, <3>5, <3>6, <3>7 DEF ConduitInv
  <2>5. QED
    BY <1>0, <1>3, <2>3, <2>4 DEF ResolveConsent
<1>4. QED
  BY <1>0, <1>2, <1>3 DEF ResolveConsent

LEMMA AskConsentKeeps ==
  ASSUME ConduitAssumption, ConduitInv, NEW r \in Requests, NEW order \in Orders,
         AskConsent(r, order)
  PROVE  ConduitInv'
<1> DEFINE s == SessionOf[r]
           p == Select(active, order)
           more == [pending EXCEPT ![s] = p]
<1>1. /\ s \in Sessions /\ p \in Providers
  BY SessionOfRequest, SelectedIsRoutable
     DEF AskConsent, MustAsk, ConduitInv, ConduitTypeOK
<1>2. /\ pending' \in Trimmed(more, Nobody, MaxConsents, {s})
      /\ asked' = [asked EXCEPT ![s] = asked[s] \cup {p}]
      /\ model' = [model EXCEPT ![r] = ArbiterModel]
      /\ at' = [at EXCEPT ![r] = "consent"]
      /\ UNCHANGED <<active, consents>>
  BY DEF AskConsent, Goto
<1>3. /\ asked' \in [Sessions -> SUBSET Providers]
      /\ \A q \in Sessions : asked[q] \subseteq asked'[q]
      /\ p \in asked'[s]
  BY <1>1, <1>2 DEF ConduitInv, ConduitTypeOK
<1>4. \A q \in Sessions : more[q] = IF q = s THEN p ELSE pending[q]
  BY <1>1 DEF ConduitInv, ConduitTypeOK
<1> HIDE DEF p, s, more
<1>5. /\ pending' = [q \in Sessions |-> pending'[q]]
      /\ \A q \in Sessions : pending'[q] \in {more[q], Nobody}
      /\ Cardinality(Keys(pending', Nobody)) <= MaxConsents
  BY <1>2, TrimmedKeepsToLimit DEF ConduitAssumption
<1>6. pending' \in [Sessions -> Providers \cup {Nobody}]
  BY <1>1, <1>4, <1>5 DEF ConduitInv, ConduitTypeOK
<1>7. ConduitTypeOK'
  BY <1>2, <1>3, <1>6 DEF ConduitInv, ConduitTypeOK, ConduitAssumption
<1>8. PendingWasAsked'
  <2> SUFFICES ASSUME NEW q \in Sessions, pending'[q] # Nobody
               PROVE  pending'[q] \in asked'[q]
    BY DEF PendingWasAsked
  <2>1. pending'[q] = more[q]
    BY <1>5
  <2>2. CASE q = s
    BY <1>3, <1>4, <2>1, <2>2
  <2>3. CASE q # s
    BY <1>3, <1>4, <2>1, <2>3 DEF ConduitInv, PendingWasAsked
  <2>4. QED
    BY <2>2, <2>3
<1>9. ConsentWasAsked'
  BY <1>2, <1>3 DEF ConduitInv, ConsentWasAsked
<1>10. ConsentMapsBounded'
  BY <1>2, <1>5 DEF ConduitInv, ConsentMapsBounded, Keys
<1>11. SessionModelsWereAsked'
  <2> SUFFICES ASSUME NEW q \in Requests, HasSession(q),
                      at'[q] \in {"coins", "detail", "dispatch"}, model'[q] \in Sharing
               PROVE  model'[q] \in asked'[SessionOf[q]]
    BY DEF SessionModelsWereAsked, HasSession
  <2>1. q # r /\ at'[q] = at[q] /\ model'[q] = model[q]
    BY <1>2 DEF ConduitInv, ConduitTypeOK
  <2>2. model[q] \in asked[SessionOf[q]]
    BY <2>1 DEF ConduitInv, SessionModelsWereAsked
  <2>3. QED
    BY <1>3, <2>1, <2>2, SessionOfRequest
<1>12. QED
  BY <1>7, <1>8, <1>9, <1>10, <1>11 DEF ConduitInv

LEMMA SelectModelKeeps ==
  ASSUME ConduitAssumption, ConduitInv, NEW r \in Requests, NEW order \in Orders,
         SelectModel(r, order)
  PROVE  ConduitInv'
<1>1. PICK m : m = Chosen(r, order)
  OBVIOUS
<1>2. /\ m \in Providers
      /\ HasSession(r) /\ m \in Sharing => m \in asked[SessionOf[r]]
  BY <1>1, ChosenWasAsked DEF SelectModel
<1>3. /\ model' = [model EXCEPT ![r] = m]
      /\ at' = [at EXCEPT ![r] = "coins"]
      /\ UNCHANGED <<active, consents, pending, asked>>
  BY <1>1 DEF SelectModel, Goto, conduitMaps
<1>4. ConduitTypeOK'
  BY <1>2, <1>3 DEF ConduitInv, ConduitTypeOK
<1>5. PendingWasAsked' /\ ConsentWasAsked' /\ ConsentMapsBounded'
  BY <1>3 DEF ConduitInv, PendingWasAsked, ConsentWasAsked, ConsentMapsBounded, Keys
<1>6. SessionModelsWereAsked'
  BY <1>2, <1>3 DEF ConduitInv, ConduitTypeOK, SessionModelsWereAsked, HasSession
<1>7. QED
  BY <1>4, <1>5, <1>6 DEF ConduitInv

LEMMA ConduitStepByStep ==
  ConduitAssumption /\ ConduitInv /\ [ConduitNext]_conduitVars => ConduitInv'
<1> SUFFICES ASSUME ConduitAssumption, ConduitInv, [ConduitNext]_conduitVars
             PROVE  ConduitInv'
  OBVIOUS
<1>1. CASE UNCHANGED conduitVars
  <2>1. ConduitTypeOK'
    BY <1>1 DEF conduitVars, conduitMaps, ConduitInv, ConduitTypeOK
  <2>2. PendingWasAsked' /\ ConsentWasAsked' /\ ConsentMapsBounded' /\ SessionModelsWereAsked'
    BY <1>1 DEF conduitVars, conduitMaps, ConduitInv, PendingWasAsked, ConsentWasAsked,
                ConsentMapsBounded, Keys, SessionModelsWereAsked, HasSession
  <2>3. QED
    BY <2>1, <2>2 DEF ConduitInv
<1>2. ASSUME NEW r \in Requests, Ambiguous(r) PROVE ConduitInv'
  <2>1. PICK m \in Providers \cup {Nobody} : m = ArbiterModel
    BY DEF ConduitAssumption
  <2>2. PICK place \in {"clarify", "detail", "dispatch"} \cup Answered : place = "clarify"
    OBVIOUS
  <2>3. /\ at' = [at EXCEPT ![r] = place]
        /\ model' = [model EXCEPT ![r] = m]
        /\ UNCHANGED <<active, consents, pending, asked>>
    BY <1>2, <2>1, <2>2 DEF Ambiguous, Goto, conduitMaps
  <2>4. QED
    BY <2>2, <2>3, MoveKeeps
<1>3. ASSUME NEW r \in Requests, QuotaExhausted(r) \/ CannotAfford(r) \/ Fails(r)
      PROVE  ConduitInv'
  BY <1>3, LeaveKeeps DEF QuotaExhausted, CannotAfford, Fails, Answered, conduitMaps
<1>4. ASSUME NEW r \in Requests, NeedsDetail(r) \/ Dispatch(r) PROVE ConduitInv'
  <2>1. PICK m \in Providers \cup {Nobody} : m = model[r] /\ model' = [model EXCEPT ![r] = m]
    BY <1>4 DEF NeedsDetail, Dispatch, ConduitInv, ConduitTypeOK
  <2>2. PICK place \in {"detail", "dispatch"} : at' = [at EXCEPT ![r] = place]
    BY <1>4 DEF NeedsDetail, Dispatch, Goto
  <2>3. at[r] = "coins" /\ UNCHANGED <<active, consents, pending, asked>>
    BY <1>4 DEF NeedsDetail, Dispatch, conduitMaps
  <2>4. QED
    BY <2>1, <2>2, <2>3, MoveKeeps
<1>5. ASSUME NEW r \in Requests, NEW tried, Answers(r, tried) PROVE ConduitInv'
  BY <1>5, LeaveKeeps DEF Answers, Answered
<1>6. ASSUME NEW r \in Requests, RouteStep(r) PROVE ConduitInv'
  BY <1>2, <1>3, <1>4, <1>5, <1>6, ClassifiedKeeps, AskConsentKeeps, SelectModelKeeps
     DEF RouteStep
<1>7. QED
  BY <1>1, <1>6, ArriveKeeps DEF ConduitNext

\* However the requests of any number of sessions interleave between the awaits of
\* route_request() and however the bounded maps are trimmed, a session consents only to what it
\* was asked about and gets only such models, also where the router finds none (conduit.py).
THEOREM ConsentIsAlwaysOwn == ConduitSpec => []ConsentIsOwn
<1>1. ConduitInv => ConsentIsOwn
  BY DEF ConduitInv, ConsentIsOwn
<1>2. QED
  BY <1>1, ConduitInitially, ConduitStepByStep, ConduitAssumption, PTL DEF ConduitSpec

-----------------------------------------------------------------------------
(* The turns of an agent                                                    *)

Early == {"scan", "history", "build", "llm", "tools", "rca", "extract", "promote", "save"}

TurnTypeOK ==
    /\ step \in [Turns -> Early \cup After \cup Ended]
    /\ round \in [Turns -> Nat]
    /\ calls \in [Turns -> Seq(Call)]
    /\ offered \in [Turns -> Nat]
    /\ tools \in [Turns -> Seq(ToolResult)]
    /\ injected \in [Turns -> BOOLEAN]
    /\ reply \in [Turns -> BOOLEAN]
    /\ session \in Seq(Turns \X {"user", "assistant"})
    /\ charged \in [Turns -> Nat]
    /\ outcomes \in [Turns -> Nat]
    /\ mark \in [Turns -> {"none", "success", "failure"}]

\* Every call that was offered has its result or is still to be run.
CallsAddUp(t) ==
    /\ round[t] <= MaxRounds
    /\ step[t] # "apologised" /\ step[t] # "raised" =>
         Len(tools[t]) + Len(calls[t]) = offered[t]
    /\ step[t] = "tools" => calls[t] # <<>> /\ round[t] < MaxRounds
    /\ step[t] \notin {"tools", "apologised", "raised"} => calls[t] = <<>>

Remembered(t) == <<t, "assistant">> \in Range(session)

\* What a turn has done of the bookkeeping, by the step it is at.
BookedSoFar(t) ==
    /\ step[t] \in Early => ~Remembered(t)
    /\ step[t] \in {"charge", "outcome", "mark", "answered"} => (Remembered(t) <=> reply[t] = TRUE)
    /\ step[t] \in Early \cup {"charge"} => charged[t] = 0
    /\ step[t] \in {"outcome", "mark", "answered"} => charged[t] = 1
    /\ step[t] \in Early \cup {"charge", "outcome"} => outcomes[t] = 0
    /\ step[t] \in {"mark", "answered"} => outcomes[t] = 1
    /\ step[t] \in Early \cup {"charge", "outcome", "mark"} => mark[t] = "none"
    /\ step[t] = "mark" => injected[t] = TRUE
    /\ step[t] = "answered" => (mark[t] # "none" <=> injected[t] = TRUE)
    /\ step[t] = "answered" /\ mark[t] = "success" => ~ToolsFailed(t)

TurnInv ==
    /\ TurnTypeOK
    /\ \A t \in Turns : CallsAddUp(t)
    /\ \A t \in Turns : BookedSoFar(t)

LEMMA TurnInitially == TurnAssumption /\ TurnInit => TurnInv
<1> SUFFICES ASSUME TurnAssumption, TurnInit PROVE TurnInv
  OBVIOUS
<1>1. TurnTypeOK
  BY DEF TurnInit, TurnTypeOK, Early
<1>2. ASSUME NEW t \in Turns PROVE CallsAddUp(t)
  BY DEF TurnInit, CallsAddUp, TurnAssumption
<1>3. ASSUME NEW t \in Turns PROVE BookedSoFar(t)
  <2>1. ~Remembered(t)
    BY DEF TurnInit, Remembered, Range
  <2>2. QED
    BY <2>1 DEF TurnInit, BookedSoFar, Early
<1>4. QED
  BY <1>1, <1>2, <1>3 DEF TurnInv

LEMMA TwoMore ==
  ASSUME NEW M, NEW q \in Seq(M), NEW two \in Seq(M), Len(two) = 2
  PROVE  /\ q \o two \in Seq(M)
         /\ DOMAIN (q \o two) = 1 .. Len(q) + 2
         /\ \A k \in 1 .. Len(q) : (q \o two)[k] = q[k]
         /\ (q \o two)[Len(q) + 1] = two[1] /\ (q \o two)[Len(q) + 2] = two[2]
BY ConcatProperties

LEMMA SavedMessages ==
  ASSUME NEW q \in Seq(Turns \X {"user", "assistant"}), NEW t \in Turns, NEW u \in Turns
  PROVE  LET new == q \o <<<<t, "user">>, <<t, "assistant">>>>
         IN  /\ new \in Seq(Turns \X {"user", "assistant"})
             /\ <<u, "assistant">> \in Range(new)
                  <=> u = t \/ <<u, "assistant">> \in Range(q)
<1> DEFINE two == <<<<t, "user">>, <<t, "assistant">>>>
           new == q \o two
           n == Len(q)
           M == Turns \X {"user", "assistant"}
<1>0. <<t, "user">> \in M /\ <<t, "assistant">> \in M
  OBVIOUS
<1>1. /\ two \in Seq(M) /\ Len(two) = 2
      /\ two[1] = <<t, "user">> /\ two[2] = <<t, "assistant">>
  BY <1>0
<1> HIDE DEF two
<1>2a. q \in Seq(M) /\ n \in Nat /\ DOMAIN q = 1 .. n
  OBVIOUS
<1> HIDE DEF M
<1>2b. /\ new \in Seq(M) /\ DOMAIN new = 1 .. n + 2
       /\ \A k \in 1 .. n : new[k] = q[k]
       /\ new[n + 1] = two[1] /\ new[n + 2] = two[2]
  BY <1>1, <1>2a, TwoMore
<1>2. /\ n \in Nat /\ DOMAIN q = 1 .. n /\ DOMAIN new = 1 .. n + 2
      /\ \A k \in 1 .. n : new[k] = q[k]
      /\ new[n + 1] = <<t, "user">> /\ new[n + 2] = <<t, "assistant">>
  BY <1>1, <1>2a, <1>2b
<1> HIDE DEF new, n
<1>3. ASSUME NEW k \in DOMAIN new, new[k] = <<u, "assistant">>
      PROVE  u = t \/ \E j \in DOMAIN q : q[j] = <<u, "assistant">>
  <2>1. CASE k \in 1 .. n
    BY <1>2, <1>3, <2>1
  <2>2. CASE k = n + 1
    BY <1>2, <1>3, <2>2
  <2>3. CASE k = n + 2
    BY <1>2, <1>3, <2>3
  <2>4. QED
    BY <1>2, <2>1, <2>2, <2>3
<1>4. ASSUME NEW j \in DOMAIN q, q[j] = <<u, "assistant">>
      PROVE  \E k \in DOMAIN new : new[k] = <<u, "assistant">>
  <2>1. j \in DOMAIN new /\ new[j] = q[j]
    BY <1>2
  <2>2. QED
    BY <1>4, <2>1
<1>5. u = t => \E k \in DOMAIN new : new[k] = <<u, "assistant">>
  <2>1. n + 2 \in DOMAIN new
    BY <1>2
  <2>2. QED
    BY <1>2, <2>1
<1>6. <<u, "assistant">> \in Range(new) <=> u = t \/ <<u, "assistant">> \in Range(q)
  BY <1>3, <1>4, <1>5 DEF Range
<1>7. QED
  BY <1>2b, <1>6 DEF new, two, M

\* What the other turns have stays as it is.
Elsewhere(t) ==
    \A u \in Turns \ {t} :
        /\ step'[u] = step[u] /\ round'[u] = round[u] /\ calls'[u] = calls[u]
        /\ offered'[u] = offered[u] /\ tools'[u] = tools[u]
        /\ injected'[u] = injected[u] /\ reply'[u] = reply[u]
        /\ charged'[u] = charged[u] /\ outcomes'[u] = outcomes[u] /\ mark'[u] = mark[u]
        /\ Remembered(u)' <=> Remembered(u)

LEMMA OneTurnMoves ==
  ASSUME TurnInv, NEW t \in Turns, TurnTypeOK', Elsewhere(t),
         CallsAddUp(t)', BookedSoFar(t)'
  PROVE  TurnInv'
<1>1. ASSUME NEW u \in Turns PROVE CallsAddUp(u)'
  <2>1. CASE u = t
    BY <2>1
  <2>2. CASE u # t
    BY <2>2 DEF Elsewhere, TurnInv, CallsAddUp
  <2>3. QED
    BY <2>1, <2>2
<1>2. ASSUME NEW u \in Turns PROVE BookedSoFar(u)'
  <2>1. CASE u = t
    BY <2>1
  <2>2. CASE u # t
    <3>1. BookedSoFar(u)
      BY DEF TurnInv
    <3>2. ToolsFailed(u)' <=> ToolsFailed(u)
      BY <2>2 DEF Elsewhere, ToolsFailed
    <3>3. QED
      BY <2>2, <3>1, <3>2 DEF Elsewhere, BookedSoFar
  <2>3. QED
    BY <2>1, <2>2
<1>3. QED
  BY <1>1, <1>2 DEF TurnInv

\* Steps that only change where a turn is.
LEMMA GoesOn ==
  ASSUME TurnInv, NEW t \in Turns, NEW place \in Early \cup After \cup Ended,
         To(t, place), UNCHANGED <<loopVars, injected, reply, storeVars>>,
         \/ place \in {"apologised", "raised"}
         \/ place = "blocked" /\ step[t] = "scan"
         \/ place \in Early \ {"tools"} /\ step[t] \in Early \ {"tools"}
  PROVE  TurnInv'
<1>1. TurnTypeOK'
  BY DEF To, loopVars, storeVars, TurnInv, TurnTypeOK
<1>2. Elsewhere(t)
  BY DEF To, loopVars, storeVars, TurnInv, TurnTypeOK, Elsewhere, Remembered
<1>3. step'[t] = place
  BY DEF To, TurnInv, TurnTypeOK
<1>4. CallsAddUp(t)'
  BY <1>3 DEF loopVars, TurnInv, CallsAddUp, Early, Ended
<1>5. BookedSoFar(t)'
  BY <1>3 DEF loopVars, storeVars, TurnInv, BookedSoFar, Early, Remembered
<1>6. QED
  BY <1>1, <1>2, <1>4, <1>5, OneTurnMoves

LEMMA BuildKeeps ==
  ASSUME TurnInv, NEW t \in Turns, NEW some \in BOOLEAN, Build(t, some)
  PROVE  TurnInv'
<1>1. TurnTypeOK'
  BY DEF Build, To, loopVars, storeVars, TurnInv, TurnTypeOK, Early
<1>2. Elsewhere(t)
  BY DEF Build, To, loopVars, storeVars, TurnInv, TurnTypeOK, Elsewhere, Remembered
<1>3. step[t] = "build" /\ step'[t] = "llm"
  BY DEF Build, To, TurnInv, TurnTypeOK
<1>4. CallsAddUp(t)'
  BY <1>3 DEF Build, loopVars, TurnInv, CallsAddUp
<1>5. BookedSoFar(t)'
  BY <1>3 DEF Build, storeVars, TurnInv, BookedSoFar, Early, Remembered
<1>6. QED
  BY <1>1, <1>2, <1>4, <1>5, OneTurnMoves

LEMMA ReasonedKeeps ==
  ASSUME TurnInv, NEW t \in Turns, NEW asks, NEW words \in BOOLEAN, Reasoned(t, asks, words)
  PROVE  TurnInv'
<1>1. TurnTypeOK'
  BY DEF Reasoned, To, loopVars, storeVars, TurnInv, TurnTypeOK, Early
<1>2. Elsewhere(t)
  BY DEF Reasoned, To, loopVars, storeVars, TurnInv, TurnTypeOK, Elsewhere, Remembered
<1>3. step[t] = "llm" /\ step'[t] = "rca"
  BY DEF Reasoned, To, TurnInv, TurnTypeOK
<1>4. CallsAddUp(t)'
  BY <1>3 DEF Reasoned, loopVars, TurnInv, CallsAddUp
<1>5. BookedSoFar(t)'
  BY <1>3 DEF Reasoned, storeVars, TurnInv, BookedSoFar, Early, Remembered
<1>6. QED
  BY <1>1, <1>2, <1>4, <1>5, OneTurnMoves

LEMMA AskToolsKeeps ==
  ASSUME TurnAssumption, TurnInv, NEW t \in Turns, NEW asks \in CallLists, AskTools(t, asks)
  PROVE  TurnInv'
<1>0. asks \in Seq(Call) /\ Len(asks) \in Nat
  BY DEF TurnAssumption
<1>1. TurnTypeOK'
  BY <1>0 DEF AskTools, To, loopVars, storeVars, TurnInv, TurnTypeOK, Early
<1>2. Elsewhere(t)
  BY DEF AskTools, To, loopVars, storeVars, TurnInv, TurnTypeOK, Elsewhere, Remembered
<1>3. /\ step[t] = "llm" /\ step'[t] = "tools"
      /\ calls[t] = <<>> /\ calls'[t] = asks /\ offered'[t] = offered[t] + Len(asks)
      /\ tools' = tools /\ round' = round /\ asks # <<>> /\ round[t] < MaxRounds
      /\ Len(tools[t]) + Len(calls[t]) = offered[t]
  BY DEF AskTools, To, TurnInv, TurnTypeOK, CallsAddUp
<1>4. CallsAddUp(t)'
  <2>1. Len(tools[t]) \in Nat /\ offered[t] \in Nat /\ round[t] <= MaxRounds
    BY DEF TurnInv, TurnTypeOK, CallsAddUp
  <2>2. QED
    BY <1>0, <1>3, <2>1 DEF CallsAddUp
<1>5. BookedSoFar(t)'
  BY <1>3 DEF AskTools, storeVars, TurnInv, BookedSoFar, Early, Remembered
<1>6. QED
  BY <1>1, <1>2, <1>4, <1>5, OneTurnMoves

LEMMA RunToolKeeps ==
  ASSUME TurnAssumption, TurnInv, NEW t \in Turns, NEW denied \in BOOLEAN, NEW good \in BOOLEAN,
         RunTool(t, denied, good)
  PROVE  TurnInv'
<1>0. /\ step[t] = "tools" /\ calls[t] \in Seq(Call) /\ calls[t] # <<>>
      /\ tools[t] \in Seq(ToolResult)
      /\ round[t] \in Nat /\ round[t] < MaxRounds /\ MaxRounds \in Nat
      /\ Len(tools[t]) + Len(calls[t]) = offered[t]
  BY DEF RunTool, TurnInv, TurnTypeOK, CallsAddUp, TurnAssumption
<1>1. PICK result \in ToolResult :
          result = [call |-> Head(calls[t]), ran |-> ~denied, good |-> good]
  <2>1. Head(calls[t]) \in Call
    BY <1>0
  <2>2. PICK ran \in BOOLEAN : ran = ~denied
    BY Zenon
  <2>3. [call |-> Head(calls[t]), ran |-> ran, good |-> good] \in ToolResult
    BY <2>1 DEF ToolResult
  <2>4. QED
    BY <2>2, <2>3, Zenon
<1>2. PICK more \in Seq(ToolResult) :
          /\ more = Append(tools[t], result)
          /\ Len(more) = Len(tools[t]) + 1
  <2>1. tools[t] \in Seq(ToolResult)
    BY <1>0
  <2>2. Append(tools[t], result) \in Seq(ToolResult)
        /\ Len(Append(tools[t], result)) = Len(tools[t]) + 1
    BY <2>1, AppendProperties
  <2>3. QED
    BY <2>2
<1>3. PICK rest \in Seq(Call) : rest = Tail(calls[t]) /\ Len(rest) = Len(calls[t]) - 1
  BY <1>0, HeadTailProperties
<1>4. /\ tools' = [tools EXCEPT ![t] = more]
      /\ calls' = [calls EXCEPT ![t] = rest]
      /\ UNCHANGED <<offered, injected, reply, storeVars>>
  BY <1>1, <1>2, <1>3 DEF RunTool
<1>5. \/ /\ Len(rest) = 0
         /\ round' = [round EXCEPT ![t] = round[t] + 1]
         /\ step' = [step EXCEPT ![t] = "llm"]
      \/ /\ Len(rest) # 0
         /\ UNCHANGED <<round, step>>
  BY <1>0, <1>3 DEF RunTool, To
<1>6. TurnTypeOK'
  <2>1. tools' \in [Turns -> Seq(ToolResult)] /\ calls' \in [Turns -> Seq(Call)]
    BY <1>4 DEF TurnInv, TurnTypeOK
  <2>2. round' \in [Turns -> Nat] /\ step' \in [Turns -> Early \cup After \cup Ended]
    <3>1. /\ round \in [Turns -> Nat] /\ step \in [Turns -> Early \cup After \cup Ended]
          /\ round[t] + 1 \in Nat /\ "llm" \in Early
      BY <1>0 DEF TurnInv, TurnTypeOK, Early
    <3>2. CASE Len(rest) = 0
      BY <1>5, <3>1, <3>2
    <3>3. CASE Len(rest) # 0
      BY <1>5, <3>1, <3>3
    <3>4. QED
      BY <3>2, <3>3
  <2>3. QED
    BY <1>4, <2>1, <2>2 DEF storeVars, TurnInv, TurnTypeOK
<1>7. Elsewhere(t)
  BY <1>4, <1>5 DEF storeVars, TurnInv, TurnTypeOK, Elsewhere, Remembered
<1>8. /\ tools'[t] = more /\ calls'[t] = rest /\ offered'[t] = offered[t]
      /\ \/ Len(rest) = 0 /\ round'[t] = round[t] + 1 /\ step'[t] = "llm"
         \/ Len(rest) # 0 /\ round'[t] = round[t] /\ step'[t] = "tools"
  BY <1>0, <1>4, <1>5 DEF TurnInv, TurnTypeOK
<1>9. CallsAddUp(t)'
  <2>1. Len(more) + Len(rest) = offered[t]
    <3>1. Len(tools[t]) \in Nat /\ Len(calls[t]) \in Nat
      BY <1>0
    <3>2. /\ Len(more) = Len(tools[t]) + 1 /\ Len(rest) = Len(calls[t]) - 1
          /\ Len(tools[t]) + Len(calls[t]) = offered[t]
      BY <1>0, <1>2, <1>3
    <3>3. PICK a \in Nat, b \in Nat : a = Len(tools[t]) /\ b = Len(calls[t])
      BY <3>1
    <3>4. Len(more) = a + 1 /\ Len(rest) = b - 1 /\ a + b = offered[t]
      BY <3>2, <3>3
    <3>5. (a + 1) + (b - 1) = a + b
      OBVIOUS
    <3>6. QED
      BY <3>4, <3>5
  <2>2. CASE Len(rest) = 0
    <3>1. rest = <<>>
      BY <2>2
    <3>2. QED
      BY <1>0, <1>8, <2>1, <2>2, <3>1 DEF CallsAddUp
  <2>3. CASE Len(rest) # 0
    <3>1. rest # <<>>
      BY <2>3
    <3>2. QED
      BY <1>0, <1>8, <2>1, <2>3, <3>1 DEF CallsAddUp
  <2>4. QED
    BY <2>2, <2>3
<1>10. BookedSoFar(t)'
  BY <1>0, <1>4, <1>8 DEF storeVars, TurnInv, BookedSoFar, Early, Remembered
<1>11. QED
  BY <1>6, <1>7, <1>9, <1>10, OneTurnMoves

LEMMA LearnKeeps ==
  ASSUME TurnInv, NEW t \in Turns, NEW found \in BOOLEAN,
         ExtractRca(t, found) \/ ExtractLearnings(t, found)
  PROVE  TurnInv'
<1>0. PICK place \in {"extract", "promote", "save"} : To(t, place)
  BY DEF ExtractRca, ExtractLearnings
<1>1. /\ UNCHANGED <<loopVars, injected, reply, session, charged, outcomes, mark>>
      /\ step[t] \in {"rca", "extract"}
  BY DEF ExtractRca, ExtractLearnings
<1>2. step'[t] = place
  BY <1>0 DEF To, TurnInv, TurnTypeOK
<1>3. TurnTypeOK'
  BY <1>0, <1>1 DEF To, loopVars, TurnInv, TurnTypeOK, Early
<1>4. Elsewhere(t)
  BY <1>0, <1>1 DEF To, loopVars, TurnInv, TurnTypeOK, Elsewhere, Remembered
<1>5. CallsAddUp(t)'
  BY <1>1, <1>2 DEF loopVars, TurnInv, CallsAddUp
<1>6. BookedSoFar(t)'
  BY <1>1, <1>2 DEF TurnInv, BookedSoFar, Early, Remembered
<1>7. QED
  BY <1>3, <1>4, <1>5, <1>6, OneTurnMoves

LEMMA SaveKeeps ==
  ASSUME TurnInv, NEW t \in Turns, Save(t)
  PROVE  TurnInv'
<1>0. /\ step[t] = "save" /\ step' = [step EXCEPT ![t] = "charge"] /\ step'[t] = "charge"
      /\ UNCHANGED <<loopVars, injected, reply, learned, charged, outcomes, mark>>
      /\ session' = IF reply[t] = TRUE THEN session \o <<<<t, "user">>, <<t, "assistant">>>>
                    ELSE session
      /\ ~Remembered(t)
  BY DEF Save, To, TurnInv, TurnTypeOK, BookedSoFar, Early
<1>1. session \in Seq(Turns \X {"user", "assistant"})
  BY DEF TurnInv, TurnTypeOK
<1>2. session' \in Seq(Turns \X {"user", "assistant"})
  BY <1>0, <1>1, SavedMessages
<1>3. \A u \in Turns : Remembered(u)' <=> Remembered(u) \/ (u = t /\ reply[t] = TRUE)
  <2> SUFFICES ASSUME NEW u \in Turns
               PROVE  Remembered(u)' <=> Remembered(u) \/ (u = t /\ reply[t] = TRUE)
    OBVIOUS
  <2>1. CASE reply[t] = TRUE
    BY <1>0, <1>1, <2>1, SavedMessages DEF Remembered
  <2>2. CASE reply[t] # TRUE
    BY <1>0, <2>2 DEF Remembered
  <2>3. QED
    BY <2>1, <2>2
<1>4. TurnTypeOK'
  BY <1>0, <1>2 DEF loopVars, TurnInv, TurnTypeOK, After
<1>5. Elsewhere(t)
  BY <1>0, <1>3 DEF loopVars, TurnInv, TurnTypeOK, Elsewhere
<1>6. CallsAddUp(t)'
  BY <1>0 DEF loopVars, TurnInv, CallsAddUp
<1>7. BookedSoFar(t)'
  BY <1>0, <1>3 DEF TurnInv, BookedSoFar, Early
<1>8. QED
  BY <1>4, <1>5, <1>6, <1>7, OneTurnMoves

LEMMA ChargeKeeps ==
  ASSUME TurnInv, NEW t \in Turns, Charge(t)
  PROVE  TurnInv'
<1>0. /\ step[t] = "charge" /\ step'[t] = "outcome" /\ charged'[t] = charged[t] + 1
      /\ charged[t] = 0
  BY DEF Charge, To, TurnInv, TurnTypeOK, BookedSoFar
<1>1. TurnTypeOK'
  BY DEF Charge, To, loopVars, TurnInv, TurnTypeOK, After
<1>2. Elsewhere(t)
  BY DEF Charge, To, loopVars, TurnInv, TurnTypeOK, Elsewhere, Remembered
<1>3. CallsAddUp(t)'
  BY <1>0 DEF Charge, loopVars, TurnInv, CallsAddUp
<1>4. BookedSoFar(t)'
  BY <1>0 DEF Charge, TurnInv, BookedSoFar, Early, Remembered
<1>5. QED
  BY <1>1, <1>2, <1>3, <1>4, OneTurnMoves

LEMMA OutcomeKeeps ==
  ASSUME TurnInv, NEW t \in Turns, RecordOutcome(t)
  PROVE  TurnInv'
<1>0. /\ step[t] = "outcome" /\ outcomes'[t] = outcomes[t] + 1 /\ outcomes[t] = 0
      /\ mark[t] = "none"
      /\ step'[t] = IF injected[t] = TRUE THEN "mark" ELSE "answered"
  BY DEF RecordOutcome, To, TurnInv, TurnTypeOK, BookedSoFar
<1>1. TurnTypeOK'
  BY DEF RecordOutcome, To, loopVars, TurnInv, TurnTypeOK, After, Ended
<1>2. Elsewhere(t)
  BY DEF RecordOutcome, To, loopVars, TurnInv, TurnTypeOK, Elsewhere, Remembered
<1>3. CallsAddUp(t)'
  BY <1>0 DEF RecordOutcome, loopVars, TurnInv, CallsAddUp
<1>4. BookedSoFar(t)'
  BY <1>0 DEF RecordOutcome, TurnInv, BookedSoFar, Early, Remembered
<1>5. QED
  BY <1>1, <1>2, <1>3, <1>4, OneTurnMoves

LEMMA MarkKeeps ==
  ASSUME TurnInv, NEW t \in Turns, MarkOutcome(t)
  PROVE  TurnInv'
<1>0. /\ step[t] = "mark" /\ step'[t] = "answered" /\ injected[t] = TRUE
      /\ mark'[t] = IF ToolsFailed(t) THEN "failure" ELSE "success"
      /\ ToolsFailed(t)' <=> ToolsFailed(t)
  BY DEF MarkOutcome, To, TurnInv, TurnTypeOK, BookedSoFar, ToolsFailed, loopVars
<1>1. TurnTypeOK'
  BY DEF MarkOutcome, To, loopVars, TurnInv, TurnTypeOK, Ended
<1>2. Elsewhere(t)
  BY DEF MarkOutcome, To, loopVars, TurnInv, TurnTypeOK, Elsewhere, Remembered
<1>3. CallsAddUp(t)'
  BY <1>0 DEF MarkOutcome, loopVars, TurnInv, CallsAddUp
<1>4. BookedSoFar(t)'
  BY <1>0 DEF MarkOutcome, TurnInv, BookedSoFar, Early, Remembered
<1>5. QED
  BY <1>1, <1>2, <1>3, <1>4, OneTurnMoves

LEMMA TurnsStepByStep == TurnAssumption /\ TurnInv /\ [TurnNext]_turnVars => TurnInv'
<1> SUFFICES ASSUME TurnAssumption, TurnInv, [TurnNext]_turnVars PROVE TurnInv'
  OBVIOUS
<1>1. CASE UNCHANGED turnVars
  <2>1. TurnTypeOK'
    BY <1>1 DEF turnVars, TurnInv, TurnTypeOK
  <2>2. ASSUME NEW u \in Turns PROVE CallsAddUp(u)' /\ BookedSoFar(u)'
    BY <1>1 DEF turnVars, TurnInv, CallsAddUp, BookedSoFar, Remembered, ToolsFailed
  <2>3. QED
    BY <2>1, <2>2 DEF TurnInv
<1>2. ASSUME NEW t \in Turns, NEW clean \in BOOLEAN, Scan(t, clean) PROVE TurnInv'
  <2>1. CASE clean
    BY <1>2, <2>1, GoesOn DEF Scan, Early
  <2>2. CASE ~clean
    BY <1>2, <2>2, GoesOn DEF Scan, Ended
  <2>3. QED
    BY <2>1, <2>2
<1>3. ASSUME NEW t \in Turns, ReadHistory(t) \/ Promote(t) PROVE TurnInv'
  BY <1>3, GoesOn DEF ReadHistory, Promote, Early
<1>4. ASSUME NEW t \in Turns, StrategyFails(t) \/ Raise(t) PROVE TurnInv'
  BY <1>4, GoesOn DEF StrategyFails, Raise, Ended
<1>5. ASSUME NEW t \in Turns, TurnStep(t) PROVE TurnInv'
  BY <1>2, <1>3, <1>4, <1>5, BuildKeeps, ReasonedKeeps, AskToolsKeeps, RunToolKeeps,
     LearnKeeps, SaveKeeps, ChargeKeeps, OutcomeKeeps, MarkKeeps DEF TurnStep
<1>6. QED
  BY <1>1, <1>5 DEF TurnNext

\* Wherever any of a turn's awaited calls raises and however the turns of a session interleave,
\* no model is called with a tool call unanswered and an answered turn has done all its
\* bookkeeping once (agents/base.py, agents/strategies/react.py).
THEOREM TurnsAreAlwaysSettled == TurnSpec => []TurnsAreSettled
<1>1. TurnInv => CallsAreAnswered
  <2> SUFFICES ASSUME TurnInv, NEW t \in Turns
               PROVE  /\ round[t] <= MaxRounds
                      /\ step[t] = "llm" => Len(tools[t]) = offered[t]
                      /\ step[t] \in After \cup {"answered"} =>
                           calls[t] = <<>> /\ Len(tools[t]) = offered[t]
    BY DEF CallsAreAnswered
  <2>1. CallsAddUp(t) /\ tools[t] \in Seq(ToolResult) /\ Len(<<>>) = 0
    BY DEF TurnInv, TurnTypeOK
  <2>2. calls[t] = <<>> /\ step[t] \notin {"apologised", "raised"} => Len(tools[t]) = offered[t]
    BY <2>1 DEF CallsAddUp
  <2>3. QED
    BY <2>1, <2>2 DEF CallsAddUp, After
<1>2. TurnInv => AnsweredTurnIsComplete
  <2> SUFFICES ASSUME TurnInv, NEW t \in Turns, step[t] = "answered"
               PROVE  /\ (<<t, "assistant">> \in Range(session)) = reply[t]
                      /\ charged[t] = 1 /\ outcomes[t] = 1
                      /\ mark[t] # "none" <=> injected[t]
                      /\ mark[t] = "success" => ~ToolsFailed(t)
    BY DEF AnsweredTurnIsComplete
  <2>1. BookedSoFar(t) /\ reply[t] \in BOOLEAN /\ injected[t] \in BOOLEAN
    BY DEF TurnInv, TurnTypeOK
  <2>2. (<<t, "assistant">> \in Range(session)) <=> reply[t] = TRUE
    BY <2>1 DEF BookedSoFar, Remembered
  <2>3. (<<t, "assistant">> \in Range(session)) = reply[t]
    <3>1. CASE reply[t] = TRUE
      BY <2>2, <3>1, Zenon
    <3>2. CASE reply[t] = FALSE
      <4>1. ~(<<t, "assistant">> \in Range(session))
        BY <2>2, <3>2
      <4>2. (<<t, "assistant">> \in Range(session)) = FALSE
        BY <4>1
      <4>3. QED
        BY <3>2, <4>2, Zenon
    <3>3. QED
      BY <2>1, <3>1, <3>2, Zenon
  <2>4. mark[t] # "none" <=> injected[t]
    BY <2>1 DEF BookedSoFar
  <2>5. QED
    BY <2>1, <2>3, <2>4 DEF BookedSoFar
<1>3. QED
  BY <1>1, <1>2, TurnInitially, TurnsStepByStep, TurnAssumption, PTL DEF TurnSpec, TurnsAreSettled

-----------------------------------------------------------------------------
(* Accounts                                                                 *)

Statuses == {"none", "pending", "approved", "rejected", "disabled"}

AccountsTypeOK ==
    /\ account \in [Emails -> [status : Statuses, secret : Secrets \cup {"none"}, roles : RoleSets]]
    /\ form \in [Browsers -> [kind : {"none", "register", "login"}, email : Emails \cup {"none"},
                              secret : Secrets \cup {"none"}, roles : RoleSets]]
    /\ \A b \in Browsers : form[b].kind # "none" => form[b].email \in Emails
    /\ cookie \in [Browsers -> [email : Emails \cup {"none"}, roles : RoleSets, exp : Nat]]
    /\ \A b \in Browsers : cookie[b] # NoCookie => cookie[b].email \in Emails
    /\ now \in Nat /\ now <= MaxTicks
    /\ refusedAt \in [Emails -> Nat]
    /\ heldAt \in [Emails -> [RoleSets -> Int]]

\* Who may still log in was never refused, and whoever is logging in was not
\* refused before this tick.
RefusalIsFinal ==
    /\ \A e \in Emails : account[e].status \in {"none", "pending", "approved"} =>
          refusedAt[e] = MaxTicks
    /\ \A b \in Browsers : form[b].kind = "login" => refusedAt[form[b].email] >= now

\* The roles of a login in progress are the account's, or were until this tick.
RolesWereRead ==
    \A b \in Browsers : form[b].kind = "login" =>
        \/ form[b].roles = account[form[b].email].roles
        \/ heldAt[form[b].email][form[b].roles] >= now

\* No token outlives what it was made of by more than a session length.
TokensExpire ==
    \A b \in Browsers : cookie[b] # NoCookie =>
        /\ cookie[b].exp <= now + SessionMaxAge
        /\ cookie[b].exp <= refusedAt[cookie[b].email] + SessionMaxAge
        /\ \/ cookie[b].roles = account[cookie[b].email].roles
           \/ cookie[b].exp <= heldAt[cookie[b].email][cookie[b].roles] + SessionMaxAge

AccountsInv == AccountsTypeOK /\ RefusalIsFinal /\ RolesWereRead /\ TokensExpire

LEMMA AccountsInitially == AccountsInit => AccountsInv
<1> SUFFICES ASSUME AccountsInit PROVE AccountsInv
  OBVIOUS
<1>1. AccountsTypeOK
  BY AccountsAssumption DEF AccountsInit, AccountsTypeOK, NoAccount, NoCall, NoCookie, Never,
                            Statuses
<1>2. RefusalIsFinal /\ RolesWereRead /\ TokensExpire
  BY DEF AccountsInit, RefusalIsFinal, RolesWereRead, TokensExpire, NoAccount, NoCall
<1>3. QED
  BY <1>1, <1>2 DEF AccountsInv

\* Forms and cookies: registrations, logins, tokens.
LEMMA BeginRegisterKeeps ==
  ASSUME AccountsInv, NEW b \in Browsers, NEW e \in Emails, NEW s \in Secrets,
         BeginRegister(b, e, s) \/ Login(b, e, s)
  PROVE  AccountsInv'
<1> USE AccountsAssumption
<1>0. PICK rec : /\ form' = [form EXCEPT ![b] = rec]
                 /\ rec \in [kind : {"none", "register", "login"}, email : Emails \cup {"none"},
                             secret : Secrets \cup {"none"}, roles : RoleSets]
                 /\ rec.email = e
  BY DEF AccountsInv, AccountsTypeOK, BeginRegister, Login
<1>1. AccountsTypeOK'
  BY <1>0 DEF AccountsInv, AccountsTypeOK, BeginRegister, Login
<1>2. \A c \in Browsers : form'[c] = form[c] \/ (c = b /\ form'[c].email = e
        /\ (form'[c].kind = "login" => Login(b, e, s) /\ form'[c].roles = account[e].roles))
  BY DEF AccountsInv, AccountsTypeOK, BeginRegister, Login
<1>3. account' = account /\ cookie' = cookie /\ now' = now /\ refusedAt' = refusedAt
      /\ heldAt' = heldAt
  BY DEF BeginRegister, Login
<1>4. RefusalIsFinal'
  BY <1>2, <1>3 DEF AccountsInv, AccountsTypeOK, RefusalIsFinal, Login
<1>5. RolesWereRead'
  BY <1>2, <1>3 DEF AccountsInv, RolesWereRead
<1>6. TokensExpire'
  BY <1>3 DEF AccountsInv, TokensExpire
<1>7. QED
  BY <1>1, <1>4, <1>5, <1>6 DEF AccountsInv

LEMMA InsertUserKeeps ==
  ASSUME AccountsInv, NEW b \in Browsers, InsertUser(b)
  PROVE  AccountsInv' /\ \A e \in Emails : account[e] # NoAccount => account'[e] = account[e]
<1> USE AccountsAssumption
<1>1. PICK x \in Emails : x = form[b].email
  BY DEF AccountsInv, AccountsTypeOK, InsertUser
<1> DEFINE fresh == [status |-> "pending", secret |-> form[b].secret, roles |-> DefaultRoles]
<1>0. /\ account' = [account EXCEPT ![x] = IF account[x] = NoAccount THEN fresh ELSE account[x]]
      /\ fresh.status = "pending" /\ fresh.roles = DefaultRoles
      /\ fresh \in [status : Statuses, secret : Secrets \cup {"none"}, roles : RoleSets]
  BY <1>1 DEF AccountsInv, AccountsTypeOK, InsertUser, Statuses
<1> HIDE DEF fresh
<1>2. /\ \A e \in Emails : account[e] # NoAccount => account'[e] = account[e]
      /\ \A e \in Emails : account'[e] = account[e]
           \/ (/\ account[e] = NoAccount /\ account'[e].status = "pending"
               /\ account'[e].roles = DefaultRoles)
  <2>1. \A e \in Emails : account'[e] =
          IF e = x /\ account[e] = NoAccount THEN fresh ELSE account[e]
    BY <1>0, <1>1 DEF AccountsInv, AccountsTypeOK
  <2>2. QED
    BY <1>0, <2>1
<1>3. \A e \in Emails : /\ account'[e].roles = account[e].roles
                        /\ \/ account'[e].status = account[e].status
                           \/ account[e].status = "none" /\ account'[e].status = "pending"
  BY <1>2 DEF NoAccount
<1>4. \A c \in Browsers : form'[c] = form[c] \/ form'[c].kind = "none"
  BY DEF AccountsInv, AccountsTypeOK, InsertUser, NoCall
<1>5. cookie' = cookie /\ now' = now /\ refusedAt' = refusedAt /\ heldAt' = heldAt
  BY DEF InsertUser
<1>6. AccountsTypeOK'
  BY <1>0, <1>1 DEF AccountsInv, AccountsTypeOK, InsertUser, NoCall
<1>7. RefusalIsFinal'
  BY <1>3, <1>4, <1>5 DEF AccountsInv, RefusalIsFinal
<1>8. RolesWereRead'
  <2>1. \A c \in Browsers : form[c].kind = "login" => form[c].email \in Emails
    BY DEF AccountsInv, AccountsTypeOK
  <2>2. QED
    BY <1>3, <1>4, <1>5, <2>1 DEF AccountsInv, RolesWereRead
<1>9. TokensExpire'
  BY <1>3, <1>5 DEF AccountsInv, AccountsTypeOK, TokensExpire
<1>10. QED
  BY <1>2, <1>6, <1>7, <1>8, <1>9 DEF AccountsInv

LEMMA CookieChanges ==
  ASSUME AccountsInv, NEW b \in Browsers, IssueToken(b) \/ Logout(b)
  PROVE  AccountsInv'
<1> USE AccountsAssumption
<1>1. AccountsTypeOK'
  <2>1. CASE IssueToken(b)
    <3> DEFINE token == [email |-> form[b].email, roles |-> form[b].roles,
                         exp |-> now + SessionMaxAge]
    <3>1. /\ token \in [email : Emails \cup {"none"}, roles : RoleSets, exp : Nat]
          /\ token.email \in Emails
          /\ cookie' = [cookie EXCEPT ![b] = token] /\ form' = [form EXCEPT ![b] = NoCall]
      BY <2>1 DEF AccountsInv, AccountsTypeOK, IssueToken
    <3> HIDE DEF token
    <3>2. QED
      BY <2>1, <3>1 DEF AccountsInv, AccountsTypeOK, IssueToken, NoCall
  <2>2. CASE Logout(b)
    <3>1. NoCookie \in [email : Emails \cup {"none"}, roles : RoleSets, exp : Nat]
      BY DEF NoCookie
    <3>2. QED
      BY <2>2, <3>1 DEF AccountsInv, AccountsTypeOK, Logout
  <2>3. QED
    BY <2>1, <2>2
<1>2. account' = account /\ now' = now /\ refusedAt' = refusedAt /\ heldAt' = heldAt
  BY DEF IssueToken, Logout
<1>3. \A c \in Browsers : form'[c] = form[c] \/ form'[c].kind = "none"
  BY DEF AccountsInv, AccountsTypeOK, IssueToken, Logout, NoCall
<1>4. RefusalIsFinal' /\ RolesWereRead'
  BY <1>2, <1>3 DEF AccountsInv, RefusalIsFinal, RolesWereRead
<1>5. TokensExpire'
  <2>1. \A c \in Browsers : cookie'[c] = cookie[c] \/ cookie'[c] = NoCookie
          \/ (c = b /\ form[b].kind = "login" /\ cookie'[c].email = form[b].email
              /\ cookie'[c].roles = form[b].roles /\ cookie'[c].exp = now + SessionMaxAge)
    BY DEF AccountsInv, AccountsTypeOK, IssueToken, Logout
  <2> SUFFICES ASSUME NEW c \in Browsers, cookie'[c] # NoCookie
               PROVE  /\ cookie'[c].exp <= now + SessionMaxAge
                      /\ cookie'[c].exp <= refusedAt[cookie'[c].email] + SessionMaxAge
                      /\ \/ cookie'[c].roles = account[cookie'[c].email].roles
                         \/ cookie'[c].exp <= heldAt[cookie'[c].email][cookie'[c].roles]
                                                + SessionMaxAge
    BY <1>2 DEF TokensExpire
  <2>2. CASE cookie'[c] = cookie[c]
    BY <2>2 DEF AccountsInv, TokensExpire
  <2>3. CASE c = b /\ form[b].kind = "login" /\ cookie'[c].email = form[b].email
              /\ cookie'[c].roles = form[b].roles /\ cookie'[c].exp = now + SessionMaxAge
    <3>1. PICK x \in Emails, r \in RoleSets : x = form[b].email /\ r = form[b].roles
      BY <2>3 DEF AccountsInv, AccountsTypeOK
    <3>2. refusedAt[x] \in Nat /\ heldAt[x][r] \in Int /\ now \in Nat
      BY DEF AccountsInv, AccountsTypeOK
    <3>3. refusedAt[x] >= now /\ (r = account[x].roles \/ heldAt[x][r] >= now)
      BY <2>3, <3>1 DEF AccountsInv, RefusalIsFinal, RolesWereRead
    <3>4. QED
      BY <2>3, <3>1, <3>2, <3>3
  <2>4. QED
    BY <2>1, <2>2, <2>3
<1>6. QED
  BY <1>1, <1>4, <1>5 DEF AccountsInv

\* A status is given to some accounts; who is refused now is refused from now on.
LEMMA StatusChanges ==
  ASSUME AccountsInv, NEW who \in SUBSET Emails, NEW to \in {"approved", "rejected", "disabled"},
         SetStatus(who, to), refusedAt' \in [Emails -> Nat],
         \A e \in Emails : refusedAt'[e] = refusedAt[e] \/ refusedAt'[e] = now,
         \A e \in who : to = "approved" =>
             account[e].status \in {"pending", "approved"} /\ refusedAt'[e] = refusedAt[e],
         \A e \in Emails \ who : refusedAt'[e] = refusedAt[e]
  PROVE  AccountsInv'
<1> USE AccountsAssumption
<1>1. /\ form' = form /\ cookie' = cookie /\ now' = now /\ heldAt' = heldAt
      /\ \A e \in Emails : account'[e] = IF e \in who THEN [account[e] EXCEPT !.status = to]
                                                      ELSE account[e]
  BY DEF SetStatus
<1> DEFINE Row == [status : Statuses, secret : Secrets \cup {"none"}, roles : RoleSets]
<1>0. \A a \in Row : /\ [a EXCEPT !.status = to] \in Row
                     /\ [a EXCEPT !.status = to].roles = a.roles
                     /\ [a EXCEPT !.status = to].status = to
  BY DEF Statuses
<1>8. account \in [Emails -> Row]
  BY DEF AccountsInv, AccountsTypeOK
<1> HIDE DEF Row
<1>9. account' \in [Emails -> Row]
  BY <1>0, <1>8 DEF SetStatus
<1>2. AccountsTypeOK'
  BY <1>1, <1>9 DEF AccountsInv, AccountsTypeOK, Row
<1>3. \A e \in Emails : account'[e].roles = account[e].roles
  BY <1>0, <1>1, <1>8
<1>4. RefusalIsFinal'
  <2>0. \A e \in Emails : e \in who => account'[e] = [account[e] EXCEPT !.status = to]
    BY <1>1
  <2>1. \A e \in Emails : e \in who => account'[e].status = to
    <3>1. \A e \in Emails : account[e] \in Row
      BY <1>8
    <3> SUFFICES ASSUME NEW e \in Emails, e \in who PROVE account'[e].status = to
      OBVIOUS
    <3>2. PICK a \in Row : a = account[e]
      BY <3>1
    <3>3. account'[e] = [a EXCEPT !.status = to]
      BY <2>0, <3>2
    <3>4. [a EXCEPT !.status = to].status = to
      BY <1>0
    <3>5. QED
      BY <3>3, <3>4
  <2>2. \A e \in Emails : account'[e].status \in {"none", "pending", "approved"} =>
          refusedAt'[e] = MaxTicks
    BY <1>1, <2>1 DEF AccountsInv, RefusalIsFinal
  <2>3. \A b \in Browsers : form[b].kind = "login" => refusedAt'[form[b].email] >= now
    BY DEF AccountsInv, AccountsTypeOK, RefusalIsFinal
  <2>4. QED
    BY <1>1, <2>2, <2>3 DEF RefusalIsFinal
<1>5. RolesWereRead'
  BY <1>1, <1>3 DEF AccountsInv, AccountsTypeOK, RolesWereRead
<1>6. TokensExpire'
  BY <1>1, <1>3 DEF AccountsInv, AccountsTypeOK, TokensExpire
<1>7. QED
  BY <1>2, <1>4, <1>5, <1>6 DEF AccountsInv

\* Whoever decides names some accounts and a status that is not "pending".
LEMMA ReviewsKeep ==
  ASSUME AccountsInv, NEW e \in Emails,
         ApproveUser(e) \/ RejectUser(e) \/ DisableUser(e) \/ ApproveTeam(TeamOf[e])
  PROVE  /\ AccountsInv'
         /\ \A x \in Emails : account'[x].secret = account[x].secret
              /\ (account'[x].status = "pending" => account[x].status = "pending")
<1> USE AccountsAssumption
<1>1. PICK who \in SUBSET Emails, to \in {"approved", "rejected", "disabled"} :
        /\ SetStatus(who, to)
        /\ refusedAt' = IF to = "approved" THEN refusedAt
                        ELSE [refusedAt EXCEPT ![e] =
                               IF to = "disabled" /\ @ < now THEN @ ELSE now]
        /\ to = "approved" => \A x \in who : account[x].status = "pending"
        /\ to # "approved" => who = {e}
  <2>1. CASE ApproveUser(e)
    <3>1. SetStatus({e}, "approved") /\ refusedAt' = refusedAt /\ account[e].status = "pending"
      BY <2>1 DEF ApproveUser, Pending
    <3>2. QED
      BY <3>1
  <2>2. CASE RejectUser(e)
    <3>1. SetStatus({e}, "rejected") /\ refusedAt' = [refusedAt EXCEPT ![e] = now]
      BY <2>2 DEF RejectUser
    <3>2. QED
      BY <3>1
  <2>3. CASE DisableUser(e)
    <3>1. /\ SetStatus({e}, "disabled")
          /\ refusedAt' = [refusedAt EXCEPT ![e] = IF @ < now THEN @ ELSE now]
      BY <2>3 DEF DisableUser
    <3>2. QED
      BY <3>1
  <2>4. CASE ApproveTeam(TeamOf[e])
    <3>1. PICK who \in SUBSET Emails : who = { x \in Emails : TeamOf[x] = TeamOf[e] /\ Pending(x) }
      OBVIOUS
    <3>2. SetStatus(who, "approved") /\ refusedAt' = refusedAt
      BY <2>4, <3>1 DEF ApproveTeam
    <3>3. \A x \in who : account[x].status = "pending"
      BY <3>1 DEF Pending
    <3>4. QED
      BY <3>2, <3>3
  <2>5. QED
    BY <2>1, <2>2, <2>3, <2>4
<1>2. /\ refusedAt' \in [Emails -> Nat]
      /\ \A x \in Emails : refusedAt'[x] = refusedAt[x] \/ refusedAt'[x] = now
      /\ \A x \in Emails \ who : refusedAt'[x] = refusedAt[x]
      /\ to = "approved" => refusedAt' = refusedAt
  BY <1>1 DEF AccountsInv, AccountsTypeOK
<1>3. AccountsInv'
  BY <1>1, <1>2, StatusChanges
<1>4. \A x \in Emails : account'[x].secret = account[x].secret
        /\ (account'[x].status = "pending" => account[x].status = "pending")
  BY <1>1 DEF SetStatus, AccountsInv, AccountsTypeOK
<1>5. QED
  BY <1>3, <1>4

LEMMA UpdateRolesKeeps ==
  ASSUME AccountsInv, NEW e \in Emails, NEW r \in RoleSets, UpdateRoles(e, r)
  PROVE  AccountsInv'
<1> USE AccountsAssumption
<1>1. PICK old \in RoleSets : old = account[e].roles
  BY DEF AccountsInv, AccountsTypeOK
<1>2. /\ form' = form /\ cookie' = cookie /\ now' = now /\ refusedAt' = refusedAt
      /\ \A x \in Emails : account'[x].status = account[x].status
      /\ \A x \in Emails : x # e => account'[x] = account[x]
      /\ \A x \in Emails, q \in RoleSets :
           heldAt'[x][q] = IF x = e /\ q = old THEN now ELSE heldAt[x][q]
  BY <1>1 DEF UpdateRoles, AccountsInv, AccountsTypeOK
<1>3. AccountsTypeOK'
  BY <1>1 DEF AccountsInv, AccountsTypeOK, UpdateRoles
<1>4. RefusalIsFinal'
  BY <1>2 DEF AccountsInv, RefusalIsFinal
<1>5. RolesWereRead'
  <2> SUFFICES ASSUME NEW b \in Browsers, form[b].kind = "login"
               PROVE  \/ form[b].roles = account'[form[b].email].roles
                      \/ heldAt'[form[b].email][form[b].roles] >= now
    BY <1>2 DEF RolesWereRead
  <2>1. PICK x \in Emails, q \in RoleSets : x = form[b].email /\ q = form[b].roles
    BY DEF AccountsInv, AccountsTypeOK
  <2>2. q = account[x].roles \/ heldAt[x][q] >= now
    BY <2>1 DEF AccountsInv, RolesWereRead
  <2>3. now \in Nat
    BY DEF AccountsInv, AccountsTypeOK
  <2>4. QED
    BY <1>1, <1>2, <2>1, <2>2, <2>3
<1>6. TokensExpire'
  <2> SUFFICES ASSUME NEW b \in Browsers, cookie[b] # NoCookie
               PROVE  /\ cookie[b].exp <= now + SessionMaxAge
                      /\ cookie[b].exp <= refusedAt[cookie[b].email] + SessionMaxAge
                      /\ \/ cookie[b].roles = account'[cookie[b].email].roles
                         \/ cookie[b].exp <= heldAt'[cookie[b].email][cookie[b].roles]
                                               + SessionMaxAge
    BY <1>2 DEF TokensExpire
  <2>1. PICK x \in Emails, q \in RoleSets : x = cookie[b].email /\ q = cookie[b].roles
    BY DEF AccountsInv, AccountsTypeOK
  <2>2. /\ cookie[b].exp <= now + SessionMaxAge
        /\ cookie[b].exp <= refusedAt[x] + SessionMaxAge
        /\ q = account[x].roles \/ cookie[b].exp <= heldAt[x][q] + SessionMaxAge
    BY <2>1 DEF AccountsInv, TokensExpire
  <2>3. QED
    BY <1>1, <1>2, <2>1, <2>2
<1>7. QED
  BY <1>3, <1>4, <1>5, <1>6 DEF AccountsInv

LEMMA TickKeeps ==
  ASSUME AccountsInv, Tick
  PROVE  AccountsInv'
<1>1. AccountsTypeOK'
  BY AccountsAssumption DEF AccountsInv, AccountsTypeOK, Tick
<1>2. RefusalIsFinal' /\ RolesWereRead'
  BY DEF AccountsInv, RefusalIsFinal, RolesWereRead, Tick
<1>3. TokensExpire'
  BY AccountsAssumption DEF AccountsInv, AccountsTypeOK, TokensExpire, Tick
<1>4. QED
  BY <1>1, <1>2, <1>3 DEF AccountsInv

LEMMA AccountsStep ==
  ASSUME AccountsInv, [AccountsNext]_accountVars
  PROVE  /\ AccountsInv'
         /\ \A e \in Emails : account[e] # NoAccount =>
              account'[e].secret = account[e].secret
              /\ (account'[e].status = "pending" => account[e].status = "pending")
<1>1. CASE \E b \in Browsers, e \in Emails, s \in Secrets : BeginRegister(b, e, s) \/ Login(b, e, s)
  <2>1. account' = account
    BY <1>1 DEF BeginRegister, Login
  <2>2. QED
    BY <1>1, <2>1, BeginRegisterKeeps
<1>2. CASE \E b \in Browsers : InsertUser(b)
  BY <1>2, InsertUserKeeps
<1>3. CASE \E b \in Browsers : IssueToken(b) \/ Logout(b)
  <2>1. account' = account
    BY <1>3 DEF IssueToken, Logout
  <2>2. QED
    BY <1>3, <2>1, CookieChanges
<1>4. CASE \E e \in Emails :
             ApproveUser(e) \/ RejectUser(e) \/ DisableUser(e) \/ ApproveTeam(TeamOf[e])
  BY <1>4, ReviewsKeep
<1>5. CASE \E e \in Emails, r \in RoleSets : UpdateRoles(e, r)
  <2>1. \A x \in Emails : account'[x].secret = account[x].secret
                            /\ account'[x].status = account[x].status
    BY <1>5 DEF UpdateRoles, AccountsInv, AccountsTypeOK
  <2>2. QED
    BY <1>5, <2>1, UpdateRolesKeeps
<1>6. CASE Tick
  <2>1. account' = account
    BY <1>6 DEF Tick
  <2>2. QED
    BY <1>6, <2>1, TickKeeps
<1>7. CASE UNCHANGED accountVars
  BY <1>7 DEF accountVars, AccountsInv, AccountsTypeOK, RefusalIsFinal, RolesWereRead, TokensExpire
<1>8. QED
  BY <1>1, <1>2, <1>3, <1>4, <1>5, <1>6, <1>7 DEF AccountsNext

\* However logins, registrations, approvals and decisions interleave: one session
\* length after a refusal or a change of roles no token tells otherwise.
THEOREM RevocationAlwaysTakesHold == AccountsSpec => []RevocationTakesHold
<1>1. AccountsInv => RevocationTakesHold
  <2> SUFFICES ASSUME AccountsInv, NEW b \in Browsers, Valid(b)
               PROVE  /\ now < refusedAt[cookie[b].email] + SessionMaxAge
                      /\ \/ cookie[b].roles = account[cookie[b].email].roles
                         \/ now < heldAt[cookie[b].email][cookie[b].roles] + SessionMaxAge
    BY DEF RevocationTakesHold, AccessEnds, RolesExpire
  <2>1. PICK x \in Emails, q \in RoleSets : x = cookie[b].email /\ q = cookie[b].roles
    BY DEF AccountsInv, AccountsTypeOK, Valid
  <2>2. /\ now \in Nat /\ cookie[b].exp \in Nat /\ refusedAt[x] \in Nat /\ heldAt[x][q] \in Int
        /\ now < cookie[b].exp
    BY DEF AccountsInv, AccountsTypeOK, Valid
  <2>3. /\ cookie[b].exp <= refusedAt[x] + SessionMaxAge
        /\ q = account[x].roles \/ cookie[b].exp <= heldAt[x][q] + SessionMaxAge
    BY <2>1 DEF AccountsInv, TokensExpire, Valid
  <2>4. QED
    BY <2>1, <2>2, <2>3, AccountsAssumption
<1>2. AccountsInv /\ [AccountsNext]_accountVars => AccountsInv'
  BY AccountsStep
<1>3. QED
  BY <1>1, <1>2, AccountsInitially, PTL DEF AccountsSpec

\* The first registration stands: nothing that comes later changes its password,
\* and no decision on it is taken back to "pending".
THEOREM RegistrationAlwaysStands == AccountsSpec => RegistrationStands
<1>1. AccountsInv /\ [AccountsNext]_accountVars => AccountsInv'
  BY AccountsStep
<1>2. AccountsInv /\ [AccountsNext]_accountVars =>
        [\A e \in Emails : account[e] # NoAccount =>
           account'[e].secret = account[e].secret
           /\ (account'[e].status = "pending" => account[e].status = "pending")]_accountVars
  BY AccountsStep
<1>3. QED
  BY <1>1, <1>2, AccountsInitially, PTL DEF AccountsSpec, RegistrationStands

-----------------------------------------------------------------------------
(* What a wallet may be overdrawn by                                        *)

Company == Cardinality(Clients)
Each == Max({Dearest, Exchanged})

LEMMA QuotesAreNumbers ==
  ASSUME CoinAssumption, NEW m \in Models, NEW n \in Nat
  PROVE  Quote(m, n) \in Nat
<1>1. Rates[m].base \in Nat /\ Rates[m].input \in Nat /\ Rates[m].output \in Nat
  BY DEF CoinAssumption
<1> DEFINE i == Rates[m].input + Rates[m].output
           x == 2 * (1000 * Rates[m].base + n * i) + 1000
<1>2. n * i \in Nat
  <2>1. i \in Nat
    BY <1>1
  <2> HIDE DEF i
  <2> QED
    BY <2>1
<1>3. x \in Nat
  <2> HIDE DEF i
  <2> QED
    BY <1>1, <1>2
<1>4. Quote(m, n) = x \div 2000
  BY DEF Quote
<1> HIDE DEF x
<1> QED
  BY <1>3, <1>4

LEMMA DearestIsDearest ==
  ASSUME CoinAssumption
  PROVE  /\ Each \in Nat /\ Exchanged <= Each
         /\ \A m \in Models, n \in Tokens : Quote(m, n) <= Each
<1> DEFINE Q == { Quote(m, n) : m \in Models, n \in Tokens }
           f == [p \in Models \X Tokens |-> Quote(p[1], p[2])]
<1>1. IsFiniteSet(Models \X Tokens)
  BY FS_Product DEF CoinAssumption
<1>2. f \in Surjection(Models \X Tokens, Q)
  <2>1. f \in [Models \X Tokens -> Q]
    OBVIOUS
  <2>2. ASSUME NEW q \in Q PROVE \E p \in Models \X Tokens : f[p] = q
    <3>1. PICK m \in Models, n \in Tokens : q = Quote(m, n)
      OBVIOUS
    <3>2. <<m, n>> \in Models \X Tokens /\ f[<<m, n>>] = Quote(m, n)
      OBVIOUS
    <3> QED
      BY <3>1, <3>2
  <2> HIDE DEF f, Q
  <2> QED
    BY <2>1, <2>2 DEF Surjection
<1>3. IsFiniteSet(Q)
  BY <1>1, <1>2, FS_Surjection
<1>4. Q \subseteq Nat /\ Q # {}
  <2>1. Tokens \subseteq Nat /\ Tokens # {} /\ Models # {}
    BY DEF CoinAssumption
  <2>2. \A m \in Models, n \in Tokens : Quote(m, n) \in Nat
    BY <2>1, QuotesAreNumbers
  <2>3. PICK m \in Models, n \in Tokens : TRUE
    BY <2>1
  <2>4. Quote(m, n) \in Q
    OBVIOUS
  <2> QED
    BY <2>2, <2>4
<1>5. Dearest = Max(Q)
  BY DEF Dearest
<1>6. \A m \in Models, n \in Tokens : Quote(m, n) \in Q
  OBVIOUS
<1> HIDE DEF Q
<1>7. Dearest \in Nat /\ \A m \in Models, n \in Tokens : Quote(m, n) <= Dearest
  BY <1>3, <1>4, <1>5, <1>6, GreatestNatural
<1>8. Exchanged \in Nat
  BY DEF CoinAssumption
<1>9. IsFiniteSet({Dearest, Exchanged})
  <2>1. {Dearest, Exchanged} = {Dearest} \cup {Exchanged}
    OBVIOUS
  <2>2. IsFiniteSet({Dearest})
    BY FS_Singleton
  <2>3. IsFiniteSet({Dearest} \cup {Exchanged})
    BY <2>2, FS_AddElement
  <2> QED
    BY <2>1, <2>3
<1>10. Each \in {Dearest, Exchanged} /\ Dearest <= Each /\ Exchanged <= Each
  BY <1>7, <1>8, <1>9, GreatestNatural DEF Each
<1>11. \A m \in Models, n \in Tokens : Quote(m, n) \in Nat
  BY QuotesAreNumbers DEF CoinAssumption
<1> QED
  BY <1>7, <1>8, <1>10, <1>11

\* A wallet owes d under the bound b, and the clients of P may still take their
\* costs: either there is room for all of them, or for one and then the others.
Fits(d, b, P, cost) ==
    \/ d <= b + Each * (Company - 1 - Cardinality(P))
    \/ \E c \in P : d + cost[c] <= b + Each * (Company - Cardinality(P))

SameCosts(f, g, P) == \A c \in P : f[c] = g[c]

LEMMA EachGrows ==
  ASSUME CoinAssumption, NEW i \in Int, NEW j \in Int, i <= j
  PROVE  Each * i \in Int /\ Each * i <= Each * j /\ Each * (i + 1) = Each * i + Each
<1>1. Each \in Nat
  BY DearestIsDearest
<1>2. PICK k \in Nat : j = i + k
  <2>1. j - i \in Nat /\ j = i + (j - i)
    OBVIOUS
  <2> QED
    BY <2>1
<1>3. Each * k \in Nat
  BY <1>1
<1>4. Each * j = Each * i + Each * k
  BY <1>1, <1>2
<1>5. Each * i \in Int
  BY <1>1
<1>6. Each * (i + 1) = Each * i + Each
  BY <1>1
<1> QED
  BY <1>3, <1>4, <1>5, <1>6

LEMMA CompanyIsFinite ==
  ASSUME CoinAssumption, NEW P \in SUBSET Clients
  PROVE  /\ Company \in Nat /\ IsFiniteSet(P) /\ Cardinality(P) \in Nat
         /\ Cardinality(P) <= Company /\ (P # {} => Cardinality(P) >= 1) /\ Company >= 1
<1>1. IsFiniteSet(Clients) /\ Clients # {}
  BY DEF CoinAssumption
<1>2. IsFiniteSet(P) /\ Cardinality(P) <= Cardinality(Clients)
  BY <1>1, FS_Subset
<1>3. Cardinality(P) \in Nat /\ Cardinality(Clients) \in Nat
  BY <1>1, <1>2, FS_CardinalityType
<1>4. (Cardinality(P) = 0 <=> P = {}) /\ (Cardinality(Clients) = 0 <=> Clients = {})
  BY <1>1, <1>2, FS_EmptySet
<1> QED
  BY <1>1, <1>2, <1>3, <1>4 DEF Company

\* Fewer clients may take no more.
LEMMA FitsShrinks ==
  ASSUME CoinAssumption, NEW d \in Nat, NEW b \in Nat, NEW b2 \in Nat, b <= b2,
         NEW P \in SUBSET Clients, NEW P2 \in SUBSET P,
         NEW cost \in [Clients -> Nat], NEW cost2 \in [Clients -> Nat],
         SameCosts(cost2, cost, P2),
         Fits(d, b, P, cost)
  PROVE  Fits(d, b2, P2, cost2)
<1> DEFINE p == Cardinality(P)
           p2 == Cardinality(P2)
<1>1. p \in Nat /\ p2 \in Nat /\ Company \in Nat
  BY CompanyIsFinite
<1>2. p2 <= p
  BY CompanyIsFinite, FS_Subset
<1> HIDE DEF p, p2
<1>3. /\ Each * (Company - 1 - p) \in Int
      /\ Each * (Company - 1 - p) <= Each * (Company - 1 - p2)
      /\ Each * (Company - p) <= Each * (Company - p2)
      /\ Each * (Company - p) \in Int /\ Each * (Company - p2) \in Int
      /\ Each * (Company - 1 - p2) \in Int
  <2>1. /\ Company - 1 - p \in Int /\ Company - 1 - p2 \in Int
        /\ Company - p \in Int /\ Company - p2 \in Int
        /\ Company - 1 - p <= Company - 1 - p2 /\ Company - p <= Company - p2
        /\ Company - 1 - p2 <= Company - 1 - p2 /\ Company - p2 <= Company - p2
    BY <1>1, <1>2
  <2> QED
    BY <2>1, EachGrows
<1>4. CASE d <= b + Each * (Company - 1 - Cardinality(P))
  BY <1>3, <1>4 DEF Fits, p, p2
<1>5. CASE \E c \in P : d + cost[c] <= b + Each * (Company - Cardinality(P))
  <2>1. PICK c \in P : d + cost[c] <= b + Each * (Company - p)
    BY <1>5 DEF p
  <2>2. cost[c] \in Nat
    OBVIOUS
  <2>3. CASE c \in P2
    <3>1. d + cost2[c] <= b2 + Each * (Company - p2)
      BY <1>3, <2>1, <2>2, <2>3 DEF SameCosts
    <3> QED
      BY <3>1, <2>3 DEF Fits, p2
  <2>4. CASE c \notin P2
    <3>1. P2 \subseteq P \ {c}
      BY <2>4
    <3>2. p2 <= p - 1
      <4>1. IsFiniteSet(P \ {c}) /\ Cardinality(P \ {c}) = Cardinality(P) - 1
        BY CompanyIsFinite, FS_RemoveElement
      <4>2. Cardinality(P2) <= Cardinality(P \ {c})
        BY <3>1, <4>1, FS_Subset
      <4> QED
        BY <4>1, <4>2 DEF p, p2
    <3>3. Company - p <= Company - 1 - p2
      BY <1>1, <3>2
    <3>4. Each * (Company - p) <= Each * (Company - 1 - p2)
      BY <1>1, <3>3, EachGrows
    <3>5. d <= b2 + Each * (Company - 1 - p2)
      BY <1>3, <2>1, <2>2, <3>4
    <3> QED
      BY <3>5 DEF Fits, p2
  <2> QED
    BY <2>3, <2>4
<1> QED
  BY <1>4, <1>5 DEF Fits

\* A client who may take its cost does.
LEMMA FitsPays ==
  ASSUME CoinAssumption, NEW d \in Nat, NEW b \in Nat, NEW b2 \in Nat, b <= b2,
         NEW P \in SUBSET Clients, NEW c \in P, NEW P2 \in SUBSET (P \ {c}),
         NEW cost \in [Clients -> Nat], NEW cost2 \in [Clients -> Nat],
         SameCosts(cost2, cost, P2), cost[c] <= Each,
         Fits(d, b, P, cost)
  PROVE  Fits(d + cost[c], b2, P2, cost2)
<1> DEFINE p == Cardinality(P)
           q == Cardinality(P \ {c})
           rest == P \ {c}
           paid == d + cost[c]
<1>0. rest \in SUBSET Clients /\ paid \in Nat /\ P2 \in SUBSET rest
  OBVIOUS
<1>1. p \in Nat /\ q = p - 1 /\ Company \in Nat /\ Each \in Nat /\ cost[c] \in Nat
  BY CompanyIsFinite, DearestIsDearest, FS_RemoveElement
<1> HIDE DEF p, q
<1>2. /\ Each * (Company - 1 - q) = Each * (Company - 1 - p) + Each
      /\ Each * (Company - q) = Each * (Company - p) + Each
      /\ Each * (Company - 1 - p) \in Int /\ Each * (Company - p) \in Int
  <2>1. (Company - 1 - q) = (Company - 1 - p) + 1 /\ Company - q = (Company - p) + 1
    BY <1>1
  <2>2. Company - 1 - p \in Int /\ Company - p \in Int
    BY <1>1
  <2> QED
    BY <2>1, <2>2, EachGrows
<1>3. Each * (Company - 1 - q) = Each * (Company - p)
  BY <1>1
<1>4. Fits(paid, b, rest, cost)
  <2>1. CASE d <= b + Each * (Company - 1 - Cardinality(P))
    <3>1. d + cost[c] <= b + Each * (Company - 1 - q)
      BY <1>1, <1>2, <2>1 DEF p
    <3> QED
      BY <3>1 DEF Fits, q
  <2>2. CASE \E e \in P : d + cost[e] <= b + Each * (Company - Cardinality(P))
    <3>1. PICK e \in P : d + cost[e] <= b + Each * (Company - p)
      BY <2>2 DEF p
    <3>2. cost[e] \in Nat
      OBVIOUS
    <3>3. CASE e = c
      BY <3>1, <3>3, <1>3 DEF Fits, q
    <3>4. CASE e # c
      <4>1. d + cost[c] + cost[e] <= b + Each * (Company - q)
        BY <1>1, <1>2, <3>1, <3>2
      <4> QED
        BY <4>1, <3>4 DEF Fits, q
    <3> QED
      BY <3>3, <3>4
  <2> QED
    BY <2>1, <2>2 DEF Fits
<1> HIDE DEF rest, paid
<1>5. Fits(paid, b2, P2, cost2)
  BY <1>0, <1>4, FitsShrinks
<1> QED
  BY <1>5 DEF paid

\* A client whose cost is left in the wallet may take it.
LEMMA FitsJoins ==
  ASSUME CoinAssumption, NEW d \in Nat, NEW b \in Nat, NEW P \in SUBSET Clients, NEW c \in P,
         NEW cost \in [Clients -> Nat], d + cost[c] <= b
  PROVE  Fits(d, b, P, cost)
<1> DEFINE p == Cardinality(P)
<1>1. p \in Nat /\ Company \in Nat /\ p <= Company
  BY CompanyIsFinite
<1> HIDE DEF p
<1>2. Each * 0 = 0 /\ Each * (Company - p) \in Int /\ Each * 0 <= Each * (Company - p)
  BY <1>1, EachGrows, DearestIsDearest
<1>3. d + cost[c] <= b + Each * (Company - p)
  BY <1>2
<1> QED
  BY <1>3 DEF Fits, p

LEMMA FitsBounds ==
  ASSUME CoinAssumption, NEW d \in Nat, NEW b \in Nat, NEW P \in SUBSET Clients,
         NEW cost \in [Clients -> Nat], Fits(d, b, P, cost)
  PROVE  d <= b + (Company - 1) * Each
<1>1. Fits(d, b, {}, cost)
  BY FitsShrinks DEF SameCosts
<1>2. Cardinality({}) = 0 /\ Company \in Nat /\ Each \in Nat
  BY CompanyIsFinite, DearestIsDearest, FS_EmptySet
<1>3. d <= b + Each * (Company - 1 - 0)
  BY <1>1, <1>2 DEF Fits
<1>4. Company - 1 - 0 = Company - 1
  BY <1>2
<1>5. Each * (Company - 1) = (Company - 1) * Each
  BY <1>2
<1> QED
  BY <1>3, <1>4, <1>5

-----------------------------------------------------------------------------
(* Wallets                                                                  *)

Days == 0 .. MaxCycles

\* The cycles of a wallet that are still to come.
Ahead(w) == { CycleKey(w, e) : e \in (day + 1) .. MaxCycles } \ {CycleKey(w, day)}

CoinTypeOK ==
    /\ phase \in [Clients -> {"idle", "running", "charging", "exchanging"}]
    /\ request \in [Clients -> [model : Models, tokens : Nat]]
    /\ seen \in [Clients -> [WalletIds -> [cycle : LedgerKeys, remaining : Nat]]]
    /\ limit \in [WalletIds -> Nat]
    /\ debits \in [WalletIds -> [LedgerKeys -> Nat]]
    /\ credits \in [WalletIds -> [LedgerKeys -> Nat]]
    /\ day \in Days

\* What a client takes if it takes anything.
Cost(c) ==
    IF phase[c] = "exchanging" THEN Exchanged
    ELSE Quote(request[c].model, request[c].tokens)
Costs == [c \in Clients |-> Cost(c)]

\* Who may still take from a wallet in a cycle: a charge that saw enough there,
\* an exchange in the cycle it will be inserted in.
Charging(w, k) ==
    { c \in Clients : /\ phase[c] = "charging" /\ seen[c][w].cycle = k
                      /\ seen[c][w].remaining >= Cost(c) /\ Cost(c) > 0 }
Exchanging(w, k) ==
    { c \in Clients : phase[c] = "exchanging" /\ w = Copper /\ k \in Ahead(w) \cup {CycleKey(w, day)} }
May(w, k) == Charging(w, k) \cup Exchanging(w, k)

Allowance(w, k) == Max(Limits[w]) + credits[w][k]

\* Requests in flight have a count of tokens, and cycles do not lie ahead.
InFlight ==
    /\ \A w \in WalletIds : limit[w] \in Limits[w]
    /\ \A c \in Clients :
         /\ phase[c] \in {"running", "charging"} => request[c].tokens \in Tokens
         /\ phase[c] = "charging" => \A w \in WalletIds : seen[c][w].cycle \notin Ahead(w)
    /\ \A w \in WalletIds, k \in LedgerKeys : k \in Ahead(w) => debits[w][k] = 0
    /\ \A k \in LedgerKeys : credits[Copper][k] = 0

RoomIsLeft ==
    \A w \in Counted, k \in LedgerKeys : Fits(debits[w][k], Allowance(w, k), May(w, k), Costs)

\* The silver that was given counts the exchanges.
Given == (Exchanged * BankingRate) \div 100
ExchangesAreCounted ==
    \E j \in Nat :
        /\ SumFunction(credits[Silver]) = Given * j
        /\ \A b \in Budgets : SumFunction(debits[b]) + Exchanged * j >= SpentByUsers

CoinInv == CoinTypeOK /\ InFlight /\ RoomIsLeft /\ ExchangesAreCounted

LEMMA CycleKeys ==
  ASSUME CoinAssumption, NEW w \in WalletIds, NEW d \in Days
  PROVE  /\ CycleKey(w, d) \in LedgerKeys
         /\ KeyOf("daily", d) \in LedgerKeys /\ KeyOf("monthly", d) \in LedgerKeys
<1>1. MaxCycles \in Nat /\ d \in Nat /\ d <= MaxCycles /\ Wallets[w].cycle \in {"daily", "monthly"}
  BY DEF CoinAssumption, Days
<1>2. d \div 2 \in 0 .. MaxCycles /\ d \in 0 .. MaxCycles
  BY <1>1
<1> QED
  BY <1>1, <1>2 DEF CycleKey, KeyOf, LedgerKeys

\* What a daily key is to a wallet, today.
LEMMA TodayIsNotAhead ==
  ASSUME CoinAssumption, NEW w \in WalletIds, day \in Days
  PROVE  /\ KeyOf("daily", day) \notin Ahead(w) /\ CycleKey(w, day) \notin Ahead(w)
         /\ Wallets[w].cycle = "daily" => CycleKey(w, day) = KeyOf("daily", day)
<1>1. Wallets[w].cycle \in {"daily", "monthly"}
  BY DEF CoinAssumption
<1>2. CASE Wallets[w].cycle = "daily"
  BY <1>2 DEF Ahead, CycleKey
<1>3. CASE Wallets[w].cycle = "monthly"
  <2>1. \A e : CycleKey(w, e) = <<"monthly", e \div 2>>
    BY <1>3 DEF CycleKey, KeyOf
  <2>2. KeyOf("daily", day) = <<"daily", day>>
    BY DEF KeyOf
  <2>3. KeyOf("daily", day) \notin Ahead(w)
    BY <2>1, <2>2 DEF Ahead
  <2> QED
    BY <1>3, <2>3 DEF Ahead
<1> QED
  BY <1>1, <1>2, <1>3

\* LedgerKeys stay as they are while the day does ...
LEMMA KeysStay ==
  ASSUME day' = day, NEW w
  PROVE  CycleKey(w, day)' = CycleKey(w, day) /\ Ahead(w)' = Ahead(w)
BY DEF CycleKey, KeyOf, Ahead

\* ... and the cycles of tomorrow were ahead today.
LEMMA KeysAdvance ==
  ASSUME CoinAssumption, NEW w \in WalletIds, day \in Days, day' \in Days, day' = day + 1
  PROVE  /\ Ahead(w)' \subseteq Ahead(w)
         /\ CycleKey(w, day)' \in Ahead(w) \cup {CycleKey(w, day)}
<1>1. /\ MaxCycles \in Nat /\ day \in Nat /\ day + 1 <= MaxCycles
      /\ Wallets[w].cycle \in {"daily", "monthly"}
  BY DEF CoinAssumption, Days
<1>2. /\ CycleKey(w, day)' = CycleKey(w, day + 1)
      /\ Ahead(w)' = { CycleKey(w, e) : e \in (day + 2) .. MaxCycles } \ {CycleKey(w, day + 1)}
  <2>1. day' + 1 = day + 2
    BY <1>1
  <2> QED
    BY <2>1 DEF Ahead, CycleKey, KeyOf
<1>3. day + 1 \in (day + 1) .. MaxCycles
  BY <1>1
<1>4. ASSUME NEW e \in (day + 2) .. MaxCycles, CycleKey(w, e) # CycleKey(w, day + 1)
      PROVE  CycleKey(w, e) \in Ahead(w)
  <2>1. e \in (day + 1) .. MaxCycles /\ e \in Nat /\ day + 2 <= e
    BY <1>1
  <2>2. CycleKey(w, e) # CycleKey(w, day)
    <3>1. CASE Wallets[w].cycle = "daily"
      BY <1>1, <2>1, <3>1 DEF CycleKey, KeyOf
    <3>2. CASE Wallets[w].cycle = "monthly"
      <4>1. e \div 2 # (day \div 2)
        BY <1>1, <2>1
      <4> QED
        BY <3>2, <4>1 DEF CycleKey, KeyOf
    <3> QED
      BY <1>1, <3>1, <3>2
  <2> QED
    BY <2>1, <2>2 DEF Ahead
<1> QED
  BY <1>2, <1>3, <1>4 DEF Ahead

LEMMA LimitsAreBounded ==
  ASSUME CoinAssumption, NEW w \in WalletIds
  PROVE  /\ Max(Limits[w]) \in Nat /\ Max(Limits[w]) \in Limits[w]
         /\ \A l \in Limits[w] : l \in Nat /\ l <= Max(Limits[w])
<1>1. IsFiniteSet(Limits[w]) /\ Limits[w] # {} /\ Limits[w] \subseteq Nat
  BY DEF CoinAssumption
<1> QED
  BY <1>1, GreatestNatural

\* A wallet that shows something has as much left.
LEMMA RemainingIsLeft ==
  ASSUME CoinAssumption, CoinTypeOK, NEW w \in WalletIds
  PROVE  /\ Remaining(w) \in Nat
         /\ LET k == CycleKey(w, day)
            IN  /\ limit[w] \in Nat /\ credits[w][k] \in Nat /\ debits[w][k] \in Nat
                /\ Remaining(w) > 0 => Remaining(w) = limit[w] + credits[w][k] - debits[w][k]
<1> DEFINE k == CycleKey(w, day)
           x == limit[w] + credits[w][k] - debits[w][k]
<1>1. k \in LedgerKeys
  BY CycleKeys DEF CoinTypeOK
<1> HIDE DEF k
<1>2. limit[w] \in Nat /\ credits[w][k] \in Nat /\ debits[w][k] \in Nat
  BY <1>1 DEF CoinTypeOK
<1>3. x \in Int
  BY <1>2
<1>4. Remaining(w) = Max({x, 0})
  BY DEF Remaining, k
<1> HIDE DEF x
<1>5. Max({x, 0}) = IF x >= 0 THEN x ELSE 0
  <2> DEFINE top == IF x >= 0 THEN x ELSE 0
  <2>1. top \in {x, 0} /\ \A y \in {x, 0} : top >= y
    BY <1>3
  <2>2. \A t \in {x, 0} : (\A y \in {x, 0} : t >= y) => t = top
    BY <1>3
  <2> HIDE DEF top
  <2> QED
    BY <2>1, <2>2 DEF Max, top
<1> QED
  BY <1>2, <1>3, <1>4, <1>5 DEF x, k

LEMMA CostsAreNumbers ==
  ASSUME CoinAssumption, CoinTypeOK
  PROVE  /\ Costs \in [Clients -> Nat]
         /\ \A c \in Clients : Costs[c] = Cost(c) /\ Cost(c) \in Nat
<1>1. ASSUME NEW c \in Clients PROVE Cost(c) \in Nat
  <2>1. request[c].model \in Models /\ request[c].tokens \in Nat
    BY DEF CoinTypeOK
  <2>2. Quote(request[c].model, request[c].tokens) \in Nat
    BY <2>1, QuotesAreNumbers
  <2> QED
    BY <2>2 DEF Cost, CoinAssumption
<1> QED
  BY <1>1 DEF Costs

LEMMA MayIsOfClients ==
  ASSUME CoinAssumption, CoinTypeOK, InFlight, NEW w \in WalletIds, NEW k \in LedgerKeys
  PROVE  /\ May(w, k) \in SUBSET Clients
         /\ Allowance(w, k) \in Nat /\ debits[w][k] \in Nat
         /\ \A c \in May(w, k) : Costs[c] <= Each
<1>1. May(w, k) \in SUBSET Clients
  BY DEF May, Charging, Exchanging
<1>2. credits[w][k] \in Nat /\ debits[w][k] \in Nat
  BY DEF CoinTypeOK
<1>3. Allowance(w, k) \in Nat
  BY <1>2, LimitsAreBounded DEF Allowance
<1>4. ASSUME NEW c \in May(w, k) PROVE Cost(c) <= Each
  <2>1. CASE phase[c] = "exchanging"
    BY <2>1, DearestIsDearest DEF Cost
  <2>2. CASE phase[c] # "exchanging"
    <3>1. phase[c] = "charging"
      BY <2>2 DEF May, Charging, Exchanging
    <3>2. request[c].tokens \in Tokens /\ request[c].model \in Models
      BY <1>1, <3>1 DEF InFlight, CoinTypeOK
    <3> QED
      BY <2>2, <3>2, DearestIsDearest DEF Cost
  <2> QED
    BY <2>1, <2>2
<1> QED
  BY <1>1, <1>2, <1>3, <1>4, CostsAreNumbers

\* The same facts of the next state.
CostsOK ==
    Costs \in [Clients -> Nat] /\ \A c \in Clients : Costs[c] = Cost(c) /\ Cost(c) \in Nat
MayOK ==
    \A w \in WalletIds, k \in LedgerKeys :
        /\ May(w, k) \in SUBSET Clients
        /\ Allowance(w, k) \in Nat /\ debits[w][k] \in Nat

LEMMA CostsAfter == CoinTypeOK' => CostsOK'
<1>1. CoinTypeOK => CostsOK
  BY CostsAreNumbers, CoinAssumption DEF CostsOK
<1> QED
  BY <1>1, PTL

LEMMA MayAfter == CoinTypeOK' /\ InFlight' => MayOK'
<1>1. CoinTypeOK /\ InFlight => MayOK
  BY MayIsOfClients, CoinAssumption DEF MayOK
<1> QED
  BY <1>1, PTL

LEMMA FiniteWallets ==
  CoinAssumption => IsFiniteSet(LedgerKeys) /\ IsFiniteSet(UserWallets)
<1> SUFFICES ASSUME CoinAssumption PROVE IsFiniteSet(LedgerKeys) /\ IsFiniteSet(UserWallets)
  OBVIOUS
<1>1. 0 \in Int /\ MaxCycles \in Int
  BY DEF CoinAssumption
<1>2. IsFiniteSet(0 .. MaxCycles)
  BY <1>1, FS_Interval
<1>3. IsFiniteSet({"daily", "monthly"})
  <2>1. IsFiniteSet({"daily"})
    BY FS_Singleton
  <2>2. IsFiniteSet({"daily"} \cup {"monthly"})
    BY <2>1, FS_AddElement
  <2>3. {"daily"} \cup {"monthly"} = {"daily", "monthly"}
    OBVIOUS
  <2> QED
    BY <2>2, <2>3
<1>4. IsFiniteSet(LedgerKeys)
  BY <1>2, <1>3, FS_Product DEF LedgerKeys
<1>5. IsFiniteSet(WalletIds) /\ UserWallets \in SUBSET WalletIds
  BY DEF CoinAssumption, UserWallets
<1> QED
  BY <1>4, <1>5, FS_Subset

-----------------------------------------------------------------------------
(* Types and requests in flight                                             *)

LEMMA CoinInitially == CoinAssumption /\ CoinInit => CoinInv
<1> SUFFICES ASSUME CoinAssumption, CoinInit PROVE CoinInv
  OBVIOUS
<1>1. 0 \in Days /\ MaxCycles \in Nat /\ KeyOf("daily", 0) \in LedgerKeys
  <2>1. 0 \in Days /\ MaxCycles \in Nat
    BY DEF CoinAssumption, Days
  <2>2. Copper \in WalletIds
    BY DEF CoinAssumption, UserWallets
  <2> QED
    BY <2>1, <2>2, CycleKeys
<1>2. NoRequest \in [model : Models, tokens : Nat]
  <2>1. (CHOOSE m \in Models : TRUE) \in Models
    BY DEF CoinAssumption
  <2> QED
    BY <2>1 DEF NoRequest
<1>3. CoinTypeOK
  <2>1. limit \in [WalletIds -> Nat]
    BY LimitsAreBounded DEF CoinInit
  <2> QED
    BY <1>1, <1>2, <2>1 DEF CoinInit, CoinTypeOK, Unread
<1>4. InFlight
  <2>1. Copper \in WalletIds
    BY DEF CoinAssumption, UserWallets
  <2> QED
    BY <2>1, LimitsAreBounded DEF CoinInit, InFlight
<1>5. RoomIsLeft
  <2> SUFFICES ASSUME NEW w \in Counted, NEW k \in LedgerKeys
               PROVE  Fits(debits[w][k], Allowance(w, k), May(w, k), Costs)
    BY DEF RoomIsLeft
  <2>1. w \in WalletIds
    BY DEF Counted, UserWallets
  <2>2. debits[w][k] = 0 /\ May(w, k) = {}
    BY <2>1 DEF CoinInit, May, Charging, Exchanging
  <2>3. Cardinality({}) = 0 /\ Company >= 1 /\ Company \in Nat /\ Each \in Nat
    BY FS_EmptySet, CompanyIsFinite, DearestIsDearest
  <2>4. Each * (Company - 1 - 0) \in Nat
    <3>1. Company - 1 - 0 \in Nat
      BY <2>3
    <3> QED
      BY <2>3, <3>1
  <2>5. Allowance(w, k) \in Nat
    BY <1>3, <1>4, <2>1, MayIsOfClients
  <2> QED
    BY <2>2, <2>3, <2>4, <2>5 DEF Fits
<1>6. ExchangesAreCounted
  <2>1. IsFiniteSet(LedgerKeys) /\ IsFiniteSet(UserWallets)
    BY FiniteWallets
  <2>2. \A w \in WalletIds : debits[w] = [k \in LedgerKeys |-> 0] /\ credits[w] = [k \in LedgerKeys |-> 0]
    BY DEF CoinInit
  <2>3. \A w \in WalletIds : SumFunction(debits[w]) = 0 /\ SumFunction(credits[w]) = 0
    BY <2>1, <2>2, SumOfZeros
  <2>4. SpentByUsers = 0
    <3>1. [w \in UserWallets |-> SumFunction(debits[w])] = [w \in UserWallets |-> 0]
      BY <2>3 DEF UserWallets
    <3>2. SumFunction([w \in UserWallets |-> 0]) = 0
      BY <2>1, SumOfZeros
    <3> QED
      BY <3>1, <3>2 DEF SpentByUsers
  <2>5. Given * 0 = 0 /\ Exchanged * 0 = 0
    <3>1. Given \in Int /\ Exchanged \in Int
      BY DEF Given, CoinAssumption
    <3> QED
      BY <3>1
  <2>6. /\ SumFunction(credits[Silver]) = Given * 0
        /\ \A b \in Budgets : SumFunction(debits[b]) + Exchanged * 0 >= SpentByUsers
    BY <2>3, <2>4, <2>5 DEF CoinAssumption, UserWallets, Budgets
  <2> QED
    BY <2>6 DEF ExchangesAreCounted
<1> QED
  BY <1>3, <1>4, <1>5, <1>6 DEF CoinInv

LEMMA CoinTypesStay ==
  CoinAssumption /\ CoinTypeOK /\ InFlight /\ [CoinNext]_coinVars => CoinTypeOK' /\ InFlight'
<1> SUFFICES ASSUME CoinAssumption, CoinTypeOK, InFlight, [CoinNext]_coinVars
             PROVE  CoinTypeOK' /\ InFlight'
  OBVIOUS
<1>1. NoRequest \in [model : Models, tokens : Nat]
      /\ Unread \in [WalletIds -> [cycle : LedgerKeys, remaining : Nat]]
  <2>1. (CHOOSE m \in Models : TRUE) \in Models
    BY DEF CoinAssumption
  <2>2. 0 \in Days /\ Copper \in WalletIds
    BY DEF CoinAssumption, UserWallets, Days
  <2>3. KeyOf("daily", 0) \in LedgerKeys
    BY <2>2, CycleKeys
  <2> QED
    BY <2>1, <2>3 DEF NoRequest, Unread
<1>2. /\ phase \in [Clients -> {"idle", "running", "charging", "exchanging"}]
      /\ request \in [Clients -> [model : Models, tokens : Nat]]
      /\ seen \in [Clients -> [WalletIds -> [cycle : LedgerKeys, remaining : Nat]]]
      /\ limit \in [WalletIds -> Nat]
      /\ debits \in [WalletIds -> [LedgerKeys -> Nat]]
      /\ credits \in [WalletIds -> [LedgerKeys -> Nat]]
      /\ day \in Days
  BY DEF CoinTypeOK
<1>3. /\ \A w \in WalletIds : limit[w] \in Limits[w]
      /\ \A c \in Clients :
           /\ phase[c] \in {"running", "charging"} => request[c].tokens \in Tokens
           /\ phase[c] = "charging" => \A w \in WalletIds : seen[c][w].cycle \notin Ahead(w)
      /\ \A w \in WalletIds, k \in LedgerKeys : k \in Ahead(w) => debits[w][k] = 0
      /\ \A k \in LedgerKeys : credits[Copper][k] = 0
  BY DEF InFlight
<1>4. Copper \in WalletIds /\ Silver \in WalletIds /\ Copper # Silver
  BY DEF CoinAssumption, UserWallets
<1>5. Tokens \subseteq Nat /\ MaxCycles \in Nat
  BY DEF CoinAssumption
<1>6. CASE UNCHANGED coinVars
  BY <1>6, <1>2, <1>3, KeysStay DEF coinVars, CoinTypeOK, InFlight
<1>7. ASSUME NEW c \in Clients, NEW m \in Models, NEW n \in Tokens, Ensure(c, m, n)
      PROVE  CoinTypeOK' /\ InFlight'
  <2>1. CoinTypeOK'
    BY <1>2, <1>5, <1>7 DEF Ensure, CoinTypeOK
  <2>2. InFlight'
    BY <1>2, <1>3, <1>7, KeysStay DEF Ensure, InFlight
  <2> QED
    BY <2>1, <2>2
<1>8. ASSUME NEW c \in Clients, NEW n \in Tokens, LoadWallets(c, n)
      PROVE  CoinTypeOK' /\ InFlight'
  <2>1. Hydrated \in [WalletIds -> [cycle : LedgerKeys, remaining : Nat]]
    <3>1. \A w \in WalletIds : Remaining(w) \in Nat /\ CycleKey(w, day) \in LedgerKeys
      BY <1>2, RemainingIsLeft, CycleKeys
    <3> QED
      BY <3>1 DEF Hydrated
  <2>2. request' \in [Clients -> [model : Models, tokens : Nat]]
    <3>1. [request[c] EXCEPT !.tokens = n] \in [model : Models, tokens : Nat]
      <4>1. \A r \in [model : Models, tokens : Nat], i \in Nat :
              [r EXCEPT !.tokens = i] \in [model : Models, tokens : Nat]
        OBVIOUS
      <4>2. request[c] \in [model : Models, tokens : Nat] /\ n \in Nat
        BY <1>2, <1>5
      <4> QED
        BY <4>1, <4>2
    <3>2. request' = [request EXCEPT ![c] = [request[c] EXCEPT !.tokens = n]]
      BY <1>8 DEF LoadWallets
    <3> QED
      BY <1>2, <3>1, <3>2
  <2>3. CoinTypeOK'
    BY <1>2, <1>8, <2>1, <2>2 DEF LoadWallets, CoinTypeOK
  <2>4. \A w \in WalletIds : Hydrated[w].cycle = CycleKey(w, day) /\ CycleKey(w, day) \notin Ahead(w)
    BY <1>2, TodayIsNotAhead DEF Hydrated
  <2>5. \A e \in Clients : /\ phase'[e] = IF e = c THEN "charging" ELSE phase[e]
                           /\ request'[e].tokens = IF e = c THEN n ELSE request[e].tokens
                           /\ seen'[e] = IF e = c THEN Hydrated ELSE seen[e]
    BY <1>2, <1>8 DEF LoadWallets
  <2>6. InFlight'
    BY <1>2, <1>3, <1>8, <2>4, <2>5, KeysStay DEF LoadWallets, InFlight
  <2> QED
    BY <2>3, <2>6
<1>9. ASSUME NEW c \in Clients, ChargeUsage(c) PROVE CoinTypeOK' /\ InFlight'
  <2> DEFINE cost == Quote(request[c].model, request[c].tokens)
  <2>1. cost \in Nat
    BY <1>2, QuotesAreNumbers
  <2>2. PICK target : debits' = [w \in WalletIds |->
           IF Charged(c, w, target)
           THEN [debits[w] EXCEPT ![seen[c][w].cycle] = @ + cost]
           ELSE debits[w]]
    BY <1>9 DEF ChargeUsage
  <2> HIDE DEF cost
  <2>3. \A w \in WalletIds : seen[c][w].cycle \notin Ahead(w) /\ seen[c][w].cycle \in LedgerKeys
    BY <1>2, <1>3, <1>9 DEF ChargeUsage
  <2>4. debits' \in [WalletIds -> [LedgerKeys -> Nat]]
    <3>1. \A f \in [LedgerKeys -> Nat], k \in LedgerKeys : [f EXCEPT ![k] = @ + cost] \in [LedgerKeys -> Nat]
      BY <2>1
    <3>2. \A w \in WalletIds : [debits[w] EXCEPT ![seen[c][w].cycle] = @ + cost] \in [LedgerKeys -> Nat]
      BY <1>2, <2>3, <3>1
    <3> QED
      BY <1>2, <2>2, <3>2
  <2>5. \A w \in WalletIds, k \in LedgerKeys : k \in Ahead(w) => debits'[w][k] = debits[w][k]
    <3> SUFFICES ASSUME NEW w \in WalletIds, NEW k \in LedgerKeys, k \in Ahead(w)
                 PROVE  debits'[w][k] = debits[w][k]
      OBVIOUS
    <3>1. seen[c][w].cycle # k
      BY <2>3
    <3> QED
      BY <1>2, <2>2, <3>1
  <2>6. CoinTypeOK'
    BY <1>1, <1>2, <1>9, <2>4 DEF ChargeUsage, Settle, CoinTypeOK
  <2>7. InFlight'
    BY <1>2, <1>3, <1>9, <2>5, KeysStay DEF ChargeUsage, Settle, InFlight
  <2> QED
    BY <2>6, <2>7
<1>10. ASSUME NEW c \in Clients, ReadForExchange(c) PROVE CoinTypeOK' /\ InFlight'
  <2>1. CoinTypeOK'
    BY <1>2, <1>10 DEF ReadForExchange, CoinTypeOK
  <2>2. InFlight'
    BY <1>2, <1>3, <1>10, KeysStay DEF ReadForExchange, InFlight
  <2> QED
    BY <2>1, <2>2
<1>11. ASSUME NEW c \in Clients, Exchange(c) PROVE CoinTypeOK' /\ InFlight'
  <2>1. KeyOf("daily", day) \in LedgerKeys /\ KeyOf("monthly", day) \in LedgerKeys
    BY <1>2, <1>4, CycleKeys
  <2>2. Exchanged \in Nat /\ Given \in Nat
    <3>1. Exchanged \in Nat /\ BankingRate \in Nat
      BY DEF CoinAssumption
    <3>2. Exchanged * BankingRate \in Nat
      BY <3>1
    <3> QED
      BY <3>1, <3>2 DEF Given
  <2>3. /\ debits' = [debits EXCEPT ![Copper][KeyOf("daily", day)] = @ + Exchanged]
        /\ credits' = [credits EXCEPT ![Silver][KeyOf("monthly", day)] = @ + Given]
    BY <1>11 DEF Exchange, Given
  <2>4. debits' \in [WalletIds -> [LedgerKeys -> Nat]] /\ credits' \in [WalletIds -> [LedgerKeys -> Nat]]
    BY <1>2, <1>4, <2>1, <2>2, <2>3
  <2>5. \A w \in WalletIds, k \in LedgerKeys : k # KeyOf("daily", day) => debits'[w][k] = debits[w][k]
    BY <1>2, <1>4, <2>1, <2>3
  <2>6. \A w \in WalletIds, k \in LedgerKeys : k \in Ahead(w) => k # KeyOf("daily", day)
    BY <1>2, TodayIsNotAhead
  <2>7. credits'[Copper] = credits[Copper]
    BY <1>2, <1>4, <2>3
  <2>8. CoinTypeOK'
    BY <1>1, <1>2, <1>11, <2>4 DEF Exchange, Settle, CoinTypeOK
  <2>9. InFlight'
    BY <1>2, <1>3, <1>11, <2>5, <2>6, <2>7, KeysStay DEF Exchange, Settle, InFlight
  <2> QED
    BY <2>8, <2>9
<1>12. ASSUME NEW c \in Clients, Abandon(c) PROVE CoinTypeOK' /\ InFlight'
  <2>1. CoinTypeOK'
    BY <1>1, <1>2, <1>12 DEF Abandon, Settle, CoinTypeOK
  <2>2. InFlight'
    BY <1>2, <1>3, <1>12, KeysStay DEF Abandon, Settle, InFlight
  <2> QED
    BY <2>1, <2>2
<1>13. ASSUME NEW w \in WalletIds, NEW l \in Limits[w], SetLimit(w, l)
       PROVE  CoinTypeOK' /\ InFlight'
  <2>1. l \in Nat
    BY LimitsAreBounded
  <2>2. CoinTypeOK'
    BY <1>2, <1>13, <2>1 DEF SetLimit, CoinTypeOK
  <2>3. InFlight'
    BY <1>2, <1>3, <1>13, KeysStay DEF SetLimit, InFlight
  <2> QED
    BY <2>2, <2>3
<1>14. CASE Midnight
  <2>1. day' \in Days /\ day' = day + 1
    BY <1>2, <1>5, <1>14 DEF Midnight, Days
  <2>2. \A w \in WalletIds : Ahead(w)' \subseteq Ahead(w)
    BY <1>2, <2>1, KeysAdvance
  <2>3. CoinTypeOK'
    BY <1>2, <1>14, <2>1 DEF Midnight, CoinTypeOK
  <2>4. InFlight'
    BY <1>3, <1>14, <2>2 DEF Midnight, InFlight
  <2> QED
    BY <2>3, <2>4
<1> QED
  BY <1>6, <1>7, <1>8, <1>9, <1>10, <1>11, <1>12, <1>13, <1>14 DEF CoinNext

-----------------------------------------------------------------------------
(* Room in a wallet                                                         *)

\* Nobody new may take from a wallet that is as it was.
LEMMA RoomShrinks ==
  ASSUME CoinAssumption, CoinTypeOK, InFlight, RoomIsLeft, CoinTypeOK', InFlight',
         NEW w \in Counted, NEW k \in LedgerKeys,
         debits'[w][k] = debits[w][k], credits'[w][k] >= credits[w][k],
         May(w, k)' \subseteq May(w, k),
         \A c \in May(w, k)' : Cost(c)' = Cost(c)
  PROVE  Fits(debits'[w][k], Allowance(w, k)', May(w, k)', Costs')
<1>1. w \in WalletIds
  BY DEF Counted, UserWallets
<1>2. /\ May(w, k) \in SUBSET Clients /\ Allowance(w, k) \in Nat /\ debits[w][k] \in Nat
      /\ Allowance(w, k)' \in Nat
  BY <1>1, MayIsOfClients, MayAfter DEF MayOK
<1>3. Costs \in [Clients -> Nat] /\ Costs' \in [Clients -> Nat]
  BY CostsAreNumbers, CostsAfter DEF CostsOK
<1>4. \A c \in May(w, k)' : Costs'[c] = Costs[c]
  BY <1>2, CostsAreNumbers, CostsAfter DEF CostsOK
<1>5. Allowance(w, k) <= Allowance(w, k)'
  <2>1. Max(Limits[w]) \in Nat
    BY <1>1, LimitsAreBounded
  <2>2. credits[w][k] \in Nat /\ credits'[w][k] \in Nat
    BY <1>1 DEF CoinTypeOK
  <2> QED
    BY <2>1, <2>2 DEF Allowance
<1>6. Fits(debits[w][k], Allowance(w, k), May(w, k), Costs)
  BY DEF RoomIsLeft
<1> DEFINE a == Allowance(w, k)
           b == Allowance(w, k)'
           P == May(w, k)
           Q == May(w, k)'
           e == Costs
           f == Costs'
           d == debits[w][k]
<1>7. /\ P \in SUBSET Clients /\ a \in Nat /\ d \in Nat /\ b \in Nat /\ a <= b
      /\ e \in [Clients -> Nat] /\ f \in [Clients -> Nat] /\ SameCosts(f, e, Q)
      /\ Q \in SUBSET P /\ Fits(d, a, P, e)
  BY <1>2, <1>3, <1>4, <1>5, <1>6 DEF SameCosts
<1>8. debits'[w][k] = d
  OBVIOUS
<1> HIDE DEF a, b, P, Q, e, f, d
<1>9. Fits(d, b, Q, f)
  BY <1>7, FitsShrinks
<1> QED
  BY <1>8, <1>9 DEF b, Q, f

\* Somebody new may take what is left in a wallet that is as it was.
LEMMA RoomJoins ==
  ASSUME CoinAssumption, CoinTypeOK, InFlight, CoinTypeOK', InFlight',
         NEW w \in Counted, NEW k \in LedgerKeys, NEW c \in May(w, k)',
         debits'[w][k] = debits[w][k],
         debits[w][k] + Cost(c)' <= Allowance(w, k)'
  PROVE  Fits(debits'[w][k], Allowance(w, k)', May(w, k)', Costs')
<1>1. w \in WalletIds
  BY DEF Counted, UserWallets
<1>2. May(w, k)' \in SUBSET Clients /\ Allowance(w, k)' \in Nat /\ debits'[w][k] \in Nat
  BY <1>1, MayAfter DEF MayOK
<1>3. Costs' \in [Clients -> Nat] /\ Costs'[c] = Cost(c)'
  BY <1>2, CostsAreNumbers, CostsAfter DEF CostsOK
<1> DEFINE b == Allowance(w, k)'
           Q == May(w, k)'
           f == Costs'
           d == debits'[w][k]
<1>4. /\ d \in Nat /\ b \in Nat /\ Q \in SUBSET Clients /\ c \in Q /\ f \in [Clients -> Nat]
      /\ d + f[c] <= b
  BY <1>2, <1>3
<1> HIDE DEF b, Q, f, d
<1>5. Fits(d, b, Q, f)
  BY <1>4, FitsJoins
<1> QED
  BY <1>5 DEF b, Q, f, d

\* Somebody who may take its cost does, and is done.
LEMMA RoomIsTaken ==
  ASSUME CoinAssumption, CoinTypeOK, InFlight, RoomIsLeft, CoinTypeOK', InFlight',
         NEW w \in Counted, NEW k \in LedgerKeys, NEW c \in May(w, k),
         debits'[w][k] = debits[w][k] + Cost(c), credits'[w][k] >= credits[w][k],
         May(w, k)' \subseteq May(w, k) \ {c},
         \A e \in May(w, k)' : Cost(e)' = Cost(e)
  PROVE  Fits(debits'[w][k], Allowance(w, k)', May(w, k)', Costs')
<1>1. w \in WalletIds
  BY DEF Counted, UserWallets
<1>2. /\ May(w, k) \in SUBSET Clients /\ Allowance(w, k) \in Nat /\ debits[w][k] \in Nat
      /\ Allowance(w, k)' \in Nat /\ Costs[c] <= Each
  BY <1>1, MayIsOfClients, MayAfter DEF MayOK
<1>3. Costs \in [Clients -> Nat] /\ Costs' \in [Clients -> Nat] /\ Costs[c] = Cost(c)
  BY <1>2, CostsAreNumbers, CostsAfter DEF CostsOK
<1>4. \A e \in May(w, k)' : Costs'[e] = Costs[e]
  BY <1>2, CostsAreNumbers, CostsAfter DEF CostsOK
<1>5. Allowance(w, k) <= Allowance(w, k)'
  <2>1. Max(Limits[w]) \in Nat
    BY <1>1, LimitsAreBounded
  <2>2. credits[w][k] \in Nat /\ credits'[w][k] \in Nat
    BY <1>1 DEF CoinTypeOK
  <2> QED
    BY <2>1, <2>2 DEF Allowance
<1>6. Fits(debits[w][k], Allowance(w, k), May(w, k), Costs)
  BY DEF RoomIsLeft
<1> DEFINE a == Allowance(w, k)
           b == Allowance(w, k)'
           P == May(w, k)
           Q == May(w, k)'
           g == Costs
           f == Costs'
           d == debits[w][k]
<1>7. /\ P \in SUBSET Clients /\ a \in Nat /\ d \in Nat /\ b \in Nat /\ a <= b /\ c \in P
      /\ g \in [Clients -> Nat] /\ f \in [Clients -> Nat] /\ SameCosts(f, g, Q)
      /\ Q \in SUBSET (P \ {c}) /\ Fits(d, a, P, g) /\ g[c] <= Each
  BY <1>2, <1>3, <1>4, <1>5, <1>6 DEF SameCosts
<1>8. debits'[w][k] = d + g[c]
  BY <1>3
<1> HIDE DEF a, b, P, Q, g, f, d
<1>9. Fits(d + g[c], b, Q, f)
  BY <1>7, FitsPays
<1> QED
  BY <1>8, <1>9 DEF b, Q, f

LEMMA RoomStays ==
  CoinAssumption /\ CoinTypeOK /\ InFlight /\ RoomIsLeft /\ [CoinNext]_coinVars => RoomIsLeft'
<1> SUFFICES ASSUME CoinAssumption, CoinTypeOK, InFlight, RoomIsLeft, [CoinNext]_coinVars,
                    NEW w \in Counted, NEW k \in LedgerKeys
             PROVE  Fits(debits'[w][k], Allowance(w, k)', May(w, k)', Costs')
  BY DEF RoomIsLeft
<1>0. CoinTypeOK' /\ InFlight'
  BY CoinTypesStay
<1>1. /\ phase \in [Clients -> {"idle", "running", "charging", "exchanging"}]
      /\ request \in [Clients -> [model : Models, tokens : Nat]]
      /\ seen \in [Clients -> [WalletIds -> [cycle : LedgerKeys, remaining : Nat]]]
      /\ limit \in [WalletIds -> Nat]
      /\ debits \in [WalletIds -> [LedgerKeys -> Nat]]
      /\ credits \in [WalletIds -> [LedgerKeys -> Nat]]
      /\ day \in Days
  BY DEF CoinTypeOK
<1>2. w \in WalletIds
  BY DEF Counted, UserWallets
<1>3. debits[w][k] \in Nat /\ credits[w][k] \in Nat /\ credits[w][k] >= credits[w][k]
  BY <1>1, <1>2
<1>4. Copper \in UserWallets /\ Silver \in WalletIds /\ Copper # Silver /\ Copper \in WalletIds
  BY DEF CoinAssumption, UserWallets
<1>5. CASE UNCHANGED coinVars
  <2>1. May(w, k)' \subseteq May(w, k) /\ \A c \in May(w, k)' : Cost(c)' = Cost(c)
    BY <1>5, KeysStay DEF coinVars, May, Charging, Exchanging, Cost
  <2> QED
    BY <1>0, <1>3, <1>5, <2>1, RoomShrinks DEF coinVars
<1>6. ASSUME NEW c \in Clients, NEW m \in Models, NEW n \in Tokens, Ensure(c, m, n)
      PROVE  Fits(debits'[w][k], Allowance(w, k)', May(w, k)', Costs')
  <2>1. May(w, k)' \subseteq May(w, k) /\ \A e \in May(w, k)' : Cost(e)' = Cost(e)
    BY <1>1, <1>6, KeysStay DEF Ensure, May, Charging, Exchanging, Cost
  <2> QED
    BY <1>0, <1>3, <1>6, <2>1, RoomShrinks DEF Ensure
<1>7. ASSUME NEW c \in Clients, NEW n \in Tokens, LoadWallets(c, n)
      PROVE  Fits(debits'[w][k], Allowance(w, k)', May(w, k)', Costs')
  <2>1. \A e \in Clients : /\ phase'[e] = IF e = c THEN "charging" ELSE phase[e]
                           /\ seen'[e] = IF e = c THEN Hydrated ELSE seen[e]
                           /\ e # c => request'[e] = request[e]
    BY <1>1, <1>7 DEF LoadWallets
  <2>2. \A e \in Clients \ {c} : Cost(e)' = Cost(e)
    BY <2>1 DEF Cost
  <2>3. May(w, k)' \subseteq May(w, k) \cup {c}
    BY <1>7, <2>1, <2>2, KeysStay DEF LoadWallets, May, Charging, Exchanging
  <2>4. CASE c \notin May(w, k)'
    <3>1. May(w, k)' \subseteq May(w, k) /\ \A e \in May(w, k)' : Cost(e)' = Cost(e)
      BY <2>2, <2>3, <2>4 DEF May, Charging, Exchanging
    <3> QED
      BY <1>0, <1>3, <1>7, <3>1, RoomShrinks DEF LoadWallets
  <2>5. CASE c \in May(w, k)'
    <3>1. Hydrated[w].cycle = k /\ Hydrated[w].remaining >= Cost(c)' /\ Cost(c)' > 0
      BY <2>1, <2>5 DEF May, Charging, Exchanging
    <3>2. k = CycleKey(w, day) /\ Remaining(w) >= Cost(c)'
      BY <1>2, <3>1 DEF Hydrated
    <3>3. Cost(c)' \in Nat
      BY <1>0, CostsAfter DEF CostsOK
    <3>4. Remaining(w) = limit[w] + credits[w][k] - debits[w][k]
      BY <1>2, <3>1, <3>2, <3>3, RemainingIsLeft
    <3>5. limit[w] <= Max(Limits[w]) /\ Max(Limits[w]) \in Nat /\ limit[w] \in Nat
      BY <1>2, LimitsAreBounded DEF InFlight
    <3>6. debits[w][k] + Cost(c)' <= Max(Limits[w]) + credits[w][k]
      BY <1>3, <3>2, <3>3, <3>4, <3>5
    <3>7. debits' = debits /\ credits' = credits
      BY <1>7 DEF LoadWallets
    <3> QED
      BY <1>0, <2>5, <3>6, <3>7, RoomJoins DEF Allowance
  <2> QED
    BY <2>4, <2>5
<1>8. ASSUME NEW c \in Clients, ChargeUsage(c)
      PROVE  Fits(debits'[w][k], Allowance(w, k)', May(w, k)', Costs')
  <2> DEFINE cost == Quote(request[c].model, request[c].tokens)
  <2>1. PICK target \in IF Targets(c) = {} THEN {"none"} ELSE Targets(c) :
          debits' = [v \in WalletIds |->
             IF Charged(c, v, target)
             THEN [debits[v] EXCEPT ![seen[c][v].cycle] = @ + cost]
             ELSE debits[v]]
    BY <1>8 DEF ChargeUsage
  <2>2. /\ \A e \in Clients \ {c} : Cost(e)' = Cost(e)
        /\ May(w, k)' \subseteq May(w, k) \ {c} /\ credits' = credits
    BY <1>1, <1>8, KeysStay DEF ChargeUsage, Settle, May, Charging, Exchanging, Cost
  <2>3. \A e \in May(w, k)' : Cost(e)' = Cost(e)
    BY <2>2 DEF May, Charging, Exchanging
  <2>4. Cost(c) = cost /\ cost \in Nat
    BY <1>8, CostsAreNumbers DEF ChargeUsage, Cost
  <2>5. w \notin Budgets
    BY DEF Budgets, Counted, UserWallets
  <2>6. CASE debits'[w][k] = debits[w][k]
    BY <1>0, <1>3, <2>2, <2>3, <2>6, RoomShrinks
  <2>7. CASE debits'[w][k] # debits[w][k]
    <3>1. w = target
      BY <1>2, <2>1, <2>5, <2>7 DEF Charged
    <3>2. w \in Targets(c)
      BY <1>2, <2>1, <3>1 DEF CoinAssumption
    <3>3. seen[c][w].remaining >= cost
      BY <3>2 DEF Targets
    <3>4. debits'[w] = [debits[w] EXCEPT ![seen[c][w].cycle] = @ + cost]
      BY <1>2, <2>1, <3>1 DEF Charged
    <3>5. seen[c][w].cycle = k /\ debits'[w][k] = debits[w][k] + cost /\ cost > 0
      <4> HIDE DEF cost
      <4>1. \A f \in [LedgerKeys -> Nat] : \A i : [f EXCEPT ![i] = @ + cost][k]
                                            = IF i = k THEN f[k] + cost ELSE f[k]
        OBVIOUS
      <4>2. debits[w] \in [LedgerKeys -> Nat]
        BY <1>1, <1>2
      <4>3. debits'[w][k] = IF seen[c][w].cycle = k THEN debits[w][k] + cost ELSE debits[w][k]
        BY <3>4, <4>1, <4>2
      <4> QED
        BY <1>3, <2>4, <2>7, <4>3
    <3>6. c \in May(w, k)
      BY <1>8, <2>4, <3>3, <3>5 DEF May, Charging, ChargeUsage
    <3> QED
      BY <1>0, <1>3, <2>2, <2>3, <2>4, <3>5, <3>6, RoomIsTaken
  <2> QED
    BY <2>6, <2>7
<1>9. ASSUME NEW c \in Clients, ReadForExchange(c)
      PROVE  Fits(debits'[w][k], Allowance(w, k)', May(w, k)', Costs')
  <2>1. /\ \A e \in Clients \ {c} : Cost(e)' = Cost(e)
        /\ May(w, k)' \subseteq May(w, k) \cup {c}
        /\ Cost(c)' = Exchanged
        /\ c \in May(w, k)' => w = Copper /\ k \in Ahead(w) \cup {CycleKey(w, day)}
        /\ debits' = debits /\ credits' = credits
    BY <1>1, <1>9, KeysStay DEF ReadForExchange, May, Charging, Exchanging, Cost
  <2>2. CASE c \notin May(w, k)'
    <3>1. May(w, k)' \subseteq May(w, k) /\ \A e \in May(w, k)' : Cost(e)' = Cost(e)
      BY <2>1, <2>2 DEF May, Charging, Exchanging
    <3> QED
      BY <1>0, <1>3, <2>1, <3>1, RoomShrinks
  <2>3. CASE c \in May(w, k)'
    <3> DEFINE i == CycleKey(w, day)
    <3>1. w = Copper /\ k \in Ahead(w) \cup {i} /\ Remaining(w) >= Exchanged
          /\ Exchanged \in Nat /\ Exchanged > 0
      BY <1>9, <2>1, <2>3 DEF ReadForExchange, CoinAssumption
    <3>2. Remaining(w) = limit[w] + credits[w][i] - debits[w][i]
      BY <1>2, <3>1, RemainingIsLeft
    <3>3. i \in LedgerKeys
      BY <1>1, <1>2, CycleKeys
    <3>4. credits[w][i] = 0 /\ credits[w][k] = 0 /\ debits[w][i] \in Nat
      BY <1>1, <1>2, <3>1, <3>3 DEF InFlight
    <3>5. limit[w] <= Max(Limits[w]) /\ Max(Limits[w]) \in Nat /\ limit[w] \in Nat
      BY <1>2, LimitsAreBounded DEF InFlight
    <3>6. k \in Ahead(w) => debits[w][k] = 0
      BY <1>2 DEF InFlight
    <3>7. k = i \/ k \in Ahead(w)
      BY <3>1
    <3> HIDE DEF i
    <3>8. debits[w][k] + Exchanged <= Max(Limits[w]) + credits[w][k]
      BY <1>3, <3>1, <3>2, <3>4, <3>5, <3>6, <3>7
    <3> QED
      BY <1>0, <2>1, <2>3, <3>8, RoomJoins DEF Allowance
  <2> QED
    BY <2>2, <2>3
<1>10. ASSUME NEW c \in Clients, Exchange(c)
       PROVE  Fits(debits'[w][k], Allowance(w, k)', May(w, k)', Costs')
  <2>1. /\ \A e \in Clients \ {c} : Cost(e)' = Cost(e)
        /\ May(w, k)' \subseteq May(w, k) \ {c}
    BY <1>1, <1>10, KeysStay DEF Exchange, Settle, May, Charging, Exchanging, Cost
  <2>2. \A e \in May(w, k)' : Cost(e)' = Cost(e)
    BY <2>1 DEF May, Charging, Exchanging
  <2>3. Exchanged \in Nat /\ Given \in Nat
    <3>1. Exchanged \in Nat /\ BankingRate \in Nat
      BY DEF CoinAssumption
    <3>2. Exchanged * BankingRate \in Nat
      BY <3>1
    <3> QED
      BY <3>1, <3>2 DEF Given
  <2>4. credits' = [credits EXCEPT ![Silver][KeyOf("monthly", day)] = @ + Given]
    BY <1>10 DEF Exchange, Given
  <2>5. credits'[w][k] >= credits[w][k]
    <3>1. KeyOf("monthly", day) \in LedgerKeys
      BY <1>1, <1>4, CycleKeys
    <3>2. credits'[w][k] = IF w = Silver /\ k = KeyOf("monthly", day)
                           THEN credits[w][k] + Given ELSE credits[w][k]
      BY <1>1, <1>2, <1>4, <2>3, <2>4, <3>1
    <3> QED
      BY <1>3, <2>3, <3>2
  <2>6. KeyOf("daily", day) \in LedgerKeys /\ (w = Copper => KeyOf("daily", day) = CycleKey(w, day))
    <3>1. w = Copper => Wallets[w].cycle = "daily"
      BY DEF Counted
    <3> QED
      BY <1>1, <1>2, <3>1, CycleKeys, TodayIsNotAhead
  <2>7. debits'[w][k] = IF w = Copper /\ k = KeyOf("daily", day)
                        THEN debits[w][k] + Exchanged ELSE debits[w][k]
    BY <1>1, <1>2, <1>4, <1>10, <2>3, <2>6 DEF Exchange
  <2>8. CASE w = Copper /\ k = KeyOf("daily", day)
    <3>1. c \in May(w, k) /\ Cost(c) = Exchanged
      BY <1>10, <2>6, <2>8 DEF Exchange, May, Exchanging, Cost
    <3> QED
      BY <1>0, <2>1, <2>2, <2>5, <2>7, <2>8, <3>1, RoomIsTaken
  <2>9. CASE ~(w = Copper /\ k = KeyOf("daily", day))
    BY <1>0, <2>1, <2>2, <2>5, <2>7, <2>9, RoomShrinks
  <2> QED
    BY <2>8, <2>9
<1>11. ASSUME NEW c \in Clients, Abandon(c)
       PROVE  Fits(debits'[w][k], Allowance(w, k)', May(w, k)', Costs')
  <2>1. May(w, k)' \subseteq May(w, k) /\ \A e \in May(w, k)' : Cost(e)' = Cost(e)
    BY <1>1, <1>11, KeysStay DEF Abandon, Settle, May, Charging, Exchanging, Cost
  <2> QED
    BY <1>0, <1>3, <1>11, <2>1, RoomShrinks DEF Abandon
<1>12. ASSUME NEW v \in WalletIds, NEW l \in Limits[v], SetLimit(v, l)
       PROVE  Fits(debits'[w][k], Allowance(w, k)', May(w, k)', Costs')
  <2>1. May(w, k)' \subseteq May(w, k) /\ \A e \in May(w, k)' : Cost(e)' = Cost(e)
    BY <1>12, KeysStay DEF SetLimit, May, Charging, Exchanging, Cost
  <2> QED
    BY <1>0, <1>3, <1>12, <2>1, RoomShrinks DEF SetLimit
<1>13. CASE Midnight
  <2>1. day' = day + 1 /\ day' \in Days
    BY <1>0, <1>13 DEF Midnight, CoinTypeOK
  <2>2. k \in (Ahead(w) \cup {CycleKey(w, day)})' => k \in Ahead(w) \cup {CycleKey(w, day)}
    BY <1>1, <1>2, <2>1, KeysAdvance
  <2>3. May(w, k)' \subseteq May(w, k) /\ \A e \in May(w, k)' : Cost(e)' = Cost(e)
    BY <1>13, <2>2 DEF Midnight, May, Charging, Exchanging, Cost
  <2> QED
    BY <1>0, <1>3, <1>13, <2>3, RoomShrinks DEF Midnight
<1> QED
  BY <1>5, <1>6, <1>7, <1>8, <1>9, <1>10, <1>11, <1>12, <1>13 DEF CoinNext

-----------------------------------------------------------------------------
(* Budgets                                                                  *)

\* An entry of a wallet adds to the sum of the wallet.
LEMMA EntryAdds ==
  ASSUME CoinAssumption, NEW f \in [LedgerKeys -> Nat], NEW k \in LedgerKeys, NEW n \in Nat
  PROVE  /\ SumFunction([f EXCEPT ![k] = @ + n]) = SumFunction(f) + n
         /\ SumFunction(f) \in Int
<1>1. f \in [LedgerKeys -> Int] /\ n \in Int
  OBVIOUS
<1>2. IsFiniteSet(LedgerKeys)
  BY FiniteWallets
<1>3. SumFunction([f EXCEPT ![k] = @ + n]) = SumFunction(f) + n
  <2> DEFINE e == [f EXCEPT ![k] = @ + n]
  <2>1. e \in [LedgerKeys -> Int] /\ AddedAt(e, f, LedgerKeys, k, n)
    BY DEF AddedAt
  <2> HIDE DEF e
  <2>2. SumFunction(e) = SumFunction(f) + n
    BY <1>1, <1>2, <2>1, SumGrows
  <2> QED
    BY <2>2 DEF e
<1>4. SumFunction(f) \in Int
  BY <1>1, <1>2, SumIsNumber
<1> QED
  BY <1>3, <1>4

\* A debit of one of the user's wallets adds to what users spent.
LEMMA SpendingAdds ==
  ASSUME CoinAssumption, CoinTypeOK, NEW u \in UserWallets, NEW n \in Nat,
         \A w \in UserWallets : SumFunction(debits'[w]) =
            IF w = u THEN SumFunction(debits[w]) + n ELSE SumFunction(debits[w])
  PROVE  SpentByUsers' = SpentByUsers + n /\ SpentByUsers \in Int
<1> DEFINE f == [w \in UserWallets |-> SumFunction(debits[w])]
<1>1. IsFiniteSet(UserWallets)
  BY FiniteWallets
<1>2. f \in [UserWallets -> Int]
  <2>1. \A w \in UserWallets : debits[w] \in [LedgerKeys -> Int]
    BY DEF CoinTypeOK, UserWallets
  <2>2. \A w \in UserWallets : SumFunction(debits[w]) \in Int
    BY <2>1, FiniteWallets, SumIsNumber
  <2> QED
    BY <2>2
<1>3. [w \in UserWallets |-> SumFunction(debits'[w])] = [f EXCEPT ![u] = @ + n]
  <2>1. \A w \in UserWallets : f[w] = SumFunction(debits[w])
    OBVIOUS
  <2>2. \A w \in UserWallets : SumFunction(debits'[w]) = [f EXCEPT ![u] = @ + n][w]
    BY <2>1
  <2> HIDE DEF f
  <2> QED
    BY <1>2, <2>2
<1>4. SumFunction([f EXCEPT ![u] = @ + n]) = SumFunction(f) + n /\ SumFunction(f) \in Int
  <2> HIDE DEF f
  <2>1. n \in Int
    OBVIOUS
  <2>2. SumFunction([f EXCEPT ![u] = @ + n]) = SumFunction(f) + n
    <3> DEFINE e == [f EXCEPT ![u] = @ + n]
    <3>1. e \in [UserWallets -> Int] /\ AddedAt(e, f, UserWallets, u, n)
      BY <1>2 DEF AddedAt
    <3> HIDE DEF e
    <3>2. SumFunction(e) = SumFunction(f) + n
      BY <1>1, <1>2, <2>1, <3>1, SumGrows
    <3> QED
      BY <3>2 DEF e
  <2>3. SumFunction(f) \in Int
    BY <1>1, <1>2, SumIsNumber
  <2> QED
    BY <2>2, <2>3
<1>5. SpentByUsers = SumFunction(f)
  BY DEF SpentByUsers
<1>6. SpentByUsers' = SumFunction([w \in UserWallets |-> SumFunction(debits'[w])])
  BY DEF SpentByUsers, UserWallets
<1> QED
  BY <1>3, <1>4, <1>5, <1>6

LEMMA SpentIsNumber ==
  ASSUME CoinAssumption, CoinTypeOK
  PROVE  SpentByUsers \in Int
<1> DEFINE f == [w \in UserWallets |-> SumFunction(debits[w])]
<1>1. \A w \in UserWallets : debits[w] \in [LedgerKeys -> Int]
  BY DEF CoinTypeOK, UserWallets
<1>2. \A w \in UserWallets : SumFunction(debits[w]) \in Int
  BY <1>1, FiniteWallets, SumIsNumber
<1>3. f \in [UserWallets -> Int]
  BY <1>2
<1>4. SpentByUsers = SumFunction(f)
  BY DEF SpentByUsers
<1> HIDE DEF f
<1> QED
  BY <1>3, <1>4, FiniteWallets, SumIsNumber

LEMMA SpendingStays ==
  ASSUME \A w \in UserWallets : SumFunction(debits'[w]) = SumFunction(debits[w])
  PROVE  SpentByUsers' = SpentByUsers
<1>1. [w \in UserWallets |-> SumFunction(debits'[w])] = [w \in UserWallets |-> SumFunction(debits[w])]
  OBVIOUS
<1> QED
  BY <1>1 DEF SpentByUsers, UserWallets

LEMMA CountStays ==
  CoinAssumption /\ CoinTypeOK /\ InFlight /\ ExchangesAreCounted /\ [CoinNext]_coinVars
    => ExchangesAreCounted'
<1> SUFFICES ASSUME CoinAssumption, CoinTypeOK, InFlight, ExchangesAreCounted,
                    [CoinNext]_coinVars
             PROVE  ExchangesAreCounted'
  OBVIOUS
<1>1. /\ request \in [Clients -> [model : Models, tokens : Nat]]
      /\ debits \in [WalletIds -> [LedgerKeys -> Nat]]
      /\ credits \in [WalletIds -> [LedgerKeys -> Nat]]
      /\ day \in Days
  BY DEF CoinTypeOK
<1>2. PICK j \in Nat :
        /\ SumFunction(credits[Silver]) = Given * j
        /\ \A b \in Budgets : SumFunction(debits[b]) + Exchanged * j >= SpentByUsers
  BY DEF ExchangesAreCounted
<1>3. /\ Copper \in UserWallets /\ Silver \in WalletIds /\ Copper \in WalletIds
      /\ Budgets \subseteq WalletIds /\ UserWallets \subseteq WalletIds
      /\ Budgets \cap UserWallets = {}
  BY DEF CoinAssumption, UserWallets, Budgets
<1>4. Exchanged \in Nat /\ Given \in Nat /\ Exchanged * j \in Nat /\ Given * j \in Nat
  <2>1. Exchanged \in Nat /\ BankingRate \in Nat
    BY DEF CoinAssumption
  <2>2. Exchanged * BankingRate \in Nat /\ Exchanged * j \in Nat
    BY <2>1
  <2>3. Given \in Nat
    BY <2>2 DEF Given
  <2>4. Given * j \in Nat
    BY <2>3
  <2> QED
    BY <2>1, <2>2, <2>3, <2>4
<1>5. CASE debits' = debits /\ credits' = credits
  <2>1. SpentByUsers' = SpentByUsers
    BY <1>5, SpendingStays
  <2> QED
    BY <1>2, <1>5, <2>1 DEF ExchangesAreCounted, Budgets
<1>6. ASSUME NEW c \in Clients, ChargeUsage(c) PROVE ExchangesAreCounted'
  <2> DEFINE cost == Quote(request[c].model, request[c].tokens)
  <2>1. PICK target \in IF Targets(c) = {} THEN {"none"} ELSE Targets(c) :
          debits' = [v \in WalletIds |->
             IF Charged(c, v, target)
             THEN [debits[v] EXCEPT ![seen[c][v].cycle] = @ + cost]
             ELSE debits[v]]
    BY <1>6 DEF ChargeUsage
  <2>2. cost \in Nat
    BY <1>1, QuotesAreNumbers
  <2>3. \A w \in WalletIds : seen[c][w].cycle \in LedgerKeys
    BY DEF CoinTypeOK
  <2> HIDE DEF cost
  <2>4. \A w \in WalletIds :
          /\ SumFunction(debits[w]) \in Int
          /\ SumFunction(debits'[w]) = IF w \in Budgets \/ w = target
                                       THEN SumFunction(debits[w]) + cost
                                       ELSE SumFunction(debits[w])
    <3> SUFFICES ASSUME NEW w \in WalletIds
                 PROVE  /\ SumFunction(debits[w]) \in Int
                        /\ SumFunction(debits'[w]) = IF w \in Budgets \/ w = target
                                                     THEN SumFunction(debits[w]) + cost
                                                     ELSE SumFunction(debits[w])
      OBVIOUS
    <3>1. debits'[w] = IF w \in Budgets \/ w = target
                       THEN [debits[w] EXCEPT ![seen[c][w].cycle] = @ + cost]
                       ELSE debits[w]
      BY <2>1 DEF Charged
    <3>2. debits[w] \in [LedgerKeys -> Nat]
      BY <1>1
    <3>3. /\ SumFunction([debits[w] EXCEPT ![seen[c][w].cycle] = @ + cost])
               = SumFunction(debits[w]) + cost
          /\ SumFunction(debits[w]) \in Int
      BY <2>2, <2>3, <3>2, EntryAdds
    <3> QED
      BY <3>1, <3>3
  <2>5. \A w \in UserWallets : SumFunction(debits'[w]) =
          IF w = target THEN SumFunction(debits[w]) + cost ELSE SumFunction(debits[w])
    BY <1>3, <2>4
  <2>6. SpentByUsers' <= SpentByUsers + cost /\ SpentByUsers \in Int /\ SpentByUsers' \in Int
    <3>1. CASE target \in UserWallets
      <4>1. SpentByUsers' = SpentByUsers + cost /\ SpentByUsers \in Int
        BY <2>2, <2>5, <3>1, SpendingAdds
      <4> QED
        BY <2>2, <4>1
    <3>2. CASE target \notin UserWallets
      <4>1. \A w \in UserWallets : SumFunction(debits'[w]) = SumFunction(debits[w])
        BY <2>5, <3>2
      <4>2. SpentByUsers' = SpentByUsers
        BY <4>1, SpendingStays
      <4>3. SpentByUsers \in Int
        BY SpentIsNumber
      <4> QED
        BY <2>2, <4>2, <4>3
    <3> QED
      BY <3>1, <3>2
  <2>7. credits' = credits
    BY <1>6 DEF ChargeUsage
  <2>8. \A b \in Budgets : SumFunction(debits'[b]) + Exchanged * j >= SpentByUsers'
    <3> SUFFICES ASSUME NEW b \in Budgets
                 PROVE  SumFunction(debits'[b]) + Exchanged * j >= SpentByUsers'
      OBVIOUS
    <3>1. SumFunction(debits[b]) \in Int /\ SumFunction(debits'[b]) = SumFunction(debits[b]) + cost
      BY <1>3, <2>4
    <3>2. SumFunction(debits[b]) + Exchanged * j >= SpentByUsers
      BY <1>2
    <3> QED
      BY <1>4, <2>2, <2>6, <3>1, <3>2
  <2> QED
    BY <1>2, <2>7, <2>8 DEF ExchangesAreCounted, Budgets
<1>7. ASSUME NEW c \in Clients, Exchange(c) PROVE ExchangesAreCounted'
  <2> DEFINE k == KeyOf("daily", day)
             l == KeyOf("monthly", day)
  <2>1. k \in LedgerKeys /\ l \in LedgerKeys
    BY <1>1, <1>3, CycleKeys
  <2>2. /\ debits' = [debits EXCEPT ![Copper][k] = @ + Exchanged]
        /\ credits' = [credits EXCEPT ![Silver][l] = @ + Given]
    BY <1>7 DEF Exchange, Given
  <2> HIDE DEF k, l
  <2>3. \A w \in WalletIds : debits'[w] = IF w = Copper THEN [debits[w] EXCEPT ![k] = @ + Exchanged]
                                          ELSE debits[w]
    BY <1>1, <1>3, <2>2
  <2>4. credits'[Silver] = [credits[Silver] EXCEPT ![l] = @ + Given]
    BY <1>1, <1>3, <2>2
  <2>5. SumFunction(credits'[Silver]) = Given * (j + 1)
    <3>1. SumFunction(credits'[Silver]) = SumFunction(credits[Silver]) + Given
      <4>1. credits[Silver] \in [LedgerKeys -> Nat]
        BY <1>1, <1>3
      <4> QED
        BY <1>4, <2>1, <2>4, <4>1, EntryAdds
    <3>2. Given * (j + 1) = Given * j + Given
      BY <1>4
    <3> QED
      BY <1>2, <3>1, <3>2
  <2>6. \A w \in WalletIds : SumFunction(debits'[w]) =
          IF w = Copper THEN SumFunction(debits[w]) + Exchanged ELSE SumFunction(debits[w])
    <3> SUFFICES ASSUME NEW w \in WalletIds
                 PROVE  SumFunction(debits'[w]) =
                          IF w = Copper THEN SumFunction(debits[w]) + Exchanged
                          ELSE SumFunction(debits[w])
      OBVIOUS
    <3>1. debits[w] \in [LedgerKeys -> Nat]
      BY <1>1
    <3>2. SumFunction([debits[w] EXCEPT ![k] = @ + Exchanged]) = SumFunction(debits[w]) + Exchanged
      BY <1>4, <2>1, <3>1, EntryAdds
    <3> QED
      BY <2>3, <3>2
  <2>7. SpentByUsers' = SpentByUsers + Exchanged /\ SpentByUsers \in Int
    <3>1. \A w \in UserWallets : SumFunction(debits'[w]) =
            IF w = Copper THEN SumFunction(debits[w]) + Exchanged ELSE SumFunction(debits[w])
      BY <1>3, <2>6
    <3> QED
      BY <1>3, <1>4, <3>1, SpendingAdds
  <2>8. \A b \in Budgets : SumFunction(debits'[b]) + Exchanged * (j + 1) >= SpentByUsers'
    <3> SUFFICES ASSUME NEW b \in Budgets
                 PROVE  SumFunction(debits'[b]) + Exchanged * (j + 1) >= SpentByUsers'
      OBVIOUS
    <3>1. SumFunction(debits'[b]) = SumFunction(debits[b]) /\ SumFunction(debits[b]) \in Int
      <4>1. b \in WalletIds /\ b # Copper
        BY <1>3
      <4>2. debits[b] \in [LedgerKeys -> Nat] /\ 0 \in Nat
        BY <1>1, <4>1
      <4> QED
        BY <2>1, <2>6, <4>1, <4>2, EntryAdds
    <3>2. Exchanged * (j + 1) = Exchanged * j + Exchanged
      BY <1>4
    <3>3. SumFunction(debits[b]) + Exchanged * j >= SpentByUsers
      BY <1>2
    <3> QED
      BY <1>4, <2>7, <3>1, <3>2, <3>3
  <2>9. j + 1 \in Nat
    OBVIOUS
  <2> QED
    BY <2>5, <2>8, <2>9 DEF ExchangesAreCounted, Budgets
<1> QED
  BY <1>5, <1>6, <1>7
     DEF CoinNext, coinVars, Ensure, LoadWallets, ReadForExchange, Abandon, SetLimit, Midnight

-----------------------------------------------------------------------------
(* Theorem                                                                  *)

\* Dividing undoes multiplying.
LEMMA Undone ==
  ASSUME NEW x \in Nat, NEW b \in Nat \ {0}
  PROVE  (x * b) \div b = x
<1> DEFINE q == (x * b) \div b
           p == x * b
<1>1. p \in Nat /\ q \in Nat
  OBVIOUS
<1>2. b * q <= p /\ p < b * (q + 1)
  OBVIOUS
<1>3. p = b * x
  OBVIOUS
<1> HIDE DEF p, q
<1>4. ~(q < x)
  <2> SUFFICES ASSUME q < x PROVE FALSE
    OBVIOUS
  <2>1. PICK i \in Nat : x = (q + 1) + i
    <3>1. x - (q + 1) \in Nat /\ x = (q + 1) + (x - (q + 1))
      BY <1>1
    <3> QED
      BY <3>1
  <2>2. b * x = b * (q + 1) + b * i /\ b * i \in Nat /\ b * (q + 1) \in Nat
    BY <1>1, <2>1
  <2> QED
    BY <1>2, <1>3, <2>2
<1>5. ~(q > x)
  <2> SUFFICES ASSUME q > x PROVE FALSE
    OBVIOUS
  <2>1. PICK i \in Nat : q = x + 1 + i
    <3>1. q - (x + 1) \in Nat /\ q = x + 1 + (q - (x + 1))
      BY <1>1
    <3> QED
      BY <3>1
  <2>2. b * q = b * x + b + b * i /\ b * i \in Nat /\ b * x \in Nat
    BY <1>1, <2>1
  <2> QED
    BY <1>2, <1>3, <2>2
<1> QED
  BY <1>1, <1>4, <1>5 DEF q

\* A user's wallet is overdrawn only by requests that were in flight together
\* (a monthly one that copper is exchanged from is not counted, its exchanges are
\* filed where nobody looks), and every budget shows what users spent, whatever clients read before others
\* charge, whatever limits are set in between and however often it is midnight
\* (ensure_can_afford, charge_usage, convert_coins).
THEOREM SpendingIsAlwaysControlled == CoinSpec => []SpendingIsControlled
<1>1. CoinInv => SpendingIsControlled
  <2> SUFFICES ASSUME CoinInv PROVE OverdraftNeedsCompany /\ BudgetsSeeEverySpend
    BY DEF SpendingIsControlled
  <2>1. CoinAssumption
    BY CoinAssumption
  <2>2. CoinTypeOK /\ InFlight /\ RoomIsLeft /\ ExchangesAreCounted
    BY DEF CoinInv
  <2>3. OverdraftNeedsCompany
    <3> SUFFICES ASSUME NEW w \in Counted, NEW k \in LedgerKeys
                 PROVE  debits[w][k] <= Max(Limits[w]) + credits[w][k] + (Company - 1) * Each
      BY DEF OverdraftNeedsCompany, Company, Each
    <3>1. w \in WalletIds
      BY DEF Counted, UserWallets
    <3>2. /\ May(w, k) \in SUBSET Clients /\ Allowance(w, k) \in Nat /\ debits[w][k] \in Nat
          /\ Costs \in [Clients -> Nat]
      BY <2>1, <2>2, <3>1, MayIsOfClients, CostsAreNumbers
    <3>3. Fits(debits[w][k], Allowance(w, k), May(w, k), Costs)
      BY <2>2 DEF RoomIsLeft
    <3>4. debits[w][k] <= Allowance(w, k) + (Company - 1) * Each
      BY <2>1, <3>2, <3>3, FitsBounds
    <3> QED
      BY <3>4 DEF Allowance
  <2>4. BudgetsSeeEverySpend
    <3>1. PICK j \in Nat :
            /\ SumFunction(credits[Silver]) = Given * j
            /\ \A b \in Budgets : SumFunction(debits[b]) + Exchanged * j >= SpentByUsers
      BY <2>2 DEF ExchangesAreCounted
    <3>2. PICK n \in Nat : Exchanged = 1000 * n
      <4>1. Exchanged \in Nat /\ Exchanged % 1000 = 0
        BY <2>1 DEF CoinAssumption, MicrochipsPerCopper
      <4>2. Exchanged \div 1000 \in Nat /\ Exchanged = 1000 * (Exchanged \div 1000)
        BY <4>1
      <4> QED
        BY <4>2
    <3>3. BankingRate \in Nat \ {0} /\ Exchanged \in Nat
      BY <2>1 DEF CoinAssumption
    <3>4. Given = 10 * (n * BankingRate)
      <4>1. n * BankingRate \in Nat
        BY <3>3
      <4>2. Exchanged * BankingRate = 1000 * (n * BankingRate)
        BY <3>2, <3>3
      <4>3. (1000 * (n * BankingRate)) \div 100 = 10 * (n * BankingRate)
        BY <4>1
      <4> QED
        BY <4>2, <4>3 DEF Given
    <3>5. (Given * j) * 100 = (Exchanged * j) * BankingRate
      <4>1. (10 * (n * BankingRate) * j) * 100 = 1000 * n * j * BankingRate
        BY <3>3
      <4>2. (Exchanged * j) * BankingRate = 1000 * n * j * BankingRate
        BY <3>2, <3>3
      <4> QED
        BY <3>4, <4>1, <4>2
    <3>6. Exchanged * j \in Nat
      BY <3>3
    <3>7. ((Exchanged * j) * BankingRate) \div BankingRate = Exchanged * j
      BY <3>3, <3>6, Undone
    <3>8. ExchangedCopper = Exchanged * j
      BY <3>1, <3>5, <3>7 DEF ExchangedCopper
    <3> QED
      BY <3>1, <3>8 DEF BudgetsSeeEverySpend
  <2> QED
    BY <2>3, <2>4
<1>2. CoinInit => CoinInv
  BY CoinInitially, CoinAssumption
<1>3. CoinInv /\ [CoinNext]_coinVars => CoinInv'
  BY CoinTypesStay, RoomStays, CountStays, CoinAssumption DEF CoinInv
<1> QED
  BY <1>1, <1>2, <1>3, PTL DEF CoinSpec

-----------------------------------------------------------------------------
(* The stores of history                                                    *)

Stamped == [seq : Nat, turn : Nat, role : {"user", "assistant"}, ts : Nat]
SessionTypeOK ==
    /\ backend \in Backends /\ clock \in Nat
    /\ entries \subseteq Stamped /\ nextSeq \in Nat /\ expiry \in Nat
    /\ append \in [Writers -> [at : {"idle", "user", "assistant"}, turn : Nat, seq : Nat]]
    /\ turns \in Nat /\ returned \subseteq Nat /\ log \in Seq(Stamped)

\* In memory and in Redis messages are numbered as they are stored, turns are whole, and
\* what is gone from the list is too old or has enough messages after it.
Numbered(l) ==
    /\ \A i \in 1 .. Len(l) : l[i].seq = i - 1 /\ l[i].ts <= clock
    /\ \A i, j \in 1 .. Len(l) : i <= j => l[i].ts <= l[j].ts
TurnsAreWhole(l) ==
    \A i \in 1 .. Len(l) : l[i].role = "user" =>
        /\ i + 1 \in 1 .. Len(l) /\ l[i + 1].turn = l[i].turn
        /\ l[i + 1].role = "assistant" /\ l[i + 1].ts = l[i].ts
ListOf(set, l) ==
    /\ \A e \in set : \E i \in 1 .. Len(l) : e = l[i]
    /\ \A i \in 1 .. Len(l) :
        l[i] \in set \/ l[i].ts + Ttl < clock \/ i + MaxMessages <= Len(l)
ListInv ==
    /\ nextSeq = Len(log) /\ Numbered(log) /\ TurnsAreWhole(log) /\ ListOf(entries, log)
    /\ backend = "redis" => \A i \in 1 .. Len(log) : log[i].ts + Ttl < expiry
    /\ \A w \in Writers : append[w].at = "idle"

\* In PostgreSQL a number is taken once, and a turn that returned has its answer next to its
\* question, as long as that is there.
HasAnswer(e, set) ==
    \E f \in set : f.turn = e.turn /\ f.role = "assistant" /\ f.seq = e.seq + 1 /\ e.ts <= f.ts
RowsOK ==
    /\ IsFiniteSet(entries)
    /\ \A e, f \in entries : e.seq = f.seq => e = f
    /\ \A e \in entries : e.turn <= turns /\ e.ts <= clock
    /\ \A e \in entries : e.role = "user" /\ e.turn \in returned => HasAnswer(e, entries)
AppendsOK ==
    /\ \A t \in returned : t <= turns
    /\ \A w \in Writers : append[w].at # "idle" =>
        /\ append[w].turn <= turns /\ append[w].turn \notin returned
        /\ \A v \in Writers : append[v].at # "idle" /\ append[v].turn = append[w].turn => v = w
        /\ \A e \in entries : e.turn = append[w].turn =>
              append[w].at = "assistant" /\ e.seq + 1 = append[w].seq

SessionInv ==
    /\ SessionTypeOK
    /\ backend # "postgres" => ListInv
    /\ backend = "postgres" => RowsOK /\ AppendsOK

-----------------------------------------------------------------------------
(* Counting messages by their places                                        *)

LEMMA PlacesCounted ==
  ASSUME NEW l \in Seq(Stamped), Numbered(l), NEW a \in Nat, NEW b \in Nat, a >= 1, b <= Len(l),
         a <= b + 1
  PROVE  /\ IsFiniteSet({l[j] : j \in a .. b})
         /\ Cardinality({l[j] : j \in a .. b}) = b - a + 1
<1> DEFINE T == {l[j] : j \in a .. b}
           f == [j \in a .. b |-> l[j]]
<1>1. Len(l) \in Nat
  BY LenProperties
<1>2. IsFiniteSet(a .. b) /\ Cardinality(a .. b) = b - a + 1
  <2>1. IsFiniteSet(a .. b) /\ Cardinality(a .. b) = IF a > b THEN 0 ELSE b - a + 1
    BY FS_Interval
  <2>2. a > b => b - a + 1 = 0
    OBVIOUS
  <2> QED
    BY <2>1, <2>2
<1>3. f \in Surjection(a .. b, T)
  BY DEF Surjection
<1>4. f \in Injection(a .. b, T)
  <2>1. ASSUME NEW i \in a .. b, NEW j \in a .. b, l[i] = l[j] PROVE i = j
    <3>1. i \in 1 .. Len(l) /\ j \in 1 .. Len(l)
      BY <1>1
    <3>2. l[i].seq = i - 1 /\ l[j].seq = j - 1
      BY <3>1 DEF Numbered
    <3> QED
      BY <2>1, <3>1, <3>2
  <2>2. f \in [a .. b -> T] /\ \A i, j \in a .. b : f[i] = f[j] => i = j
    BY <2>1
  <2> HIDE DEF f, T
  <2> QED
    BY <2>2 DEF Injection, IsInjective
<1> HIDE DEF f, T
<1>5. IsFiniteSet(T) /\ Cardinality(T) = Cardinality(a .. b)
  BY <1>2, <1>3, <1>4, FS_Surjection
<1> QED
  BY <1>2, <1>5 DEF T

LEMMA EarlierIsBefore ==
  ASSUME NEW l \in Seq(Stamped), Numbered(l), NEW i \in 1 .. Len(l), NEW j \in 1 .. Len(l)
  PROVE  Earlier(l[i], l[j]) <=> i < j
<1>1. l[i].seq = i - 1 /\ l[j].seq = j - 1 /\ l[i] \in Stamped /\ l[j] \in Stamped
  BY ElementOfSeq DEF Numbered
<1>2. l[i].turn \in Nat /\ l[j].turn \in Nat
  BY <1>1 DEF Stamped
<1>3. CASE i = j
  BY <1>1, <1>2, <1>3 DEF Earlier
<1>4. CASE i # j
  BY <1>1, <1>4 DEF Earlier
<1> QED
  BY <1>3, <1>4

\* Of a set of the messages of a list, those after a place are no more than there are places.
LEMMA LaterIsFew ==
  ASSUME NEW l \in Seq(Stamped), Numbered(l), NEW i \in 1 .. Len(l), NEW set,
         \A e \in set : \E k \in 1 .. Len(l) : e = l[k]
  PROVE  LET later == {f \in set : Earlier(l[i], f)} IN
         /\ IsFiniteSet(later) /\ Cardinality(later) \in Nat
         /\ Cardinality(later) <= Len(l) - i
<1> DEFINE later == {f \in set : Earlier(l[i], f)}
           all == {l[j] : j \in i + 1 .. Len(l)}
<1>1. Len(l) \in Nat
  BY LenProperties
<1>2. IsFiniteSet(all) /\ Cardinality(all) = Len(l) - i
  <2>1. i + 1 \in Nat /\ i + 1 >= 1 /\ Len(l) <= Len(l) /\ i + 1 <= Len(l) + 1
        /\ Len(l) - (i + 1) + 1 = Len(l) - i
    BY <1>1
  <2>2. IsFiniteSet(all) /\ Cardinality(all) = Len(l) - (i + 1) + 1
    BY <1>1, <2>1, PlacesCounted
  <2> QED
    BY <2>1, <2>2
<1>3. later \subseteq all
  <2> SUFFICES ASSUME NEW f \in set, Earlier(l[i], f) PROVE f \in all
    OBVIOUS
  <2>1. PICK k \in 1 .. Len(l) : f = l[k]
    OBVIOUS
  <2>2. i < k
    BY <2>1, EarlierIsBefore
  <2>3. k \in i + 1 .. Len(l)
    BY <1>1, <2>2
  <2> QED
    BY <2>1, <2>3
<1> HIDE DEF later, all
<1>4. IsFiniteSet(later) /\ Cardinality(later) <= Cardinality(all) /\ Cardinality(later) \in Nat
  BY <1>2, <1>3, FS_Subset, FS_CardinalityType
<1> QED
  BY <1>2, <1>4 DEF later

\* If all from a later place on are in it, there are at least as many.
LEMMA LaterIsMany ==
  ASSUME NEW l \in Seq(Stamped), Numbered(l), NEW i \in 1 .. Len(l), NEW set,
         \A e \in set : \E k \in 1 .. Len(l) : e = l[k],
         NEW m \in Nat, i <= m, m <= Len(l), \A j \in m + 1 .. Len(l) : l[j] \in set
  PROVE  Cardinality({f \in set : Earlier(l[i], f)}) >= Len(l) - m
<1> DEFINE later == {f \in set : Earlier(l[i], f)}
           tail == {l[j] : j \in m + 1 .. Len(l)}
<1>1. Len(l) \in Nat
  BY LenProperties
<1>2. IsFiniteSet(tail) /\ Cardinality(tail) = Len(l) - m
  <2>1. m + 1 \in Nat /\ m + 1 >= 1 /\ Len(l) <= Len(l) /\ m + 1 <= Len(l) + 1
        /\ Len(l) - (m + 1) + 1 = Len(l) - m
    BY <1>1
  <2>2. IsFiniteSet(tail) /\ Cardinality(tail) = Len(l) - (m + 1) + 1
    BY <1>1, <2>1, PlacesCounted
  <2> QED
    BY <2>1, <2>2
<1>3. tail \subseteq later
  <2> SUFFICES ASSUME NEW j \in m + 1 .. Len(l) PROVE l[j] \in later
    OBVIOUS
  <2>1. j \in 1 .. Len(l) /\ i < j
    BY <1>1
  <2>2. Earlier(l[i], l[j])
    BY <2>1, EarlierIsBefore
  <2> QED
    BY <2>2
<1>4. IsFiniteSet(later)
  BY LaterIsFew
<1> HIDE DEF later, tail
<1>5. Cardinality(tail) <= Cardinality(later)
  BY <1>3, <1>4, FS_Subset
<1> QED
  BY <1>2, <1>5 DEF later

\* What a list shows: the live ones that have fewer than MaxMessages after them.
LEMMA ShownFromList ==
  ASSUME SessionAssumption, SessionTypeOK, backend # "postgres",
         NEW l \in Seq(Stamped), Numbered(l), NEW set, ListOf(set, l)
  PROVE  /\ Latest({e \in set : Live(e)})
            = {l[i] : i \in {k \in 1 .. Len(l) : Live(l[k]) /\ Len(l) - k < MaxMessages}}
         /\ \A i \in 1 .. Len(l) : Live(l[i]) /\ Len(l) - i < MaxMessages => l[i] \in set
<1> DEFINE young == {e \in set : Live(e)}
           places == {k \in 1 .. Len(l) : Live(l[k]) /\ Len(l) - k < MaxMessages}
<1>1. Len(l) \in Nat /\ MaxMessages \in Nat \ {0} /\ Ttl \in Nat /\ clock \in Nat
  BY LenProperties DEF SessionAssumption, SessionTypeOK
<1>2. \A i \in 1 .. Len(l) : l[i] \in Stamped /\ l[i].ts \in Nat
  <2> SUFFICES ASSUME NEW i \in 1 .. Len(l) PROVE l[i] \in Stamped /\ l[i].ts \in Nat
    OBVIOUS
  <2>1. l[i] \in Stamped
    BY ElementOfSeq
  <2> QED
    BY <2>1 DEF Stamped
<1>3. \A i \in 1 .. Len(l) : Live(l[i]) <=> ~ (l[i].ts + Ttl < clock)
  BY <1>1, <1>2 DEF Live
<1>4. \A e \in young : \E k \in 1 .. Len(l) : e = l[k]
  BY DEF ListOf
<1>5. ASSUME NEW i \in 1 .. Len(l), Live(l[i]), NEW j \in 1 .. Len(l), i <= j,
             j + MaxMessages > Len(l)
      PROVE  l[j] \in young
  <2>1. l[i].ts <= l[j].ts
    BY <1>5 DEF Numbered
  <2>2. Live(l[j])
    BY <1>1, <1>2, <1>3, <1>5, <2>1
  <2>3. l[j] \in set
    BY <1>1, <1>3, <1>5, <2>2 DEF ListOf
  <2> QED
    BY <2>2, <2>3
<1>6. ASSUME NEW i \in places PROVE l[i] \in Latest(young) /\ l[i] \in set
  <2>1. i \in 1 .. Len(l) /\ Live(l[i]) /\ Len(l) - i < MaxMessages
    OBVIOUS
  <2>2. l[i] \in young
    BY <1>1, <1>5, <2>1
  <2> HIDE DEF young, places
  <2>3. PICK later : later = {f \in young : Earlier(l[i], f)}
    OBVIOUS
  <2>4. Cardinality(later) \in Nat /\ Cardinality(later) <= Len(l) - i
    BY <1>4, <2>1, <2>3, LaterIsFew
  <2>5. Cardinality(later) < MaxMessages
    BY <1>1, <2>1, <2>4
  <2> QED
    BY <2>2, <2>3, <2>5 DEF Latest, young
<1>7. ASSUME NEW e \in Latest(young) PROVE \E i \in places : e = l[i]
  <2>1. e \in young
    BY DEF Latest
  <2>2. PICK i \in 1 .. Len(l) : e = l[i]
    BY <1>4, <2>1
  <2>3. Live(l[i])
    BY <2>1, <2>2
  <2>4. Cardinality({f \in young : Earlier(l[i], f)}) < MaxMessages
    BY <2>2 DEF Latest
  <2>5. Len(l) - i < MaxMessages
    <3> SUFFICES ASSUME ~ (Len(l) - i < MaxMessages) PROVE FALSE
      OBVIOUS
    <3>1. PICK m : m = Len(l) - MaxMessages
      OBVIOUS
    <3>2. m \in Nat /\ i <= m /\ m <= Len(l) /\ Len(l) - m = MaxMessages
      BY <1>1, <3>1
    <3>3. \A j \in m + 1 .. Len(l) : l[j] \in young
      <4> SUFFICES ASSUME NEW j \in m + 1 .. Len(l) PROVE l[j] \in young
        OBVIOUS
      <4>1. j \in 1 .. Len(l) /\ i <= j /\ j + MaxMessages > Len(l)
        BY <1>1, <3>1, <3>2
      <4> QED
        BY <1>5, <2>3, <4>1
    <3> HIDE DEF young
    <3>4. PICK later : later = {f \in young : Earlier(l[i], f)}
      OBVIOUS
    <3>5. Cardinality(later) >= Len(l) - m
      BY <1>4, <3>2, <3>3, <3>4, LaterIsMany
    <3>6. Cardinality(later) \in Nat /\ Cardinality(later) < MaxMessages
      BY <1>4, <2>4, <3>4, LaterIsFew
    <3> QED
      BY <1>1, <3>2, <3>5, <3>6
  <2> QED
    BY <2>2, <2>3, <2>5
<1> QED
  BY <1>6, <1>7

\* And of the places of the live ones, fewer than MaxMessages are after such a place.
LEMMA LivePlaces ==
  ASSUME SessionAssumption, SessionTypeOK, backend # "postgres",
         NEW l \in Seq(Stamped), Numbered(l)
  PROVE  LET live == {k \in 1 .. Len(l) : Live(l[k])} IN
         \A i \in live : Cardinality({j \in live : j > i}) = Len(l) - i
<1> DEFINE live == {k \in 1 .. Len(l) : Live(l[k])}
<1> SUFFICES ASSUME NEW i \in live PROVE Cardinality({j \in live : j > i}) = Len(l) - i
  OBVIOUS
<1>1. Len(l) \in Nat /\ Ttl \in Nat /\ clock \in Nat
  BY LenProperties DEF SessionAssumption, SessionTypeOK
<1>2. \A j \in 1 .. Len(l) : l[j].ts \in Nat
  <2> SUFFICES ASSUME NEW j \in 1 .. Len(l) PROVE l[j].ts \in Nat
    OBVIOUS
  <2>1. l[j] \in Stamped
    BY ElementOfSeq
  <2> QED
    BY <2>1 DEF Stamped
<1>3. {j \in live : j > i} = i + 1 .. Len(l)
  <2>1. ASSUME NEW j \in live, j > i PROVE j \in i + 1 .. Len(l)
    BY <1>1, <2>1
  <2>2. ASSUME NEW j \in i + 1 .. Len(l) PROVE j \in live /\ j > i
    <3>1. j \in 1 .. Len(l) /\ j > i /\ i <= j
      BY <1>1
    <3>2. l[i].ts <= l[j].ts
      BY <3>1 DEF Numbered
    <3>3. Live(l[j])
      BY <1>1, <1>2, <3>1, <3>2 DEF Live
    <3> QED
      BY <3>1, <3>3
  <2> QED
    BY <2>1, <2>2
<1>4. Cardinality(i + 1 .. Len(l)) = Len(l) - i
  <2>1. i \in Nat /\ i <= Len(l) /\ i + 1 \in Int /\ Len(l) \in Int
    BY <1>1
  <2> HIDE DEF live
  <2>2. Cardinality(i + 1 .. Len(l)) = IF i + 1 > Len(l) THEN 0 ELSE Len(l) - (i + 1) + 1
    BY <1>1, <2>1, FS_Interval
  <2> QED
    BY <1>1, <2>1, <2>2
<1> QED
  BY <1>3, <1>4

-----------------------------------------------------------------------------
(* What the invariant says of a reader                                      *)

LEMMA ListHistory ==
  ASSUME SessionAssumption, SessionInv, backend # "postgres"
  PROVE  /\ History = {log[i] : i \in {k \in 1 .. Len(log) :
                          Live(log[k]) /\ Len(log) - k < MaxMessages}}
         /\ Numbered(log) /\ log \in Seq(Stamped) /\ TurnsAreWhole(log)
<1>1. SessionTypeOK /\ ListInv /\ log \in Seq(Stamped)
  BY DEF SessionInv, SessionTypeOK
<1>2. Numbered(log) /\ ListOf(entries, log) /\ TurnsAreWhole(log)
  BY <1>1 DEF ListInv
<1>3. CASE ~ KeyExpired
  <2>1. Stored = entries
    BY <1>3 DEF Stored
  <2> QED
    BY <1>1, <1>2, <2>1, ShownFromList DEF History
<1>4. CASE KeyExpired
  <2>1. backend = "redis" /\ clock >= expiry /\ Stored = {}
    BY <1>4 DEF KeyExpired, Stored
  <2>2. ASSUME NEW k \in 1 .. Len(log) PROVE ~ Live(log[k])
    <3>1. log[k] \in Stamped
      BY <1>1, ElementOfSeq
    <3>2. log[k].ts \in Nat
      BY <3>1 DEF Stamped
    <3>3. log[k].ts + Ttl < expiry
      BY <1>1, <2>1 DEF ListInv
    <3> QED
      BY <1>1, <2>1, <3>2, <3>3 DEF Live, SessionTypeOK, SessionAssumption
  <2>3. History = {}
    BY <2>1 DEF History, Latest
  <2> QED
    BY <1>1, <1>2, <2>2, <2>3
<1> QED
  BY <1>3, <1>4

LEMMA LatestFollows == ASSUME SessionAssumption, SessionInv PROVE HistoryIsTheLatest
<1> DEFINE live == {i \in DOMAIN log : Live(log[i])}
<1> SUFFICES ASSUME backend # "postgres"
             PROVE  /\ History = {log[i] : i \in {k \in live :
                                    Cardinality({j \in live : j > k}) < MaxMessages}}
                    /\ \A i, j \in DOMAIN log : i < j <=> Earlier(log[i], log[j])
  BY DEF HistoryIsTheLatest
<1>1. /\ History = {log[i] : i \in {k \in 1 .. Len(log) :
                          Live(log[k]) /\ Len(log) - k < MaxMessages}}
      /\ Numbered(log) /\ log \in Seq(Stamped) /\ SessionTypeOK
  BY ListHistory DEF SessionInv
<1>2. DOMAIN log = 1 .. Len(log)
  BY <1>1, LenProperties
<1>3. \A i, j \in DOMAIN log : i < j <=> Earlier(log[i], log[j])
  BY <1>1, <1>2, EarlierIsBefore
<1>4. live = {k \in 1 .. Len(log) : Live(log[k])}
  BY <1>2
<1>5. \A i \in live : Cardinality({j \in live : j > i}) = Len(log) - i
  <2> HIDE DEF live
  <2> QED
    BY <1>1, <1>4, LivePlaces
<1>6. {k \in live : Cardinality({j \in live : j > k}) < MaxMessages}
      = {k \in 1 .. Len(log) : Live(log[k]) /\ Len(log) - k < MaxMessages}
  <2>1. {k \in live : Cardinality({j \in live : j > k}) < MaxMessages}
        = {k \in live : Len(log) - k < MaxMessages}
    <3> HIDE DEF live
    <3> QED
      BY <1>5
  <2> QED
    BY <1>4, <2>1
<1> HIDE DEF live
<1> QED
  BY <1>1, <1>3, <1>6

LEMMA ContiguityFollows ==
  ASSUME SessionAssumption, SessionInv
  PROVE  ReturnedTurnsAreContiguous
<1> SUFFICES ASSUME NEW e \in History, NEW f \in History, e.turn \in returned, e.role = "user",
                    Earlier(e, f), \A g \in History : ~(Earlier(e, g) /\ Earlier(g, f))
             PROVE  f.turn = e.turn /\ f.role = "assistant"
  BY DEF ReturnedTurnsAreContiguous
<1>1. /\ SessionTypeOK /\ clock \in Nat /\ Ttl \in Nat /\ MaxMessages \in Nat
  BY DEF SessionInv, SessionTypeOK, SessionAssumption
<1>2. CASE backend # "postgres"
  <2> DEFINE shown == {k \in 1 .. Len(log) : Live(log[k]) /\ Len(log) - k < MaxMessages}
  <2>1. /\ History = {log[i] : i \in shown}
        /\ Numbered(log) /\ log \in Seq(Stamped) /\ TurnsAreWhole(log)
    BY <1>2, ListHistory
  <2>2. PICK i \in shown : e = log[i]
    BY <2>1
  <2>3. PICK k \in shown : f = log[k]
    BY <2>1
  <2>4. Len(log) \in Nat
    BY <2>1, LenProperties
  <2>5. i < k
    BY <2>1, <2>2, <2>3, EarlierIsBefore
  <2>6. /\ i + 1 \in 1 .. Len(log) /\ log[i + 1].turn = e.turn
        /\ log[i + 1].role = "assistant" /\ log[i + 1].ts = e.ts
    BY <2>1, <2>2 DEF TurnsAreWhole
  <2>7. Live(log[i + 1])
    BY <2>2, <2>6 DEF Live
  <2>8. log[i + 1] \in History
    <3>1. i + 1 \in shown
      BY <1>1, <2>4, <2>6, <2>7
    <3> QED
      BY <2>1, <3>1
  <2>9. ~ (i + 1 < k)
    BY <2>1, <2>2, <2>3, <2>6, <2>8, EarlierIsBefore
  <2>10. k = i + 1
    BY <2>4, <2>5, <2>9
  <2> QED
    BY <2>3, <2>6, <2>10
<1>3. CASE backend = "postgres"
  <2> DEFINE young == {x \in entries : Live(x)}
  <2>1. Stored = entries
    BY <1>3 DEF Stored, KeyExpired
  <2>2. History = Latest(young)
    BY <2>1 DEF History
  <2>3. RowsOK
    BY <1>3 DEF SessionInv
  <2>4. e \in young /\ f \in young
    BY <2>2 DEF Latest
  <2>5. e \in entries /\ f \in entries /\ Live(e)
    BY <2>4
  <2>6. PICK g \in entries : g.turn = e.turn /\ g.role = "assistant" /\ g.seq = e.seq + 1
                            /\ e.ts <= g.ts
    BY <2>3, <2>5 DEF RowsOK, HasAnswer
  <2>7. /\ e.seq \in Nat /\ f.seq \in Nat /\ g.seq \in Nat /\ e.ts \in Nat /\ g.ts \in Nat
        /\ e.turn \in Nat /\ f.turn \in Nat /\ g.turn \in Nat
    BY <1>1, <2>5 DEF SessionTypeOK, Stamped
  <2>8. g \in young
    BY <1>1, <1>3, <2>5, <2>6, <2>7 DEF Live
  <2>9. g \in History
    <3> HIDE DEF young
    <3>1. PICK after : after = {x \in young : Earlier(g, x)}
      OBVIOUS
    <3>2. PICK more : more = {x \in young : Earlier(e, x)}
      OBVIOUS
    <3>3. IsFiniteSet(more)
      <4>1. IsFiniteSet(entries) /\ more \subseteq entries
        BY <2>3, <3>2 DEF RowsOK, young
      <4> QED
        BY <4>1, FS_Subset
    <3>4. after \subseteq more
      <4> SUFFICES ASSUME NEW x \in young, Earlier(g, x) PROVE Earlier(e, x)
        BY <3>1, <3>2
      <4>1. x.seq \in Nat
        BY <1>1 DEF SessionTypeOK, Stamped, young
      <4> QED
        BY <2>6, <2>7, <4>1 DEF Earlier
    <3>5. Cardinality(after) <= Cardinality(more) /\ Cardinality(after) \in Nat
          /\ Cardinality(more) \in Nat
      BY <3>3, <3>4, FS_Subset, FS_CardinalityType
    <3>6. Cardinality(more) < MaxMessages
      BY <2>2, <3>2 DEF Latest
    <3>7. Cardinality(after) < MaxMessages
      BY <1>1, <3>5, <3>6
    <3> QED
      BY <2>2, <2>8, <3>1, <3>7 DEF Latest
  <2>10. Earlier(e, g)
    BY <2>6, <2>7 DEF Earlier
  <2>11. ~ Earlier(g, f)
    BY <2>9, <2>10
  <2>12. e.seq # f.seq
    <3>1. e.seq = f.seq => e = f
      BY <2>3, <2>5 DEF RowsOK
    <3>2. ~ Earlier(e, e)
      BY <2>7 DEF Earlier
    <3> QED
      BY <3>1, <3>2
  <2>13. f.seq = g.seq
    BY <2>6, <2>7, <2>11, <2>12 DEF Earlier
  <2>14. f = g
    BY <2>3, <2>5, <2>13 DEF RowsOK
  <2> QED
    BY <2>6, <2>14
<1> QED
  BY <1>2, <1>3

-----------------------------------------------------------------------------
(* The steps of the lists                                                   *)

\* A turn is stored at the end.
LEMMA TurnStored ==
  ASSUME SessionAssumption, SessionInv, backend # "postgres", NEW n \in Nat
  PROVE  LET l == log \o Turn(n) IN
         /\ l \in Seq(Stamped) /\ Len(l) = Len(log) + 2 /\ Numbered(l) /\ TurnsAreWhole(l)
         /\ \A i \in 1 .. Len(log) : l[i] = log[i]
         /\ l[Len(log) + 1] = Turn(n)[1] /\ l[Len(log) + 2] = Turn(n)[2]
         /\ Range(Turn(n)) = {Turn(n)[1], Turn(n)[2]}
         /\ Turn(n)[1].ts = clock /\ Turn(n)[2].ts = clock
<1>1. /\ log \in Seq(Stamped) /\ clock \in Nat /\ nextSeq \in Nat /\ nextSeq = Len(log)
      /\ Numbered(log) /\ TurnsAreWhole(log)
  BY DEF SessionInv, SessionTypeOK, ListInv
<1>2. PICK a : a = Message(nextSeq, n, "user")
  OBVIOUS
<1>3. PICK b : b = Message(nextSeq + 1, n, "assistant")
  OBVIOUS
<1>4. /\ a \in Stamped /\ a.seq = nextSeq /\ a.turn = n /\ a.role = "user" /\ a.ts = clock
      /\ b \in Stamped /\ b.seq = nextSeq + 1 /\ b.turn = n /\ b.role = "assistant"
      /\ b.ts = clock
  BY <1>1, <1>2, <1>3 DEF Message, Stamped
<1>5. Turn(n) = <<a, b>>
  BY <1>2, <1>3 DEF Turn
<1>6. PICK l : l = log \o <<a, b>>
  OBVIOUS
<1>7. <<a, b>> \in Seq(Stamped) /\ Len(<<a, b>>) = 2
  BY <1>4
<1>8. /\ l \in Seq(Stamped) /\ Len(l) = Len(log) + 2
      /\ \A i \in 1 .. Len(log) + 2 : l[i] = IF i <= Len(log) THEN log[i] ELSE <<a, b>>[i - Len(log)]
  <2> DEFINE s == <<a, b>>
  <2>1. s \in Seq(Stamped) /\ Len(s) = 2
    BY <1>7
  <2> HIDE DEF s
  <2>2. /\ log \o s \in Seq(Stamped) /\ Len(log \o s) = Len(log) + 2
        /\ \A i \in 1 .. Len(log) + 2 : (log \o s)[i] = IF i <= Len(log) THEN log[i]
                                                         ELSE s[i - Len(log)]
    <3>1. /\ log \o s \in Seq(Stamped) /\ Len(log \o s) = Len(log) + Len(s)
          /\ \A i \in 1 .. Len(log) + Len(s) : (log \o s)[i] = IF i <= Len(log) THEN log[i]
                                                             ELSE s[i - Len(log)]
      BY <1>1, <2>1, ConcatProperties
    <3> QED
      BY <2>1, <3>1
  <2> QED
    BY <1>6, <2>2 DEF s
<1>9. Len(log) \in Nat
  BY <1>1, LenProperties
<1>10. \A i \in 1 .. Len(log) : l[i] = log[i]
  BY <1>8, <1>9
<1>11. l[Len(log) + 1] = a /\ l[Len(log) + 2] = b
  BY <1>8, <1>9
<1>12. \A i \in 1 .. Len(l) : i \in 1 .. Len(log) \/ i = Len(log) + 1 \/ i = Len(log) + 2
  BY <1>8, <1>9
<1>13. Numbered(l)
  <2>1. ASSUME NEW i \in 1 .. Len(l) PROVE l[i].seq = i - 1 /\ l[i].ts <= clock
    <3>1. CASE i \in 1 .. Len(log)
      BY <1>1, <1>10, <3>1 DEF Numbered
    <3>2. CASE i = Len(log) + 1
      BY <1>1, <1>4, <1>9, <1>11, <3>2
    <3>3. CASE i = Len(log) + 2
      BY <1>1, <1>4, <1>9, <1>11, <3>3
    <3> QED
      BY <1>12, <3>1, <3>2, <3>3
  <2>2. ASSUME NEW i \in 1 .. Len(l), NEW j \in 1 .. Len(l), i <= j PROVE l[i].ts <= l[j].ts
    <3>1. CASE j \in 1 .. Len(log)
      <4>1. i \in 1 .. Len(log)
        BY <1>9, <2>2, <3>1
      <4> QED
        BY <1>1, <1>10, <2>2, <3>1, <4>1 DEF Numbered
    <3>2. CASE j \notin 1 .. Len(log)
      <4>1. l[j].ts = clock
        BY <1>4, <1>11, <1>12, <3>2
      <4> QED
        BY <2>1, <4>1
    <3> QED
      BY <3>1, <3>2
  <2> QED
    BY <2>1, <2>2 DEF Numbered
<1>14. TurnsAreWhole(l)
  <2> SUFFICES ASSUME NEW i \in 1 .. Len(l), l[i].role = "user"
               PROVE  /\ i + 1 \in 1 .. Len(l) /\ l[i + 1].turn = l[i].turn
                      /\ l[i + 1].role = "assistant" /\ l[i + 1].ts = l[i].ts
    BY DEF TurnsAreWhole
  <2>1. CASE i \in 1 .. Len(log)
    <3>1. /\ i + 1 \in 1 .. Len(log) /\ log[i + 1].turn = log[i].turn
          /\ log[i + 1].role = "assistant" /\ log[i + 1].ts = log[i].ts
      BY <1>1, <1>10, <2>1 DEF TurnsAreWhole
    <3> QED
      BY <1>8, <1>9, <1>10, <2>1, <3>1
  <2>2. CASE i = Len(log) + 1
    <3>1. i + 1 = Len(log) + 2
      BY <1>9, <2>2
    <3> QED
      BY <1>4, <1>8, <1>9, <1>11, <2>2, <3>1
  <2>3. CASE i = Len(log) + 2
    BY <1>4, <1>11, <2>3
  <2> QED
    BY <1>12, <2>1, <2>2, <2>3
<1>15. Range(<<a, b>>) = {a, b} /\ <<a, b>>[1] = a /\ <<a, b>>[2] = b
  <2>1. DOMAIN <<a, b>> = {1, 2}
    OBVIOUS
  <2> QED
    BY <2>1 DEF Range
<1> QED
  BY <1>4, <1>5, <1>6, <1>8, <1>10, <1>11, <1>13, <1>14, <1>15

LEMMA MemoryAppends ==
  ASSUME SessionAssumption, SessionInv, AppendInMemory
  PROVE  SessionInv'
<1>1. PICK n : n = turns + 1
  OBVIOUS
<1>2. PICK l : l = log \o Turn(n)
  OBVIOUS
<1>3. /\ backend = "memory" /\ turns' = n /\ log' = l /\ nextSeq' = nextSeq + 2
      /\ entries' = {e \in entries \cup Range(Turn(n)) : Live(e)}
      /\ returned' = returned \cup {n} /\ UNCHANGED <<backend, clock, expiry, append>>
  BY <1>1, <1>2 DEF AppendInMemory
<1>4. SessionTypeOK /\ ListInv /\ n \in Nat /\ Len(log) \in Nat /\ clock \in Nat /\ Ttl \in Nat
      /\ MaxMessages \in Nat
  BY <1>1, <1>3, LenProperties DEF SessionInv, SessionTypeOK, SessionAssumption
<1>5. /\ l \in Seq(Stamped) /\ Len(l) = Len(log) + 2 /\ Numbered(l) /\ TurnsAreWhole(l)
      /\ \A i \in 1 .. Len(log) : l[i] = log[i]
      /\ Range(Turn(n)) = {l[Len(log) + 1], l[Len(log) + 2]}
  BY <1>2, <1>3, <1>4, TurnStored
<1>6. \A i \in 1 .. Len(l) : i \in 1 .. Len(log) \/ i = Len(log) + 1 \/ i = Len(log) + 2
  BY <1>4, <1>5
<1>7. \A i \in 1 .. Len(l) : l[i] \in Stamped /\ l[i].ts \in Nat
  <2> SUFFICES ASSUME NEW i \in 1 .. Len(l) PROVE l[i] \in Stamped /\ l[i].ts \in Nat
    OBVIOUS
  <2>1. l[i] \in Stamped
    BY <1>5, ElementOfSeq
  <2> QED
    BY <2>1 DEF Stamped
<1>8. SessionTypeOK'
  <2>1. Range(Turn(n)) \subseteq Stamped
    BY <1>4, <1>5, <1>7
  <2> QED
    BY <1>3, <1>4, <1>5, <2>1 DEF SessionTypeOK
<1>9. ListOf(entries', l)
  <2>1. ASSUME NEW e \in entries' PROVE \E i \in 1 .. Len(l) : e = l[i]
    <3>1. CASE e \in entries
      <4>1. PICK i \in 1 .. Len(log) : e = log[i]
        BY <1>4, <3>1 DEF ListInv, ListOf
      <4> QED
        BY <1>4, <1>5, <4>1
    <3>2. CASE e \in Range(Turn(n))
      BY <1>4, <1>5, <3>2
    <3> QED
      BY <1>3, <3>1, <3>2
  <2>2. ASSUME NEW i \in 1 .. Len(l)
        PROVE  l[i] \in entries' \/ l[i].ts + Ttl < clock \/ i + MaxMessages <= Len(l)
    <3>1. l[i] \in entries' \/ l[i] \notin entries \cup Range(Turn(n)) \/ l[i].ts + Ttl < clock
      BY <1>3, <1>4, <1>7 DEF Live
    <3>2. CASE i \in 1 .. Len(log)
      <4>1. l[i] \in entries \/ l[i].ts + Ttl < clock \/ i + MaxMessages <= Len(log)
        BY <1>4, <1>5, <3>2 DEF ListInv, ListOf
      <4> QED
        BY <1>4, <1>5, <3>1, <4>1
    <3>3. CASE i \notin 1 .. Len(log)
      BY <1>5, <1>6, <3>1, <3>3
    <3> QED
      BY <3>2, <3>3
  <2> QED
    BY <2>1, <2>2 DEF ListOf
<1>10. nextSeq' = Len(l) /\ Numbered(l)' /\ TurnsAreWhole(l)' /\ ListOf(entries', l)
  BY <1>3, <1>4, <1>5, <1>9 DEF ListInv, Numbered, TurnsAreWhole
<1>11. ListInv'
  BY <1>3, <1>4, <1>10 DEF ListInv, Numbered, TurnsAreWhole, ListOf
<1> QED
  BY <1>3, <1>8, <1>11 DEF SessionInv

LEMMA RedisAppends ==
  ASSUME SessionAssumption, SessionInv, AppendInRedis
  PROVE  SessionInv'
<1>1. PICK n : n = turns + 1
  OBVIOUS
<1>2. PICK l : l = log \o Turn(n)
  OBVIOUS
<1>3. PICK all : all = Stored \cup Range(Turn(n))
  OBVIOUS
<1>4. /\ backend = "redis" /\ turns' = n /\ log' = l /\ nextSeq' = nextSeq + 2
      /\ entries' = Latest(all) /\ expiry' = clock + Ttl + 1
      /\ returned' = returned \cup {n} /\ UNCHANGED <<backend, clock, append>>
  BY <1>1, <1>2, <1>3 DEF AppendInRedis, Kept, KeyLife
<1>5. SessionTypeOK /\ ListInv /\ n \in Nat /\ Len(log) \in Nat /\ clock \in Nat /\ Ttl \in Nat
      /\ MaxMessages \in Nat
  BY <1>1, <1>4, LenProperties DEF SessionInv, SessionTypeOK, SessionAssumption
<1>6. /\ l \in Seq(Stamped) /\ Len(l) = Len(log) + 2 /\ Numbered(l) /\ TurnsAreWhole(l)
      /\ \A i \in 1 .. Len(log) : l[i] = log[i]
      /\ Range(Turn(n)) = {l[Len(log) + 1], l[Len(log) + 2]}
  BY <1>2, <1>4, <1>5, TurnStored
<1>7. \A i \in 1 .. Len(l) : i \in 1 .. Len(log) \/ i = Len(log) + 1 \/ i = Len(log) + 2
  BY <1>5, <1>6
<1>8. \A i \in 1 .. Len(l) : l[i] \in Stamped /\ l[i].ts \in Nat
  <2> SUFFICES ASSUME NEW i \in 1 .. Len(l) PROVE l[i] \in Stamped /\ l[i].ts \in Nat
    OBVIOUS
  <2>1. l[i] \in Stamped
    BY <1>6, ElementOfSeq
  <2> QED
    BY <2>1 DEF Stamped
<1>9. \A e \in all : \E i \in 1 .. Len(l) : e = l[i]
  <2> SUFFICES ASSUME NEW e \in all PROVE \E i \in 1 .. Len(l) : e = l[i]
    OBVIOUS
  <2>1. CASE e \in Stored
    <3>1. e \in entries
      BY <2>1 DEF Stored
    <3>2. PICK i \in 1 .. Len(log) : e = log[i]
      BY <1>5, <3>1 DEF ListInv, ListOf
    <3> QED
      BY <1>5, <1>6, <3>2
  <2>2. CASE e \in Range(Turn(n))
    BY <1>5, <1>6, <2>2
  <2> QED
    BY <1>3, <2>1, <2>2
<1>10. SessionTypeOK'
  <2>1. entries' \subseteq Stamped
    <3>1. entries' \subseteq all
      BY <1>4 DEF Latest
    <3> QED
      BY <1>8, <1>9, <3>1
  <2>2. expiry' \in Nat /\ nextSeq' \in Nat /\ returned' \subseteq Nat
    BY <1>4, <1>5 DEF SessionTypeOK
  <2> QED
    BY <1>4, <1>5, <1>6, <2>1, <2>2 DEF SessionTypeOK
<1>11. ASSUME NEW i \in 1 .. Len(log), l[i] \notin all
       PROVE  l[i].ts + Ttl < clock \/ i + MaxMessages <= Len(l)
  <2>1. CASE KeyExpired
    <3>1. clock >= expiry /\ log[i].ts + Ttl < expiry /\ expiry \in Nat
      BY <1>4, <1>5, <2>1 DEF KeyExpired, ListInv, SessionTypeOK
    <3>2. l[i] = log[i] /\ l[i].ts \in Nat
      BY <1>5, <1>6, <1>8
    <3> QED
      BY <1>5, <3>1, <3>2
  <2>2. CASE ~ KeyExpired
    <3>1. l[i] \notin entries
      BY <1>3, <1>11, <2>2 DEF Stored
    <3>2. l[i].ts + Ttl < clock \/ i + MaxMessages <= Len(log)
      BY <1>5, <1>6, <3>1 DEF ListInv, ListOf
    <3> QED
      BY <1>5, <1>6, <3>2
  <2> QED
    BY <2>1, <2>2
<1>12. ASSUME NEW i \in 1 .. Len(l), l[i] \in all, l[i] \notin entries'
       PROVE  i + MaxMessages <= Len(l)
  <2>1. PICK later : later = {f \in all : Earlier(l[i], f)}
    OBVIOUS
  <2>2. Cardinality(later) \in Nat /\ Cardinality(later) <= Len(l) - i
    BY <1>6, <1>9, <2>1, LaterIsFew
  <2>3. ~ (Cardinality(later) < MaxMessages)
    BY <1>4, <1>12, <2>1 DEF Latest
  <2> QED
    BY <1>5, <1>6, <2>2, <2>3
<1>13. ListOf(entries', l)
  <2>1. \A e \in entries' : \E i \in 1 .. Len(l) : e = l[i]
    BY <1>4, <1>9 DEF Latest
  <2>2. ASSUME NEW i \in 1 .. Len(l)
        PROVE  l[i] \in entries' \/ l[i].ts + Ttl < clock \/ i + MaxMessages <= Len(l)
    <3>1. CASE l[i] \in all
      BY <1>12, <3>1
    <3>2. CASE l[i] \notin all
      <4>1. i \in 1 .. Len(log)
        BY <1>3, <1>6, <1>7, <3>2
      <4> QED
        BY <1>11, <3>2, <4>1
    <3> QED
      BY <3>1, <3>2
  <2> QED
    BY <2>1, <2>2 DEF ListOf
<1>14. \A i \in 1 .. Len(l) : l[i].ts + Ttl < expiry'
  <2> SUFFICES ASSUME NEW i \in 1 .. Len(l) PROVE l[i].ts + Ttl < expiry'
    OBVIOUS
  <2>1. l[i].ts <= clock /\ l[i].ts \in Nat
    BY <1>6, <1>8 DEF Numbered
  <2> QED
    BY <1>4, <1>5, <2>1
<1>15. nextSeq' = Len(l)
  BY <1>4, <1>5, <1>6 DEF ListInv
<1>16. ListInv'
  BY <1>4, <1>5, <1>6, <1>13, <1>14, <1>15 DEF ListInv, Numbered, TurnsAreWhole, ListOf
<1> QED
  BY <1>4, <1>10, <1>16 DEF SessionInv

LEMMA RedisReads ==
  ASSUME SessionAssumption, SessionInv, ReadFromRedis
  PROVE  SessionInv'
<1>1. /\ backend = "redis" /\ expiry' = clock + Ttl + 1
      /\ UNCHANGED <<backend, clock, entries, nextSeq, append, turns, returned, log>>
  BY DEF ReadFromRedis, KeyLife
<1>2. SessionTypeOK /\ ListInv /\ clock \in Nat /\ Ttl \in Nat
  BY <1>1 DEF SessionInv, SessionTypeOK, SessionAssumption
<1>3. SessionTypeOK'
  BY <1>1, <1>2 DEF SessionTypeOK
<1>4. ASSUME NEW i \in 1 .. Len(log) PROVE log[i].ts + Ttl < expiry'
  <2>1. log[i] \in Stamped
    BY <1>2, ElementOfSeq DEF SessionTypeOK
  <2>2. log[i].ts \in Nat /\ log[i].ts <= clock
    BY <1>2, <2>1 DEF Stamped, ListInv, Numbered
  <2> QED
    BY <1>1, <1>2, <2>2
<1>5. ListInv'
  BY <1>1, <1>2, <1>4 DEF ListInv, Numbered, TurnsAreWhole, ListOf
<1> QED
  BY <1>1, <1>3, <1>5 DEF SessionInv

LEMMA DeletionKeeps ==
  ASSUME SessionAssumption, SessionInv, DeleteSession
  PROVE  SessionInv'
<1>1. /\ entries' = {} /\ nextSeq' = 0 /\ log' = <<>>
      /\ UNCHANGED <<backend, clock, expiry, append, turns, returned>>
  BY DEF DeleteSession
<1>2. SessionTypeOK'
  BY <1>1 DEF SessionInv, SessionTypeOK
<1>3. 1 .. Len(<<>>) = {} /\ Len(<<>>) = 0
  OBVIOUS
<1>4. CASE backend # "postgres"
  <2>1. ListInv
    BY <1>4 DEF SessionInv
  <2>2. ListInv'
    BY <1>1, <1>3, <2>1 DEF ListInv, Numbered, TurnsAreWhole, ListOf
  <2> QED
    BY <1>1, <1>2, <1>4, <2>2 DEF SessionInv
<1>5. CASE backend = "postgres"
  <2>1. RowsOK /\ AppendsOK
    BY <1>5 DEF SessionInv
  <2>2. RowsOK'
    BY <1>1, FS_EmptySet DEF RowsOK
  <2>3. AppendsOK'
    BY <1>1, <2>1 DEF AppendsOK
  <2> QED
    BY <1>1, <1>2, <1>5, <2>2, <2>3 DEF SessionInv
<1> QED
  BY <1>4, <1>5

LEMMA SessionTimeKeeps ==
  ASSUME SessionAssumption, SessionInv, SessionTime
  PROVE  SessionInv'
<1>1. /\ clock' = clock + 1
      /\ UNCHANGED <<backend, entries, nextSeq, expiry, append, turns, returned, log>>
  BY DEF SessionTime
<1>2. SessionTypeOK /\ clock \in Nat /\ Ttl \in Nat
  BY DEF SessionInv, SessionTypeOK, SessionAssumption
<1>3. SessionTypeOK'
  BY <1>1, <1>2 DEF SessionTypeOK
<1>4. CASE backend # "postgres"
  <2>1. ListInv
    BY <1>4 DEF SessionInv
  <2>2. ASSUME NEW i \in 1 .. Len(log)
        PROVE  /\ log[i].ts <= clock'
               /\ log[i].ts + Ttl < clock => log[i].ts + Ttl < clock'
    <3>1. log[i] \in Stamped
      BY <1>2, ElementOfSeq DEF SessionTypeOK
    <3>2. log[i].ts \in Nat /\ log[i].ts <= clock
      BY <2>1, <3>1 DEF Stamped, ListInv, Numbered
    <3> QED
      BY <1>1, <1>2, <3>2
  <2>3. ListInv'
    BY <1>1, <2>1, <2>2 DEF ListInv, Numbered, TurnsAreWhole, ListOf
  <2> QED
    BY <1>1, <1>3, <1>4, <2>3 DEF SessionInv
<1>5. CASE backend = "postgres"
  <2>1. RowsOK /\ AppendsOK
    BY <1>5 DEF SessionInv
  <2>2. \A e \in entries : e.ts <= clock'
    <3> SUFFICES ASSUME NEW e \in entries PROVE e.ts <= clock'
      OBVIOUS
    <3>1. e.ts \in Nat /\ e.ts <= clock
      BY <1>2, <2>1 DEF SessionTypeOK, Stamped, RowsOK
    <3> QED
      BY <1>1, <1>2, <3>1
  <2>3. RowsOK' /\ AppendsOK'
    BY <1>1, <2>1, <2>2 DEF RowsOK, AppendsOK, HasAnswer
  <2> QED
    BY <1>1, <1>3, <1>5, <2>3 DEF SessionInv
<1> QED
  BY <1>4, <1>5

-----------------------------------------------------------------------------
(* The steps of the rows                                                    *)

LEMMA HighestIsNumber == ASSUME SessionTypeOK, RowsOK PROVE HighestSeq \in Nat
<1> DEFINE taken == {e.seq : e \in entries}
<1>1. CASE entries = {}
  BY <1>1 DEF HighestSeq
<1>2. CASE entries # {}
  <2>1. taken \subseteq Nat /\ taken # {}
    BY <1>2 DEF SessionTypeOK, Stamped
  <2>2. IsFiniteSet(taken)
    <3> DEFINE f == [e \in entries |-> e.seq]
    <3>1. f \in Surjection(entries, taken)
      BY DEF Surjection
    <3>2. IsFiniteSet(entries)
      BY DEF RowsOK
    <3> HIDE DEF f, taken
    <3> QED
      BY <3>1, <3>2, FS_Surjection
  <2> HIDE DEF taken
  <2>3. Max(taken) \in Nat
    BY <2>1, <2>2, GreatestNatural
  <2> QED
    BY <1>2, <2>3 DEF HighestSeq, taken
<1> QED
  BY <1>1, <1>2

LEMMA ReadMaxSeqKeeps ==
  ASSUME SessionAssumption, SessionInv, NEW w \in Writers, ReadMaxSeq(w)
  PROVE  SessionInv'
<1>1. PICK a : a = [at |-> "user", turn |-> turns + 1, seq |-> HighestSeq]
  OBVIOUS
<1>2. /\ backend = "postgres" /\ turns' = turns + 1 /\ append' = [append EXCEPT ![w] = a]
      /\ UNCHANGED <<backend, clock, entries, nextSeq, expiry, returned, log>>
  BY <1>1 DEF ReadMaxSeq
<1>3. SessionTypeOK /\ RowsOK /\ AppendsOK /\ turns \in Nat
  BY <1>2 DEF SessionInv, SessionTypeOK
<1>4. a \in [at : {"idle", "user", "assistant"}, turn : Nat, seq : Nat]
  <2>1. HighestSeq \in Nat
    BY <1>3, HighestIsNumber
  <2> QED
    BY <1>1, <1>3, <2>1
<1>5. SessionTypeOK'
  BY <1>2, <1>3, <1>4 DEF SessionTypeOK
<1>6. \A v \in Writers : append'[v] = IF v = w THEN a ELSE append[v]
  BY <1>2, <1>3 DEF SessionTypeOK
<1>7. \A e \in entries : e.turn \in Nat /\ e.turn <= turns
  BY <1>3 DEF SessionTypeOK, Stamped, RowsOK
<1>8. \A t \in returned : t \in Nat /\ t <= turns
  BY <1>3 DEF SessionTypeOK, AppendsOK
<1>9. \A v \in Writers : append[v].turn \in Nat /\ (append[v].at # "idle" => append[v].turn <= turns)
  <2> SUFFICES ASSUME NEW v \in Writers
               PROVE  append[v].turn \in Nat /\ (append[v].at # "idle" => append[v].turn <= turns)
    OBVIOUS
  <2>1. append[v] \in [at : {"idle", "user", "assistant"}, turn : Nat, seq : Nat]
    BY <1>3 DEF SessionTypeOK
  <2> QED
    BY <1>3, <2>1 DEF AppendsOK
<1>10. RowsOK'
  <2>1. \A e \in entries : e.turn <= turns'
    BY <1>2, <1>3, <1>7
  <2> QED
    BY <1>2, <1>3, <2>1 DEF RowsOK, HasAnswer
<1>11. AppendsOK'
  <2>1. \A t \in returned' : t <= turns'
    BY <1>2, <1>3, <1>8
  <2>2. ASSUME NEW v \in Writers, append'[v].at # "idle"
        PROVE  /\ append'[v].turn <= turns' /\ append'[v].turn \notin returned'
               /\ \A u \in Writers : append'[u].at # "idle" /\ append'[u].turn = append'[v].turn => u = v
               /\ \A e \in entries' : e.turn = append'[v].turn =>
                     append'[v].at = "assistant" /\ e.seq + 1 = append'[v].seq
    <3>1. CASE v = w
      <4>1. append'[v].turn = turns + 1
        BY <1>1, <1>6, <3>1
      <4> QED
        BY <1>2, <1>3, <1>6, <1>7, <1>8, <1>9, <3>1, <4>1
    <3>2. CASE v # w
      <4>1. append'[v] = append[v] /\ append[v].at # "idle"
        BY <1>6, <2>2, <3>2
      <4>2. append[v].turn <= turns /\ append[v].turn \in Nat
        BY <1>9, <4>1
      <4>3. append[v].turn <= turns' /\ append[v].turn # a.turn
        BY <1>1, <1>2, <1>3, <4>2
      <4> QED
        BY <1>2, <1>3, <1>6, <4>1, <4>3 DEF AppendsOK
    <3> QED
      BY <3>1, <3>2
  <2> QED
    BY <2>1, <2>2 DEF AppendsOK
<1> QED
  BY <1>2, <1>5, <1>10, <1>11 DEF SessionInv

LEMMA InsertKeeps ==
  ASSUME SessionAssumption, SessionInv, NEW w \in Writers, Insert(w)
  PROVE  SessionInv'
<1>1. PICK m : m = Message(append[w].seq, append[w].turn, append[w].at)
  OBVIOUS
<1>2. /\ append[w].at # "idle" /\ ~SeqTaken(append[w].seq)
      /\ entries' = entries \cup {m} /\ log' = Append(log, m)
      /\ UNCHANGED <<backend, clock, nextSeq, expiry, turns>>
  BY <1>1 DEF Insert
<1>3. backend = "postgres"
  BY <1>2 DEF SessionInv, ListInv
<1>4. SessionTypeOK /\ RowsOK /\ AppendsOK /\ clock \in Nat
  BY <1>3 DEF SessionInv, SessionTypeOK
<1>5. append[w] \in [at : {"idle", "user", "assistant"}, turn : Nat, seq : Nat]
  BY <1>4 DEF SessionTypeOK
<1>6. /\ m \in Stamped /\ m.seq = append[w].seq /\ m.turn = append[w].turn
      /\ m.role = append[w].at /\ m.ts = clock
  BY <1>1, <1>2, <1>4, <1>5 DEF Message, Stamped
<1>7. \A e \in entries : e.seq # m.seq
  BY <1>2, <1>6 DEF SeqTaken
<1>8. /\ append[w].turn <= turns /\ append[w].turn \notin returned
      /\ \A v \in Writers : append[v].at # "idle" /\ append[v].turn = append[w].turn => v = w
      /\ \A e \in entries : e.turn = append[w].turn =>
            append[w].at = "assistant" /\ e.seq + 1 = append[w].seq
  BY <1>2, <1>4 DEF AppendsOK
<1>9. IsFiniteSet(entries') /\ \A e, f \in entries' : e.seq = f.seq => e = f
  <2>1. IsFiniteSet(entries')
    BY <1>2, <1>4, FS_AddElement DEF RowsOK
  <2> QED
    BY <1>2, <1>4, <1>7, <2>1 DEF RowsOK
<1>10. \A e \in entries' : e.turn <= turns' /\ e.ts <= clock'
  <2>1. clock <= clock
    BY <1>4
  <2> QED
    BY <1>2, <1>4, <1>6, <1>8, <2>1 DEF RowsOK
<1>11. \A e \in entries : HasAnswer(e, entries) => HasAnswer(e, entries')
  BY <1>2 DEF HasAnswer
<1>12. log' \in Seq(Stamped) /\ entries' \subseteq Stamped
  BY <1>2, <1>4, <1>6, AppendProperties DEF SessionTypeOK
<1>13. CASE append[w].at = "user"
  <2>1. /\ append' = [append EXCEPT ![w].at = "assistant", ![w].seq = @ + 1]
        /\ returned' = returned
    BY <1>13 DEF Insert
  <2>2. PICK a : a = [append[w] EXCEPT !.at = "assistant", !.seq = @ + 1]
    OBVIOUS
  <2>3. /\ a \in [at : {"idle", "user", "assistant"}, turn : Nat, seq : Nat]
        /\ a.at = "assistant" /\ a.turn = append[w].turn /\ a.seq = append[w].seq + 1
    <3>1. PICK b : b = append[w]
      OBVIOUS
    <3>2. /\ b \in [at : {"idle", "user", "assistant"}, turn : Nat, seq : Nat]
          /\ a = [b EXCEPT !.at = "assistant", !.seq = b.seq + 1]
      BY <1>5, <2>2, <3>1
    <3>3. /\ a \in [at : {"idle", "user", "assistant"}, turn : Nat, seq : Nat]
          /\ a.at = "assistant" /\ a.turn = b.turn /\ a.seq = b.seq + 1
      <4>1. b.turn \in Nat /\ b.seq + 1 \in Nat
        BY <3>2
      <4>2. PICK n : n = b.seq + 1
        OBVIOUS
      <4>3. a = [b EXCEPT !.at = "assistant", !.seq = n] /\ n \in Nat
        BY <3>2, <4>1, <4>2
      <4>4. a.at = "assistant" /\ a.turn = b.turn /\ a.seq = n
        BY <3>2, <4>3
      <4>5. a \in [at : {"idle", "user", "assistant"}, turn : Nat, seq : Nat]
        BY <3>2, <4>3
      <4> QED
        BY <4>2, <4>4, <4>5
    <3> QED
      BY <3>1, <3>3
  <2>4. append' = [append EXCEPT ![w] = a]
    BY <1>4, <2>1, <2>2 DEF SessionTypeOK
  <2>5. \A v \in Writers : append'[v] = IF v = w THEN a ELSE append[v]
    BY <1>4, <2>4 DEF SessionTypeOK
  <2>6. SessionTypeOK'
    BY <1>2, <1>4, <1>12, <2>1, <2>3, <2>4 DEF SessionTypeOK
  <2>7. RowsOK'
    <3>1. ASSUME NEW e \in entries', e.role = "user", e.turn \in returned'
          PROVE  HasAnswer(e, entries')
      <4>1. e # m
        BY <1>6, <1>8, <2>1, <3>1
      <4>2. e \in entries /\ HasAnswer(e, entries)
        BY <1>2, <1>4, <2>1, <3>1, <4>1 DEF RowsOK
      <4> QED
        BY <1>11, <4>2
    <3> QED
      BY <1>9, <1>10, <3>1 DEF RowsOK, HasAnswer
  <2>8. AppendsOK'
    <3>1. ASSUME NEW v \in Writers, append'[v].at # "idle"
          PROVE  /\ append'[v].turn <= turns' /\ append'[v].turn \notin returned'
                 /\ \A u \in Writers : append'[u].at # "idle" /\ append'[u].turn = append'[v].turn => u = v
                 /\ \A e \in entries' : e.turn = append'[v].turn =>
                       append'[v].at = "assistant" /\ e.seq + 1 = append'[v].seq
      <4>1. CASE v = w
        <5>1. \A e \in entries : e.turn # append[w].turn
          BY <1>8, <1>13
        <5>2. append'[v] = a
          BY <2>5, <4>1
        <5>3. ASSUME NEW u \in Writers, append'[u].at # "idle", append'[u].turn = append'[v].turn
              PROVE  u = v
          <6>1. CASE u = w
            BY <4>1, <6>1
          <6>2. CASE u # w
            <7>1. append'[u] = append[u]
              BY <2>5, <6>2
            <7> QED
              BY <1>8, <2>3, <4>1, <5>2, <5>3, <7>1
          <6> QED
            BY <6>1, <6>2
        <5>4. ASSUME NEW e \in entries', e.turn = append'[v].turn
              PROVE  append'[v].at = "assistant" /\ e.seq + 1 = append'[v].seq
          <6>1. e = m
            BY <1>2, <2>3, <5>1, <5>2, <5>4
          <6> QED
            BY <1>6, <2>3, <5>2, <6>1
        <5>5. append'[v].turn <= turns' /\ append'[v].turn \notin returned'
          BY <1>2, <1>8, <2>1, <2>3, <5>2
        <5> QED
          BY <5>3, <5>4, <5>5
      <4>2. CASE v # w
        <5>1. append'[v] = append[v] /\ append[v].at # "idle" /\ append[v].turn # m.turn
          BY <1>6, <1>8, <2>5, <3>1, <4>2
        <5>2. ASSUME NEW u \in Writers, append'[u].at # "idle", append'[u].turn = append'[v].turn
              PROVE  u = v
          <6>1. u # w
            BY <1>6, <2>3, <2>5, <5>1, <5>2
          <6>2. append'[u] = append[u]
            BY <2>5, <6>1
          <6> QED
            BY <1>4, <5>1, <5>2, <6>2 DEF AppendsOK
        <5>3. ASSUME NEW e \in entries', e.turn = append'[v].turn
              PROVE  append'[v].at = "assistant" /\ e.seq + 1 = append'[v].seq
          <6>1. e \in entries
            BY <1>2, <5>1, <5>3
          <6> QED
            BY <1>4, <5>1, <5>3, <6>1 DEF AppendsOK
        <5>4. append'[v].turn <= turns' /\ append'[v].turn \notin returned'
          BY <1>2, <1>4, <2>1, <5>1 DEF AppendsOK
        <5> QED
          BY <5>2, <5>3, <5>4
      <4> QED
        BY <4>1, <4>2
    <3>2. \A t \in returned' : t <= turns'
      BY <1>2, <1>4, <2>1 DEF AppendsOK
    <3> QED
      BY <3>1, <3>2 DEF AppendsOK
  <2> QED
    BY <1>2, <1>3, <2>6, <2>7, <2>8 DEF SessionInv
<1>14. CASE append[w].at # "user"
  <2>1. append' = [append EXCEPT ![w] = NoAppend] /\ returned' = returned \cup {append[w].turn}
    BY <1>14 DEF Insert
  <2>2. NoAppend \in [at : {"idle", "user", "assistant"}, turn : Nat, seq : Nat]
        /\ NoAppend.at = "idle"
    BY DEF NoAppend
  <2>3. \A v \in Writers : append'[v] = IF v = w THEN NoAppend ELSE append[v]
    BY <1>4, <2>1 DEF SessionTypeOK
  <2>4. SessionTypeOK'
    BY <1>2, <1>4, <1>5, <1>12, <2>1, <2>2 DEF SessionTypeOK
  <2>5. m.role = "assistant"
    BY <1>2, <1>5, <1>6, <1>14
  <2>6. RowsOK'
    <3>1. ASSUME NEW e \in entries', e.role = "user", e.turn \in returned'
          PROVE  HasAnswer(e, entries')
      <4>1. e \in entries
        BY <1>2, <2>5, <3>1
      <4>2. CASE e.turn = append[w].turn
        <5>1. m.turn = e.turn /\ m.seq = e.seq + 1
          BY <1>6, <1>8, <4>1, <4>2
        <5>2. e.ts <= m.ts
          BY <1>4, <1>6, <4>1 DEF RowsOK
        <5> QED
          BY <1>2, <2>5, <5>1, <5>2 DEF HasAnswer
      <4>3. CASE e.turn # append[w].turn
        <5>1. HasAnswer(e, entries)
          BY <1>4, <2>1, <3>1, <4>1, <4>3 DEF RowsOK
        <5> QED
          BY <1>11, <4>1, <5>1
      <4> QED
        BY <4>2, <4>3
    <3> QED
      BY <1>9, <1>10, <3>1 DEF RowsOK, HasAnswer
  <2>7. AppendsOK'
    <3>1. ASSUME NEW v \in Writers, append'[v].at # "idle"
          PROVE  /\ append'[v].turn <= turns' /\ append'[v].turn \notin returned'
                 /\ \A u \in Writers : append'[u].at # "idle" /\ append'[u].turn = append'[v].turn => u = v
                 /\ \A e \in entries' : e.turn = append'[v].turn =>
                       append'[v].at = "assistant" /\ e.seq + 1 = append'[v].seq
      <4>1. append'[v] = append[v] /\ append[v].at # "idle" /\ append[v].turn # m.turn
        BY <1>6, <1>8, <2>2, <2>3, <3>1
      <4> QED
        BY <1>2, <1>4, <1>6, <2>1, <2>2, <2>3, <4>1 DEF AppendsOK
    <3>2. \A t \in returned' : t <= turns'
      BY <1>2, <1>4, <1>8, <2>1 DEF AppendsOK
    <3> QED
      BY <3>1, <3>2 DEF AppendsOK
  <2> QED
    BY <1>2, <1>3, <2>4, <2>6, <2>7 DEF SessionInv
<1> QED
  BY <1>13, <1>14

LEMMA InsertFailsKeeps ==
  ASSUME SessionAssumption, SessionInv, NEW w \in Writers, InsertFails(w)
  PROVE  SessionInv'
<1>1. /\ append[w].at # "idle" /\ append' = [append EXCEPT ![w] = NoAppend]
      /\ UNCHANGED <<backend, clock, entries, nextSeq, expiry, turns, returned, log>>
  BY DEF InsertFails
<1>2. backend = "postgres"
  BY <1>1 DEF SessionInv, ListInv
<1>3. SessionTypeOK /\ RowsOK /\ AppendsOK
  BY <1>2 DEF SessionInv
<1>4. NoAppend \in [at : {"idle", "user", "assistant"}, turn : Nat, seq : Nat]
      /\ NoAppend.at = "idle"
  BY DEF NoAppend
<1>5. \A v \in Writers : append'[v] = IF v = w THEN NoAppend ELSE append[v]
  BY <1>1, <1>3 DEF SessionTypeOK
<1>6. SessionTypeOK'
  BY <1>1, <1>3, <1>4 DEF SessionTypeOK
<1>7. RowsOK'
  BY <1>1, <1>3 DEF RowsOK, HasAnswer
<1>8. AppendsOK'
  BY <1>1, <1>3, <1>4, <1>5 DEF AppendsOK
<1> QED
  BY <1>1, <1>2, <1>6, <1>7, <1>8 DEF SessionInv

-----------------------------------------------------------------------------
LEMMA SessionInitially == SessionAssumption /\ SessionInit => SessionInv
<1> SUFFICES ASSUME SessionAssumption, SessionInit PROVE SessionInv
  OBVIOUS
<1>1. /\ backend \in Backends /\ clock = 0 /\ entries = {} /\ nextSeq = 0 /\ expiry = 0
      /\ append = [w \in Writers |-> NoAppend] /\ turns = 0 /\ returned = {} /\ log = <<>>
  BY DEF SessionInit
<1>2. SessionTypeOK
  BY <1>1 DEF SessionTypeOK, NoAppend
<1>3. 1 .. Len(<<>>) = {} /\ Len(<<>>) = 0
  OBVIOUS
<1>4. ListInv
  BY <1>1, <1>3 DEF ListInv, Numbered, TurnsAreWhole, ListOf, NoAppend
<1>5. RowsOK
  BY <1>1, FS_EmptySet DEF RowsOK
<1>6. AppendsOK
  BY <1>1 DEF AppendsOK, NoAppend
<1> QED
  BY <1>2, <1>4, <1>5, <1>6 DEF SessionInv

LEMMA SessionStep == SessionAssumption /\ SessionInv /\ [SessionNext]_sessionVars => SessionInv'
<1> SUFFICES ASSUME SessionAssumption, SessionInv, [SessionNext]_sessionVars PROVE SessionInv'
  OBVIOUS
<1>1. CASE AppendInMemory
  BY <1>1, MemoryAppends
<1>2. CASE AppendInRedis
  BY <1>2, RedisAppends
<1>3. CASE ReadFromRedis
  BY <1>3, RedisReads
<1>4. ASSUME NEW w \in Writers, ReadMaxSeq(w) PROVE SessionInv'
  BY <1>4, ReadMaxSeqKeeps
<1>5. ASSUME NEW w \in Writers, Insert(w) PROVE SessionInv'
  BY <1>5, InsertKeeps
<1>6. ASSUME NEW w \in Writers, InsertFails(w) PROVE SessionInv'
  BY <1>6, InsertFailsKeeps
<1>7. CASE DeleteSession
  BY <1>7, DeletionKeeps
<1>8. CASE SessionTime
  BY <1>8, SessionTimeKeeps
<1>9. CASE UNCHANGED sessionVars
  BY <1>9 DEF sessionVars, SessionInv, SessionTypeOK, ListInv, Numbered, TurnsAreWhole, ListOf,
              RowsOK, HasAnswer, AppendsOK
<1> QED
  BY <1>1, <1>2, <1>3, <1>4, <1>5, <1>6, <1>7, <1>8, <1>9 DEF SessionNext

\* In memory and in Redis a reader gets the latest live messages in the order they were stored; in
\* each of the three stores the question of a turn that returned is followed directly by its own
\* answer, which is all that holds of PostgreSQL (get_history() of the three stores).
THEOREM HistoryIsAlwaysFaithful == SessionSpec => []HistoryIsFaithful
<1>1. SessionInv => HistoryIsFaithful
  BY SessionAssumption, LatestFollows, ContiguityFollows DEF HistoryIsFaithful
<1> QED
  BY <1>1, SessionAssumption, SessionInitially, SessionStep, PTL DEF SessionSpec
=============================================================================
