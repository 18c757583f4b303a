----------------------------- MODULE AgentFleet -----------------------------
(***************************************************************************)
(* One agent name in the fleet: the live agents of agents/store.py, their  *)
(* prompts, and the row that the agents table keeps of each.  The routes   *)
(* of api/routes/agents.py write the fleet first and the row afterwards,   *)
(* if at all; the reviews of api/routes/admin.py read the row, decide, and *)
(* write it back; agents/factory.py rebuilds the fleet from the rows.      *)
(***************************************************************************)
EXTENDS Naturals, FiniteSets

CONSTANTS
    Creators,       \* requests that create or import an agent
    Reviewers,      \* reviews in progress at a time
    Souls,          \* soul prompts a request may carry
    MaxCreations,   \* bound: creations, the seeding included
    MaxReviews      \* bound: reviews

VARIABLES
    live,       \* the agent in the store: its entry in _souls and its tier
    prompt,     \* the production prompt agent.<name>.soul, or "none"
    row,        \* its row in the agents table
    creator,    \* request -> the creation it is in the middle of
    review,     \* reviewer -> the review it is in the middle of
    evidence,   \* the reviews passed since the row was written
    trail,      \* new tiers in agent_trust_audit, and creation tiers
    torn,       \* new tiers whose audit entry a restart or an error prevented
    creations, reviews

fleetVars == <<live, prompt, row, creator, review, evidence, trail, torn, creations, reviews>>

NoAgent == [soul |-> "none", tier |-> "none"]
NoRow == [tier |-> "none", provenance |-> "none", reviewed |-> FALSE, clean |-> FALSE, soul |-> "none"]
Resting == [at |-> "idle", who |-> "none", soul |-> "none"]
NoReview == [at |-> "idle", kind |-> "none", clean |-> FALSE, tier |-> "none"]

StartingTier(who) == IF who = "admin" THEN "t2" ELSE "t4"

\* _PROMOTION_MAP
Promotion == [builtin   |-> [t \in {} |-> t],
              admin     |-> [t2 |-> "t1"],
              user      |-> [t4 |-> "t3", t3 |-> "t2"],
              community |-> [skull |-> "t4", t4 |-> "t3"]]

\* The name is that of an agent seeded from agents/, or a new one.
FleetInit ==
    /\ \/ live = NoAgent /\ prompt = "none" /\ row = NoRow /\ creations = 0 /\ trail = {}
       \/ /\ live = [soul |-> "none", tier |-> "t0"] /\ prompt = "seed"
          /\ row = [tier |-> "t0", provenance |-> "builtin", reviewed |-> TRUE, clean |-> TRUE,
                    soul |-> "seed"]
          /\ creations = 1 /\ trail = {"t0"}
    /\ creator = [c \in Creators |-> Resting]
    /\ review = [r \in Reviewers |-> NoReview]
    /\ evidence = {} /\ torn = {} /\ reviews = 0

-----------------------------------------------------------------------------
(* Creation, import, update, deletion                                       *)

\* The name is free; the prompt is being written.
BeginCreate(c, who, s) ==
    /\ creator[c] = Resting /\ live = NoAgent /\ creations < MaxCreations
    /\ creator' = [creator EXCEPT ![c] = [at |-> "upsert", who |-> who, soul |-> s]]
    /\ creations' = IF who = "import" THEN creations ELSE creations + 1
    /\ UNCHANGED <<live, prompt, row, review, evidence, trail, torn, reviews>>

\* The agent is live; an import is done.
Register(c) ==
    /\ creator[c].at = "upsert"
    /\ prompt' = creator[c].soul
    /\ live' = [soul |-> creator[c].soul, tier |-> StartingTier(creator[c].who)]
    /\ creator' = [creator EXCEPT ![c] =
           IF @.who = "import" THEN Resting ELSE [@ EXCEPT !.at = "insert"]]
    /\ UNCHANGED <<row, review, evidence, trail, torn, creations, reviews>>

\* An existing row keeps all but its tier and provenance.
InsertRow(c) ==
    /\ creator[c].at = "insert"
    /\ row' = [row EXCEPT !.tier = StartingTier(creator[c].who), !.provenance = creator[c].who]
    /\ evidence' = {}
    /\ trail' = trail \cup {row'.tier}
    /\ creator' = [creator EXCEPT ![c] = Resting]
    /\ UNCHANGED <<live, prompt, review, torn, creations, reviews>>

\* The insertion raises: the agent is live without a row.
RowFails(c) ==
    /\ creator[c].at = "insert"
    /\ creator' = [creator EXCEPT ![c] = Resting]
    /\ UNCHANGED <<live, prompt, row, review, evidence, trail, torn, creations, reviews>>

Update(s) ==
    /\ live # NoAgent
    /\ prompt' = s
    /\ live' = [live EXCEPT !.soul = s]
    /\ UNCHANGED <<row, creator, review, evidence, trail, torn, creations, reviews>>

Delete ==
    /\ live # NoAgent
    /\ live' = NoAgent
    /\ UNCHANGED <<prompt, row, creator, review, evidence, trail, torn, creations, reviews>>

-----------------------------------------------------------------------------
(* Reviews                                                                  *)

\* What a review reads; without a row, the tier the live agent had.
Read(tier) == IF row = NoRow THEN [tier |-> tier, provenance |-> "user"]
              ELSE [tier |-> row.tier, provenance |-> row.provenance]
Promotes(kind, seen) ==
    /\ seen.tier \in DOMAIN Promotion[seen.provenance]
    /\ IF kind = "ai"
       THEN seen.provenance = "admin" \/ (seen.provenance = "user" /\ seen.tier = "t4")
       ELSE seen.provenance \in {"user", "community"}

\* ai_review_agent(): the warden scans what it finds of the soul ...
BeginAiReview(r, clean) ==
    /\ review[r] = NoReview /\ live # NoAgent /\ reviews < MaxReviews
    /\ reviews' = reviews + 1
    /\ review' = [review EXCEPT ![r] =
           [at |-> "scanned", kind |-> "ai", clean |-> clean, tier |-> live.tier]]
    /\ UNCHANGED <<live, prompt, row, creator, evidence, trail, torn, creations>>

\* ... then the row is read and the new tier computed.
ReadForAiReview(r) ==
    /\ review[r].at = "scanned"
    /\ LET seen == Read(review[r].tier)
       IN  review' = [review EXCEPT ![r].at = "decided", ![r].tier =
             IF review[r].clean /\ Promotes("ai", seen) THEN Promotion[seen.provenance][seen.tier]
             ELSE seen.tier]
    /\ UNCHANGED <<live, prompt, row, creator, evidence, trail, torn, creations, reviews>>

\* admin_review_agent(): the row must have passed an AI review.
X_AiPassed == row.reviewed
AiPassed == row.reviewed /\ row.clean

BeginAdminReview(r) ==
    /\ review[r] = NoReview /\ live # NoAgent /\ reviews < MaxReviews
    /\ AiPassed /\ Promotes("admin", Read(live.tier))
    /\ reviews' = reviews + 1
    /\ review' = [review EXCEPT ![r] = [at |-> "decided", kind |-> "admin", clean |-> TRUE,
                                        tier |-> Promotion[row.provenance][row.tier]]]
    /\ UNCHANGED <<live, prompt, row, creator, evidence, trail, torn, creations>>

\* UPDATE agents, if there is a row by now ...
UpdateRow(r) ==
    /\ review[r].at = "decided"
    /\ IF row = NoRow THEN UNCHANGED <<row, evidence>>
       ELSE /\ row' = [row EXCEPT !.tier = review[r].tier,
                         !.reviewed = TRUE,
                         !.clean = IF review[r].kind = "ai" THEN review[r].clean ELSE @]
            /\ evidence' = IF review[r].clean THEN evidence \cup {review[r].kind} ELSE evidence
    /\ review' = [review EXCEPT ![r].at = "updated"]
    /\ UNCHANGED <<live, prompt, creator, trail, torn, creations, reviews>>

\* ... then INSERT INTO agent_trust_audit.
X_Audit(r) ==
    /\ review[r].at = "updated"
    /\ trail' = IF review[r].kind = "ai" THEN trail ELSE trail \cup {review[r].tier}
    /\ review' = [review EXCEPT ![r] = NoReview]
    /\ UNCHANGED <<live, prompt, row, creator, evidence, torn, creations, reviews>>

Audit(r) ==
    /\ review[r].at = "updated"
    /\ trail' = trail \cup {review[r].tier}
    /\ review' = [review EXCEPT ![r] = NoReview]
    /\ UNCHANGED <<live, prompt, row, creator, evidence, torn, creations, reviews>>
\* An insertion that raises leaves the UPDATE, which was committed by itself.
AuditFails(r) ==
    /\ review[r].at = "updated"
    /\ torn' = torn \cup {review[r].tier}
    /\ review' = [review EXCEPT ![r] = NoReview]
    /\ UNCHANGED <<live, prompt, row, creator, evidence, trail, creations, reviews>>

-----------------------------------------------------------------------------
(* create_agents() of a new process: the fleet is what the rows say.        *)
CreateAgents ==
    /\ live' = IF row = NoRow THEN NoAgent ELSE [soul |-> "none", tier |-> row.tier]
    /\ prompt' = IF row = NoRow THEN prompt ELSE row.soul
    /\ creator' = [c \in Creators |-> Resting]
    /\ review' = [r \in Reviewers |-> NoReview]
    /\ torn' = torn \cup { review[r].tier : r \in { q \in Reviewers : review[q].at = "updated" } }
    /\ UNCHANGED <<row, evidence, trail, creations, reviews>>

FleetNext ==
    \/ \E c \in Creators :
         \/ \E who \in {"admin", "user", "import"}, s \in Souls : BeginCreate(c, who, s)
         \/ Register(c) \/ InsertRow(c) \/ RowFails(c)
    \/ \E s \in Souls : Update(s)
    \/ Delete
    \/ \E r \in Reviewers :
         \/ \E clean \in BOOLEAN : BeginAiReview(r, clean)
         \/ ReadForAiReview(r) \/ BeginAdminReview(r) \/ UpdateRow(r) \/ Audit(r) \/ AuditFails(r)
    \/ CreateAgents

FleetSpec == FleetInit /\ [][FleetNext]_fleetVars

-----------------------------------------------------------------------------
(* Properties                                                              *)

\* "User-created: T4 -> T3 (AI review) -> T2 (admin review)", however reviews
\* overlap and wherever a restart interrupts them: an agent whose name one
\* request only has asked for is trusted no further than the reviews it passed.
TrustIsEarned ==
    creations = 1 /\ row.provenance = "user" =>
        /\ row.tier \in {"t4", "t3", "t2"}
        /\ row.tier # "t4" => "ai" \in evidence
        /\ row.tier = "t2" => "admin" \in evidence

\* The tier in the row is one that creation gave or the audit trail tells of,
\* except while the entry is being written or when a restart or an error prevented it.
TierIsAudited ==
    row # NoRow =>
        \/ row.tier \in trail \cup torn
        \/ \E r \in Reviewers : review[r].at = "updated" /\ review[r].tier = row.tier

\* A tier was earned, and the trail tells of it.
TierIsJustified == TrustIsEarned /\ TierIsAudited

\* "After seeding, the database is the source of truth.  CRUD via API": what
\* the API has done to the fleet is there after a restart.
RestartKeepsTheFleet ==
    [][CreateAgents /\ \A c \in Creators : creator[c] = Resting =>
         prompt' = prompt /\ (live' = NoAgent <=> live = NoAgent)]_fleetVars

\* "Requires AI review to have passed first": an admin review promotes what an
\* AI review has passed since it was created.
PromotionNeedsReview ==
    \A r \in Reviewers : review[r].kind = "admin" /\ review[r].at = "decided" => "ai" \in evidence
=============================================================================
