------------------------------ MODULE WorkBoard ------------------------------
(***************************************************************************)
(* What the orchestrator promises its clients when every work id is used   *)
(* once: a board of waiting jobs, a bounded number of active ones, always  *)
(* the best waiting job next, one outcome each.  Queue entries, worker     *)
(* tasks and the clean-up of cancelled entries are invisible here.         *)
(***************************************************************************)
EXTENDS Naturals, FiniteSets

CONSTANTS
    Jobs,       \* the work ids
    Tiers,      \* priorities, a lower number is served first
    Capacity    \* how many jobs may be active

VARIABLES waiting, active, outcome, open

boardVars == <<waiting, active, outcome, open>>

Outcomes == {"completed", "failed", "cancelled", "abandoned"}

BoardInit ==
    /\ waiting = {}
    /\ active = {}
    /\ outcome = [j \in Jobs |-> "none"]
    /\ open = TRUE

Waiting(j) == \E e \in waiting : e.id = j
Unused(j) == ~Waiting(j) /\ j \notin active /\ outcome[j] = "none"

\* First by tier, then by id.
Best(e) ==
    \A d \in waiting \ {e} : e.tier < d.tier \/ (e.tier = d.tier /\ e.id < d.id)

\* Jobs are taken in even after the board has closed; nobody serves them then.
Submit(j, t) ==
    /\ Unused(j)
    /\ waiting' = waiting \cup {[tier |-> t, id |-> j]}
    /\ UNCHANGED <<active, outcome, open>>

Withdraw(e) ==
    /\ waiting' = waiting \ {e}
    /\ outcome' = [outcome EXCEPT ![e.id] = "cancelled"]
    /\ UNCHANGED <<active, open>>

Begin(e) ==
    /\ open
    /\ Cardinality(active) < Capacity
    /\ Best(e)
    /\ waiting' = waiting \ {e}
    /\ active' = active \cup {e.id}
    /\ UNCHANGED <<outcome, open>>

End(j, o) ==
    /\ active' = active \ {j}
    /\ outcome' = [outcome EXCEPT ![j] = o]
    /\ open <=> o # "abandoned"
    /\ UNCHANGED <<waiting, open>>

Close == open /\ open' = FALSE /\ UNCHANGED <<waiting, active, outcome>>

BoardNext ==
    \/ \E j \in Jobs, t \in Tiers : Submit(j, t)
    \/ \E e \in waiting : Withdraw(e) \/ Begin(e)
    \/ \E j \in active : \E o \in {"completed", "failed", "abandoned"} : End(j, o)
    \/ Close

BoardSpec == BoardInit /\ [][BoardNext]_boardVars
=============================================================================
