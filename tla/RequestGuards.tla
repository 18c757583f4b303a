--------------------------- MODULE RequestGuards ----------------------------
(***************************************************************************)
(* What stands between a caller and the service: limits on how often, and  *)
(* the consequences of violations. The two share no state.                 *)
(***************************************************************************)
EXTENDS Integers, Sequences, FiniteSets, FiniteSetsExt, SequencesExt

(***************************************************************************)
(* The sliding-window limiters, security/rate_limiter.py (memory) and      *)
(* cache/rate_limiter.py (Redis), as api/middleware/rate_limit.py uses     *)
(* them: check(), then record(), then the request.  In memory neither has  *)
(* an await that suspends, so the two are one step; with Redis other       *)
(* requests come in between.                                               *)
(***************************************************************************)

CONSTANTS
    Limiters,       \* the limiters to look at
    Callers,        \* requests at a time
    Users,          \* rate limit keys
    Rpm, Window,    \* requests per window, seconds of a window
    Burst, BurstWindow,
    EvictionAge,    \* _KEY_EVICTION_AGE_S
    EvictionInterval,   \* _EVICTION_INTERVAL
    MaxTime         \* bound: the clock

ASSUME RateAssumption ==
    /\ Limiters \subseteq {"memory", "redis"}
    /\ IsFiniteSet(Callers) /\ Callers # {} /\ "none" \notin Users
    /\ {Rpm, Window, Burst, BurstWindow, EvictionAge} \subseteq Nat
    /\ EvictionAge >= Window /\ Window >= BurstWindow

VARIABLES
    limiter,    \* the limiter in use
    second,     \* the clock
    windows,    \* user -> times of the requests kept
    checks,     \* _check_count
    passed,     \* callers that passed check() and have not recorded, with their user
    admitted    \* user -> times of all requests let through

rateVars == <<limiter, second, windows, checks, passed, admitted>>

RateInit ==
    /\ limiter \in Limiters
    /\ second = 0
    /\ windows = [u \in Users |-> <<>>]
    /\ checks = 0
    /\ passed = [c \in Callers |-> "none"]
    /\ admitted = [u \in Users |-> <<>>]

\* What is older than t goes, from the front.
FirstKept(times, t) == Min({i \in DOMAIN times : times[i] >= t} \cup {Len(times) + 1})
Since(times, t) == SubSeq(times, FirstKept(times, t), Len(times))

\* Times are natural numbers: a cutoff before 0 is no cutoff.
Cutoff(length) == IF second > length THEN second - length ELSE 0
Pruned(u) ==
    IF limiter = "memory" THEN Since(windows[u], Cutoff(Window))
    ELSE Since(windows[u], IF second >= Window THEN second - Window + 1 ELSE 0)

WithinLimits(u) ==
    /\ Len(Pruned(u)) < Rpm
    /\ limiter = "memory" /\ Burst > 0 =>
          Cardinality({i \in DOMAIN Pruned(u) : Pruned(u)[i] >= Cutoff(BurstWindow)}) < Burst

\* Every EvictionInterval allowed checks: users without a recent request go,
\* the user being checked included if it has none.
X_Evicted(kept) ==
    [u \in Users |-> IF Len(kept[u]) <= 1 THEN <<>> ELSE kept[u]]
Evicted(kept) ==
    [u \in Users |->
        IF kept[u] = <<>> \/ Last(kept[u]) < Cutoff(EvictionAge) THEN <<>> ELSE kept[u]]

\* The middleware with the limiter in memory: check and record at once.
Admit(u) ==
    /\ limiter = "memory"
    /\ WithinLimits(u)
    /\ LET due == checks + 1 >= EvictionInterval
           kept == [windows EXCEPT ![u] = Pruned(u)]
       IN  /\ checks' = IF due THEN 0 ELSE checks + 1
           /\ windows' = [IF due THEN Evicted(kept) ELSE kept EXCEPT ![u] = Append(@, second)]
    /\ admitted' = [admitted EXCEPT ![u] = Append(@, second)]
    /\ UNCHANGED <<limiter, second, passed>>

\* A refused check prunes all the same.
Refuse(u) ==
    /\ ~WithinLimits(u)
    /\ windows' = [windows EXCEPT ![u] = Pruned(u)]
    /\ UNCHANGED <<limiter, second, checks, passed, admitted>>

\* With Redis: one round trip to check, another one to record.
CheckRedis(c, u) ==
    /\ limiter = "redis" /\ passed[c] = "none"
    /\ WithinLimits(u)
    /\ windows' = [windows EXCEPT ![u] = Pruned(u)]
    /\ passed' = [passed EXCEPT ![c] = u]
    /\ UNCHANGED <<limiter, second, checks, admitted>>

\* The key of a user expires Window + 10 seconds after its last request, when
\* Pruned() has nothing left of it.
RecordRedis(c) ==
    /\ passed[c] # "none"
    /\ windows' = [windows EXCEPT ![passed[c]] = Append(@, second)]
    /\ admitted' = [admitted EXCEPT ![passed[c]] = Append(@, second)]
    /\ passed' = [passed EXCEPT ![c] = "none"]
    /\ UNCHANGED <<limiter, second, checks>>

\* Redis does not answer: the request fails with what it did not record.
RedisFails(c) ==
    /\ passed[c] # "none"
    /\ passed' = [passed EXCEPT ![c] = "none"]
    /\ UNCHANGED <<limiter, second, windows, checks, admitted>>

RateTime ==
    /\ second < MaxTime
    /\ second' = second + 1
    /\ UNCHANGED <<limiter, windows, checks, passed, admitted>>

RateNext ==
    \/ \E u \in Users : Admit(u) \/ Refuse(u) \/ \E c \in Callers : CheckRedis(c, u)
    \/ \E c \in Callers : RecordRedis(c) \/ RedisFails(c)
    \/ RateTime

RateSpec == RateInit /\ [][RateNext]_rateVars

-----------------------------------------------------------------------------
(* Properties                                                              *)

Within(u, from, length) ==
    Cardinality({i \in DOMAIN admitted[u] :
                    from <= admitted[u][i] /\ admitted[u][i] < from + length})

\* In no window of any sixty seconds are more than Rpm requests of a user let
\* through, nor more than Burst in any second, whatever was evicted in between;
\* with Redis only requests that were in flight together come on top
\* (rate_limiter.py:48-102, cache/rate_limiter.py:39-84).
NoWindowOverLimit ==
    \A u \in Users, from \in 0 .. MaxTime :
        IF limiter = "memory"
        THEN /\ Within(u, from, Window) <= Rpm
             /\ Burst > 0 => Within(u, from, BurstWindow) <= Burst
        ELSE Within(u, from, Window) <= Rpm + Cardinality(Callers) - 1

-----------------------------------------------------------------------------
(***************************************************************************)
(* Violations and their consequences for one user: security/strikes.py,    *)
(* the gate that asks it and reports to it (security/gate.py) and the      *)
(* administrators' operations on it (api/routes/admin.py).  The gate looks *)
(* at the lock before it awaits the warden and does not look again.        *)
(***************************************************************************)

CONSTANTS
    Inputs,     \* requests of the user at a time
    MaxStrikes  \* bound: strikes

ASSUME StrikesAssumption == IsFiniteSet(Inputs)

VARIABLES
    strikes,    \* strike_count
    level,      \* scrutiny_level
    lockout,    \* locked_until: "none", "running" or "over"
    disabled,
    appealed,   \* last_appeal
    gate,       \* input -> where process_input() is
    late        \* strikes recorded since the user was locked

strikeVars == <<strikes, level, lockout, disabled, appealed, gate, late>>

StrikesInit ==
    /\ strikes = 0 /\ level = "normal" /\ lockout = "none"
    /\ disabled = FALSE /\ appealed = FALSE
    /\ gate = [i \in Inputs |-> "idle"]
    /\ late = 0

IsLocked == disabled \/ lockout = "running"
Released == ~disabled' /\ lockout' # "running"

-----------------------------------------------------------------------------
(* The gate                                                                 *)

X_AskGate(i) ==
    /\ gate[i] # "scanning"
    /\ gate' = [gate EXCEPT ![i] = IF lockout = "running" THEN "blocked" ELSE "scanning"]
    /\ UNCHANGED <<strikes, level, lockout, disabled, appealed, late>>
AskGate(i) ==
    /\ gate[i] # "scanning"
    /\ gate' = [gate EXCEPT ![i] = IF IsLocked THEN "blocked" ELSE "scanning"]
    /\ UNCHANGED <<strikes, level, lockout, disabled, appealed, late>>

PassGate(i) ==
    /\ gate[i] = "scanning"
    /\ gate' = [gate EXCEPT ![i] = "passed"]
    /\ UNCHANGED <<strikes, level, lockout, disabled, appealed, late>>

\* record_violation().  A lockout that is running already starts again; a user
\* is not locked again beyond three strikes, only disabled.
RecordViolation(i) ==
    /\ gate[i] = "scanning" /\ strikes < MaxStrikes
    /\ gate' = [gate EXCEPT ![i] = "blocked"]
    /\ strikes' = strikes + 1
    /\ level' = CASE strikes' >= 3 -> "disabled" [] strikes' = 2 -> "locked" [] OTHER -> "elevated"
    /\ disabled' = (disabled \/ strikes' >= 3)
    /\ lockout' = IF strikes' = 2 THEN "running" ELSE lockout
    /\ late' = IF IsLocked THEN late + 1 ELSE 0
    /\ UNCHANGED appealed

\* Eight hours after the second strike.
LockoutEnds ==
    /\ lockout = "running"
    /\ lockout' = "over"
    /\ late' = IF disabled THEN late ELSE 0
    /\ UNCHANGED <<strikes, level, disabled, appealed, gate>>

-----------------------------------------------------------------------------
(* Appeals and administrators                                               *)

SubmitAppeal ==
    /\ strikes > 0
    /\ appealed' = TRUE
    /\ UNCHANGED <<strikes, level, lockout, disabled, gate, late>>

\* _recalculate_level(): at two strikes only the level changes.
X_Recalculated ==
    /\ level' = CASE strikes' >= 3 -> "disabled" [] strikes' = 2 -> "locked"
                  [] strikes' = 1 -> "elevated" [] OTHER -> "normal"
    /\ disabled' = (disabled \/ strikes' >= 3)   \* never cleared
    /\ lockout' = IF strikes' < 2 THEN "none" ELSE lockout
Recalculated ==
    /\ level' = CASE strikes' >= 3 -> "disabled" [] strikes' = 2 -> "locked"
                  [] strikes' = 1 -> "elevated" [] OTHER -> "normal"
    /\ disabled' = (strikes' >= 3 \/ (strikes' = 2 /\ disabled))
    /\ lockout' = IF strikes' < 2 THEN "none" ELSE lockout

RemoveStrikes(n) ==
    /\ strikes' = IF strikes > n THEN strikes - n ELSE 0
    /\ Recalculated
    /\ late' = IF Released THEN 0 ELSE late
    /\ UNCHANGED <<appealed, gate>>

Unlock ==
    /\ lockout' = "none"
    /\ level' = IF disabled THEN level ELSE IF strikes >= 1 THEN "elevated" ELSE "normal"
    /\ late' = IF disabled THEN late ELSE 0
    /\ UNCHANGED <<strikes, disabled, appealed, gate>>

Enable ==
    /\ disabled' = FALSE /\ lockout' = "none"
    /\ level' = IF strikes >= 1 THEN "elevated" ELSE "normal"
    /\ late' = 0
    /\ UNCHANGED <<strikes, appealed, gate>>

StrikesNext ==
    \/ \E i \in Inputs : AskGate(i) \/ PassGate(i) \/ RecordViolation(i)
    \/ LockoutEnds \/ SubmitAppeal \/ Unlock \/ Enable
    \/ \E n \in 0 .. MaxStrikes : RemoveStrikes(n)

StrikesSpec == StrikesInit /\ [][StrikesNext]_strikeVars

-----------------------------------------------------------------------------
(* Properties                                                              *)

\* A user who is locked or disabled gets further strikes only for inputs that
\* were already being scanned, so at most one for each, however locks, appeals
\* and pardons follow one another (gate.py:78 before :109).
LockoutStopsStrikes == late <= Cardinality(Inputs)

\* The disabled flag, the level and the count agree after any sequence of
\* violations and pardons: nobody is disabled with fewer than two strikes or
\* at a level below "locked", and a level of "disabled" is never an empty word.
LevelsExplained ==
    /\ disabled => strikes >= 2 /\ level \in {"locked", "disabled"}
    /\ level = "disabled" => disabled
    /\ level = "normal" <=> strikes = 0

\* Strikes stop at a lock, and the parts of the record agree.
StrikesAreConsistent == LockoutStopsStrikes /\ LevelsExplained

\* Taking strikes away from a user never locks that user ("Don't re-lock if
\* admin already unlocked", strikes.py:249).
RemovalNeverLocks == [][strikes' < strikes /\ ~IsLocked => ~IsLocked']_strikeVars
=============================================================================
