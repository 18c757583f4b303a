---------------------------- MODULE SessionStores ----------------------------
(***************************************************************************)
(* The three stores of conversation history behind one protocol:           *)
(* sessions/store.py (memory), persistence/pg_sessions.py and              *)
(* cache/session_store.py (Redis).  One session; turns append their user   *)
(* message and the assistant's answer in one call.  In memory that call    *)
(* has no await and in Redis it is one transaction; in PostgreSQL it is a  *)
(* query and two insertions, each committed on its own.                    *)
(***************************************************************************)
EXTENDS Naturals, Sequences, FiniteSets, FiniteSetsExt, SequencesExt

CONSTANTS
    Backends,       \* the stores to look at
    Writers,        \* appends in flight at a time
    Ttl,            \* ttl_seconds
    MaxMessages,    \* max_messages
    MaxAppends,     \* bound: turns appended
    MaxClock        \* bound: the clock

ASSUME SessionAssumption ==
    /\ Backends \subseteq {"memory", "redis", "postgres"}
    /\ MaxMessages \in Nat \ {0} /\ Ttl \in Nat \ {0}

VARIABLES
    backend,    \* the store in use
    clock,
    entries,    \* messages: [seq, turn, role, ts]
    nextSeq,    \* _next_seq of the session (memory), or the place in the list (Redis)
    expiry,     \* when the Redis key expires
    append,     \* writer -> [at, turn, seq] of its append_messages()
    turns,      \* number of turns begun
    returned,   \* turns whose append_messages() has returned
    log         \* every message stored since the session was last deleted

sessionVars == <<backend, clock, entries, nextSeq, expiry, append, turns, returned, log>>

NoAppend == [at |-> "idle", turn |-> 0, seq |-> 0]

SessionInit ==
    /\ backend \in Backends
    /\ clock = 0
    /\ entries = {}
    /\ nextSeq = 0 /\ expiry = 0
    /\ append = [w \in Writers |-> NoAppend]
    /\ turns = 0 /\ returned = {}
    /\ log = <<>>

-----------------------------------------------------------------------------
Message(n, turn, role) == [seq |-> n, turn |-> turn, role |-> role, ts |-> clock]
Earlier(a, b) == a.seq < b.seq \/ (a.seq = b.seq /\ a.turn < b.turn)
\* The last MaxMessages of a set of messages.
Latest(set) ==
    { e \in set : Cardinality({ f \in set : Earlier(e, f) }) < MaxMessages }

\* Old enough to be left out: exactly Ttl is young for two of the stores.
Live(e) == IF backend = "postgres" THEN e.ts + Ttl > clock ELSE e.ts + Ttl >= clock

\* The key is refreshed after its messages were stamped, so it goes after them.
KeyLife == clock + Ttl + 1
KeyExpired == backend = "redis" /\ clock >= expiry
Stored == IF KeyExpired THEN {} ELSE entries

\* get_history(): the messages it returns, which it orders by their numbers.
History == Latest({ e \in Stored : Live(e) })

Turn(n) == << Message(nextSeq, n, "user"), Message(nextSeq + 1, n, "assistant") >>

-----------------------------------------------------------------------------
(* append_messages() in memory: number, append, prune                       *)

AppendInMemory ==
    /\ backend = "memory" /\ turns < MaxAppends
    /\ turns' = turns + 1
    /\ entries' = { e \in entries \cup Range(Turn(turns')) : Live(e) }
    /\ nextSeq' = nextSeq + 2
    /\ log' = log \o Turn(turns')
    /\ returned' = returned \cup {turns'}
    /\ UNCHANGED <<backend, clock, expiry, append>>

(* ... and in Redis: push, trim, refresh the key                            *)

X_Kept(all) == { e \in all : Cardinality({ f \in all : Earlier(f, e) }) < MaxMessages }
Kept(all) == Latest(all)

AppendInRedis ==
    /\ backend = "redis" /\ turns < MaxAppends
    /\ turns' = turns + 1
    /\ entries' = Kept(Stored \cup Range(Turn(turns')))
    /\ nextSeq' = nextSeq + 2
    /\ expiry' = KeyLife
    /\ log' = log \o Turn(turns')
    /\ returned' = returned \cup {turns'}
    /\ UNCHANGED <<backend, clock, append>>

\* A read refreshes the key and changes nothing else.
ReadFromRedis ==
    /\ backend = "redis" /\ Stored # {}
    /\ expiry' = KeyLife
    /\ UNCHANGED <<backend, clock, entries, nextSeq, append, turns, returned, log>>

-----------------------------------------------------------------------------
(* ... and in PostgreSQL                                                    *)

HighestSeq == IF entries = {} THEN 0 ELSE Max({ e.seq : e \in entries }) + 1

ReadMaxSeq(w) ==
    /\ backend = "postgres" /\ turns < MaxAppends
    /\ append[w].at = "idle"
    /\ turns' = turns + 1
    /\ append' = [append EXCEPT ![w] = [at |-> "user", turn |-> turns', seq |-> HighestSeq]]
    /\ UNCHANGED <<backend, clock, entries, nextSeq, expiry, returned, log>>

\* The primary key is (session_id, seq).
X_SeqTaken(n) == FALSE
SeqTaken(n) == \E e \in entries : e.seq = n

Insert(w) ==
    /\ append[w].at # "idle" /\ ~SeqTaken(append[w].seq)
    /\ LET m == Message(append[w].seq, append[w].turn, append[w].at) IN
       /\ entries' = entries \cup {m}
       /\ log' = Append(log, m)
    /\ IF append[w].at = "user"
       THEN /\ append' = [append EXCEPT ![w].at = "assistant", ![w].seq = @ + 1]
            /\ UNCHANGED returned
       ELSE /\ append' = [append EXCEPT ![w] = NoAppend]
            /\ returned' = returned \cup {append[w].turn}
    /\ UNCHANGED <<backend, clock, nextSeq, expiry, turns>>

\* UniqueViolationError, or a lost connection: what was inserted stays.
InsertFails(w) ==
    /\ append[w].at # "idle"
    /\ append' = [append EXCEPT ![w] = NoAppend]
    /\ UNCHANGED <<backend, clock, entries, nextSeq, expiry, turns, returned, log>>

-----------------------------------------------------------------------------
\* delete_session().  In memory the numbering starts again.
DeleteSession ==
    /\ entries # {}
    /\ entries' = {}
    /\ nextSeq' = 0
    /\ log' = <<>>
    /\ UNCHANGED <<backend, clock, expiry, append, turns, returned>>

SessionTime ==
    /\ clock < MaxClock
    /\ clock' = clock + 1
    /\ UNCHANGED <<backend, entries, nextSeq, expiry, append, turns, returned, log>>

SessionNext ==
    \/ AppendInMemory \/ AppendInRedis \/ ReadFromRedis
    \/ \E w \in Writers : ReadMaxSeq(w) \/ Insert(w) \/ InsertFails(w)
    \/ DeleteSession \/ SessionTime

SessionSpec == SessionInit /\ [][SessionNext]_sessionVars

-----------------------------------------------------------------------------
(* Properties                                                              *)

\* In memory and in Redis a reader gets the latest MaxMessages of the messages
\* stored in the last Ttl, in the order they were stored, whatever was pruned,
\* trimmed, expired with its key or deleted in between (get_history()).
HistoryIsTheLatest ==
    LET live == { i \in DOMAIN log : Live(log[i]) } IN
    backend # "postgres" =>
        /\ History = { log[i] : i \in { k \in live :
                          Cardinality({ j \in live : j > k }) < MaxMessages } }
        /\ \A i, j \in DOMAIN log : i < j <=> Earlier(log[i], log[j])

\* A turn whose append has returned is never seen with another turn's message
\* inside it or in the wrong order: in PostgreSQL two appends that read the same
\* highest number cannot both go through (pg_sessions.py:56-74).
ReturnedTurnsAreContiguous ==
    \A e, f \in History :
        /\ e.turn \in returned /\ e.role = "user" /\ Earlier(e, f)
        /\ \A g \in History : ~(Earlier(e, g) /\ Earlier(g, f))
        => f.turn = e.turn /\ f.role = "assistant"

\* Memory and Redis show the latest of the conversation as it was held; no store shows
\* a turn that was stored torn.
HistoryIsFaithful == HistoryIsTheLatest /\ ReturnedTurnsAreContiguous
=============================================================================
