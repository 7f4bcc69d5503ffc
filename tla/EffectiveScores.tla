--------------------------- MODULE EffectiveScores ---------------------------
(***************************************************************************)
(* One score per CVE for every scope: stackrox/effective_scores.py.  The   *)
(* process keeps the scores of the last load and replaces them as a whole; *)
(* a query that finds none loads them.  Severity, CVSS and EPSS are one    *)
(* number, one CVE stands for all.                                         *)
(***************************************************************************)
EXTENDS Integers, FiniteSets, FiniteSetsExt

CONSTANTS
    Queries,   \* list queries at work at the same time
    Images,    \* images that contain the CVE, a row each
    Feeds,     \* the feeds that rate it
    Components,
    Scores,    \* numbers
    LoadRetry, \* LOAD_RETRY_SECONDS
    MaxTime    \* bound on the clock

ConstantsAssumption ==
    /\ IsFiniteSet(Images) /\ Scores \subseteq Nat
    /\ LoadRetry \in Nat /\ MaxTime \in Nat
    /\ {"loop", "no one"} \cap Queries = {}

VARIABLES
    clock,
    rows,      \* image_cves_v2: image -> its row, or not scanned
    snapshot,  \* _state
    failed_at, \* _last_failed_at
    lock,      \* _load_lock: who holds it
    loop,      \* the refresh loop
    query      \* the list queries

vars == <<clock, rows, snapshot, failed_at, lock, loop, query>>

Times == 0 .. MaxTime
Never == -1
NoOne == "no one"
Raw == -1  \* no effective score: the rows of the scope decide
Row == [feed : Feeds, component : Components, score : Scores, scanned : Times]
NotScanned == [scanned |-> Never]
Empty == [read_at |-> Never, score |-> Raw]
Idle == [step |-> "idle", got |-> Empty]

TypeOK ==
    /\ clock \in Times
    /\ rows \in [Images -> Row \cup {NotScanned}]
    /\ snapshot.read_at \in Times \cup {Never} /\ snapshot.score \in Scores \cup {Raw}
    /\ failed_at \in Times \cup {Never}
    /\ lock \in Queries \cup {NoOne, "loop"}
    /\ loop.step \in {"idle", "query", "read"}
    /\ \A q \in Queries : query[q].step \in {"idle", "wait", "query", "read", "done"}

Init ==
    /\ clock = 0
    /\ rows = [i \in Images |-> NotScanned]
    /\ snapshot = Empty /\ failed_at = Never
    /\ lock = NoOne
    /\ loop = Idle
    /\ query = [q \in Queries |-> Idle]

-----------------------------------------------------------------------------
Known == {rows[i] : i \in Images} \ {NotScanned}

\* FEED_SCORES_SQL: per feed and component the rows of the freshest scan, the
\* largest of them where scans tie, then the largest over the components.
Freshest(row) ==
    \A other \in Known :
        other.feed = row.feed /\ other.component = row.component => other.scanned <= row.scanned

FeedScore(feed) == Max({row.score : row \in {known \in Known : known.feed = feed /\ Freshest(known)}})

RatedBy == {row.feed : row \in Known}

\* build_effective_scores: the largest over the feeds.
EffectiveScore == IF RatedBy = {} THEN Raw ELSE Max({FeedScore(feed) : feed \in RatedBy})

Tick ==
    /\ clock < MaxTime
    /\ clock' = clock + 1
    /\ UNCHANGED <<rows, snapshot, failed_at, lock, loop, query>>

Scan(i, row) ==
    /\ row.scanned = clock
    /\ rows' = [rows EXCEPT ![i] = row]
    /\ UNCHANGED <<clock, snapshot, failed_at, lock, loop, query>>

Restart ==
    /\ snapshot' = Empty /\ failed_at' = Never /\ lock' = NoOne
    /\ loop' = Idle /\ query' = [q \in Queries |-> Idle]
    /\ UNCHANGED <<clock, rows>>

Read == [step |-> "read", got |-> [read_at |-> clock, score |-> EffectiveScore]]

(***************************************************************************)
(* run_refresh_loop                                                        *)
(***************************************************************************)
LoopLock ==
    /\ loop.step = "idle" /\ lock = NoOne
    /\ lock' = "loop"
    /\ loop' = [loop EXCEPT !.step = "query"]
    /\ UNCHANGED <<clock, rows, snapshot, failed_at, query>>

LoopRead ==
    /\ loop.step = "query"
    /\ loop' = Read
    /\ UNCHANGED <<clock, rows, snapshot, failed_at, lock, query>>

LoopPublish ==
    /\ loop.step = "read"
    /\ snapshot' = loop.got /\ failed_at' = Never
    /\ loop' = Idle /\ lock' = NoOne
    /\ UNCHANGED <<clock, rows, query>>

\* The scores stay as they were, however old they get.
LoopFails ==
    /\ loop.step \in {"query", "read"}
    /\ loop' = Idle /\ lock' = NoOne
    /\ UNCHANGED <<clock, rows, snapshot, failed_at, query>>

(***************************************************************************)
(* effective_score_params and _load_on_demand                              *)
(***************************************************************************)
BackingOff == failed_at # Never /\ clock - failed_at < LoadRetry

Done(got) == [step |-> "done", got |-> got]

Ask(q) ==
    /\ query[q].step \in {"idle", "done"}
    /\ query' = [query EXCEPT ![q] = IF snapshot # Empty THEN Done(snapshot)
                                     ELSE [step |-> "wait", got |-> Empty]]
    /\ UNCHANGED <<clock, rows, snapshot, failed_at, lock, loop>>

\* Mutant: what the holder of the lock has loaded meanwhile is not looked at
\* and the lock is not waited for.
LoadAnyway(q) ==
    /\ query[q].step = "wait"
    /\ lock' = lock
    /\ query' = [query EXCEPT ![q] = [step |-> "query", got |-> Empty]]
    /\ UNCHANGED <<clock, rows, snapshot, failed_at, loop>>

LoadLock(q) ==
    /\ query[q].step = "wait" /\ lock = NoOne
    /\ IF snapshot = Empty /\ ~BackingOff
       THEN /\ lock' = q
            /\ query' = [query EXCEPT ![q] = [step |-> "query", got |-> Empty]]
       ELSE /\ lock' = lock
            /\ query' = [query EXCEPT ![q] = Done(snapshot)]
    /\ UNCHANGED <<clock, rows, snapshot, failed_at, loop>>

LoadRead(q) ==
    /\ query[q].step = "query"
    /\ query' = [query EXCEPT ![q] = Read]
    /\ UNCHANGED <<clock, rows, snapshot, failed_at, lock, loop>>

LoadPublish(q) ==
    /\ query[q].step = "read"
    /\ snapshot' = query[q].got /\ failed_at' = Never
    /\ query' = [query EXCEPT ![q] = Done(@.got)]
    /\ lock' = NoOne
    /\ UNCHANGED <<clock, rows, loop>>

\* The query goes on with the scores of its own rows.
LoadFails(q) ==
    /\ query[q].step \in {"query", "read"}
    /\ failed_at' = clock /\ lock' = NoOne
    /\ query' = [query EXCEPT ![q] = Done(Empty)]
    /\ UNCHANGED <<clock, rows, snapshot, loop>>

-----------------------------------------------------------------------------
Loop == LoopLock \/ LoopRead \/ LoopPublish \/ LoopFails
Load(q) == LoadLock(q) \/ LoadRead(q) \/ LoadPublish(q) \/ LoadFails(q)

Next ==
    \/ Tick
    \/ \E i \in Images, row \in Row : Scan(i, row)
    \/ Restart
    \/ Loop
    \/ \E q \in Queries : Ask(q) \/ Load(q)

Spec == Init /\ [][Next]_vars

-----------------------------------------------------------------------------
\* "An older query result can never overwrite a newer one": the scores in
\* use come from ever later readings of StackRox.
Forward == snapshot' # Empty => snapshot'.read_at >= snapshot.read_at
MovesForward == [][Forward]_vars

=============================================================================
