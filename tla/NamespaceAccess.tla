--------------------------- MODULE NamespaceAccess ---------------------------
(***************************************************************************)
(* The namespaces a user has on peer clusters: stackrox/namespace_access.py.*)
(* One process keeps one index of the annotations Central mirrors.  A loop *)
(* refreshes it; a request that finds none loads it.  A pair is a namespace*)
(* on a peer cluster, annotated for the one user of the instance or for a  *)
(* group of theirs; peers and spelling of names are left out.              *)
(***************************************************************************)
EXTENDS Integers, FiniteSets

CONSTANTS
    Requests,     \* requests of the user at work at the same time
    Pairs,        \* (namespace, cluster) on peer clusters
    MaxStaleness, \* MAX_STALENESS_SECONDS
    LoadRetry,    \* LOAD_RETRY_SECONDS
    ColdTimeout,  \* COLD_LOAD_TIMEOUT_SECONDS
    QueryTime,    \* what a query of the loop takes at most (an assumption on Central)
    MaxTime       \* bound on the clock

ConstantsAssumption ==
    /\ {MaxStaleness, LoadRetry, ColdTimeout, QueryTime, MaxTime} \subseteq Nat
    /\ {"loop", "no one"} \cap Requests = {}

VARIABLES
    clock,
    annotated, \* the pairs annotated for the user
    revoked,   \* pair -> the last time its annotation was taken away
    index,     \* _state
    failed_at, \* _last_failed_at
    lock,      \* _load_lock: who holds it
    loop,      \* the refresh loop
    req        \* the requests

vars == <<clock, annotated, revoked, index, failed_at, lock, loop, req>>

Times == 0 .. MaxTime
Never == -1
NoOne == "no one"
NoIndex == [loaded_at |-> Never, read_at |-> Never, pairs |-> {}]
Asleep == [step |-> "asleep", since |-> 0, read_at |-> 0, pairs |-> {}]
Done(pairs) == [step |-> "done", since |-> clock, read_at |-> 0, pairs |-> pairs]

Task == [step : {"asleep", "wait", "query", "read", "done"}, since : Times, read_at : Times, pairs : SUBSET Pairs]

TypeOK ==
    /\ clock \in Times
    /\ annotated \subseteq Pairs
    /\ revoked \in [Pairs -> Times \cup {Never}]
    /\ index = NoIndex \/ index \in [loaded_at : Times, read_at : Times, pairs : SUBSET Pairs]
    /\ failed_at \in Times \cup {Never}
    /\ lock \in Requests \cup {NoOne, "loop"}
    /\ loop \in Task /\ req \in [Requests -> Task]

Init ==
    /\ clock = 0
    /\ annotated = Pairs
    /\ revoked = [p \in Pairs |-> Never]
    /\ index = NoIndex /\ failed_at = Never
    /\ lock = NoOne
    /\ loop = Asleep
    /\ req = [r \in Requests |-> Asleep]

-----------------------------------------------------------------------------
Overdue(task, limit) == task.step \in {"wait", "query", "read"} /\ clock - task.since >= limit

Tick ==
    /\ clock < MaxTime
    /\ ~Overdue(loop, QueryTime)
    /\ \A r \in Requests : ~Overdue(req[r], ColdTimeout)
    /\ clock' = clock + 1
    /\ UNCHANGED <<annotated, revoked, index, failed_at, lock, loop, req>>

Annotate(p) ==
    /\ p \notin annotated
    /\ annotated' = annotated \cup {p}
    /\ UNCHANGED <<clock, revoked, index, failed_at, lock, loop, req>>

Revoke(p) ==
    /\ p \in annotated
    /\ annotated' = annotated \ {p}
    /\ revoked' = [revoked EXCEPT ![p] = clock]
    /\ UNCHANGED <<clock, index, failed_at, lock, loop, req>>

\* The process ends and comes up with nothing loaded.
Restart ==
    /\ index' = NoIndex /\ failed_at' = Never /\ lock' = NoOne
    /\ loop' = Asleep /\ req' = [r \in Requests |-> Asleep]
    /\ UNCHANGED <<clock, annotated, revoked>>

Query(task) == [task EXCEPT !.step = "read", !.read_at = clock, !.pairs = annotated]

\* set_namespace_access: the age counts from here, not from the query.
Publish(task) ==
    /\ index' = [loaded_at |-> clock, read_at |-> task.read_at, pairs |-> task.pairs]
    /\ failed_at' = Never

\* Mutant: a load does not wait for another one.
AlwaysFree == TRUE

Free == lock = NoOne

(***************************************************************************)
(* run_refresh_loop                                                        *)
(***************************************************************************)
LoopLock ==
    /\ loop.step = "asleep"
    /\ Free
    /\ lock' = "loop"
    /\ loop' = [Asleep EXCEPT !.step = "query", !.since = clock]
    /\ UNCHANGED <<clock, annotated, revoked, index, failed_at, req>>

LoopRead ==
    /\ loop.step = "query"
    /\ loop' = Query(loop)
    /\ UNCHANGED <<clock, annotated, revoked, index, failed_at, lock, req>>

LoopPublish ==
    /\ loop.step = "read"
    /\ Publish(loop)
    /\ loop' = Asleep /\ lock' = NoOne
    /\ UNCHANGED <<clock, annotated, revoked, req>>

\* The index stays as it was; the loop sleeps and tries again.
LoopFails ==
    /\ loop.step \in {"query", "read"}
    /\ loop' = Asleep /\ lock' = NoOne
    /\ UNCHANGED <<clock, annotated, revoked, index, failed_at, req>>

(***************************************************************************)
(* resolve_cross_cluster_namespaces and _load_on_demand                    *)
(***************************************************************************)
BackingOff == failed_at # Never /\ clock - failed_at < LoadRetry

\* Mutant: staleness is for the log only.
NeverStale(i) == FALSE

Stale(i) == clock - i.loaded_at > MaxStaleness

Answer(i) == Done(IF Stale(i) THEN {} ELSE i.pairs)

Resolve(r) ==
    /\ req[r].step \in {"asleep", "done"}
    /\ req' = [req EXCEPT ![r] = IF index # NoIndex THEN Answer(index)
                                 ELSE IF BackingOff THEN Done({})
                                 ELSE [Asleep EXCEPT !.step = "wait", !.since = clock]]
    /\ UNCHANGED <<clock, annotated, revoked, index, failed_at, lock, loop>>

\* Who waited for the lock finds what the holder left: an index, or a failure.
LoadLock(r) ==
    /\ req[r].step = "wait"
    /\ Free
    /\ IF index = NoIndex /\ ~BackingOff
       THEN /\ lock' = r
            /\ req' = [req EXCEPT ![r].step = "query"]
       ELSE /\ lock' = lock
            /\ req' = [req EXCEPT ![r] = IF index # NoIndex THEN Answer(index) ELSE Done({})]
    /\ UNCHANGED <<clock, annotated, revoked, index, failed_at, loop>>

LoadRead(r) ==
    /\ req[r].step = "query"
    /\ req' = [req EXCEPT ![r] = Query(@)]
    /\ UNCHANGED <<clock, annotated, revoked, index, failed_at, lock, loop>>

LoadPublish(r) ==
    /\ req[r].step = "read"
    /\ Publish(req[r])
    /\ req' = [req EXCEPT ![r] = Done(@.pairs)]
    /\ lock' = NoOne
    /\ UNCHANGED <<clock, annotated, revoked, loop>>

\* The timeout, which covers the wait for the lock, or an error of the query.
LoadFails(r) ==
    /\ req[r].step \in {"wait", "query", "read"}
    /\ failed_at' = clock
    /\ lock' = IF lock = r THEN NoOne ELSE lock
    /\ req' = [req EXCEPT ![r] = Done({})]
    /\ UNCHANGED <<clock, annotated, revoked, index, loop>>

-----------------------------------------------------------------------------
Loop == LoopLock \/ LoopRead \/ LoopPublish \/ LoopFails
Load(r) == LoadLock(r) \/ LoadRead(r) \/ LoadPublish(r) \/ LoadFails(r)

Next ==
    \/ Tick
    \/ \E p \in Pairs : Annotate(p) \/ Revoke(p)
    \/ Restart
    \/ Loop
    \/ \E r \in Requests : Resolve(r) \/ Load(r)

Spec == Init /\ [][Next]_vars

-----------------------------------------------------------------------------
\* What the query of the loop, or a load on demand, takes at most.
LoadTime == IF QueryTime > ColdTimeout THEN QueryTime ELSE ColdTimeout

\* A revoked annotation grants nothing once the index that held it is stale,
\* however many refreshes fail: what a request is granted was annotated
\* MAX_STALENESS_SECONDS and one load ago, or since.
RevokedInTime ==
    \A r \in Requests : req[r].step = "done" =>
        \A p \in req[r].pairs :
            p \in annotated \/ req[r].since - revoked[p] <= MaxStaleness + LoadTime

\* A load that read Central earlier does not replace one that read it later.
Forward == index' # NoIndex => index'.read_at >= index.read_at
MovesForward == [][Forward]_vars

=============================================================================
