------------------------------- MODULE Presence -------------------------------
(***************************************************************************)
(* Who views a CVE or a risk acceptance: routers/presence.py.  Viewers and *)
(* access decisions are kept in the memory of a process.  Both endpoints   *)
(* take the time first, then ask for access, which may await a database.   *)
(***************************************************************************)
EXTENDS Integers, FiniteSets, Functions

CONSTANTS
    Users, Entities,
    Ttl,         \* HEARTBEAT_TTL
    AccessTtl,   \* ACCESS_CACHE_TTL
    MaxBuckets,  \* MAX_BUCKETS
    RequestTime, \* what a request takes at most (an assumption on the server)
    Changing,    \* <<user, entity>> that become visible and invisible (a bound)
    MaxTime      \* bound on the clock

ConstantsAssumption ==
    /\ IsFiniteSet(Entities)
    /\ {Ttl, RequestTime, MaxTime} \subseteq Nat /\ AccessTtl \in Nat \ {0}
    /\ Changing \subseteq Users \X Entities
    /\ MaxBuckets \in Nat \ {0}

VARIABLES
    clock,
    visible,  \* <<user, entity>>: what the databases say now
    hidden,   \* <<user, entity>> -> the last time it became invisible
    viewers,  \* _viewers: entity -> user -> last_seen
    access,   \* _access_cache: <<user, entity>> -> decision
    swept,    \* _last_sweep
    req       \* the request of each user

vars == <<clock, visible, hidden, viewers, access, swept, req>>

Times == 0 .. MaxTime
Never == -1
Sights == Users \X Entities
Idle == [step |-> "idle"]

TypeOK ==
    /\ clock \in Times /\ swept \in Times
    /\ visible \subseteq Sights
    /\ hidden \in [Changing -> Times \cup {Never}]
    /\ DOMAIN viewers \subseteq Entities
    /\ \A e \in DOMAIN viewers : DOMAIN viewers[e] \in (SUBSET Users) \ {{}} /\ viewers[e] \in [DOMAIN viewers[e] -> Times]
    /\ DOMAIN access \subseteq Sights
    /\ \A k \in DOMAIN access : access[k].allowed \in BOOLEAN /\ access[k].expires_at \in Nat
    /\ \A u \in Users : req[u].step \in {"idle", "check", "go", "listed"}

Init ==
    /\ clock = 0 /\ swept = 0
    /\ visible = Sights
    /\ hidden = [k \in Changing |-> Never]
    /\ viewers = <<>> /\ access = <<>>
    /\ req = [u \in Users |-> Idle]

-----------------------------------------------------------------------------
Tick ==
    /\ clock < MaxTime
    /\ \A u \in Users : req[u].step \in {"check", "go"} => clock - req[u].now < RequestTime
    /\ clock' = clock + 1
    /\ UNCHANGED <<visible, hidden, viewers, access, swept, req>>

Hide(k) ==
    /\ k \in visible \cap Changing
    /\ visible' = visible \ {k}
    /\ hidden' = [hidden EXCEPT ![k] = clock]
    /\ UNCHANGED <<clock, viewers, access, swept, req>>

Show(k) ==
    /\ k \notin visible
    /\ visible' = visible \cup {k}
    /\ UNCHANGED <<clock, hidden, viewers, access, swept, req>>

With(f, k, v) == [x \in DOMAIN f \cup {k} |-> IF x = k THEN v ELSE f[x]]

\* _clean_stale: an entity without viewers has no bucket.
Fresh(bucket, now) == Restrict(bucket, {u \in DOMAIN bucket : now - bucket[u] <= Ttl})

\* Mutant: what is stale goes, the bucket stays.
BucketKept(store, e, now) ==
    IF e \in DOMAIN store THEN [store EXCEPT ![e] = Fresh(@, now)] ELSE store

Cleaned(store, e, now) ==
    IF e \notin DOMAIN store THEN store
    ELSE IF DOMAIN Fresh(store[e], now) = {} THEN Restrict(store, DOMAIN store \ {e})
    ELSE [store EXCEPT ![e] = Fresh(@, now)]

\* _sweep_all, which only a heartbeat calls.
SweepDue == clock - swept >= Ttl
SweptViewers ==
    IF ~SweepDue THEN viewers
    ELSE LET kept == {e \in DOMAIN viewers : DOMAIN Fresh(viewers[e], clock) # {}}
         IN [e \in kept |-> Fresh(viewers[e], clock)]
SweptAccess ==
    IF ~SweepDue THEN access ELSE Restrict(access, {k \in DOMAIN access : access[k].expires_at > clock})

Begin(u, e, kind) ==
    LET cached == IF kind = "heartbeat" THEN SweptAccess ELSE access
        decided == <<u, e>> \in DOMAIN cached /\ cached[<<u, e>>].expires_at > clock
    IN /\ req[u].step \in {"idle", "listed"}
       /\ req' = [req EXCEPT ![u] =
              IF ~decided THEN [step |-> "check", kind |-> kind, entity |-> e, now |-> clock]
              ELSE IF cached[<<u, e>>].allowed
              THEN [step |-> "go", kind |-> kind, entity |-> e, now |-> clock]
              ELSE Idle]
       /\ access' = cached
       /\ IF kind = "heartbeat"
          THEN viewers' = SweptViewers /\ swept' = (IF SweepDue THEN clock ELSE swept)
          ELSE UNCHANGED <<viewers, swept>>
       /\ UNCHANGED <<clock, visible, hidden>>

\* _require_access: the decision is kept from the time before the await.
Check(u) ==
    /\ req[u].step = "check"
    /\ LET k == <<u, req[u].entity>>
       IN /\ access' = With(access, k, [allowed |-> k \in visible, expires_at |-> req[u].now + AccessTtl])
          /\ req' = [req EXCEPT ![u] = IF k \in visible THEN [@ EXCEPT !.step = "go"] ELSE Idle]
    /\ UNCHANGED <<clock, visible, hidden, viewers, swept>>

\* Mutant: one bucket more than the limit.
RoomForOneMore(e) == e \in DOMAIN viewers \/ Cardinality(DOMAIN viewers) <= MaxBuckets

Room(e) == e \in DOMAIN viewers \/ Cardinality(DOMAIN viewers) < MaxBuckets

Heartbeat(u) ==
    /\ req[u].step = "go" /\ req[u].kind = "heartbeat"
    /\ LET e == req[u].entity
           bucket == IF e \in DOMAIN viewers THEN viewers[e] ELSE <<>>
       IN viewers' = IF Room(e)
                     THEN Cleaned(With(viewers, e, With(bucket, u, req[u].now)), e, req[u].now)
                     ELSE viewers
    /\ req' = [req EXCEPT ![u] = Idle]
    /\ UNCHANGED <<clock, visible, hidden, access, swept>>

\* get_viewers: of the answer, only that there was one.
GetViewers(u) ==
    /\ req[u].step = "go" /\ req[u].kind = "viewers"
    /\ viewers' = Cleaned(viewers, req[u].entity, req[u].now)
    /\ req' = [req EXCEPT ![u] = [step |-> "listed", entity |-> @.entity, now |-> @.now]]
    /\ UNCHANGED <<clock, visible, hidden, access, swept>>

\* The process ends: viewers and decisions are gone.
Restart ==
    /\ viewers' = <<>> /\ access' = <<>>
    /\ swept' = 0
    /\ req' = [u \in Users |-> Idle]
    /\ UNCHANGED <<clock, visible, hidden>>

-----------------------------------------------------------------------------
Next ==
    \/ Tick
    \/ \E k \in Changing : Hide(k) \/ Show(k)
    \/ \E u \in Users, e \in Entities, kind \in {"heartbeat", "viewers"} : Begin(u, e, kind)
    \/ \E u \in Users : Check(u) \/ Heartbeat(u) \/ GetViewers(u)
    \/ Restart

Spec == Init /\ [][Next]_vars

-----------------------------------------------------------------------------
\* Presence does not tell of an entity the reader may not see: whose request
\* lists viewers could see it within ACCESS_CACHE_TTL before the request.
RevokedInTime ==
    \A u \in Users : req[u].step = "listed" =>
        \/ <<u, req[u].entity>> \in visible
        \/ req[u].now - hidden[<<u, req[u].entity>>] < AccessTtl

\* The store has no more entities than its limit, although access is awaited
\* between the request and the bucket.
CapHolds == Cardinality(DOMAIN viewers) <= MaxBuckets

=============================================================================
