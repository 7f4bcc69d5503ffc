------------------------------- MODULE OidcKeys -------------------------------
(***************************************************************************)
(* Direct sign-in with a token of the identity provider: the key cache of  *)
(* auth/middleware.py.  Signature, audience and issuer are left out: a     *)
(* token names the key that signed it.                                     *)
(***************************************************************************)
EXTENDS Integers, FiniteSets

CONSTANTS
    Keys,        \* key ids
    SignIns,     \* requests at work at the same time
    CacheTtl,    \* _JWKS_CACHE_TTL
    FetchTime,   \* what the two requests to the provider take at most
    MaxTime      \* bound on the clock

ConstantsAssumption ==
    /\ IsFiniteSet(Keys)
    /\ {CacheTtl, FetchTime, MaxTime} \subseteq Nat

VARIABLES
    clock,
    published, \* the keys the provider publishes
    retired,   \* key -> the last time it was withdrawn
    cache,     \* _jwks_cache
    req        \* the requests

vars == <<clock, published, retired, cache, req>>

Times == 0 .. MaxTime
Never == -1
NoCache == [keys |-> {}, fetched_at |-> Never]
Idle == [step |-> "idle"]

TypeOK ==
    /\ clock \in Times
    /\ published \subseteq Keys
    /\ retired \in [Keys -> Times \cup {Never}]
    /\ cache.keys \subseteq Keys /\ cache.fetched_at \in Times \cup {Never}
    /\ \A r \in SignIns : req[r].step \in {"idle", "fetch", "read", "in"}

Init ==
    /\ clock = 0
    /\ published \in SUBSET Keys
    /\ retired = [k \in Keys |-> Never]
    /\ cache = NoCache
    /\ req = [r \in SignIns |-> Idle]

-----------------------------------------------------------------------------
Tick ==
    /\ clock < MaxTime
    /\ \A r \in SignIns : req[r].step \in {"fetch", "read"} => clock - req[r].now < FetchTime
    /\ clock' = clock + 1
    /\ UNCHANGED <<published, retired, cache, req>>

Rotate(k) ==
    /\ published' = (published \ {k}) \cup ({k} \ published)
    /\ retired' = IF k \in published THEN [retired EXCEPT ![k] = clock] ELSE retired
    /\ UNCHANGED <<clock, cache, req>>

In(k) == [step |-> "in", key |-> k, now |-> clock]

\* Mutant: the cache is dated when it is stored and read without an age.
AgelessCache == cache.keys # {}

CacheFresh == cache.keys # {} /\ clock - cache.fetched_at < CacheTtl

\* A key that is not in the cache is fetched: keys may have been rotated.
SignIn(r, k) ==
    /\ req[r].step \in {"idle", "in"}
    /\ req' = [req EXCEPT ![r] = IF CacheFresh /\ k \in cache.keys THEN In(k)
                                 ELSE [step |-> "fetch", key |-> k, now |-> clock]]
    /\ UNCHANGED <<clock, published, retired, cache>>

Read(r) ==
    /\ req[r].step = "fetch"
    /\ req' = [req EXCEPT ![r] = [step |-> "read", key |-> @.key, now |-> @.now, keys |-> published]]
    /\ UNCHANGED <<clock, published, retired, cache>>

\* The cache gets the time from before the fetch; the token is refused when
\* the provider does not know its key either.
Store(r) ==
    /\ req[r].step = "read"
    /\ cache' = [keys |-> req[r].keys, fetched_at |-> req[r].now]
    /\ req' = [req EXCEPT ![r] = IF @.key \in @.keys THEN In(@.key) ELSE Idle]
    /\ UNCHANGED <<clock, published, retired>>

\* The provider does not answer: refused, the cache stays.
Fail(r) ==
    /\ req[r].step \in {"fetch", "read"}
    /\ req' = [req EXCEPT ![r] = Idle]
    /\ UNCHANGED <<clock, published, retired, cache>>

-----------------------------------------------------------------------------
Next ==
    \/ Tick
    \/ \E k \in Keys : Rotate(k)
    \/ \E r \in SignIns : (\E k \in Keys : SignIn(r, k)) \/ Read(r) \/ Store(r) \/ Fail(r)

Spec == Init /\ [][Next]_vars

-----------------------------------------------------------------------------
\* A key the provider has withdrawn signs nobody in after the cache has
\* lapsed, even if a slower fetch stores an older answer over a newer one.
RevokedInTime ==
    \A r \in SignIns : req[r].step = "in" =>
        req[r].key \in published \/ req[r].now - retired[req[r].key] <= CacheTtl + FetchTime

=============================================================================
