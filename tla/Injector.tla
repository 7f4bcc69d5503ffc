------------------------------- MODULE Injector -------------------------------
(***************************************************************************)
(* What a spoke tells the hub of a user: auth-header-injector/main.go.  It *)
(* keeps the annotations of its cluster's namespaces, and for a short time *)
(* what OpenShift says of a token.                                         *)
(*                                                                         *)
(* One user with one token, which oauth-proxy passes with every request    *)
(* (deploy/helm/rhacs-manager/templates/_helpers.tpl:118).  Names are      *)
(* equal or not, whatever their spelling; the addresses of namespaces and  *)
(* TRUST_FORWARDED_GROUPS, which is off by default, are left out.          *)
(***************************************************************************)
EXTENDS Integers, FiniteSets

CONSTANTS
    Requests,       \* requests of the user at work at the same time
    Namespaces,     \* of the cluster
    Groups,
    WildcardGroups, \* ALL_NAMESPACES_GROUPS
    User,           \* the user, as an annotation names one
    MaxAge,         \* cacheStaleAfterRefreshes * CACHE_TTL_SECONDS
    GroupTtl,       \* GROUP_CACHE_TTL_SECONDS
    UnresolvedTtl,  \* unresolvedInfoTTL
    ListTime,       \* restCfg.Timeout
    LookupTime,     \* apiHTTPClient.Timeout and identityLookupTimeout
    Changing,       \* bound: the grants and groups that change
    MaxTime         \* bound on the clock

ConstantsAssumption ==
    /\ WildcardGroups \subseteq Groups /\ User \notin Groups
    /\ {MaxAge, GroupTtl, UnresolvedTtl, ListTime, LookupTime, MaxTime} \subseteq Nat

VARIABLES
    clock,
    annotated, \* <<namespace, user or group>> in the cluster
    revoked,   \* <<namespace, user or group>> -> the last time it was taken away
    members,   \* the groups the user is in
    changed,   \* group -> the last time the user joined or left it
    cache,     \* nsCache
    list,      \* the refresh in flight
    token,     \* tokenInfoCache: the entry of the token
    req        \* the requests

directory == <<annotated, revoked, members, changed>>
vars == <<clock, directory, cache, list, token, req>>

Times == 0 .. MaxTime
Never == -1
Grants == Namespaces \X (Groups \cup {User})
Nothing == [pairs |-> {}, fetched_at |-> Never]
NoEntry == [groups |-> {}, email |-> FALSE, fetched_at |-> Never, ttl |-> 0]
NoList == [step |-> "asleep"]
Idle == [step |-> "idle"]

TypeOK ==
    /\ clock \in Times
    /\ annotated \subseteq Grants /\ revoked \in [Grants -> Times \cup {Never}]
    /\ members \subseteq Groups /\ changed \in [Groups -> Times \cup {Never}]
    /\ cache.pairs \subseteq Grants /\ cache.fetched_at \in Times \cup {Never}
    /\ list.step \in {"asleep", "listed"}
    /\ token.groups \subseteq Groups /\ token.fetched_at \in Times \cup {Never}
    /\ \A r \in Requests :
        /\ req[r].step \in {"idle", "lookup", "answered", "ready"}
        /\ req[r].step = "ready" => req[r].groups \subseteq Groups /\ req[r].email \in BOOLEAN

Init ==
    /\ clock = 0
    /\ annotated \in SUBSET Grants
    /\ revoked = [a \in Grants |-> Never]
    /\ members \in SUBSET Groups
    /\ changed = [g \in Groups |-> Never]
    /\ cache = Nothing /\ list = NoList /\ token = NoEntry
    /\ req = [r \in Requests |-> Idle]

-----------------------------------------------------------------------------
(***************************************************************************)
(* The cluster                                                             *)
(***************************************************************************)
\* What makes no call takes no time.
Tick ==
    /\ clock < MaxTime
    /\ list # NoList => clock - list.since < ListTime
    /\ \A r \in Requests :
        /\ req[r].step # "ready"
        /\ req[r].step \in {"lookup", "answered"} => clock - req[r].since < LookupTime
    /\ clock' = clock + 1
    /\ UNCHANGED <<directory, cache, list, token, req>>

Annotation(a) ==
    /\ annotated' = (annotated \ {a}) \cup ({a} \ annotated)
    /\ revoked' = IF a \in annotated THEN [revoked EXCEPT ![a] = clock] ELSE revoked
    /\ UNCHANGED <<clock, members, changed, cache, list, token, req>>

Membership(g) ==
    /\ members' = (members \ {g}) \cup ({g} \ members)
    /\ changed' = [changed EXCEPT ![g] = clock]
    /\ UNCHANGED <<clock, annotated, revoked, cache, list, token, req>>

(***************************************************************************)
(* refreshLoop and fetchAndUpdate                                          *)
(***************************************************************************)
\* How long the API server took to answer does not matter, only how long ago
\* it read the annotations.
ListAnswered ==
    /\ list = NoList
    /\ list' = [step |-> "listed", since |-> clock, pairs |-> annotated]
    /\ UNCHANGED <<clock, directory, cache, token, req>>

Update ==
    /\ list.step = "listed"
    /\ cache' = [pairs |-> list.pairs, fetched_at |-> clock]
    /\ list' = NoList
    /\ UNCHANGED <<clock, directory, token, req>>

ListFails ==
    /\ list # NoList
    /\ list' = NoList
    /\ UNCHANGED <<clock, directory, cache, token, req>>

(***************************************************************************)
(* newProxyHandler                                                         *)
(***************************************************************************)
\* Mutant: what was fetched once is served until it is replaced.
EverUsable == cache.fetched_at # Never

Usable == cache.fetched_at # Never /\ clock - cache.fetched_at <= MaxAge

\* namespacesForUser and namespacesForGroups
NamespacesOf(principals) == IF Usable THEN {a[1] : a \in {a \in cache.pairs : a[2] \in principals}} ELSE {}

Cached == token.fetched_at # Never /\ clock - token.fetched_at <= token.ttl

Ready(own, groups, email) ==
    [step |-> "ready", own |-> own, groups |-> groups, email |-> email]

\* The namespaces of the user are read before the lookup of the token.
Arrive(r) ==
    /\ req[r].step = "idle"
    /\ LET own == NamespacesOf({User})
       IN req' = [req EXCEPT ![r] = IF Cached THEN Ready(own, token.groups, token.email)
                                    ELSE [step |-> "lookup", since |-> clock, own |-> own]]
    /\ UNCHANGED <<clock, directory, cache, list, token>>

\* fetchUserInfo
LookupAnswered(r) ==
    /\ req[r].step = "lookup"
    /\ req' = [req EXCEPT ![r] = [step |-> "answered", since |-> @.since, own |-> @.own, groups |-> members]]
    /\ UNCHANGED <<clock, directory, cache, list, token>>

\* resolveIdentityEmail may fail, which the cache keeps for a shorter time.
LookupDone(r) ==
    /\ req[r].step = "answered"
    /\ \E email \in BOOLEAN :
        /\ token' = [groups |-> req[r].groups, email |-> email, fetched_at |-> clock,
                     ttl |-> IF email THEN GroupTtl ELSE UnresolvedTtl]
        /\ req' = [req EXCEPT ![r] = Ready(@.own, @.groups, email)]
    /\ UNCHANGED <<clock, directory, cache, list>>

\* Mutant: a request whose lookup failed is forwarded without groups.
LookupSkipped(r) ==
    /\ req[r].step = "lookup"
    /\ req' = [req EXCEPT ![r] = Ready(@.own, {}, FALSE)]
    /\ UNCHANGED <<clock, directory, cache, list, token>>

\* 503, or the client has gone away: nothing is cached and nothing forwarded.
LookupFails(r) ==
    /\ req[r].step \in {"lookup", "answered"}
    /\ req' = [req EXCEPT ![r] = Idle]
    /\ UNCHANGED <<clock, directory, cache, list, token>>

Headers(r) ==
    LET all == req[r].groups \cap WildcardGroups # {}
    IN [all |-> all, groups |-> req[r].groups, email |-> req[r].email,
        namespaces |-> IF all THEN {} ELSE req[r].own \cup NamespacesOf(req[r].groups)]

\* The hub gets Headers(r).
Forward(r) ==
    /\ req[r].step = "ready"
    /\ req' = [req EXCEPT ![r] = Idle]
    /\ UNCHANGED <<clock, directory, cache, list, token>>

-----------------------------------------------------------------------------
Cluster ==
    \/ \E a \in Grants \cap Changing : Annotation(a)
    \/ \E g \in Groups \cap Changing : Membership(g)

Refresh == ListAnswered \/ Update \/ ListFails

Lookup(r) == LookupAnswered(r) \/ LookupDone(r) \/ LookupFails(r)

Next ==
    \/ Tick
    \/ Cluster
    \/ Refresh
    \/ \E r \in Requests : Arrive(r) \/ Lookup(r) \/ Forward(r)

Spec == Init /\ [][Next]_vars

-----------------------------------------------------------------------------
\* What a group was within a time: changed since, or as it is now.
WasMember(g, at, time) == g \in members \/ at - changed[g] <= time
WasNotMember(g, at, time) == g \notin members \/ at - changed[g] <= time

\* How old the groups of a forwarded request may be: GROUP_CACHE_TTL_SECONDS is
\* configured, and an entry without an address is kept for the fixed time.
GroupAge == (IF GroupTtl > UnresolvedTtl THEN GroupTtl ELSE UnresolvedTtl) + LookupTime

\* How old the annotations may be: those of the user are read before the
\* lookup, those of the groups after it.
GrantAge == MaxAge + ListTime + LookupTime

WasAnnotated(a, at, time) == a \in annotated \/ at - revoked[a] <= time

\* A request carries no namespace whose annotation was taken away before the
\* cache can have kept it, and none by a group the user had left, although
\* refreshes and lookups fail, are slow, and overlap.
RevokedInTime ==
    \A r \in Requests : req[r].step = "ready" =>
        \A n \in Headers(r).namespaces :
            \/ WasAnnotated(<<n, User>>, clock, GrantAge)
            \/ \E g \in req[r].groups :
                   /\ WasAnnotated(<<n, g>>, clock, GrantAge)
                   /\ WasMember(g, clock, GroupAge)

=============================================================================
