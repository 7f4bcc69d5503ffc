-------------------------------- MODULE Badges --------------------------------
(***************************************************************************)
(* Status badges: routers/badges.py.  A badge is made with the scope its   *)
(* creator has, and shown to anybody who has its token; the process caches *)
(* the image.  Of an image only the pairs it counts and the time they were *)
(* read are kept; thresholds, label and layout are left out.               *)
(***************************************************************************)
EXTENDS Integers, FiniteSets, FiniteSetsExt, Functions

CONSTANTS
    Tokens,
    Pairs,       \* (namespace, cluster) in StackRox
    NamespaceOf, \* pair -> its namespace
    ClusterOf,   \* pair -> its cluster
    Readers,     \* requests for an image at work at the same time
    CacheTtl,    \* _SVG_CACHE_TTL
    CacheSize,   \* _SVG_CACHE_MAX_SIZE
    RenderTime,  \* what a rendering takes at most (an assumption on the server)
    AnyOf,       \* no filter
    MaxTime      \* bound on the clock

ConstantsAssumption ==
    /\ IsFiniteSet(Tokens)
    /\ NamespaceOf \in [Pairs -> Range(NamespaceOf)] /\ ClusterOf \in [Pairs -> Range(ClusterOf)]
    /\ \A p, q \in Pairs : NamespaceOf[p] = NamespaceOf[q] /\ ClusterOf[p] = ClusterOf[q] => p = q
    /\ AnyOf \notin Range(NamespaceOf) \cup Range(ClusterOf)
    /\ {RenderTime, MaxTime} \subseteq Nat /\ {CacheTtl, CacheSize} \subseteq Nat \ {0}

VARIABLES
    clock,
    badges,  \* badge_tokens: token -> badge
    deleting,\* badges whose deletion has not committed
    spent,   \* tokens of badges that were deleted -> when
    cache,   \* _svg_cache: token -> image
    reader   \* the requests

vars == <<clock, badges, deleting, spent, cache, reader>>

Times == 0 .. MaxTime
NamespaceNames == Range(NamespaceOf)
Clusters == Range(ClusterOf)
\* A stored scope, or none: the columns of the badge are its scope.
NoPairs == [stored |-> FALSE, pairs |-> {}]
Stored(pairs) == [stored |-> TRUE, pairs |-> pairs]
Badge == [namespace : NamespaceNames \cup {AnyOf}, cluster : Clusters \cup {AnyOf},
          scope : {NoPairs} \cup {Stored(s) : s \in SUBSET Pairs},
          allowed : SUBSET Pairs] \* history: what the creator could see
NotFound == [found |-> FALSE, pairs |-> {}]
Idle == [step |-> "idle"]

TypeOK ==
    /\ clock \in Times
    /\ DOMAIN badges \subseteq Tokens /\ \A t \in DOMAIN badges : badges[t] \in Badge
    /\ deleting \subseteq DOMAIN badges
    /\ DOMAIN spent \subseteq Tokens /\ spent \in [DOMAIN spent -> Times]
    /\ DOMAIN cache \subseteq Tokens
    /\ \A t \in DOMAIN cache : cache[t].pairs \subseteq Pairs /\ cache[t].at \in Times
    /\ \A r \in Readers : reader[r].step \in {"idle", "render", "shown"}

Init ==
    /\ clock = 0
    /\ badges = <<>> /\ deleting = {} /\ spent = <<>> /\ cache = <<>>
    /\ reader = [r \in Readers |-> Idle]

-----------------------------------------------------------------------------
Tick ==
    /\ clock < MaxTime
    /\ \A r \in Readers : reader[r].step = "render" => clock - reader[r].since < RenderTime
    /\ clock' = clock + 1
    /\ UNCHANGED <<badges, deleting, spent, cache, reader>>

With(f, k, v) == [x \in DOMAIN f \cup {k} |-> IF x = k THEN v ELSE f[x]]

\* _creator_scope_pairs and _stackrox_pairs
Matching(pairs, namespace, cluster) ==
    {p \in pairs : namespace \in {AnyOf, NamespaceOf[p]} /\ cluster \in {AnyOf, ClusterOf[p]}}

\* Mutant: only a filter by namespace is spelled out, the rest is rendered.
StoredForNames(wildcard, mine, namespace, cluster) ==
    IF namespace # AnyOf /\ cluster = AnyOf THEN Stored(Matching(mine, namespace, cluster)) ELSE NoPairs

\* Which scope create_badge stores: a team's own pairs, and the clusters of a
\* name; a wildcard creator's wider filters are left to the rendering.
ScopeOf(wildcard, mine, namespace, cluster) ==
    IF IF wildcard THEN namespace # AnyOf /\ cluster = AnyOf ELSE namespace = AnyOf \/ cluster = AnyOf
    THEN Stored(Matching(mine, namespace, cluster))
    ELSE NoPairs

\* create_badge: mine are the creator's pairs, all of them for a wildcard.
Create(t, wildcard, mine, namespace, cluster) ==
    /\ t \notin DOMAIN badges \cup DOMAIN spent
    /\ mine # {}
    /\ wildcard => mine = Pairs
    /\ IF wildcard
       THEN namespace # AnyOf /\ cluster = AnyOf => Matching(mine, namespace, cluster) # {}
       ELSE namespace # AnyOf \/ cluster # AnyOf => Matching(mine, namespace, cluster) # {}
    /\ badges' = With(badges, t, [namespace |-> namespace, cluster |-> cluster,
                                  scope |-> ScopeOf(wildcard, mine, namespace, cluster),
                                  allowed |-> mine])
    /\ UNCHANGED <<clock, deleting, spent, cache, reader>>

\* delete_badge: the cached image goes first, the row with the commit.
Delete(t) ==
    /\ t \in DOMAIN badges \ deleting
    /\ cache' = Restrict(cache, DOMAIN cache \ {t})
    /\ deleting' = deleting \cup {t}
    /\ UNCHANGED <<clock, badges, spent, reader>>

DeleteCommit(t) ==
    /\ t \in deleting
    /\ badges' = Restrict(badges, DOMAIN badges \ {t})
    /\ deleting' = deleting \ {t}
    /\ spent' = With(spent, t, clock)
    /\ UNCHANGED <<clock, cache, reader>>

\* _badge_scope_pairs: what a badge counts.
Counted(badge) ==
    IF badge.namespace # AnyOf /\ badge.cluster # AnyOf
    THEN Matching(Pairs, badge.namespace, badge.cluster)
    ELSE IF badge.scope.stored THEN badge.scope.pairs
    ELSE IF badge.namespace # AnyOf THEN {}
    ELSE Matching(Pairs, AnyOf, badge.cluster)

\* _user_can_see_badge, for a user who does not see all namespaces.
ListedTo(mine, badge) ==
    IF badge.namespace # AnyOf /\ badge.cluster # AnyOf
    THEN Matching(mine, badge.namespace, badge.cluster) # {}
    ELSE IF badge.namespace # AnyOf /\ badge.scope.pairs = {}
    THEN Matching(mine, badge.namespace, AnyOf) # {}
    ELSE badge.scope.pairs # {} /\ badge.scope.pairs \subseteq mine

Expired(t) == clock - cache[t].at >= CacheTtl

Shown(t, pairs) == [step |-> "shown", token |-> t, at |-> clock, pairs |-> pairs]

\* get_badge_svg: from the cache, or the row is read and rendered.
Ask(r, t) ==
    /\ reader[r].step \in {"idle", "shown"}
    /\ reader' = [reader EXCEPT ![r] =
           IF t \in DOMAIN cache /\ ~Expired(t) THEN Shown(t, cache[t].pairs)
           ELSE IF t \in DOMAIN badges
           THEN [step |-> "render", token |-> t, since |-> clock, pairs |-> Counted(badges[t])]
           ELSE Idle]
    /\ UNCHANGED <<clock, badges, deleting, spent, cache>>

\* _evict_svg_cache: the expired ones, then the oldest, until one has room.
Kept == {t \in DOMAIN cache : ~Expired(t)}
Evict(size) ==
    IF Cardinality(Kept) < CacheSize THEN {Kept}
    ELSE {s \in SUBSET Kept : /\ Cardinality(s) = size
                              /\ \A t \in Kept \ s, u \in s : cache[t].at <= cache[u].at}

\* Mutant: as many as are too many go, and none for the one that comes.
EvictedToLimit == Evict(CacheSize)

Evicted == Evict(CacheSize - 1)

\* A badge that counts nothing is not cached.
Render(r) ==
    /\ reader[r].step = "render"
    /\ LET t == reader[r].token
           pairs == reader[r].pairs
           room == IF Cardinality(DOMAIN cache) >= CacheSize THEN Evicted ELSE {DOMAIN cache}
       IN /\ IF pairs = {} THEN UNCHANGED cache
             ELSE \E s \in room :
                    cache' = With(Restrict(cache, s), t, [pairs |-> pairs, at |-> clock])
          /\ reader' = [reader EXCEPT ![r] = Shown(t, pairs)]
    /\ UNCHANGED <<clock, badges, deleting, spent>>

\* The process ends: a deletion that has not committed did not happen.
Restart ==
    /\ cache' = <<>> /\ deleting' = {}
    /\ reader' = [r \in Readers |-> Idle]
    /\ UNCHANGED <<clock, badges, spent>>

-----------------------------------------------------------------------------
Next ==
    \/ Tick
    \/ \E t \in Tokens, wildcard \in BOOLEAN, mine \in SUBSET Pairs,
          namespace \in NamespaceNames \cup {AnyOf}, cluster \in Clusters \cup {AnyOf} :
              Create(t, wildcard, mine, namespace, cluster)
    \/ \E t \in Tokens : Delete(t) \/ DeleteCommit(t)
    \/ \E r \in Readers, t \in Tokens : Ask(r, t)
    \/ \E r \in Readers : Render(r)
    \/ Restart

Spec == Init /\ [][Next]_vars

-----------------------------------------------------------------------------
\* A deleted badge is not shown for longer than the cache keeps an image and
\* a rendering takes, although a rendering may store its image after the
\* deletion has emptied the cache.
RevokedInTime ==
    \A r \in Readers : reader[r].step = "shown" =>
        \/ reader[r].token \in DOMAIN badges
        \/ reader[r].at - spent[reader[r].token] < CacheTtl + RenderTime

\* The cache does not grow beyond its limit, whoever renders meanwhile.
CapHolds == Cardinality(DOMAIN cache) <= CacheSize

\* A badge counts no pair its creator could not see, whatever part of the
\* filter is given and however names repeat across clusters, and nobody is
\* listed a badge that counts what they cannot see.
ScopeKept ==
    \A t \in DOMAIN badges :
        /\ Counted(badges[t]) \subseteq badges[t].allowed
        /\ \A mine \in SUBSET Pairs : ListedTo(mine, badges[t]) => Counted(badges[t]) \subseteq mine

=============================================================================
