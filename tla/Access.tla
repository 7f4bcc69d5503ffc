------------------------------- MODULE Access -------------------------------
(***************************************************************************)
(* What decides who may see what is known by copies of what other systems  *)
(* say: the spoke's (Injector), the account (SignIn, Accounts), the        *)
(* annotations of peer clusters (NamespaceAccess), the scores a list       *)
(* filters by (EffectiveScores), decisions of presence (Presence), images  *)
(* of badges (Badges) and the keys of the provider (OidcKeys).  What the   *)
(* user then sees of the CVEs there is asked anew for every view           *)
(* (CveViews).                                                             *)
(*                                                                         *)
(* But for the spoke and the account they share nothing, so a behaviour is *)
(* one of one of them: `part` says of which, and the others are off.       *)
(***************************************************************************)
EXTENDS Integers, FiniteSets

CONSTANTS
    Parts, MaxTime,                                                       \* bounds
    Requests,                                                             \* at work at the same time
    Namespaces, Groups, WildcardGroups, User, MaxAge, GroupTtl, UnresolvedTtl,
    ListTime, LookupTime, Changing,                                       \* Injector
    Lookups, TouchInterval, RequestTime, NoRow, SecTeamGroup,             \* SignIn, Accounts
    PeerPairs, MaxStaleness, LoadRetry, ColdTimeout, QueryTime,           \* NamespaceAccess
    Images, Feeds, Components, Scores,                                    \* EffectiveScores
    Users, Entities, HeartbeatTtl, AccessTtl, MaxBuckets, Moving,         \* Presence
    Tokens, Pairs, NamespaceOf, ClusterOf, SvgTtl, CacheSize, AnyOf,      \* Badges
    Keys, KeysTtl, FetchTime,                                             \* OidcKeys
    Cves, ViewPairs, Deployments, PairOf, V2Rows, LegacyRows,             \* CveViews
    Severity, Cvss, Epss, Viewers, Narrowings, Subscribed, Floors,
    EscalationRules, WarningDays, OverdueDays, Now, Candidates, All, None,
    Off

VARIABLES
    part, clock,
    annotated, revoked, members, changed, cache, list, token, spoke, user, snapshot, req,
    peers, peersRevoked, peersIndex, peersFailed, peersLock, peersLoop, peersReq,
    rows, scores, scoresFailed, scoresLock, scoresLoop, query,
    visible, hidden, viewers, access, swept, presenceReq,
    badges, deleting, spent, svgs, reader,
    published, retired, jwks, signIn,
    running, rescanned, rules, acceptances, remediations, escalations, contacted, priorities, floor, changes

proxyVars == <<annotated, revoked, members, changed, cache, list, token, spoke>>
hubVars == <<user, snapshot, req>>
peersVars == <<peers, peersRevoked, peersIndex, peersFailed, peersLock, peersLoop, peersReq>>
scoresVars == <<rows, scores, scoresFailed, scoresLock, scoresLoop, query>>
presenceVars == <<visible, hidden, viewers, access, swept, presenceReq>>
badgesVars == <<badges, deleting, spent, svgs, reader>>
keysVars == <<published, retired, jwks, signIn>>
viewsVars == <<running, rescanned, rules, acceptances, remediations, escalations, contacted, priorities, floor, changes>>
copyVars == <<proxyVars, hubVars, peersVars, scoresVars, presenceVars, badgesVars, keysVars>>
vars == <<part, clock, copyVars, viewsVars>>

Spoke == INSTANCE Injector WITH MaxTime <- MaxTime["spoke"], req <- spoke

\* Its lookups are not slow, which is Spoke.
Account == INSTANCE SignIn WITH MaxTime <- MaxTime["account"], LookupTime <- 0

Sessions == INSTANCE Accounts WITH MaxTime <- MaxTime["sessions"], Scopes <- SUBSET Namespaces

Peers == INSTANCE NamespaceAccess WITH
    MaxTime <- MaxTime["peers"], Pairs <- PeerPairs,
    annotated <- peers, revoked <- peersRevoked, index <- peersIndex,
    failed_at <- peersFailed, lock <- peersLock, loop <- peersLoop, req <- peersReq

EffScores == INSTANCE EffectiveScores WITH
    MaxTime <- MaxTime["scores"], Queries <- Requests,
    snapshot <- scores, failed_at <- scoresFailed, lock <- scoresLock, loop <- scoresLoop

\* The awaits of a request fall into one unit of the clock.
Viewing == INSTANCE Presence WITH
    MaxTime <- MaxTime["presence"], Ttl <- HeartbeatTtl, RequestTime <- 0, Changing <- Moving, req <- presenceReq

Svgs == INSTANCE Badges WITH
    MaxTime <- MaxTime["badges"], Readers <- Requests, CacheTtl <- SvgTtl,
    RenderTime <- RequestTime, cache <- svgs

Oidc == INSTANCE OidcKeys WITH
    MaxTime <- MaxTime["keys"], SignIns <- Requests, CacheTtl <- KeysTtl,
    cache <- jwks, req <- signIn

Views == INSTANCE CveViews WITH MaxChanges <- MaxTime["views"], Pairs <- ViewPairs

ASSUME ConstantsAssumption ==
    /\ Spoke!ConstantsAssumption /\ Account!ConstantsAssumption
    /\ Peers!ConstantsAssumption /\ EffScores!ConstantsAssumption
    /\ Viewing!ConstantsAssumption /\ Svgs!ConstantsAssumption /\ Oidc!ConstantsAssumption
    /\ Views!ConstantsAssumption
    /\ Parts \subseteq DOMAIN MaxTime

TypeOK ==
    /\ part \in Parts
    /\ part = "spoke" => Spoke!TypeOK
    /\ part = "account" => Account!TypeOK
    /\ part = "peers" => Peers!TypeOK
    /\ part = "scores" => EffScores!TypeOK
    /\ part = "presence" => Viewing!TypeOK
    /\ part = "badges" => Svgs!TypeOK
    /\ part = "keys" => Oidc!TypeOK
    /\ part = "views" => Views!TypeOK

Off3(a, b, c) == a = Off /\ b = Off /\ c = Off

Init ==
    /\ part \in Parts
    /\ clock = 0
    /\ IF part = "spoke" THEN Spoke!Init /\ annotated = Spoke!Grants /\ members = Groups
       ELSE IF part = "account" THEN Account!Init /\ annotated = {}
       ELSE Off3(annotated, revoked, members) /\ Off3(changed, cache, list) /\ token = Off /\ spoke = Off
    /\ IF part \in {"account", "sessions"} THEN Sessions!Init ELSE Off3(user, snapshot, req)
    /\ IF part = "peers" THEN Peers!Init
       ELSE Off3(peers, peersRevoked, peersIndex) /\ Off3(peersFailed, peersLock, peersLoop) /\ peersReq = Off
    /\ IF part = "scores" THEN EffScores!Init
       ELSE Off3(rows, scores, scoresFailed) /\ Off3(scoresLock, scoresLoop, query)
    /\ IF part = "presence" THEN Viewing!Init
       ELSE Off3(visible, hidden, viewers) /\ Off3(access, swept, presenceReq)
    /\ IF part = "badges" THEN Svgs!Init
       ELSE Off3(badges, deleting, spent) /\ svgs = Off /\ reader = Off
    /\ IF part = "keys" THEN Oidc!Init
       ELSE Off3(published, retired, jwks) /\ signIn = Off
    /\ IF part = "views" THEN Views!Init
       ELSE Off3(running, rescanned, rules) /\ Off3(acceptances, remediations, escalations)
            /\ Off3(contacted, priorities, floor) /\ changes = Off

SpokeStep ==
    /\ part = "spoke" /\ Spoke!Next
    /\ UNCHANGED <<part, hubVars, peersVars, scoresVars, presenceVars, badgesVars, keysVars, viewsVars>>

AccountStep ==
    /\ part = "account" /\ Account!Next
    /\ UNCHANGED <<part, peersVars, scoresVars, presenceVars, badgesVars, keysVars, viewsVars>>

SessionsStep ==
    /\ part = "sessions" /\ Sessions!Next
    /\ UNCHANGED <<part, proxyVars, peersVars, scoresVars, presenceVars, badgesVars, keysVars, viewsVars>>

PeersStep ==
    /\ part = "peers" /\ Peers!Next
    /\ UNCHANGED <<part, proxyVars, hubVars, scoresVars, presenceVars, badgesVars, keysVars, viewsVars>>

ScoresStep ==
    /\ part = "scores" /\ EffScores!Next
    /\ UNCHANGED <<part, proxyVars, hubVars, peersVars, presenceVars, badgesVars, keysVars, viewsVars>>

PresenceStep ==
    /\ part = "presence" /\ Viewing!Next
    /\ UNCHANGED <<part, proxyVars, hubVars, peersVars, scoresVars, badgesVars, keysVars, viewsVars>>

BadgesStep ==
    /\ part = "badges" /\ Svgs!Next
    /\ UNCHANGED <<part, proxyVars, hubVars, peersVars, scoresVars, presenceVars, keysVars, viewsVars>>

KeysStep ==
    /\ part = "keys" /\ Oidc!Next
    /\ UNCHANGED <<part, proxyVars, hubVars, peersVars, scoresVars, presenceVars, badgesVars, viewsVars>>

ViewsStep ==
    /\ part = "views" /\ Views!Next
    /\ UNCHANGED <<part, clock, copyVars>>

Next ==
    \/ SpokeStep \/ AccountStep \/ SessionsStep \/ PeersStep
    \/ ScoresStep \/ PresenceStep \/ BadgesStep \/ KeysStep \/ ViewsStep

Spec == Init /\ [][Next]_vars

-----------------------------------------------------------------------------
\* Whatever is slow, fails or overlaps: a namespace whose annotation was taken
\* away, a group or a role that was lost, an entity that is hidden, a badge
\* that was deleted and a key that was withdrawn stop counting in the time
\* the caches and calls promise.
RevokedInTime ==
    /\ part = "spoke" => Spoke!RevokedInTime
    /\ part = "account" => Account!RevokedInTime
    /\ part = "peers" => Peers!RevokedInTime
    /\ part = "presence" => Viewing!RevokedInTime
    /\ part = "badges" => Svgs!RevokedInTime
    /\ part = "keys" => Oidc!RevokedInTime

\* The stored role follows the directory in bounded time, and is not lost to a
\* lookup that fails; a stored address is never given up, whatever the spokes of
\* several clusters send of one user.
AccountFollowsDirectory ==
    [][/\ part = "account" => Account!RoleFollows
       /\ part \in {"account", "sessions"} => Sessions!AddressKept]_vars

\* A load that read the database earlier does not replace one that read later.
MovesForward ==
    [][/\ part = "peers" => Peers!Forward
       /\ part = "scores" => EffScores!Forward]_vars

\* The stores kept in memory respect their limits, whoever writes meanwhile.
CapsHold ==
    /\ part = "presence" => Viewing!CapHolds
    /\ part = "badges" => Svgs!CapHolds

\* A badge counts no pair its creator could not see, and is listed to nobody
\* who cannot see what it counts.
ScopeKept == part = "badges" => Svgs!ScopeKept

\* The list, the dashboard, the fixes, the images, the page of a CVE and the
\* preview of escalations agree on what there is, in the scope of every user.
ViewsAgree == part = "views" => Views!ViewsAgree

(***************************************************************************)
(* What the documentation says and the code does not keep                  *)
(***************************************************************************)

\* _visible_detail_pairs: "Narrowing never widens". The preview of escalations
\* takes a scope without namespaces for all of them.
NarrowingNarrows == part = "views" => Views!NarrowingNarrows

\* fix_rollup_service: "the roll-up can never show a CVE that the CVE list hides".
RollupShowsListed == part = "views" => Views!RollupShowsListed

\* The model UserNamespaceSnapshot is the "last namespace visibility seen for
\* a user at sign-in".
SnapshotWhole == part = "sessions" => Sessions!SnapshotWhole

=============================================================================
