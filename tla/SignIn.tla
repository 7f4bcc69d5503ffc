------------------------------- MODULE SignIn -------------------------------
(***************************************************************************)
(* A user whose requests reach the hub through a spoke: the auth header    *)
(* injector (Injector) and, at the hub, the account (Accounts).  What the  *)
(* spoke has found out, possibly a while ago, is what the hub believes.    *)
(***************************************************************************)
EXTENDS Integers

CONSTANTS
    Lookups, Namespaces, Groups, WildcardGroups, User, MaxAge, GroupTtl,
    UnresolvedTtl, ListTime, LookupTime, MaxTime,            \* Injector
    Requests, TouchInterval, RequestTime, NoRow,             \* Accounts
    SecTeamGroup                                             \* SEC_TEAM_GROUP

VARIABLES clock, annotated, revoked, members, changed, cache, list, token, spoke, user, snapshot, req

hub == <<user, snapshot, req>>
proxy == <<annotated, revoked, members, changed, cache, list, token, spoke>>
vars == <<clock, proxy, hub>>

Inject == INSTANCE Injector WITH Requests <- Lookups, Changing <- Groups, req <- spoke
Hub == INSTANCE Accounts WITH Scopes <- SUBSET Namespaces

ConstantsAssumption ==
    /\ Inject!ConstantsAssumption /\ Hub!ConstantsAssumption
    /\ SecTeamGroup \in Groups

TypeOK == Inject!TypeOK /\ Hub!TypeOK

Init == Inject!Init /\ Hub!Init

\* The role follows from the groups that were forwarded.
Believed(h) ==
    [sec |-> SecTeamGroup \in h.groups, email |-> h.email, all |-> h.all, namespaces |-> h.namespaces]

Forwarded(p, r) ==
    /\ Inject!Forward(p)
    /\ Hub!Arrive(r, Believed(Inject!Headers(p)))

Tick == Inject!Tick /\ Hub!InTime /\ UNCHANGED hub

\* What the spoke knows of namespaces is Injector: here it knows none.
SpokeStep ==
    /\ \/ \E g \in Groups : Inject!Membership(g)
       \/ \E p \in Lookups : Inject!Arrive(p) \/ Inject!Lookup(p)
    /\ UNCHANGED hub

HubStep == (\E r \in Requests : Hub!Serve(r)) /\ UNCHANGED proxy

Next ==
    \/ Tick
    \/ SpokeStep
    \/ \E p \in Lookups, r \in Requests : Forwarded(p, r)
    \/ HubStep

Spec == Init /\ [][Next]_vars

-----------------------------------------------------------------------------
\* How old the membership may be that a request is believed to have.
RoleAge == Inject!GroupAge + RequestTime

Was(sec, age) == IF sec THEN Inject!WasMember(SecTeamGroup, clock, age) ELSE Inject!WasNotMember(SecTeamGroup, clock, age)

\* The role in the table becomes what the user's groups made it a bounded time
\* before, although lookups fail, entries are kept and requests overlap: no
\* failed lookup takes it away and no old request brings it back.  An address
\* is never given up.
RoleFollows == user' # NoRow /\ (user = NoRow \/ user.sec # user'.sec) => Was(user'.sec, RoleAge)

AccountFollowsDirectory == [][RoleFollows /\ Hub!AddressKept]_vars

\* A request that is about to be served acts in a role the groups gave the
\* user a bounded time before.
RevokedInTime ==
    \A r \in Requests : req[r].step \in {"known", "snapshot"} => Was(req[r].row.sec, 2 * RequestTime + Inject!GroupAge)

=============================================================================
