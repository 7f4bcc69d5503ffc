------------------------------- MODULE Accounts -------------------------------
(***************************************************************************)
(* The account and the namespace snapshot of one user of a spoke, which    *)
(* every request to the hub brings up to date before it is served:         *)
(* auth/middleware.py and record_namespace_snapshot of                     *)
(* services/namespace_snapshot.py.                                         *)
(*                                                                         *)
(* A request has a session of its own and writes the columns it changes,   *)
(* which it finds by comparing what it wants with what it has read.  The   *)
(* id, the username and the full name, which name the user, do not change  *)
(* here; a username another account has taken is one of the failures.      *)
(***************************************************************************)
EXTENDS Integers

CONSTANTS
    Requests,       \* requests of the user at work at the same time
    Scopes,         \* what the header may name: sets of namespaces
    TouchInterval,  \* _TOUCH_INTERVAL
    RequestTime,    \* bound on the time a request takes
    MaxTime,        \* bound on the clock
    NoRow

Row == [sec : BOOLEAN, email : BOOLEAN]

ConstantsAssumption == {TouchInterval, RequestTime, MaxTime} \subseteq Nat /\ NoRow \notin Row

VARIABLES
    clock,
    user,      \* the row of users: the role, and whether the address is a real one
    snapshot,  \* the row of user_namespace_snapshots
    req        \* the requests

vars == <<clock, user, snapshot, req>>

\* What a spoke sends: Headers of Injector.
Headers == {h \in [sec : BOOLEAN, email : BOOLEAN, all : BOOLEAN, namespaces : Scopes] : h.all => h.namespaces = {}}
ScopeOf(h) == [all |-> h.all, namespaces |-> h.namespaces]
Idle == [step |-> "idle"]
Steps == {"arrived", "create", "created", "loaded", "synced", "known", "snapshot"}

TypeOK ==
    /\ user \in Row \cup {NoRow}
    /\ snapshot # NoRow => snapshot.seen <= clock
    /\ \A r \in Requests : req[r] # Idle =>
        req[r].step \in Steps /\ req[r].headers \in Headers /\ req[r].row \in Row \cup {NoRow}

Init ==
    /\ user = NoRow /\ snapshot = NoRow
    /\ req = [r \in Requests |-> Idle]

\* The request leaves: it is served, or answered with an error.
Served(r) == req' = [req EXCEPT ![r] = Idle]
Step(r, step) == req' = [req EXCEPT ![r].step = step]
Reads(r, step) == req' = [req EXCEPT ![r].step = step, ![r].row = user]

-----------------------------------------------------------------------------
(***************************************************************************)
(* _handle_spoke_proxy                                                     *)
(***************************************************************************)
\* The namespaces of peer clusters are NamespaceAccess.
Arrive(r, h) ==
    /\ req[r] = Idle
    /\ req' = [req EXCEPT ![r] = [step |-> "arrived", since |-> clock, headers |-> h, row |-> NoRow, saw |-> NoRow]]
    /\ UNCHANGED <<user, snapshot>>

\* _get_or_create_user
Load(r) ==
    /\ req[r].step = "arrived"
    /\ Reads(r, IF user = NoRow THEN "create" ELSE "loaded")
    /\ UNCHANGED <<user, snapshot>>

Create(r) ==
    /\ req[r].step = "create"
    /\ user = NoRow
    /\ user' = [sec |-> req[r].headers.sec, email |-> req[r].headers.email]
    /\ Step(r, "created")
    /\ UNCHANGED snapshot

Refreshed(r) ==
    /\ req[r].step \in {"created", "synced"}
    /\ Reads(r, IF req[r].step = "created" THEN "loaded" ELSE "known")
    /\ UNCHANGED <<user, snapshot>>

\* _sync_user_fields: an address is adopted, and never given up.
Adopted(row, h) == [sec |-> h.sec, email |-> row.email \/ h.email]

Sync(r) ==
    /\ req[r].step = "loaded"
    /\ LET read == req[r].row
           wanted == Adopted(read, req[r].headers)
       IN /\ user' = [f \in {"sec", "email"} |-> IF wanted[f] # read[f] THEN wanted[f] ELSE user[f]]
          /\ Step(r, IF wanted = read THEN "known" ELSE "synced")
    /\ UNCHANGED snapshot

\* A commit that fails, a primary key or a username that is taken: the request
\* is answered with an error.
Fail(r) ==
    /\ req[r].step \in {"arrived", "create", "created", "loaded", "synced"}
    /\ Served(r)
    /\ UNCHANGED <<user, snapshot>>

(***************************************************************************)
(* record_namespace_snapshot                                               *)
(***************************************************************************)
Fresh(row, h) == row.hash = ScopeOf(h) /\ clock - row.seen < TouchInterval

LoadSnapshot(r) ==
    /\ req[r].step = "known"
    /\ IF snapshot # NoRow /\ Fresh(snapshot, req[r].headers)
       THEN Served(r)
       ELSE req' = [req EXCEPT ![r].saw = snapshot, ![r].step = "snapshot"]
    /\ UNCHANGED <<user, snapshot>>

\* The session writes the columns that differ from those it has read.
Written(saw, h) ==
    LET wanted == [hash |-> ScopeOf(h), all |-> h.all, namespaces |-> h.namespaces, seen |-> clock]
    IN IF saw = NoRow THEN wanted
       ELSE [f \in DOMAIN wanted |-> IF wanted[f] # saw[f] THEN wanted[f] ELSE snapshot[f]]

StoreSnapshot(r) ==
    /\ req[r].step = "snapshot"
    /\ req[r].saw = NoRow => snapshot = NoRow
    /\ snapshot' = Written(req[r].saw, req[r].headers)
    /\ Served(r)
    /\ UNCHANGED user

\* get_current_user: a snapshot that cannot be written never blocks a request.
SnapshotFails(r) ==
    /\ req[r].step \in {"known", "snapshot"}
    /\ Served(r)
    /\ UNCHANGED <<user, snapshot>>

Account(r) == Load(r) \/ Create(r) \/ Refreshed(r) \/ Sync(r) \/ Fail(r)
Record(r) == LoadSnapshot(r) \/ StoreSnapshot(r) \/ SnapshotFails(r)

Serve(r) == (Account(r) \/ Record(r)) /\ UNCHANGED clock

-----------------------------------------------------------------------------
\* The spokes of several clusters may send what they like of one user: the id
\* of the account names the user only.
Sent == \E r \in Requests, h \in Headers : Arrive(r, h) /\ UNCHANGED clock

\* A request is answered within RequestTime.
InTime == \A r \in Requests : req[r].step # "idle" => clock - req[r].since < RequestTime

Tick ==
    /\ clock < MaxTime /\ InTime
    /\ clock' = clock + 1
    /\ UNCHANGED <<user, snapshot, req>>

Next == Tick \/ Sent \/ \E r \in Requests : Serve(r)

-----------------------------------------------------------------------------
\* An address is never given up.
AddressKept == user # NoRow => user' # NoRow /\ (user.email => user'.email)

\* "Last namespace visibility seen for a user at sign-in": the row is what
\* some request saw, its hash the hash of what it says.
SnapshotWhole == snapshot # NoRow => snapshot.hash = [all |-> snapshot.all, namespaces |-> snapshot.namespaces]

=============================================================================
