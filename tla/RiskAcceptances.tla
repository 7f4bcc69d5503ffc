--------------------------- MODULE RiskAcceptances ---------------------------
(***************************************************************************)
(* The risk acceptance workflow: the handlers of                           *)
(* backend/app/routers/risk_acceptances.py, the confirm mode of the Excel  *)
(* import in routers/exports.py and the nightly run_expiry_check of        *)
(* tasks/scheduler.py, all over the one table risk_acceptances.            *)
(*                                                                         *)
(* A handler is two or three steps: the SELECT that loads what it decides  *)
(* on, a duplicate check where it has one, and the flush and commit.  Any  *)
(* other request or the job may commit in between.  Flush and commit are   *)
(* one step: the flush takes the row lock (or the unique index entry) and  *)
(* whoever waits for it goes on with the committed row.                    *)
(*                                                                         *)
(* A scope stands for the normalised scope and its scope_key (the key is   *)
(* a digest of the scope, taken as injective).  reviewed_at and            *)
(* justification are left out: no guard reads them.                        *)
(***************************************************************************)
EXTENDS Integers, FiniteSets, Functions, UnitOfWork

CONSTANTS
    Clients,       \* browser tabs or API clients, one request at a time each
    UserOf,        \* the user a client is signed in as
    SecUsers,      \* users with the role sec_team
    Acceptances,   \* primary keys (UUIDs), never used twice
    CVEs,
    Scopes,        \* normalised scopes the users can ask for
    SingleTeam,    \* the scopes with exactly one (cluster, namespace)
    ImportScopes,  \* the scopes of mode namespace, all the import can build
    MaxTime,       \* bound: the clock stops here
    Dates,         \* the values of expires_at the users choose from
    Null           \* no expiry date, no reviewer, no assignee

Users == {UserOf[c] : c \in Clients}

ASSUME ConstantsAssumption ==
    /\ SecUsers \subseteq Users
    /\ SingleTeam \subseteq Scopes
    /\ ImportScopes \subseteq Scopes
    /\ MaxTime \in Nat
    /\ Dates \subseteq Nat \cup {Null}
    /\ Null \notin Users \cup Scopes

VARIABLES
    table,  \* risk_acceptances: primary key -> row
    used,   \* primary keys handed out so far
    req,    \* the request each client has in flight
    job,    \* the rows the running expiry check loaded; {} between runs
    now,    \* utcnow(), in whatever unit separates the expiry dates
    overtaken  \* history: acceptances an edit was stored over that had not
               \* loaded the submission or the verdict it was stored over

vars == <<table, used, req, job, now, overtaken>>

(***************************************************************************)
(* Rows and requests                                                       *)
(***************************************************************************)
RiskStatus == {"requested", "approved", "rejected", "expired"}
ActiveStatus == {"requested", "approved"}

Row == [cve_id      : CVEs,
        scope       : Scopes,
        status      : RiskStatus,
        expires_at  : Dates,
        created_by  : Users,
        reviewed_by : SecUsers \cup {Null},
        assigned_to : SecUsers \cup {Null}]

\* A request that is about to insert rows, to write one loaded row back
\* (an update has its duplicate check ahead until "checked"), or to delete.
Idle == [op |-> "idle"]
InsertRequest == [op : {"create", "import"}, rows : SUBSET Row]
WriteRequest == [op      : {"update", "review", "assign"},
                 ra      : Acceptances,
                 loaded  : Row,
                 new     : Row,
                 checked : BOOLEAN]
CancelRequest == [op : {"cancel"}, ra : Acceptances]

TypeOK ==
    /\ used \subseteq Acceptances
    /\ DOMAIN table \subseteq used
    /\ table \in [DOMAIN table -> Row]
    /\ req \in [Clients -> {Idle} \cup InsertRequest
                                  \cup WriteRequest \cup CancelRequest]
    /\ job \subseteq used
    /\ now \in 0..MaxTime
    /\ overtaken \subseteq used

Init ==
    /\ table = [r \in {} |-> r]
    /\ used = {}
    /\ req = [c \in Clients |-> Idle]
    /\ job = {}
    /\ now = 0
    /\ overtaken = {}

(***************************************************************************)
(* The partial unique index uq_risk_acceptances_active_scope, and the      *)
(* query the handlers run ahead of it.                                     *)
(***************************************************************************)
IsActive(row) == row.status \in ActiveStatus

SameKey(r1, r2) == r1.cve_id = r2.cve_id /\ r1.scope = r2.scope

\* SELECT ... WHERE cve_id, scope_key AND status IN (requested, approved).
ExistingActive(row, except) ==
    {r \in DOMAIN table \ except : IsActive(table[r]) /\ SameKey(table[r], row)}

\* Mutant: the migration's predicate names approved alone.
IndexOnApproved(row, except) ==
    row.status = "approved" /\ ExistingActive(row, except) # {}

\* Would the index refuse `row' next to every stored row outside `except'?
ViolatesIndex(row, except) ==
    IsActive(row) /\ ExistingActive(row, except) # {}

(***************************************************************************)
(* Shared by the handlers                                                  *)
(***************************************************************************)
IsSec(c) == UserOf[c] \in SecUsers

\* The request ends: committed, refused with an error status, or dropped.
Done(c) == req' = [req EXCEPT ![c] = Idle]

Begin(c, request) ==
    /\ req[c] = Idle
    /\ req' = [req EXCEPT ![c] = request]
    /\ UNCHANGED <<table, used, job, now, overtaken>>

\* The status a submitted or resubmitted scope gets: single-team scopes are
\* approved on the spot, any other waits for the security team.
SubmittedStatus(scope) ==
    IF scope \in SingleTeam THEN "approved" ELSE "requested"

NewRow(c, cve, scope, status, expires_at) ==
    [cve_id |-> cve, scope |-> scope, status |-> status,
     expires_at |-> expires_at, created_by |-> UserOf[c],
     reviewed_by |-> Null, assigned_to |-> Null]

\* UPDATE of the attributes that differ from the loaded row.
Merge(stored, loaded, new) ==
    [cve_id      |-> Written(stored.cve_id, loaded.cve_id, new.cve_id),
     scope       |-> Written(stored.scope, loaded.scope, new.scope),
     status      |-> Written(stored.status, loaded.status, new.status),
     expires_at  |-> Written(stored.expires_at, loaded.expires_at, new.expires_at),
     created_by  |-> Written(stored.created_by, loaded.created_by, new.created_by),
     reviewed_by |-> Written(stored.reviewed_by, loaded.reviewed_by, new.reviewed_by),
     assigned_to |-> Written(stored.assigned_to, loaded.assigned_to, new.assigned_to)]

(***************************************************************************)
(* POST /risk-acceptances: check for a duplicate, insert.                  *)
(***************************************************************************)
CreateCheck(c) ==
    \E cve \in CVEs, scope \in Scopes, expires_at \in Dates :
        LET row == NewRow(c, cve, scope, SubmittedStatus(scope), expires_at) IN
        /\ ~IsSec(c)
        /\ ExistingActive(row, {}) = {}
        /\ Begin(c, [op |-> "create", rows |-> {row}])

(***************************************************************************)
(* POST /exports/excel/import?confirm=true: one item after the other is    *)
(* checked against the table and the items before it, an existing one is   *)
(* skipped; one commit for all.  Every item is stored as requested.        *)
(***************************************************************************)
ImportItem(c) ==
    \E cve \in CVEs, scope \in ImportScopes, expires_at \in Dates :
        LET row == NewRow(c, cve, scope, "requested", expires_at)
            earlier == IF req[c] = Idle THEN {} ELSE req[c].rows IN
        /\ ~IsSec(c)
        /\ req[c] = Idle \/ req[c].op = "import"
        /\ ExistingActive(row, {}) = {}
        /\ \A other \in earlier : ~SameKey(other, row)
        /\ req' = [req EXCEPT ![c] = [op |-> "import", rows |-> earlier \cup {row}]]
        /\ UNCHANGED <<table, used, job, now, overtaken>>

\* The flush of the new rows and the commit.  A row the unique index refuses
\* raises IntegrityError: nothing of the transaction stays.
InsertCommit(c) ==
    /\ req[c].op \in {"create", "import"}
    /\ \A row \in req[c].rows : ~ViolatesIndex(row, {})
    /\ \E ids \in SUBSET (Acceptances \ used) :
       \E stored \in Bijection(ids, req[c].rows) :
           /\ table' = [r \in DOMAIN table \cup ids |->
                            IF r \in ids THEN stored[r] ELSE table[r]]
           /\ used' = used \cup ids
    /\ Done(c)
    /\ UNCHANGED <<job, now, overtaken>>

InsertRefused(c) ==
    /\ req[c].op \in {"create", "import"}
    /\ \E row \in req[c].rows : ViolatesIndex(row, {})
    /\ Done(c)
    /\ UNCHANGED <<table, used, job, now, overtaken>>

(***************************************************************************)
(* PUT /risk-acceptances/{ra_id}: the creator edits an approved or         *)
(* rejected acceptance.  The duplicate check runs only when the scope      *)
(* changes.                                                                *)
(***************************************************************************)
EditableStatus == {"approved", "rejected"}

\* Mutants: the status, or the reviewer, survives the edit.
KeepsStatus(row, scope, expires_at) ==
    [row EXCEPT !.scope = scope, !.expires_at = expires_at, !.reviewed_by = Null]
KeepsReviewer(row, scope, expires_at) ==
    [row EXCEPT !.scope = scope, !.expires_at = expires_at,
                !.status = SubmittedStatus(scope)]

Resubmitted(row, scope, expires_at) ==
    [row EXCEPT !.scope = scope, !.expires_at = expires_at,
                !.status = SubmittedStatus(scope), !.reviewed_by = Null]

UpdateLoad(c, ra) ==
    \E scope \in Scopes, expires_at \in Dates :
        /\ ~IsSec(c)
        /\ ra \in DOMAIN table
        /\ table[ra].created_by = UserOf[c]
        /\ table[ra].status \in EditableStatus
        /\ Begin(c, [op |-> "update", ra |-> ra, loaded |-> table[ra],
                     new |-> Resubmitted(table[ra], scope, expires_at),
                     checked |-> FALSE])

UpdateCheck(c) ==
    LET request == req[c]
        duplicate == /\ request.new.scope # request.loaded.scope
                     /\ ExistingActive(request.new, {request.ra}) # {} IN
    /\ request.op = "update" /\ ~request.checked
    /\ req' = [req EXCEPT ![c] =
                  IF duplicate THEN Idle ELSE [request EXCEPT !.checked = TRUE]]
    /\ UNCHANGED <<table, used, job, now, overtaken>>

(***************************************************************************)
(* PATCH /risk-acceptances/{ra_id} and POST .../assign, by sec_team on a   *)
(* requested acceptance; DELETE by its creator or sec_team in any status.  *)
(***************************************************************************)
SignedIfApproved(row, verdict, reviewer) ==  \* mutant
    [row EXCEPT !.status = verdict,
                !.reviewed_by = IF verdict = "approved" THEN reviewer ELSE @]

Reviewed(row, verdict, reviewer) ==
    [row EXCEPT !.status = verdict, !.reviewed_by = reviewer]

ReviewLoad(c, ra) ==
    \E verdict \in {"approved", "rejected"} :
        /\ IsSec(c)
        /\ ra \in DOMAIN table
        /\ table[ra].status = "requested"
        /\ Begin(c, [op |-> "review", ra |-> ra, loaded |-> table[ra],
                     new |-> Reviewed(table[ra], verdict, UserOf[c]),
                     checked |-> TRUE])

AnyUser == Users  \* mutant

Assignees == SecUsers

AssignLoad(c, ra) ==
    \E assignee \in Assignees :
        /\ IsSec(c)
        /\ ra \in DOMAIN table
        /\ table[ra].status = "requested"
        /\ Begin(c, [op |-> "assign", ra |-> ra, loaded |-> table[ra],
                     new |-> [table[ra] EXCEPT !.assigned_to = assignee],
                     checked |-> TRUE])

CancelLoad(c, ra) ==
    /\ ra \in DOMAIN table
    /\ IsSec(c) \/ table[ra].created_by = UserOf[c]
    /\ Begin(c, [op |-> "cancel", ra |-> ra])

\* The flush and commit of an update, a review or an assignment.
IsWrite(c) == req[c].op \in {"update", "review", "assign"} /\ req[c].checked

Merged(c) == Merge(table[req[c].ra], req[c].loaded, req[c].new)

\* Mutant: the row is stored whether it is still there or not.
WriteUpserts(c) ==
    LET ra == req[c].ra
        row == IF ra \in DOMAIN table THEN Merged(c) ELSE req[c].new IN
    /\ IsWrite(c)
    /\ ~ViolatesIndex(row, {ra})
    /\ table' = [r \in DOMAIN table \cup {ra} |-> IF r = ra THEN row ELSE table[r]]
    /\ Done(c)
    /\ UNCHANGED <<used, job, now, overtaken>>

\* The edit was loaded before another request submitted or judged what is
\* stored by now.  That the job has expired it meanwhile does not count.
Overtakes(c) ==
    LET stored == table[req[c].ra]
        loaded == req[c].loaded
    IN  /\ req[c].op = "update"
        /\ \/ stored.scope # loaded.scope
           \/ stored.reviewed_by # loaded.reviewed_by
           \/ stored.status \notin {loaded.status, "expired"}

WriteCommit(c) ==
    /\ IsWrite(c)
    /\ req[c].ra \in DOMAIN table
    /\ ~ViolatesIndex(Merged(c), {req[c].ra})
    /\ table' = [table EXCEPT ![req[c].ra] = Merged(c)]
    /\ overtaken' = overtaken \cup {ra \in {req[c].ra} : Overtakes(c)}
    /\ Done(c)
    /\ UNCHANGED <<used, job, now>>

\* The row is gone (StaleDataError) or the index refuses it (IntegrityError).
WriteRefused(c) ==
    /\ IsWrite(c)
    /\ req[c].ra \in DOMAIN table => ViolatesIndex(Merged(c), {req[c].ra})
    /\ Done(c)
    /\ UNCHANGED <<table, used, job, now, overtaken>>

\* DELETE ... WHERE id: a row that is gone already is only warned about.
CancelCommit(c) ==
    /\ req[c].op = "cancel"
    /\ table' = Restrict(table, DOMAIN table \ {req[c].ra})
    /\ Done(c)
    /\ UNCHANGED <<used, job, now, overtaken>>

\* The process dies or the handler raises before it commits: rolled back.
Abort(c) ==
    /\ req[c] # Idle
    /\ Done(c)
    /\ UNCHANGED <<table, used, job, now, overtaken>>

(***************************************************************************)
(* run_expiry_check: load the approved rows past their date, assign        *)
(* expired to each, one commit for all of them.  A run that finds no row   *)
(* changes nothing and is left out.                                        *)
(***************************************************************************)
PastExpiry(row) == row.expires_at # Null /\ row.expires_at < now

\* Mutant: only reviewed acceptances expire.
ExpiryOfReviewed ==
    /\ job = {}
    /\ job' = {r \in DOMAIN table : /\ table[r].status = "approved"
                                    /\ table[r].reviewed_by # Null
                                    /\ PastExpiry(table[r])}
    /\ UNCHANGED <<table, used, req, now, overtaken>>

ExpiryLoad ==
    /\ job = {}
    /\ job' = {r \in DOMAIN table : table[r].status = "approved" /\ PastExpiry(table[r])}
    /\ UNCHANGED <<table, used, req, now, overtaken>>

ExpiryCommit ==
    /\ job # {}
    /\ job \subseteq DOMAIN table
    /\ table' = [r \in DOMAIN table |->
                    IF r \in job THEN [table[r] EXCEPT !.status = "expired"] ELSE table[r]]
    /\ job' = {}
    /\ UNCHANGED <<used, req, now, overtaken>>

\* A loaded row was deleted meanwhile (StaleDataError), or the worker dies:
\* the whole run is rolled back, the next night starts over.
ExpiryAbort ==
    /\ job # {}
    /\ job' = {}
    /\ UNCHANGED <<table, used, req, now, overtaken>>

Tick ==
    /\ now < MaxTime
    /\ now' = now + 1
    /\ UNCHANGED <<table, used, req, job, overtaken>>

-----------------------------------------------------------------------------
Handler(c) ==
    \/ CreateCheck(c)
    \/ ImportItem(c)
    \/ InsertCommit(c)
    \/ InsertRefused(c)
    \/ \E ra \in Acceptances : \/ UpdateLoad(c, ra)
                               \/ ReviewLoad(c, ra)
                               \/ AssignLoad(c, ra)
                               \/ CancelLoad(c, ra)
    \/ UpdateCheck(c)
    \/ WriteCommit(c)
    \/ WriteRefused(c)
    \/ CancelCommit(c)
    \/ Abort(c)

Next ==
    \/ \E c \in Clients : Handler(c)
    \/ ExpiryLoad
    \/ ExpiryCommit
    \/ ExpiryAbort
    \/ Tick

Spec == Init /\ [][Next]_vars

-----------------------------------------------------------------------------
(***************************************************************************)
(* What holds however many tabs and reviewers are active                   *)
(***************************************************************************)

\* At most one requested or approved acceptance exists per CVE and scope,
\* although the handlers look for duplicates in one step and write in a later
\* one, and although an update that keeps its scope does not look at all.
ActiveScopeUnique ==
    \A r1, r2 \in DOMAIN table :
        IsActive(table[r1]) /\ IsActive(table[r2]) /\ SameKey(table[r1], table[r2])
            => r1 = r2

\* A deleted acceptance does not come back: a review, an update, a second
\* delete or the expiry job that still holds the loaded row cannot store it.
DeletedStaysDeleted ==
    [][\A r \in used : r \notin DOMAIN table => r \notin DOMAIN table']_vars

\* A night's run ends in one way or the other.  It may be rolled back by a
\* single deleted row or a restart, but not every night; the scheduler starts
\* it again the next one.
Fairness ==
    /\ WF_vars(ExpiryLoad)
    /\ WF_vars(ExpiryCommit \/ ExpiryAbort)
    /\ SF_vars(ExpiryCommit)

FairSpec == Spec /\ Fairness

\* An approved acceptance past its date does not stay in force for ever,
\* whatever its creator and the reviewers keep doing to it and to others.
PastExpiryEnds ==
    \A r \in Acceptances :
        (r \in DOMAIN table /\ table[r].status = "approved" /\ PastExpiry(table[r]))
            ~> ~(r \in DOMAIN table /\ table[r].status = "approved" /\ PastExpiry(table[r]))

(***************************************************************************)
(* What the workflow promises about verdicts.  A creator who edits an      *)
(* acceptance in two tabs, or edits it while a late review commits, may    *)
(* store a mixture of two submissions; nobody else can.                    *)
(***************************************************************************)
SpansTeams(row) == row.scope \notin SingleTeam

\* An approved acceptance that spans teams, and a rejected one, names the member
\* of the security team who decided, however many of them judge and assign at
\* once: a signature is lost to nothing but an edit stored over what its creator
\* had not loaded.
VerdictsAreSigned ==
    \A r \in DOMAIN table \ overtaken :
        \/ table[r].status = "approved" /\ SpansTeams(table[r])
        \/ table[r].status = "rejected"
        => table[r].reviewed_by # Null

\* The abstract workflow this one implements, read off the table.
Stored(r) == r \in DOMAIN table

Gate == INSTANCE ReviewGate WITH
    NoScope <- Null, Nobody <- Null, Reviewers <- SecUsers,
    asked  <- [r \in Acceptances |-> IF Stored(r) THEN table[r].scope ELSE Null],
    covers <- [r \in Acceptances |-> Stored(r) /\ table[r].status = "approved"],
    signer <- [r \in Acceptances |-> IF Stored(r) THEN table[r].reviewed_by ELSE Null]

\* Every commit is a submission, a signed verdict on the submitted scope, an
\* expiry or a deletion, or it is an edit that overtook and is remembered as one:
\* no other mixture of the writes of requests and the job is anything else.
ImplementsReviewGate == Gate!Spec

(***************************************************************************)
(* What the documentation says and the code does not keep                  *)
(***************************************************************************)

\* docs/user-guide.md: scopes "spanning several namespaces are reviewed by
\* sec_team".  Two tabs of the creator stretch an automatic approval over one.
SpanningScopesAreReviewed ==
    \A r \in DOMAIN table :
        table[r].status = "approved" /\ SpansTeams(table[r])
            => table[r].reviewed_by # Null

\* app/i18n.py: "Only requested risk acceptances can be reviewed".  Two reviewers
\* who both loaded one as requested judge it one after the other.
OnlyRequestedReviewed ==
    [][\A c \in Clients :
        (req[c].op = "review" /\ req'[c] = Idle /\ table' # table)
            => table[req[c].ra].status = "requested"]_vars

\* The reviewer decides on the scope and the date shown.  Between load and
\* commit another verdict and a resubmission may replace them.
VerdictOnWhatWasRead ==
    [][\A c \in Clients :
        (req[c].op = "review" /\ req'[c] = Idle /\ table' # table)
            => LET r == req[c].ra IN
               /\ table'[r].scope = req[c].loaded.scope
               /\ table'[r].expires_at = req[c].loaded.expires_at]_vars

\* docs/configuration.md: the job marks acceptances "once past their expiry
\* date".  One that was renewed while the job ran is not past it.
OnlyPastExpiryExpires ==
    [][\A r \in DOMAIN table \cap DOMAIN table' :
        (table[r].status # "expired" /\ table'[r].status = "expired")
            => PastExpiry(table[r])]_vars

=============================================================================
