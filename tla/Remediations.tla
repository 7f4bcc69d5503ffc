----------------------------- MODULE Remediations -----------------------------
(***************************************************************************)
(* Remediations: backend/app/routers/remediations.py with                  *)
(* services/remediation_service.py, and the nightly                        *)
(* run_remediation_auto_resolve of tasks/scheduler.py.                     *)
(*                                                                         *)
(* As in RiskAcceptances a request is a load, which decides, and a flush   *)
(* and commit, which writes the attributes that changed (UnitOfWork).      *)
(* Assignee, target date, notes, reason and resolved_by are left out: no   *)
(* guard reads them.  A PATCH without a status writes nothing else.        *)
(***************************************************************************)
EXTENDS Integers, FiniteSets, Functions, UnitOfWork

CONSTANTS
    Clients,  \* browser tabs or API clients, one request at a time each
    UserOf,   \* the user a client is signed in as
    SecUsers, \* users with the role sec_team
    Access,   \* user -> the targets in the namespaces the user can see
    Ids,      \* primary keys (UUIDs), never used twice
    Targets,  \* a CVE in a namespace of a cluster
    Legacy,   \* primary keys of records verified before verification ended
    Stamps,   \* values of resolved_at; two are enough to tell apart
    Null      \* not resolved

Users == {UserOf[c] : c \in Clients}

ASSUME ConstantsAssumption ==
    /\ SecUsers \subseteq Users
    /\ Access \in [Users -> SUBSET Targets]
    /\ Legacy \subseteq Ids
    /\ Null \notin Stamps \cup Users

VARIABLES
    table,    \* remediations: primary key -> row
    used,     \* primary keys handed out so far
    req,      \* the request each client has in flight
    job,      \* the run of the auto-resolve job
    affected  \* targets whose deployments StackRox reports

vars == <<table, used, req, job, affected>>

RemediationStatus == {"open", "in_progress", "resolved", "verified", "wont_fix"}
ActiveStatus == {"open", "in_progress"}

Row == [target      : Targets,
        status      : RemediationStatus,
        created_by  : Users,
        resolved_at : Stamps \cup {Null}]

Idle == [op |-> "idle"]
CreateRequest == [op : {"create"}, rows : SUBSET Row]
UpdateRequest == [op : {"update"}, id : Ids, loaded : Row, new : Row]
DeleteRequest == [op : {"delete"}, id : Ids]

Run == [active : BOOLEAN,
        todo   : SUBSET Ids,  \* loaded rows still to look up in StackRox
        gone   : SUBSET Ids]  \* rows to resolve at the commit

NoRun == [active |-> FALSE, todo |-> {}, gone |-> {}]

TypeOK ==
    /\ used \subseteq Ids
    /\ DOMAIN table \subseteq used
    /\ table \in [DOMAIN table -> Row]
    /\ req \in [Clients -> {Idle} \cup CreateRequest \cup UpdateRequest \cup DeleteRequest]
    /\ job \in Run
    /\ job.todo \cup job.gone \subseteq used
    /\ affected \subseteq Targets

\* Two rows never share a target: uq_remediation_cve_ns_cluster.
Distinct(rows) ==
    \A r1, r2 \in DOMAIN rows : rows[r1].target = rows[r2].target => r1 = r2

\* The historical records are the only ones a fresh start finds.
Init ==
    /\ table \in [Legacy -> {row \in Row : row.status = "verified" /\ row.resolved_at # Null}]
    /\ Distinct(table)
    /\ used = Legacy
    /\ req = [c \in Clients |-> Idle]
    /\ job = NoRun
    /\ affected \in SUBSET Targets

-----------------------------------------------------------------------------
IsSec(c) == UserOf[c] \in SecUsers

\* The request ends: committed, refused with an error status, or dropped.
Done(c) == req' = [req EXCEPT ![c] = Idle]

Begin(c, request) ==
    /\ req[c] = Idle
    /\ req' = [req EXCEPT ![c] = request]
    /\ UNCHANGED <<table, used, job, affected>>

(***************************************************************************)
(* POST /remediations and /remediations/batch: every target is checked     *)
(* before any row is inserted, one commit for all.                         *)
(***************************************************************************)
\* Mutant: the row does not say who created it.
AnonymousRow(c, target) ==
    [target |-> target, status |-> "open", created_by |-> Null, resolved_at |-> Null]

NewRow(c, target) ==
    [target |-> target, status |-> "open", created_by |-> UserOf[c], resolved_at |-> Null]

CreateCheck(c) ==
    \E pairs \in (SUBSET Targets) \ {{}} :
        /\ IsSec(c) \/ pairs \subseteq Access[UserOf[c]]
        /\ pairs \subseteq affected
        /\ \A r \in DOMAIN table : table[r].target \notin pairs
        /\ Begin(c, [op |-> "create", rows |-> {NewRow(c, pair) : pair \in pairs}])

Duplicate(c) ==
    \E row \in req[c].rows, r \in DOMAIN table : table[r].target = row.target

\* The rows get primary keys of their own.
Stored(c) ==
    /\ req[c].op = "create"
    /\ \E ids \in SUBSET (Ids \ used) :
       \E rows \in Bijection(ids, req[c].rows) :
           /\ table' = [r \in DOMAIN table \cup ids |->
                            IF r \in ids THEN rows[r] ELSE table[r]]
           /\ used' = used \cup ids
    /\ Done(c)
    /\ UNCHANGED <<job, affected>>

\* Mutant: no unique constraint.
CreateUnchecked(c) == Stored(c)

CreateCommit(c) == Stored(c) /\ ~Duplicate(c)

\* The unique constraint refuses one pair: rolled back, 409.
CreateRefused(c) ==
    /\ req[c].op = "create"
    /\ Duplicate(c)
    /\ Done(c)
    /\ UNCHANGED <<table, used, job, affected>>

(***************************************************************************)
(* PATCH /remediations/{remediation_id} with a status                      *)
(***************************************************************************)
\* Mutant: the transition the endpoint's documentation still lists.
VerifyTransitions(status) ==
    CASE status = "open" -> {"in_progress", "wont_fix"}
      [] status = "in_progress" -> {"resolved", "wont_fix", "open"}
      [] status = "resolved" -> {"verified", "in_progress"}
      [] status = "verified" -> {"in_progress"}
      [] status = "wont_fix" -> {"open"}

Transitions(status) ==
    CASE status = "open" -> {"in_progress", "wont_fix"}
      [] status = "in_progress" -> {"resolved", "wont_fix", "open"}
      [] status \in {"resolved", "verified"} -> {"in_progress"}
      [] status = "wont_fix" -> {"open"}

\* _apply_status: a resolution is dated, an active status after a closed one
\* is a reopen and drops the date, any other transition keeps what is there.
Applied(row, status, at) ==
    [row EXCEPT !.status = status,
                !.resolved_at =
                    CASE status = "resolved" -> at
                      [] status \in ActiveStatus /\ row.status \notin ActiveStatus -> Null
                      [] OTHER -> @]

UpdateLoad(c, id) ==
    \E status \in RemediationStatus, at \in Stamps :
        /\ id \in DOMAIN table
        /\ IsSec(c) \/ table[id].target \in Access[UserOf[c]]
        /\ status \in Transitions(table[id].status)
        /\ at # table[id].resolved_at
        /\ Begin(c, [op |-> "update", id |-> id, loaded |-> table[id],
                     new |-> Applied(table[id], status, at)])

\* UPDATE of the attributes that differ from the loaded row.
Merge(stored, loaded, new) ==
    [stored EXCEPT
        !.status = Written(@, loaded.status, new.status),
        !.resolved_at = Written(@, loaded.resolved_at, new.resolved_at)]

UpdateCommit(c) ==
    /\ req[c].op = "update"
    /\ req[c].id \in DOMAIN table
    /\ table' = [table EXCEPT ![req[c].id] = Merge(@, req[c].loaded, req[c].new)]
    /\ Done(c)
    /\ UNCHANGED <<used, job, affected>>

\* The row is gone: StaleDataError.
UpdateRefused(c) ==
    /\ req[c].op = "update"
    /\ req[c].id \notin DOMAIN table
    /\ Done(c)
    /\ UNCHANGED <<table, used, job, affected>>

(***************************************************************************)
(* DELETE /remediations/{remediation_id}                                   *)
(***************************************************************************)
DeleteLoad(c, id) ==
    /\ id \in DOMAIN table
    /\ IsSec(c) \/ table[id].created_by = UserOf[c]
    /\ table[id].status \in {"open", "wont_fix"}
    /\ Begin(c, [op |-> "delete", id |-> id])

\* A row that is gone already is only warned about.
DeleteCommit(c) ==
    /\ req[c].op = "delete"
    /\ table' = Restrict(table, DOMAIN table \ {req[c].id})
    /\ Done(c)
    /\ UNCHANGED <<used, job, affected>>

Abort(c) ==
    /\ req[c] # Idle
    /\ Done(c)
    /\ UNCHANGED <<table, used, job, affected>>

(***************************************************************************)
(* run_remediation_auto_resolve: one transaction for all rows              *)
(***************************************************************************)
\* Mutant: work in progress is not looked at.
IsOpen(row) == row.status = "open"

IsActive(row) == row.status \in ActiveStatus

AutoLoad ==
    /\ ~job.active
    /\ \E r \in DOMAIN table : IsActive(table[r])
    /\ job' = [active |-> TRUE,
               todo |-> {r \in DOMAIN table : IsActive(table[r])}, gone |-> {}]
    /\ UNCHANGED <<table, used, req, affected>>

\* get_affected_deployments for one loaded row.  A row deleted since is still
\* in the session, with a target this state no longer tells: either outcome.
AutoLook(id) ==
    /\ id \in job.todo
    /\ \/ /\ id \in DOMAIN table => table[id].target \in affected
          /\ job' = [job EXCEPT !.todo = @ \ {id}]
       \/ /\ id \in DOMAIN table => table[id].target \notin affected
          /\ job' = [job EXCEPT !.todo = @ \ {id}, !.gone = @ \cup {id}]
    /\ UNCHANGED <<table, used, req, affected>>

\* Mutant: the time of the resolution is forgotten.
ResolvedUndated(row, at) == [row EXCEPT !.status = "resolved"]

Resolved(row, at) == [row EXCEPT !.status = "resolved", !.resolved_at = at]

AutoCommit ==
    /\ job.active /\ job.todo = {}
    /\ job.gone \subseteq DOMAIN table
    /\ \E at \in Stamps :
           table' = [r \in DOMAIN table |->
                        IF r \in job.gone THEN Resolved(table[r], at) ELSE table[r]]
    /\ job' = NoRun
    /\ UNCHANGED <<used, req, affected>>

\* A row of the run was deleted: StaleDataError, everything is rolled back.
AutoStale ==
    /\ ~(job.gone \subseteq DOMAIN table)
    /\ job' = NoRun
    /\ UNCHANGED <<table, used, req, affected>>

\* StackRox cannot be reached, or the worker ends.
AutoAbort ==
    /\ job.active
    /\ job' = NoRun
    /\ UNCHANGED <<table, used, req, affected>>

\* Deployments come and go.
ScanChanges ==
    /\ affected' \in SUBSET Targets
    /\ UNCHANGED <<table, used, req, job>>

-----------------------------------------------------------------------------
Handler(c) ==
    \/ CreateCheck(c)
    \/ CreateCommit(c)
    \/ CreateRefused(c)
    \/ \E id \in Ids : UpdateLoad(c, id) \/ DeleteLoad(c, id)
    \/ UpdateCommit(c)
    \/ UpdateRefused(c)
    \/ DeleteCommit(c)
    \/ Abort(c)

AutoResolve ==
    \/ AutoLoad
    \/ \E id \in Ids : AutoLook(id)
    \/ AutoCommit
    \/ AutoStale
    \/ AutoAbort

Next == (\E c \in Clients : Handler(c)) \/ AutoResolve \/ ScanChanges

Spec == Init /\ [][Next]_vars

\* A run that has started goes on and the next one follows it.  Runs do not
\* fail forever except for the rows that are deleted under them.
Fairness ==
    /\ WF_vars(AutoLoad)
    /\ WF_vars(\E id \in Ids : AutoLook(id))
    /\ WF_vars(AutoCommit)
    /\ WF_vars(AutoStale)
    /\ <>[][AutoAbort => AutoCommit \/ AutoStale]_vars

FairSpec == Spec /\ Fairness

-----------------------------------------------------------------------------
\* One remediation per CVE and namespace, although two requests find none and
\* both insert, and although a batch is checked long before it is stored.
OnePerTarget ==
    \A r1, r2 \in DOMAIN table : table[r1].target = table[r2].target => r1 = r2

\* A resolved remediation has the date the mean time to remediate and the
\* digest count it by, whatever reopening and resolving overtook each other.
ResolvedIsDated ==
    \A r \in DOMAIN table : table[r].status = "resolved" => table[r].resolved_at # Null

\* docs/user-guide.md: verified is valid for historical records only.  No
\* stale write brings the status back.
VerifiedIsHistory ==
    [][\A r \in DOMAIN table' : table'[r].status = "verified"
          => r \in DOMAIN table /\ table[r].status = "verified"]_vars

\* An active remediation whose CVE is gone does not stay active for ever,
\* whoever edits it or deletes others while the job runs.
Outlived(id) ==
    /\ id \in DOMAIN table
    /\ table[id].status \in {"open", "in_progress"}
    /\ table[id].target \notin affected

OutlivedEnds == \A id \in Ids : Outlived(id) ~> ~Outlived(id)

(***************************************************************************)
(* What the documentation says and the code does not keep                  *)
(***************************************************************************)

\* docs/user-guide.md: the mean time to remediate averages "across completed,
\* manually tracked remediations".  The dashboard takes those with a
\* resolution date, so a remediation with a date should be completed.
DatedIsCompleted ==
    \A r \in DOMAIN table :
        table[r].resolved_at # Null => table[r].status \in {"resolved", "verified"}

=============================================================================
