-------------------------- MODULE SuppressionRules --------------------------
(***************************************************************************)
(* False-positive rules: the handlers of                                   *)
(* backend/app/routers/suppression_rules.py over the table                 *)
(* suppression_rules.  An approved rule hides CVEs, so what is in force is *)
(* what the security team approved or created.                             *)
(*                                                                         *)
(* As in RiskAcceptances a handler loads, checks for a conflict where it   *)
(* has to, and flushes and commits in one step; others commit in between.  *)
(* The reason, the reference and the review comment are left out.          *)
(***************************************************************************)
EXTENDS Integers, FiniteSets, Functions, UnitOfWork

CONSTANTS
    Clients,   \* browser tabs or API clients, one request at a time each
    UserOf,    \* the user a client is signed in as
    SecUsers,  \* users with the role sec_team
    Rules,     \* primary keys (UUIDs), never used twice
    CVEs,
    Patterned, \* component names with a version pattern
    Bare,      \* component names without one (version_pattern IS NULL)
    Scopes,    \* normalised scopes of CVE rules
    Global,    \* the scope of mode all, the only one of component rules
    Null       \* no reviewer

Users == {UserOf[c] : c \in Clients}

Targets == CVEs \cup Patterned \cup Bare

ASSUME ConstantsAssumption ==
    /\ SecUsers \subseteq Users
    /\ Global \in Scopes
    /\ Null \notin Users
    /\ CVEs \cap (Patterned \cup Bare) = {}
    /\ Patterned \cap Bare = {}

VARIABLES
    table,  \* suppression_rules: primary key -> row
    used,   \* primary keys handed out so far
    req     \* the request each client has in flight

vars == <<table, used, req>>

SuppressionStatus == {"requested", "approved", "rejected"}

Row == [target      : Targets,  \* the CVE, or the component and its pattern
        scope       : Scopes,
        status      : SuppressionStatus,
        created_by  : Users,
        reviewed_by : SecUsers \cup {Null}]

Idle == [op |-> "idle"]
InsertRequest == [op : {"create"}, row : Row]
WriteRequest == [op      : {"update", "review"},
                 rule    : Rules,
                 loaded  : Row,
                 new     : Row,
                 checked : BOOLEAN]
DeleteRequest == [op : {"delete"}, rule : Rules]

TypeOK ==
    /\ used \subseteq Rules
    /\ DOMAIN table \subseteq used
    /\ table \in [DOMAIN table -> Row]
    /\ req \in [Clients -> {Idle} \cup InsertRequest \cup WriteRequest \cup DeleteRequest]

Init ==
    /\ table = [r \in {} |-> r]
    /\ used = {}
    /\ req = [c \in Clients |-> Idle]

(***************************************************************************)
(* The two partial unique indexes.  PostgreSQL takes NULLs for distinct:   *)
(* rules for a component without a version pattern never collide.          *)
(***************************************************************************)
IsActive(row) == row.status \in {"requested", "approved"}

SameTarget(row1, row2) == row1.target = row2.target /\ row1.scope = row2.scope

\* SELECT ... WHERE type, target, scope_key AND status IN (requested, approved);
\* here a missing pattern does equal a missing pattern (IS NULL).
ExistingActive(row, except) ==
    {r \in DOMAIN table \ except : IsActive(table[r]) /\ SameTarget(table[r], row)}

\* Mutant: the predicate names requested alone.
IndexOnRequested(row, except) ==
    row.status = "requested" /\ row.target \notin Bare /\ ExistingActive(row, except) # {}

ViolatesIndex(row, except) ==
    /\ IsActive(row)
    /\ row.target \notin Bare
    /\ ExistingActive(row, except) # {}

(***************************************************************************)
(* The handlers                                                            *)
(***************************************************************************)
IsSec(c) == UserOf[c] \in SecUsers

Done(c) == req' = [req EXCEPT ![c] = Idle]

Begin(c, request) ==
    /\ req[c] = Idle
    /\ req' = [req EXCEPT ![c] = request]
    /\ UNCHANGED <<table, used>>

\* Mutant: whoever creates a rule signs it.
SignedByCreator(c, target, scope) ==
    [target |-> target, scope |-> scope,
     status |-> IF IsSec(c) THEN "approved" ELSE "requested",
     created_by |-> UserOf[c], reviewed_by |-> UserOf[c]]

\* What the security team creates is in force at once, and signed.
NewRow(c, target, scope) ==
    [target |-> target, scope |-> scope,
     status |-> IF IsSec(c) THEN "approved" ELSE "requested",
     created_by |-> UserOf[c],
     reviewed_by |-> IF IsSec(c) THEN UserOf[c] ELSE Null]

\* POST: anybody asks for a rule; component rules have no scope of their own.
CreateCheck(c) ==
    \E target \in Targets, scope \in Scopes :
        LET row == NewRow(c, target, scope) IN
        /\ target \notin CVEs => scope = Global
        /\ ExistingActive(row, {}) = {}
        /\ Begin(c, [op |-> "create", row |-> row])

InsertCommit(c) ==
    /\ req[c].op = "create"
    /\ ~ViolatesIndex(req[c].row, {})
    /\ \E r \in Rules \ used :
          /\ table' = [id \in DOMAIN table \cup {r} |->
                          IF id = r THEN req[c].row ELSE table[id]]
          /\ used' = used \cup {r}
    /\ Done(c)

InsertRefused(c) ==
    /\ req[c].op = "create"
    /\ ViolatesIndex(req[c].row, {})
    /\ Done(c)
    /\ UNCHANGED <<table, used>>

\* PUT: the creator while the rule is requested, sec_team always.  Only a CVE
\* rule has a scope to change, and only a changed one is checked for a
\* conflict.  The reset of a reviewed rule to requested that follows in the
\* handler needs a team member past the first guard on a reviewed rule: it is
\* never reached.
MayUpdate(c, row) ==
    IsSec(c) \/ (row.created_by = UserOf[c] /\ row.status = "requested")

UpdateLoad(c, r) ==
    \E scope \in Scopes :
        /\ r \in DOMAIN table
        /\ MayUpdate(c, table[r])
        /\ table[r].target \notin CVEs => scope = table[r].scope
        /\ Begin(c, [op |-> "update", rule |-> r, loaded |-> table[r],
                     new |-> [table[r] EXCEPT !.scope = scope], checked |-> FALSE])

UpdateCheck(c) ==
    LET request == req[c]
        conflict == /\ request.new.scope # request.loaded.scope
                    /\ ExistingActive(request.new, {request.rule}) # {} IN
    /\ request.op = "update" /\ ~request.checked
    /\ req' = [req EXCEPT ![c] =
                  IF conflict THEN Idle ELSE [request EXCEPT !.checked = TRUE]]
    /\ UNCHANGED <<table, used>>

\* Mutant: the reviewer is recorded for an approval only.
SignedIfApproved(row, verdict, reviewer) ==
    [row EXCEPT !.status = verdict,
                !.reviewed_by = IF verdict = "approved" THEN reviewer ELSE @]

Reviewed(row, verdict, reviewer) ==
    [row EXCEPT !.status = verdict, !.reviewed_by = reviewer]

Reviewable(row) == row.status = "requested"

\* PATCH: sec_team, on a requested rule.
ReviewLoad(c, r) ==
    \E verdict \in {"approved", "rejected"} :
        /\ IsSec(c)
        /\ r \in DOMAIN table
        /\ Reviewable(table[r])
        /\ Begin(c, [op |-> "review", rule |-> r, loaded |-> table[r],
                     new |-> Reviewed(table[r], verdict, UserOf[c]), checked |-> TRUE])

\* DELETE: the creator while the rule is requested, sec_team always.
DeleteLoad(c, r) ==
    /\ r \in DOMAIN table
    /\ IsSec(c) \/ (table[r].created_by = UserOf[c] /\ table[r].status = "requested")
    /\ Begin(c, [op |-> "delete", rule |-> r])

IsWrite(c) == req[c].op \in {"update", "review"} /\ req[c].checked

\* Mutant: the whole row is written back, not what the request changed.
WholeRow(stored, loaded, new) == new

Merge(stored, loaded, new) ==
    [target      |-> Written(stored.target, loaded.target, new.target),
     scope       |-> Written(stored.scope, loaded.scope, new.scope),
     status      |-> Written(stored.status, loaded.status, new.status),
     created_by  |-> Written(stored.created_by, loaded.created_by, new.created_by),
     reviewed_by |-> Written(stored.reviewed_by, loaded.reviewed_by, new.reviewed_by)]

Merged(c) == Merge(table[req[c].rule], req[c].loaded, req[c].new)

WriteCommit(c) ==
    /\ IsWrite(c)
    /\ req[c].rule \in DOMAIN table
    /\ ~ViolatesIndex(Merged(c), {req[c].rule})
    /\ table' = [table EXCEPT ![req[c].rule] = Merged(c)]
    /\ Done(c)
    /\ UNCHANGED used

\* The row is gone (StaleDataError) or the index refuses it (IntegrityError).
WriteRefused(c) ==
    /\ IsWrite(c)
    /\ req[c].rule \in DOMAIN table => ViolatesIndex(Merged(c), {req[c].rule})
    /\ Done(c)
    /\ UNCHANGED <<table, used>>

DeleteCommit(c) ==
    /\ req[c].op = "delete"
    /\ table' = Restrict(table, DOMAIN table \ {req[c].rule})
    /\ Done(c)
    /\ UNCHANGED used

\* The process dies or the handler raises before it commits: rolled back.
Abort(c) ==
    /\ req[c] # Idle
    /\ Done(c)
    /\ UNCHANGED <<table, used>>

Next ==
    \E c \in Clients :
        \/ CreateCheck(c)
        \/ InsertCommit(c)
        \/ InsertRefused(c)
        \/ \E r \in Rules : UpdateLoad(c, r) \/ ReviewLoad(c, r) \/ DeleteLoad(c, r)
        \/ UpdateCheck(c)
        \/ WriteCommit(c)
        \/ WriteRefused(c)
        \/ DeleteCommit(c)
        \/ Abort(c)

Spec == Init /\ [][Next]_vars

-----------------------------------------------------------------------------
(***************************************************************************)
(* What holds however many clients are active                              *)
(***************************************************************************)

\* There is at most one active rule per CVE and scope, and per component and
\* version pattern.
ActiveRuleUnique ==
    \A r1, r2 \in DOMAIN table :
        /\ IsActive(table[r1]) /\ IsActive(table[r2])
        /\ SameTarget(table[r1], table[r2])
        /\ table[r1].target \notin Bare
        => r1 = r2

\* A rule is signed exactly from its verdict on: a stale edit that commits
\* over a verdict takes neither the status nor the signature back.
SignedFromVerdictOn ==
    \A r \in DOMAIN table :
        table[r].status = "requested" <=> table[r].reviewed_by = Null

\* A verdict is never withdrawn: no step leads back to requested, neither an
\* edit that loaded the rule before the verdict nor a second verdict.
NeverBackToRequested ==
    [][\A r \in DOMAIN table \cap DOMAIN table' :
        table'[r].status = "requested" => table[r].status = "requested"]_vars

\* Whoever signs a rule passed the verdict that stands, however many reviewers
\* judge it: status and signature change together, in the commit of a review of
\* that rule, to what its reviewer decided.
JudgedBy(c, r) ==
    /\ IsSec(c)
    /\ req[c].op = "review" /\ req[c].rule = r /\ req'[c] = Idle
    /\ table'[r].status = req[c].new.status
    /\ table'[r].reviewed_by = UserOf[c]

SignerPassedVerdict ==
    [][\A r \in DOMAIN table \cap DOMAIN table' :
        \/ table'[r].status # table[r].status
        \/ table'[r].reviewed_by # table[r].reviewed_by
        => \E c \in Clients : JudgedBy(c, r)]_vars

(***************************************************************************)
(* What the documentation says and the code does not keep                  *)
(***************************************************************************)

\* docs/user-guide.md: the security team must approve before suppression takes
\* effect.  The scope in force changes by the security team's own writes only.
ScopeInForceIsReviewed ==
    [][\A c \in Clients :
        (req[c].op = "update" /\ ~IsSec(c) /\ req'[c] = Idle)
            => \A r \in DOMAIN table \cap DOMAIN table' :
                  table[r].status = "approved" => table'[r].scope = table[r].scope]_vars

\* app/i18n.py: "Only requested rules can be reviewed".  Two reviewers who both
\* loaded one as requested judge it one after the other.
OnlyRequestedReviewed ==
    [][\A c \in Clients :
        (req[c].op = "review" /\ req'[c] = Idle /\ table' # table)
            => table[req[c].rule].status = "requested"]_vars

\* docs/api/endpoints.md: active rules are unique per target, one active rule
\* per component name and version pattern, whether it has a pattern or not.
ActiveTargetUnique ==
    \A r1, r2 \in DOMAIN table :
        /\ IsActive(table[r1]) /\ IsActive(table[r2])
        /\ SameTarget(table[r1], table[r2])
        => r1 = r2

=============================================================================
