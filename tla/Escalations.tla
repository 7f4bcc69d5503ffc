----------------------------- MODULE Escalations -----------------------------
(***************************************************************************)
(* The two escalation jobs of backend/app/tasks/scheduler.py:              *)
(* run_escalation_check stores an escalation for the highest level whose   *)
(* deadline a finding has passed, run_escalation_warning mails the contact *)
(* ahead of the next level.  A finding is a CVE in one namespace.          *)
(*                                                                         *)
(* A run is one transaction: it loads what it decides on, goes through the *)
(* findings one by one, clears what is no longer visible and commits.      *)
(* Mail leaves the process at once and is not taken back with it.  Checks  *)
(* overlap: the one at start-up (backend/app/main.py) is not a scheduled   *)
(* job, and a rolling update starts the new worker before the old one      *)
(* ends.  The reads at the start of a run are taken as one step.           *)
(***************************************************************************)
EXTENDS Integers, FiniteSets, FiniteSetsExt

CONSTANTS
    Checks,      \* runs of the check that may overlap
    Warners,     \* runs of the warning job that may overlap
    Findings,    \* rows of get_cves_by_namespace_detail: a CVE in a namespace
    CveOf,       \* the CVE of a finding
    Contacts,    \* findings in a namespace with a contact or a default one
    Deadline,    \* level_deadlines of a finding: level -> time
    Worlds,      \* what the runs may find in the rest of the database
    Day,         \* the length of a day
    WarningDays, \* settings.escalation_warning_days
    MaxTime,     \* bound: the clock stops here
    NoKey        \* no escalation about to be inserted

CVEs == {CveOf[f] : f \in Findings}
Jobs == Checks \cup Warners
Keys == {<<f, level>> : f \in Findings, level \in 1..3}

ASSUME ConstantsAssumption ==
    /\ Checks \cap Warners = {}
    /\ Contacts \subseteq Findings
    /\ \A f \in Findings : DOMAIN Deadline[f] \subseteq 1..3
    /\ \A f \in Findings, level \in 1..3 :
          level \in DOMAIN Deadline[f] => Deadline[f][level] \in Int
    /\ Worlds \subseteq [rows       : SUBSET Findings,
                         pinned     : SUBSET CVEs,
                         accepted   : SUBSET CVEs,
                         suppressed : SUBSET Findings]
    /\ Day \in Nat \ {0}
    /\ WarningDays \in Nat
    /\ MaxTime \in Nat
    /\ NoKey \notin Keys

VARIABLES
    escalations,     \* number of rows in the table escalations, per key
    warnings,        \* number of rows in escalation_warnings, per key
    escalationMails, \* mails delivered, per key, counted up to Many
    warningMails,
    run,             \* the transaction of each job
    world,           \* rows above the thresholds or always shown, always_show
                     \* CVEs, approved acceptances and suppressed findings
    now

vars == <<escalations, warnings, escalationMails, warningMails, run, world, now>>

Many == 2

Transaction == [active : BOOLEAN,
                todo   : SUBSET Findings,  \* findings still to look at
                keep   : SUBSET CVEs,      \* CVEs the clean-up spares
                key    : Keys \cup {NoKey},
                new    : SUBSET Keys]      \* rows added, not committed

Idle == [active |-> FALSE, todo |-> {}, keep |-> {}, key |-> NoKey, new |-> {}]

TypeOK ==
    /\ escalations \in [Keys -> Nat]
    /\ warnings \in [Keys -> Nat]
    /\ escalationMails \in [Keys -> 0..Many]
    /\ warningMails \in [Keys -> 0..Many]
    /\ run \in [Jobs -> Transaction]
    /\ world \in Worlds
    /\ now \in 0..MaxTime

Init ==
    /\ escalations = [k \in Keys |-> 0]
    /\ warnings = [k \in Keys |-> 0]
    /\ escalationMails = [k \in Keys |-> 0]
    /\ warningMails = [k \in Keys |-> 0]
    /\ run = [r \in Jobs |-> Idle]
    /\ world \in Worlds
    /\ now = 0

Counted(mails, key) == [mails EXCEPT ![key] = IF @ < Many THEN @ + 1 ELSE @]

Update(r, state) == run' = [run EXCEPT ![r] = state]

\* escalation_candidate_rows: neither accepted nor suppressed.
Candidates ==
    {f \in world.rows : CveOf[f] \notin world.accepted /\ f \notin world.suppressed}

\* Mutant: the rows themselves are kept, not their CVEs.
KeptRows == world.rows \cup world.pinned \cup world.accepted

KeptCVEs == {CveOf[f] : f \in world.rows} \cup world.pinned \cup world.accepted

Load(r) ==
    /\ ~run[r].active
    /\ Update(r, [active |-> TRUE, todo |-> Candidates, keep |-> KeptCVEs,
                  key |-> NoKey, new |-> {}])
    /\ UNCHANGED <<escalations, warnings, escalationMails, warningMails, world, now>>

\* The run raises or its process ends: the transaction is rolled back.
Abort(r) ==
    /\ run[r].active
    /\ Update(r, Idle)
    /\ UNCHANGED <<escalations, warnings, escalationMails, warningMails, world, now>>

Pass(r, f) == Update(r, [run[r] EXCEPT !.todo = @ \ {f}])

\* The rows of a table once the run has added its own and cleared the CVEs
\* that are neither visible nor accepted.
Committed(rows, r) ==
    [k \in Keys |-> CASE CveOf[k[1]] \notin run[r].keep -> 0
                      [] k \in run[r].new -> rows[k] + 1
                      [] OTHER -> rows[k]]

(***************************************************************************)
(* run_escalation_check                                                    *)
(***************************************************************************)
Triggered(f) == {level \in DOMAIN Deadline[f] : Deadline[f][level] <= now}

TopKey(f) == <<f, Max(Triggered(f))>>

\* Mutant: a finding escalates once, at whatever level.
EscalatedAtAll(key) == \E k \in Keys : k[1] = key[1] /\ escalations[k] > 0

Escalated(key) == escalations[key] > 0

CheckSkip(r, f) ==
    /\ f \in run[r].todo /\ run[r].key = NoKey
    /\ Triggered(f) # {} => Escalated(TopKey(f))
    /\ Pass(r, f)
    /\ UNCHANGED <<escalations, warnings, escalationMails, warningMails, world, now>>

CheckSelect(r, f) ==
    /\ f \in run[r].todo /\ run[r].key = NoKey
    /\ Triggered(f) # {} /\ ~Escalated(TopKey(f))
    /\ Update(r, [run[r] EXCEPT !.todo = @ \ {f}, !.key = TopKey(f)])
    /\ UNCHANGED <<escalations, warnings, escalationMails, warningMails, world, now>>

\* _insert_escalation: the insert waits for the other transactions that hold
\* the key.  If one of them has stored it, the savepoint is rolled back.
KeyIsFree(r) == \A other \in Checks \ {r} : run[r].key \notin run[other].new

CheckDuplicate(r) ==
    /\ run[r].key # NoKey
    /\ KeyIsFree(r)
    /\ escalations[run[r].key] > 0
    /\ Update(r, [run[r] EXCEPT !.key = NoKey])
    /\ UNCHANGED <<escalations, warnings, escalationMails, warningMails, world, now>>

\* Inserted: subscribers are notified in the same transaction, the contact
\* gets a mail, and a mail that fails is logged and forgotten.
Inserted(r) ==
    /\ Update(r, [run[r] EXCEPT !.new = @ \cup {run[r].key}, !.key = NoKey])
    /\ \/ escalationMails' = Counted(escalationMails, run[r].key) /\ run[r].key[1] \in Contacts
       \/ UNCHANGED escalationMails
    /\ UNCHANGED <<escalations, warnings, warningMails, world, now>>

\* Mutant: the table has no unique constraint.
InsertUnconstrained(r) == run[r].key # NoKey /\ Inserted(r)

CheckInsert(r) ==
    /\ run[r].key # NoKey
    /\ KeyIsFree(r)
    /\ escalations[run[r].key] = 0
    /\ Inserted(r)

CheckCommit(r) ==
    /\ run[r].active /\ run[r].todo = {} /\ run[r].key = NoKey
    /\ escalations' = Committed(escalations, r)
    /\ Update(r, Idle)
    /\ UNCHANGED <<warnings, escalationMails, warningMails, world, now>>

(***************************************************************************)
(* run_escalation_warning                                                  *)
(***************************************************************************)
\* timedelta.days rounds down.
DaysUntil(f, level) == (Deadline[f][level] - now) \div Day

Ahead(f) == {level \in DOMAIN Deadline[f] : DaysUntil(f, level) > 0}

NextKey(f) == <<f, Min(Ahead(f))>>

InWindow(f) == Ahead(f) # {} /\ DaysUntil(f, NextKey(f)[2]) <= WarningDays

\* Mutant: nobody looks for the row of an earlier night.
NeverWarned(key) == FALSE

Warned(key) == warnings[key] = 1

WarnSkip(r, f) ==
    /\ f \in run[r].todo
    /\ InWindow(f) => Escalated(NextKey(f)) \/ Warned(NextKey(f))
    /\ Pass(r, f)
    /\ UNCHANGED <<escalations, warnings, escalationMails, warningMails, world, now>>

ToWarn(r, f) ==
    /\ f \in run[r].todo
    /\ InWindow(f)
    /\ ~Escalated(NextKey(f)) /\ ~Warned(NextKey(f))

\* scalar_one_or_none finds two rows and raises: the run ends.
WarnRaises(r, f) ==
    /\ ToWarn(r, f)
    /\ warnings[NextKey(f)] > 1
    /\ Update(r, Idle)
    /\ UNCHANGED <<escalations, warnings, escalationMails, warningMails, world, now>>

\* The mail is sent, or there is nobody to send it to; the row that keeps the
\* next run from repeating it waits for the commit.
WarnSend(r, f) ==
    /\ ToWarn(r, f)
    /\ warnings[NextKey(f)] <= 1
    /\ Update(r, [run[r] EXCEPT !.todo = @ \ {f}, !.new = @ \cup {NextKey(f)}])
    /\ warningMails' = IF f \in Contacts THEN Counted(warningMails, NextKey(f)) ELSE warningMails
    /\ UNCHANGED <<escalations, warnings, escalationMails, world, now>>

\* Mutant: the row is stored although the mail failed.
WarnFailsRecorded(r, f) ==
    /\ ToWarn(r, f)
    /\ warnings[NextKey(f)] <= 1
    /\ f \in Contacts
    /\ Update(r, [run[r] EXCEPT !.todo = @ \ {f}, !.new = @ \cup {NextKey(f)}])
    /\ UNCHANGED <<escalations, warnings, escalationMails, warningMails, world, now>>

\* The mail fails: no row, the next run tries again.
WarnFails(r, f) ==
    /\ ToWarn(r, f)
    /\ warnings[NextKey(f)] <= 1
    /\ f \in Contacts
    /\ Pass(r, f)
    /\ UNCHANGED <<escalations, warnings, escalationMails, warningMails, world, now>>

WarnCommit(r) ==
    /\ run[r].active /\ run[r].todo = {}
    /\ warnings' = Committed(warnings, r)
    /\ Update(r, Idle)
    /\ UNCHANGED <<escalations, escalationMails, warningMails, world, now>>

-----------------------------------------------------------------------------
\* Acceptances, priorities, rules and the scanner's findings change.
WorldChanges ==
    /\ world' \in Worlds
    /\ UNCHANGED <<escalations, warnings, escalationMails, warningMails, run, now>>

Tick ==
    /\ now < MaxTime
    /\ now' = now + 1
    /\ UNCHANGED <<escalations, warnings, escalationMails, warningMails, run, world>>

Next ==
    \/ \E r \in Checks :
          \/ \E f \in Findings : CheckSkip(r, f) \/ CheckSelect(r, f)
          \/ CheckDuplicate(r)
          \/ CheckInsert(r)
          \/ CheckCommit(r)
    \/ \E r \in Warners :
          \/ \E f \in Findings : \/ WarnSkip(r, f)
                                 \/ WarnRaises(r, f)
                                 \/ WarnSend(r, f)
                                 \/ WarnFails(r, f)
          \/ WarnCommit(r)
    \/ \E r \in Jobs : Load(r) \/ Abort(r)
    \/ WorldChanges
    \/ Tick

Spec == Init /\ [][Next]_vars

\* A check that has started goes on, the next one starts after it, and checks
\* do not fail forever: whatever makes them fail is repaired.  (A commit with
\* nothing to store is the same step as a rollback.)
Fairness ==
    /\ \A r \in Checks :
          /\ WF_vars(Load(r))
          /\ WF_vars(\E f \in Findings : CheckSkip(r, f) \/ CheckSelect(r, f))
          /\ WF_vars(CheckDuplicate(r) \/ CheckInsert(r))
          /\ WF_vars(CheckCommit(r))
    /\ <>[][\A r \in Checks : Abort(r) => CheckCommit(r)]_vars

FairSpec == Spec /\ Fairness

-----------------------------------------------------------------------------
\* However runs of the check overlap and crash, a finding escalates to a level
\* at most once at a time: nobody gets the same escalation twice in the list.
EscalationUnique == \A k \in Keys : escalations[k] <= 1

\* A stored warning of a finding with a contact was mailed: the row that stops
\* later runs is never stored for a mail that failed or for a crashed run.
WarnedWasMailed ==
    \A k \in Keys : k[1] \in Contacts /\ warnings[k] > 0 => warningMails[k] > 0

\* models/escalation.py: "One row per (cve_id, namespace, cluster_name, level)
\* once a warning email has been sent".  A single worker keeps it.
WarningUnique == \A k \in Keys : warnings[k] <= 1

\* A finding that stays a candidate past a deadline escalates to that level,
\* or to the one above it that came due meanwhile, although runs crash.
Due(k) ==
    /\ k[1] \in Candidates
    /\ k[2] \in Triggered(k[1])
    /\ \A level \in Triggered(k[1]) : level <= k[2]

DueEscalates == \A k \in Keys : Due(k) ~> (escalations[k] > 0 \/ ~Due(k))

(***************************************************************************)
(* What the documentation says and the code does not keep                  *)
(***************************************************************************)

\* docs/user-guide.md: the contact "is emailed once per (CVE, level,
\* namespace, cluster)".
WarnedOnce == \A k \in Keys : warningMails[k] <= 1

=============================================================================
