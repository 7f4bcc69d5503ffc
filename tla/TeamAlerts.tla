------------------------------ MODULE TeamAlerts ------------------------------
(***************************************************************************)
(* The daily CVE alerts of services/team_notifications.py: the difference  *)
(* between what is worth an alert now and the marks of the last run, the   *)
(* in-app alerts of team members and the summary mail.                     *)
(*                                                                         *)
(* Thresholds, priorities, rules, scans, preferences and snapshots change  *)
(* at any time and are read by the runs alone: a run reads any of their    *)
(* values, and no variable keeps them.  Wording is left out, and with it   *)
(* the summary that stands for more than ten alerts of one reason.         *)
(***************************************************************************)
EXTENDS Integers, FiniteSets

CONSTANTS
    Cves, Namespaces,
    Severities, \* of the scans: "other", "critical", "critical_fixable"
    Users,    \* users with a fresh namespace snapshot at some time
    OrgWide,  \* those who see all namespaces
    Access,   \* user -> the namespaces of the snapshot
    Runs,     \* runs that may overlap, as the pods of a rollout
    MaxDay,   \* bound on the days
    NoLocation \* of a baseline mark

\* What the definitions need of the constants; WorkerMail assumes it.
ConstantsAssumption ==
    /\ OrgWide \subseteq Users
    /\ Access \in [Users -> SUBSET Namespaces]
    /\ MaxDay \in Nat
    /\ Severities \subseteq {"other", "critical", "critical_fixable"}
    /\ NoLocation \notin Cves \X Namespaces

VARIABLES
    day,     \* the UTC day
    marks,   \* cve_alert_marks, the baseline marks among them
    run,     \* the runs of the job
    claims,  \* alert_email_deliveries: <<user, day>>
    mails,   \* mails that left: <<user, day>> -> how many
    alerts,  \* history: <<user, key>> -> alerts since a run saw the key gone
    quiet    \* history: keys recorded silently and not gone since

vars == <<day, marks, run, claims, mails, alerts, quiet>>

Days == 0 .. MaxDay
Locations == Cves \X Namespaces
InAppReasons == {"visible", "prioritized"}
EmailReasons == {"email_critical", "email_critical_fixable"}
Key == Locations \X (InAppReasons \cup EmailReasons)
BaselineMark == <<NoLocation, "baseline:v2">>
BaselineMarkEmail == <<NoLocation, "baseline:email:v1">>
BaselineMarks == {BaselineMark, BaselineMarkEmail}

Idle == [step |-> "idle", existing |-> {}, current |-> {}, inapp |-> {}, jobs |-> {}, on |-> 0]

TypeOK ==
    /\ day \in Days
    /\ marks \subseteq Key \cup BaselineMarks
    /\ \A r \in Runs :
        /\ run[r].step \in {"idle", "plan", "commit", "send"}
        /\ run[r].existing \subseteq Key \cup BaselineMarks
        /\ run[r].current \subseteq Key
        /\ run[r].inapp \subseteq Users \X Key
        /\ \A job \in run[r].jobs : job.user \in Users /\ job.keys \subseteq Key
        /\ run[r].on \in Days
    /\ claims \subseteq Users \X Days
    /\ mails \in [Users \X Days -> Nat]
    /\ alerts \in [Users \X Key -> Nat]
    /\ quiet \subseteq Key

\* A new installation, or one whose in-app alerts are older than the mail.
Init ==
    /\ day = 0
    /\ \/ marks = {}
       \/ \E old \in SUBSET (Locations \X {"visible"}) : marks = old \cup {BaselineMark}
    /\ quiet = marks \cap Key
    /\ run = [r \in Runs |-> Idle]
    /\ claims = {}
    /\ mails = [d \in Users \X Days |-> 0]
    /\ alerts = [a \in Users \X Key |-> 0]

-----------------------------------------------------------------------------
\* classify_candidates for one row that no rule suppresses: one in-app key,
\* and the mail's keys when the CVE is critical there, and fixable.
KeysOf(location, severity, prioritized) ==
    {<<location, IF location[1] \in prioritized THEN "prioritized" ELSE "visible">>}
    \cup (IF severity \in {"critical", "critical_fixable"} THEN {<<location, "email_critical">>} ELSE {})
    \cup (IF severity = "critical_fixable" THEN {<<location, "email_critical_fixable">>} ELSE {})

\* The rows above the thresholds, or always shown, that no rule suppresses.
Classified(rows, prioritized) == UNION {KeysOf(l, rows[l], prioritized) : l \in DOMAIN rows}

Candidates == UNION {[ls -> Severities] : ls \in SUBSET Locations}

\* Mutant: one baseline mark stands for the reasons of the mail too.
OneBaseline(reason) == BaselineMark

BaselineFor(reason) == IF reason \in EmailReasons THEN BaselineMarkEmail ELSE BaselineMark

\* apply_alert_diff
MissingBaselines(r) == BaselineMarks \ run[r].existing
NewKeys(r) == run[r].current \ run[r].existing
NotifyKeys(r) == {k \in NewKeys(r) : BaselineFor(k[2]) \notin MissingBaselines(r)}
Inserted(r) == NewKeys(r) \cup MissingBaselines(r)

NextDay ==
    /\ day < MaxDay
    /\ \A r \in Runs : run[r] = Idle
    /\ day' = day + 1
    /\ UNCHANGED <<marks, run, claims, mails, alerts, quiet>>

\* What is worth an alert, from StackRox and the tables, then the marks.
RunLoad(r) ==
    /\ run[r] = Idle
    /\ \E rows \in Candidates, prioritized \in SUBSET Cves :
          run' = [run EXCEPT ![r] = [step |-> "plan", existing |-> marks, inapp |-> {}, jobs |-> {}, on |-> day,
                                     current |-> Classified(rows, prioritized)]]
    /\ UNCHANGED <<day, marks, claims, mails, alerts, quiet>>

\* plan_user_alerts: team members only, for the namespaces of the snapshot.
InAppPlan(r, recipients) ==
    {a \in (recipients \ OrgWide) \X NotifyKeys(r) :
        a[2][2] \in InAppReasons /\ a[2][1][2] \in Access[a[1]]}

\* plan_alert_emails: every condition in one mail.
EmailPlan(r, u) ==
    IF u \in OrgWide THEN NotifyKeys(r) ELSE {k \in NotifyKeys(r) : k[1][2] \in Access[u]}

\* _send_user_alerts and _claim_alert_emails: who wants which channel is read
\* user by user, and nobody with today's claim is planned.
RunPlan(r) ==
    /\ run[r].step = "plan"
    /\ \E recipients \in SUBSET Users : \E inapp, email \in SUBSET recipients :
          run' = [run EXCEPT
              ![r].step = "commit",
              ![r].inapp = {a \in InAppPlan(r, recipients) : a[1] \in inapp},
              ![r].jobs = {job \in {[user |-> u, keys |-> EmailPlan(r, u)] : u \in email} :
                              job.keys # {} /\ <<job.user, run[r].on>> \notin claims}]
    /\ UNCHANGED <<day, marks, claims, mails, alerts, quiet>>

\* Mutant: the marks have no primary key.
NoMarkKey(r) == TRUE

\* The primary key of cve_alert_marks.
MarksFree(r) == Inserted(r) \cap marks = {}

\* The primary key of alert_email_deliveries.
ClaimsFree(r) == \A job \in run[r].jobs : <<job.user, run[r].on>> \notin claims

Alerted(r, a) ==
    (IF a \in run[r].inapp THEN 1 ELSE 0)
    + (IF \E job \in run[r].jobs : job.user = a[1] /\ a[2] \in job.keys /\ a[2][2] \in EmailReasons
       THEN 1 ELSE 0)

\* What a run finds that had no baseline for its kind of alert.
Introduced(r) ==
    {k \in NewKeys(r) : \/ k[2] \in InAppReasons /\ BaselineMark \notin run[r].existing
                        \/ k[2] \in EmailReasons /\ BaselineMarkEmail \notin run[r].existing}

\* Marks of keys that are no longer current go, new ones come, the alerts and
\* the claims with them.
RunCommit(r) ==
    /\ run[r].step = "commit"
    /\ MarksFree(r) /\ ClaimsFree(r)
    /\ marks' = (marks \ ((run[r].existing \ BaselineMarks) \ run[r].current)) \cup Inserted(r)
    /\ claims' = claims \cup {<<job.user, run[r].on>> : job \in run[r].jobs}
    /\ alerts' = [a \in Users \X Key |->
                     IF a[2] \in run[r].current THEN alerts[a] + Alerted(r, a) ELSE 0]
    /\ quiet' = (quiet \cap run[r].current) \cup Introduced(r)
    /\ run' = [run EXCEPT ![r] = [Idle EXCEPT !.step = "send", !.jobs = run[r].jobs, !.on = run[r].on]]
    /\ UNCHANGED <<day, mails>>

\* Another run stored one of the marks or claims: everything is rolled back.
RunRefused(r) ==
    /\ run[r].step = "commit"
    /\ ~(MarksFree(r) /\ ClaimsFree(r))
    /\ run' = [run EXCEPT ![r] = Idle]
    /\ UNCHANGED <<day, marks, claims, mails, alerts, quiet>>

\* send_alert_emails: after the commit, one failure never blocks the rest.
RunSend(r, job) ==
    /\ run[r].step = "send"
    /\ job \in run[r].jobs
    /\ run' = [run EXCEPT ![r].jobs = @ \ {job}]
    /\ \/ mails' = [mails EXCEPT ![<<job.user, run[r].on>>] = @ + 1]
       \/ UNCHANGED mails
    /\ UNCHANGED <<day, marks, claims, alerts, quiet>>

\* The run is done, or fails, or the worker ends.
RunEnd(r) ==
    /\ run[r] # Idle
    /\ run' = [run EXCEPT ![r] = Idle]
    /\ UNCHANGED <<day, marks, claims, mails, alerts, quiet>>

-----------------------------------------------------------------------------
Job(r) ==
    \/ RunLoad(r)
    \/ RunPlan(r)
    \/ RunCommit(r)
    \/ RunRefused(r)
    \/ \E job \in run[r].jobs : RunSend(r, job)
    \/ RunEnd(r)

Next == NextDay \/ \E r \in Runs : Job(r)

Spec == Init /\ [][Next]_vars

-----------------------------------------------------------------------------
\* A user is alerted once of a CVE in a namespace, for a reason, until a run
\* has seen it gone, however runs overlap or fail after their plan.
AlertedOnce == \A a \in DOMAIN alerts : alerts[a] <= 1

\* What was there when a kind of alert was introduced is not alerted: neither
\* on a new installation nor when the mail came to one with in-app alerts.
SilentBaseline == \A a \in DOMAIN alerts : a[2] \in quiet => alerts[a] = 0

\* One alert mail per user and day, whichever runs are repeated or overlap.
OneMailPerDay == \A d \in DOMAIN mails : mails[d] <= 1

=============================================================================
