------------------------------ MODULE WorkerMail ------------------------------
(***************************************************************************)
(* What users are told, and when.  The three jobs of tasks/scheduler.py    *)
(* that claim a mail a day before they send it: subscription summaries     *)
(* (SubscriptionDigest), notification summaries (NotificationSummary) and  *)
(* alert summaries (TeamAlerts); what the diff of a subscription finds     *)
(* (SubscriptionDiff); and comments, mentions and the inbox (Discussion).  *)
(*                                                                         *)
(* They share no table but users and preferences, which no job writes, so  *)
(* a behaviour is one of one of them: `part` says of which, and the others *)
(* are off, but for the notification summary, whose outbox is empty then.  *)
(* SubscriptionDigest numbers the states that SubscriptionDiff compares,   *)
(* and NotificationSummary the entries that Discussion queues.             *)
(***************************************************************************)
EXTENDS Integers, FiniteSets

CONSTANTS
    Users, Cves, Runs,
    MaxSubscriptions, DayLength, MaxTime, MaxVersion, MaxPuts, MaxEvents, App,  \* SubscriptionDigest
    Ids, OwnerOf, Retention, SummaryDays, MaxOpen,                           \* NotificationSummary
    Namespaces, Severities, OrgWide, Access, AlertDays, NoLocation,          \* TeamAlerts
    DiffPairs, Specs, TagOf, Components, Ranks, CvssScores, EpssScores,
    NotifyDelta, Thresholds, Cap, MaxChanges, AllPairs, None,                \* SubscriptionDiff
    Talkers, SecTeam, Stranger, TalkPairs, Creator, AcceptancePairs, Subscribers,
    Reachable, Mentionings, Readers, WarnRuns, MaxMentions, ScanLimit, ListLimit,
    MaxEdits, MaxCauses, MaxMoves, Unscoped, Legacy,                         \* Discussion
    Off

VARIABLES
    part,
    subClock, subWorld, subs, subPuts, subPosts, subDiff, subEvents, subMail, subClaims, subMails, subTold,
    sumDay, sumOpen, sumQueue, sumUsed, sumRun, sumClaims, sumMails, sumLeft,
    alertDay, alertMarks, alertRun, alertClaims, alertMails, alerts, alertQuiet,
    rows, scores, scope, state, changes, told, seen, notified,
    sees, prefs, comments, edits, warns, inbox, causes, moves, sent, always

subVars == <<subClock, subWorld, subs, subPuts, subPosts, subDiff, subEvents, subMail, subClaims, subMails, subTold>>
sumVars == <<sumDay, sumOpen, sumQueue, sumUsed, sumRun, sumClaims, sumMails, sumLeft>>
alertVars == <<alertDay, alertMarks, alertRun, alertClaims, alertMails, alerts, alertQuiet>>
diffVars == <<rows, scores, scope, state, changes, told, seen, notified>>
talkVars == <<sees, prefs, comments, edits, warns, inbox, causes, moves, sent, always>>
vars == <<part, subVars, sumVars, alertVars, diffVars, talkVars>>

Subscriptions == INSTANCE SubscriptionDigest WITH
    MailRuns <- Runs,
    clock <- subClock, world <- subWorld, subs <- subs, puts <- subPuts,
    posts <- subPosts, diff <- subDiff, events <- subEvents, mail <- subMail,
    claims <- subClaims, mails <- subMails, told <- subTold

Summary == INSTANCE NotificationSummary WITH
    MaxDay <- SummaryDays,
    day <- sumDay, open <- sumOpen, queue <- sumQueue, used <- sumUsed,
    run <- sumRun, claims <- sumClaims, mails <- sumMails, left <- sumLeft

Alerts == INSTANCE TeamAlerts WITH
    MaxDay <- AlertDays,
    day <- alertDay, marks <- alertMarks, run <- alertRun, claims <- alertClaims,
    mails <- alertMails, alerts <- alerts, quiet <- alertQuiet

Diff == INSTANCE SubscriptionDiff WITH Pairs <- DiffPairs, Severities <- Ranks

Talk == INSTANCE Discussion WITH Users <- Talkers, Pairs <- TalkPairs, Runs <- WarnRuns

ASSUME ConstantsAssumption ==
    /\ Subscriptions!ConstantsAssumption
    /\ Summary!ConstantsAssumption
    /\ Alerts!ConstantsAssumption
    /\ Diff!ConstantsAssumption
    /\ Talk!ConstantsAssumption

Parts == {"subscriptions", "summary", "alerts", "diff", "discussion"}

TypeOK ==
    /\ part \in Parts
    /\ part = "subscriptions" => Subscriptions!TypeOK
    /\ part = "summary" => Summary!TypeOK
    /\ part = "alerts" => Alerts!TypeOK
    /\ part = "diff" => Diff!TypeOK
    /\ part = "discussion" => Talk!TypeOK

Off4(a, b, c, d) == a = Off /\ b = Off /\ c = Off /\ d = Off

Init ==
    /\ part \in Parts
    /\ IF part = "subscriptions" THEN Subscriptions!Init
       ELSE Off4(subClock, subWorld, subs, subPuts) /\ Off4(subPosts, subDiff, subEvents, subMail)
            /\ subClaims = Off /\ subMails = Off /\ subTold = Off
    /\ Summary!Init   \* an empty outbox, in the other parts as well
    /\ IF part = "alerts" THEN Alerts!Init
       ELSE Off4(alertDay, alertMarks, alertRun, alertClaims)
            /\ alertMails = Off /\ alerts = Off /\ alertQuiet = Off
    /\ IF part = "diff" THEN Diff!Init
       ELSE Off4(rows, scores, scope, state) /\ Off4(changes, told, seen, notified)
    /\ IF part = "discussion" THEN Talk!Init
       ELSE Off4(sees, prefs, comments, edits) /\ Off4(warns, inbox, causes, moves)
            /\ sent = Off /\ always = Off

SubscriptionsStep ==
    /\ part = "subscriptions" /\ Subscriptions!Next
    /\ UNCHANGED <<part, sumVars, alertVars, diffVars, talkVars>>

SummaryStep ==
    /\ part = "summary" /\ Summary!Next
    /\ UNCHANGED <<part, subVars, alertVars, diffVars, talkVars>>

AlertsStep ==
    /\ part = "alerts" /\ Alerts!Next
    /\ UNCHANGED <<part, subVars, sumVars, diffVars, talkVars>>

DiffStep ==
    /\ part = "diff" /\ Diff!Next
    /\ UNCHANGED <<part, subVars, sumVars, alertVars, talkVars>>

DiscussionStep ==
    /\ part = "discussion" /\ Talk!Next
    /\ UNCHANGED <<part, subVars, sumVars, alertVars, diffVars>>

Next == SubscriptionsStep \/ SummaryStep \/ AlertsStep \/ DiffStep \/ DiscussionStep

Spec == Init /\ [][Next]_vars

-----------------------------------------------------------------------------
\* No job mails a user twice a day, although runs overlap, are repeated, and
\* end between the claims and the mails.
OneMailPerDay ==
    /\ part = "subscriptions" => Subscriptions!OneMailPerDay
    /\ part = "summary" => Summary!OneMailPerDay
    /\ part = "alerts" => Alerts!OneMailPerDay

\* No event of a subscription is in two summaries, whatever their windows.
CountedOnce == part = "subscriptions" => Subscriptions!CountedOnce

\* A change the stored state of a subscription has absorbed was told, or was
\* there when the user subscribed.
NothingAbsorbed == part = "subscriptions" => Subscriptions!NothingAbsorbed

\* The notification summary implements the outbox: what is counted is counted
\* once and leaves the queue for good, whatever overlaps and crashes.
KeepsOutbox == Summary!KeepsOutbox

\* A queued event leaves by its evaluation or its age: one that is committed
\* while a run is at work waits for the next run.
LateEventsWait == Summary!LateEventsWait

\* A user is alerted once of a CVE in a namespace until a run sees it gone.
AlertedOnce == part = "alerts" => Alerts!AlertedOnce

\* What was there when a kind of alert was introduced is not alerted.
SilentBaseline == part = "alerts" => Alerts!SilentBaseline

\* Whatever changes between two runs of the diff, a subscriber is told of what
\* changed in the pairs seen at both of them, and of nothing else.
DiffExact == [][part = "diff" => Diff!Exact]_vars

\* Of a comment a user hears once, mentions are told by the edit that adds
\* them, and who loses access reads nothing of what was lost.
NoticesRight == part = "discussion" => Talk!NoticesRight

(***************************************************************************)
(* What the documentation says and the code does not keep                  *)
(***************************************************************************)

\* _plan_subscription_email: the counts are of what happened "since the
\* user's last summary".
NothingPassedOver == part = "subscriptions" => Subscriptions!NothingPassedOver

\* notify_risk_expiring: the creator is warned "once per acceptance".
WarnedOncePerAcceptance == part = "discussion" => Talk!WarnedOncePerAcceptance

=============================================================================
