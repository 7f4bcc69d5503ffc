-------------------------- MODULE SubscriptionDigest --------------------------
(***************************************************************************)
(* CVE subscriptions: services/cve_subscription_service.py, its hourly     *)
(* diff, the events of the application and the daily summary mail.         *)
(*                                                                         *)
(* What a subscriber sees of a CVE is a version number: how two states     *)
(* differ is the business of SubscriptionDiff.  A batch of the diff is one *)
(* CVE.  Scopes, wording and the in-app notification are left out, as is   *)
(* the purge after 30 days, which no instance lives to see.                *)
(*                                                                         *)
(* One worker runs the scheduler, and APScheduler starts no second diff    *)
(* while one is open.  Mail runs may overlap, as during a rollout.  The    *)
(* day does not change while a mail run is open: it starts at 07:20 and    *)
(* takes minutes.                                                          *)
(***************************************************************************)
EXTENDS Integers, FiniteSets, Functions

CONSTANTS
    Users,     \* subscribers
    Cves,      \* subscribed CVEs, a batch each
    MailRuns,  \* runs of the summary mail that may overlap
    MaxSubscriptions,  \* MAX_SUBSCRIPTIONS_PER_USER
    DayLength, \* ticks of the clock in a day
    MaxTime,   \* bound on the clock
    MaxVersion,\* bound on the changes of a CVE
    MaxPuts,   \* bound on the subscribe requests in flight
    MaxEvents, \* with so many events, no broadcast or unsubscription follows (a bound)
    App        \* the version of an event the application emits

\* What the definitions need of the constants; WorkerMail assumes it.
ConstantsAssumption ==
    /\ IsFiniteSet(Users) /\ IsFiniteSet(Cves)
    /\ MaxSubscriptions \in Nat \ {0} /\ DayLength \in Nat \ {0}
    /\ MaxTime \in Nat /\ MaxVersion \in Nat /\ MaxPuts \in Nat /\ MaxEvents \in Nat
    /\ App \notin Nat

VARIABLES
    clock,   \* the time
    world,   \* CVE -> its version in StackRox
    subs,    \* cve_subscriptions: <<user, cve>> -> version of the stored state
    puts,    \* PUT requests between the baseline and the commit
    posts,   \* broadcasts between _emit and the commit of the caller
    diff,    \* the run of the diff job
    events,  \* cve_subscription_events
    mail,    \* mail run -> its plan
    claims,  \* cve_subscription_email_deliveries, with the events counted
    mails,   \* mails that left: <<user, day>> -> how many
    told     \* history: <<user, cve>> -> last version baselined or told

vars == <<clock, world, subs, puts, posts, diff, events, mail, claims, mails, told>>

Times == 0 .. MaxTime
Versions == 0 .. MaxVersion
Day(t) == t \div DayLength
Days == 0 .. Day(MaxTime)
Subscribable == Users \X Cves

Event == [user : Users, cve : Cves, version : Versions \cup {App}, at : Times]
Claim == [user : Users, sent_on : Days, sent_at : Times, counted : SUBSET Event]

NoDiff == [step |-> "idle"]
NoMail == [step |-> "idle", now |-> 0, todo |-> {}, jobs |-> {}]
NoPost == [open |-> FALSE]

DiffTypeOK ==
    \/ diff = NoDiff
    \/ /\ diff.step \in {"next", "rows", "subs"}
       /\ diff.now \in Times /\ diff.recipients \subseteq Users /\ diff.todo \subseteq Cves
       /\ diff.step \in {"rows", "subs"} => diff.cve \in Cves /\ diff.fresh \in Versions
       /\ diff.step = "subs" => diff.loaded \in [DOMAIN diff.loaded -> Versions]

MailTypeOK ==
    \A r \in MailRuns :
        /\ mail[r].step \in {"idle", "plan", "send"}
        /\ mail[r].now \in Times
        /\ mail[r].todo \subseteq Users
        /\ mail[r].jobs \subseteq Claim

TypeOK ==
    /\ clock \in Times
    /\ world \in [Cves -> Versions]
    /\ DOMAIN subs \subseteq Subscribable /\ subs \in [DOMAIN subs -> Versions]
    /\ puts \subseteq Subscribable \X Versions
    /\ posts = NoPost \/ posts.events \subseteq Event
    /\ DiffTypeOK /\ MailTypeOK
    /\ events \subseteq Event
    /\ claims \subseteq Claim
    /\ mails \in [Users \X Days -> Nat]
    /\ told \in [Subscribable -> Versions]

Init ==
    /\ clock = 0
    /\ world = [c \in Cves |-> 0]
    /\ subs = <<>> /\ puts = {} /\ posts = NoPost
    /\ diff = NoDiff
    /\ events = {} /\ claims = {}
    /\ mail = [r \in MailRuns |-> NoMail]
    /\ mails = [d \in Users \X Days |-> 0]
    /\ told = [s \in Subscribable |-> 0]

-----------------------------------------------------------------------------
(***************************************************************************)
(* The surroundings: time and scans                                        *)
(***************************************************************************)
MailOpen == \E r \in MailRuns : mail[r] # NoMail

Tick ==
    /\ clock < MaxTime
    /\ MailOpen => Day(clock + 1) = Day(clock)
    /\ clock' = clock + 1
    /\ UNCHANGED <<world, subs, puts, posts, diff, events, mail, claims, mails, told>>

ScanChanges(c) ==
    /\ world[c] < MaxVersion
    /\ world' = [world EXCEPT ![c] = @ + 1]
    /\ UNCHANGED <<clock, subs, puts, posts, diff, events, mail, claims, mails, told>>

(***************************************************************************)
(* subscribe and unsubscribe                                               *)
(***************************************************************************)
\* Of what a user has seen of a CVE, the last version counts.
Later(v, w) == IF w > v THEN w ELSE v

SubscriptionsOf(u) == {s \in DOMAIN subs : s[1] = u}

SubscribeLoad(u, c) ==
    /\ Cardinality(puts) < MaxPuts
    /\ <<u, c>> \notin DOMAIN subs
    /\ Cardinality(SubscriptionsOf(u)) < MaxSubscriptions
    /\ puts' = puts \cup {<< <<u, c>>, world[c]>>}
    /\ UNCHANGED <<clock, world, subs, posts, diff, events, mail, claims, mails, told>>

\* A row that is there already stays: the other request won.
SubscribeCommit(p) ==
    /\ p \in puts
    /\ puts' = puts \ {p}
    /\ IF p[1] \in DOMAIN subs
       THEN UNCHANGED <<subs, told>>
       ELSE /\ subs' = [s \in DOMAIN subs \cup {p[1]} |-> IF s = p[1] THEN p[2] ELSE subs[s]]
            /\ told' = [told EXCEPT ![p[1]] = Later(@, p[2])]
    /\ UNCHANGED <<clock, world, posts, diff, events, mail, claims, mails>>

Unsubscribe(s) ==
    /\ s \in DOMAIN subs
    /\ Cardinality(events) < MaxEvents
    /\ subs' = Restrict(subs, DOMAIN subs \ {s})
    /\ UNCHANGED <<clock, world, puts, posts, diff, events, mail, claims, mails, told>>

(***************************************************************************)
(* broadcast_subscription_event: a comment, a risk acceptance, a priority. *)
(* The event has the time of the call and is there when the caller         *)
(* commits.                                                                *)
(***************************************************************************)
Broadcast(c) ==
    /\ ~posts.open
    /\ Cardinality(events) < MaxEvents
    /\ \E exclude \in SUBSET Users :
       LET recipients == {u \in Users \ exclude : <<u, c>> \in DOMAIN subs}
       IN /\ recipients # {}
          /\ posts' = [open |-> TRUE,
                       events |-> {[user |-> u, cve |-> c, version |-> App, at |-> clock]
                                       : u \in recipients}]
    /\ UNCHANGED <<clock, world, subs, puts, diff, events, mail, claims, mails, told>>

BroadcastCommit ==
    /\ posts.open
    /\ events' = events \cup posts.events
    /\ posts' = NoPost
    /\ UNCHANGED <<clock, world, subs, puts, diff, mail, claims, mails, told>>

(***************************************************************************)
(* run_subscription_diff                                                   *)
(***************************************************************************)
\* load_active_recipients: the users seen lately, which any set may be.
DiffStart(recipients) ==
    /\ diff = NoDiff
    /\ subs # <<>>
    /\ diff' = [step |-> "next", now |-> clock, recipients |-> recipients,
                todo |-> {s[2] : s \in DOMAIN subs}]
    /\ UNCHANGED <<clock, world, subs, puts, posts, events, mail, claims, mails, told>>

\* get_subscription_locations of the next batch, at StackRox.
DiffRows(c) ==
    /\ diff.step = "next"
    /\ c \in diff.todo
    /\ diff' = [step |-> "rows", now |-> diff.now, recipients |-> diff.recipients,
                todo |-> diff.todo \ {c}, cve |-> c, fresh |-> world[c]]
    /\ UNCHANGED <<clock, world, subs, puts, posts, events, mail, claims, mails, told>>

\* The subscriptions of the batch; those of an inactive user are skipped.
DiffSubs ==
    /\ diff.step = "rows"
    /\ LET loaded == {s \in DOMAIN subs : s[1] \in diff.recipients /\ s[2] = diff.cve}
       IN diff' = [step |-> "subs", now |-> diff.now, recipients |-> diff.recipients,
                   todo |-> diff.todo, cve |-> diff.cve, fresh |-> diff.fresh,
                   loaded |-> Restrict(subs, loaded)]
    /\ UNCHANGED <<clock, world, subs, puts, posts, events, mail, claims, mails, told>>

DiffNext == IF diff.todo = {} THEN NoDiff
            ELSE [step |-> "next", now |-> diff.now, recipients |-> diff.recipients,
                  todo |-> diff.todo]

Changed == {s \in DOMAIN diff.loaded : diff.loaded[s] # diff.fresh}

\* _flush_user_events: the rows carry the time the run started.
Flushed == {[user |-> s[1], cve |-> s[2], version |-> diff.fresh, at |-> diff.now] : s \in Changed}

\* Mutant: the state of a user without a snapshot is stored too, without an event.
StoredFresh(s) == s[2] = diff.cve

\* Plain UPDATE by key: nothing happens to a row that is gone.
Stores(s) == s \in DOMAIN diff.loaded

DiffCommit ==
    /\ diff.step = "subs"
    /\ subs' = [s \in DOMAIN subs |-> IF Stores(s) THEN diff.fresh ELSE subs[s]]
    /\ events' = events \cup Flushed
    /\ told' = [s \in Subscribable |->
                   IF s \in Changed THEN Later(told[s], diff.fresh) ELSE told[s]]
    /\ diff' = DiffNext
    /\ UNCHANGED <<clock, world, puts, posts, mail, claims, mails>>

\* StackRox or the database fails, or the worker ends: the batch is rolled back.
DiffFails ==
    /\ diff # NoDiff
    /\ diff' = NoDiff
    /\ UNCHANGED <<clock, world, subs, puts, posts, events, mail, claims, mails, told>>

(***************************************************************************)
(* run_subscription_email_digest                                           *)
(***************************************************************************)
MailStart(r) ==
    /\ mail[r] = NoMail
    /\ \E recipients \in SUBSET Users :
           mail' = [mail EXCEPT ![r] = [step |-> "plan", now |-> clock, todo |-> recipients, jobs |-> {}]]
    /\ UNCHANGED <<clock, world, subs, puts, posts, diff, events, claims, mails, told>>

ClaimsOf(u) == {k \in claims : k.user = u}
ClaimedOn(u, day) == \E k \in ClaimsOf(u) : k.sent_on = day

\* Mutant: every summary looks back a day, whatever was sent before.
DayBefore(u, now) == now - DayLength

Cursor(u, now) ==
    IF ClaimsOf(u) = {} THEN now - DayLength
    ELSE CHOOSE t \in Times : /\ \E k \in ClaimsOf(u) : k.sent_at = t
                              /\ \A k \in ClaimsOf(u) : k.sent_at <= t

\* _plan_subscription_email
Window(u, now) == {e \in events : e.user = u /\ e.at > Cursor(u, now) /\ e.at <= now}

\* Mutant: the claim is keyed by the time of the run, not by its day.
PlannedAtTime(r, u) ==
    [user |-> u, sent_on |-> mail[r].now, sent_at |-> mail[r].now,
     counted |-> Window(u, mail[r].now)]

Planned(r, u) ==
    [user |-> u, sent_on |-> Day(mail[r].now), sent_at |-> mail[r].now,
     counted |-> Window(u, mail[r].now)]

\* Whether a user wants the mail and has an address is any choice, except
\* that nobody is planned who has today's claim or no event to be told of.
MailPlan(r, u) ==
    /\ mail[r].step = "plan"
    /\ u \in mail[r].todo
    /\ LET planned == Planned(r, u)
       IN \E jobs \in {{}} \cup (IF ClaimedOn(u, Day(mail[r].now)) \/ planned.counted = {}
                                THEN {} ELSE {{planned}}) :
             mail' = [mail EXCEPT ![r].todo = @ \ {u}, ![r].jobs = @ \cup jobs]
    /\ UNCHANGED <<clock, world, subs, puts, posts, diff, events, claims, mails, told>>

\* Mutant: no primary key on user and day.
NeverClaimed(r) == TRUE

\* The primary key of cve_subscription_email_deliveries.
ClaimsFree(r) == \A k \in mail[r].jobs : ~ClaimedOn(k.user, k.sent_on)

MailCommit(r) ==
    /\ mail[r].step = "plan"
    /\ mail[r].todo = {}
    /\ ClaimsFree(r)
    /\ claims' = claims \cup mail[r].jobs
    /\ mail' = [mail EXCEPT ![r].step = "send"]
    /\ UNCHANGED <<clock, world, subs, puts, posts, diff, events, mails, told>>

\* Another run claimed one of the users: the whole run is rolled back.
MailRefused(r) ==
    /\ mail[r].step = "plan"
    /\ mail[r].todo = {}
    /\ ~ClaimsFree(r)
    /\ mail' = [mail EXCEPT ![r] = NoMail]
    /\ UNCHANGED <<clock, world, subs, puts, posts, diff, events, claims, mails, told>>

\* One mail after the other; a failure is logged and the next one follows.
MailSend(r, job) ==
    /\ mail[r].step = "send"
    /\ job \in mail[r].jobs
    /\ mail' = [mail EXCEPT ![r].jobs = @ \ {job}]
    /\ \/ mails' = [mails EXCEPT ![<<job.user, job.sent_on>>] = @ + 1]
       \/ UNCHANGED mails
    /\ UNCHANGED <<clock, world, subs, puts, posts, diff, events, claims, told>>

\* The run is done, or fails, or the worker ends: what is left is not sent.
MailEnd(r) ==
    /\ mail[r] # NoMail
    /\ mail' = [mail EXCEPT ![r] = NoMail]
    /\ UNCHANGED <<clock, world, subs, puts, posts, diff, events, claims, mails, told>>

-----------------------------------------------------------------------------
MailStep(r) ==
    \/ MailStart(r)
    \/ \E u \in Users : MailPlan(r, u)
    \/ MailCommit(r)
    \/ MailRefused(r)
    \/ \E job \in mail[r].jobs : MailSend(r, job)
    \/ MailEnd(r)

Requests ==
    \/ \E u \in Users, c \in Cves : SubscribeLoad(u, c)
    \/ \E p \in puts : SubscribeCommit(p)
    \/ \E s \in DOMAIN subs : Unsubscribe(s)
    \/ \E c \in Cves : Broadcast(c)
    \/ BroadcastCommit

Surroundings ==
    \/ Tick
    \/ \E c \in Cves : ScanChanges(c)

Next ==
    \/ Requests
    \/ Surroundings
    \/ \E recipients \in SUBSET Users : DiffStart(recipients)
    \/ \E c \in Cves : DiffRows(c)
    \/ DiffSubs
    \/ DiffCommit
    \/ DiffFails
    \/ \E r \in MailRuns : MailStep(r)

Spec == Init /\ [][Next]_vars

-----------------------------------------------------------------------------
\* One summary mail per user and day, although runs overlap, crash between
\* the claim and the mails, and are started again on the same day.
OneMailPerDay == \A d \in DOMAIN mails : mails[d] <= 1

\* No event is in two summaries, whatever the windows of the runs are.
CountedOnce ==
    \A k1, k2 \in claims : k1.user = k2.user /\ k1 # k2 => k1.counted \cap k2.counted = {}

\* A change the stored state has absorbed was told, or was there when the
\* user last subscribed or did so before: a failed batch, a user without a snapshot and a
\* subscription that comes and goes under the run do not swallow one.
NothingAbsorbed == \A s \in DOMAIN subs : subs[s] <= told[s]

(***************************************************************************)
(* What the documentation says and the code does not keep                  *)
(***************************************************************************)

\* _plan_subscription_email: the summary counts what happened "since the
\* user's last summary".  An event no older than a summary, and within its
\* first day, should be in it or in an earlier one.
NothingPassedOver ==
    \A e \in events, k \in claims :
        /\ e.user = k.user
        /\ e.at <= k.sent_at /\ e.at > k.sent_at - DayLength
        => \E j \in claims : e \in j.counted

=============================================================================
