-------------------------- MODULE NotificationSummary --------------------------
(***************************************************************************)
(* The daily notification summary: what create_notification queues         *)
(* (notifications/service.py) and services/notification_summary_service.py *)
(* evaluates.  In-app notifications, message keys and wording are left     *)
(* out.  Preferences and snapshots are read by a step of their own and by  *)
(* nothing else: that step takes any of their values.                      *)
(*                                                                         *)
(* Runs may overlap, as the workers of a rollout.  The day does not change *)
(* while one is open: it starts at 09:15 and takes minutes.                *)
(***************************************************************************)
EXTENDS Integers, FiniteSets, Functions

CONSTANTS
    Users,
    Ids,       \* primary keys of queued events, never used twice
    OwnerOf,   \* event -> the user it is for
    Runs,      \* runs of the job that may overlap
    Retention, \* EVENT_RETENTION_DAYS
    MaxDay,    \* bound on the days
    MaxOpen    \* bound on the requests that hold uncommitted events

\* What the definitions need of the constants; WorkerMail assumes it.
ConstantsAssumption ==
    /\ IsFiniteSet(Ids)
    /\ OwnerOf \in [Ids -> Users]
    /\ Retention \in Nat \ {0} /\ MaxDay \in Nat /\ MaxOpen \in Nat

VARIABLES
    day,
    open,   \* event of a request that has not committed -> its created_at
    queue,  \* notification_email_events: id -> created_at
    used,   \* ids handed out
    run,    \* the runs of the job
    claims, \* notification_summary_deliveries: <<user, day>> -> the events counted
    mails,  \* mails that left: <<user, day>> -> how many
    left    \* history: events evaluated or too old

vars == <<day, open, queue, used, run, claims, mails, left>>

Days == 0 .. MaxDay
Deliveries == Users \X Days
Idle == [step |-> "idle", events |-> {}, sent_today |-> {}, todo |-> {}, consumed |-> {}, jobs |-> {}]

TypeOK ==
    /\ day \in Days
    /\ DOMAIN open \subseteq Ids /\ open \in [DOMAIN open -> Days]
    /\ DOMAIN queue \subseteq Ids /\ queue \in [DOMAIN queue -> Days]
    /\ used \subseteq Ids
    /\ \A r \in Runs :
        /\ run[r].step \in {"idle", "load", "plan", "send"}
        /\ run[r].events \subseteq Ids /\ run[r].consumed \subseteq Ids
        /\ run[r].sent_today \subseteq Users /\ run[r].todo \subseteq Users
        /\ \A job \in run[r].jobs : job.user \in Users /\ job.counted \subseteq Ids
    /\ DOMAIN claims \subseteq Deliveries /\ claims \in [DOMAIN claims -> SUBSET Ids]
    /\ mails \in [Deliveries -> Nat]
    /\ left \subseteq Ids

Init ==
    /\ day = 0
    /\ open = <<>> /\ queue = <<>> /\ used = {}
    /\ run = [r \in Runs |-> Idle]
    /\ left = {}
    /\ claims = <<>>
    /\ mails = [d \in Deliveries |-> 0]

With(f, s, v) == [x \in DOMAIN f \cup s |-> IF x \in s THEN v ELSE f[x]]

-----------------------------------------------------------------------------
NextDay ==
    /\ day < MaxDay
    /\ \A r \in Runs : run[r] = Idle
    /\ day' = day + 1
    /\ UNCHANGED <<open, queue, used, run, claims, mails, left>>

\* create_notification for a user who wants the mail: the row is dated when
\* the session writes it, and there for others when the request commits.
Create(i) ==
    /\ i \notin used
    /\ Cardinality(DOMAIN open) < MaxOpen
    /\ open' = With(open, {i}, day)
    /\ used' = used \cup {i}
    /\ UNCHANGED <<day, queue, run, claims, mails, left>>

Commit(i) ==
    /\ i \in DOMAIN open
    /\ queue' = With(queue, {i}, open[i])
    /\ open' = Restrict(open, DOMAIN open \ {i})
    /\ UNCHANGED <<day, used, run, claims, mails, left>>

\* The request fails: the notification is rolled back with the rest.
Rollback(i) ==
    /\ i \in DOMAIN open
    /\ open' = Restrict(open, DOMAIN open \ {i})
    /\ UNCHANGED <<day, queue, used, run, claims, mails, left>>

(***************************************************************************)
(* run_notification_summary                                                *)
(***************************************************************************)
\* _load_events
RunLoad(r) ==
    /\ run[r] = Idle
    /\ run' = [run EXCEPT ![r] = [Idle EXCEPT !.step = "load", !.events = DOMAIN queue]]
    /\ UNCHANGED <<day, open, queue, used, claims, mails, left>>

\* The users with a summary of today, then the recipients.
RunRecipients(r) ==
    /\ run[r].step = "load"
    /\ \E recipients \in SUBSET Users :
          run' = [run EXCEPT ![r].step = "plan", ![r].todo = recipients,
                             ![r].sent_today = {u \in Users : <<u, day>> \in DOMAIN claims}]
    /\ UNCHANGED <<day, open, queue, used, claims, mails, left>>

EventsOf(r, u) == {i \in run[r].events : OwnerOf[i] = u}

\* Mutant: what was counted stays in the queue.
ConsumedIfUnwanted(r, u, counted) == EventsOf(r, u) \ counted

\* What was evaluated is consumed, whether it is wanted or not.
Consumed(r, u, counted) == EventsOf(r, u)

\* _plan_counts: the events of the categories the user wants, and live counts
\* of overdue remediations and expiring acceptances.  Nobody with neither, or
\* without an address, gets a mail.
RunPlan(r, u) ==
    /\ run[r].step = "plan"
    /\ u \in run[r].todo
    /\ IF u \in run[r].sent_today
       THEN run' = [run EXCEPT ![r].todo = @ \ {u}]
       ELSE \E counted \in SUBSET EventsOf(r, u), news \in BOOLEAN :
               run' = [run EXCEPT ![r].todo = @ \ {u},
                                  ![r].consumed = @ \cup Consumed(r, u, counted),
                                  ![r].jobs = IF news THEN @ \cup {[user |-> u, counted |-> counted]}
                                              ELSE @]
    /\ UNCHANGED <<day, open, queue, used, claims, mails, left>>

\* Mutant: all queued events of the users evaluated go, not by id.
AllLeave(r) == IF run[r].consumed = {} THEN {} ELSE DOMAIN queue

\* The events evaluated go by id, and those that are too old.
Leave(r) == (run[r].consumed \cap DOMAIN queue) \cup {i \in DOMAIN queue : queue[i] < day - Retention}

\* Mutant: the deliveries have no primary key.
NeverClaimed(r) == TRUE

\* The primary key of notification_summary_deliveries.
ClaimsFree(r) == \A job \in run[r].jobs : <<job.user, day>> \notin DOMAIN claims

Claimed(r) ==
    [d \in {<<job.user, day>> : job \in run[r].jobs} |->
        (CHOOSE job \in run[r].jobs : job.user = d[1]).counted]

RunCommit(r) ==
    /\ run[r].step = "plan" /\ run[r].todo = {}
    /\ ClaimsFree(r)
    /\ queue' = Restrict(queue, DOMAIN queue \ Leave(r))
    /\ left' = left \cup Leave(r)
    /\ claims' = [d \in DOMAIN claims \cup DOMAIN Claimed(r) |->
                     IF d \in DOMAIN claims THEN claims[d] ELSE Claimed(r)[d]]
    /\ run' = [run EXCEPT ![r] = [Idle EXCEPT !.step = "send", !.jobs = run[r].jobs]]
    /\ UNCHANGED <<day, open, used, mails>>

\* Another run claimed one of the users: everything is rolled back.
RunRefused(r) ==
    /\ run[r].step = "plan" /\ run[r].todo = {}
    /\ ~ClaimsFree(r)
    /\ run' = [run EXCEPT ![r] = Idle]
    /\ UNCHANGED <<day, open, queue, used, claims, mails, left>>

\* After the commit; a failure is logged and the next one follows.
RunSend(r, job) ==
    /\ run[r].step = "send"
    /\ job \in run[r].jobs
    /\ run' = [run EXCEPT ![r].jobs = @ \ {job}]
    /\ \/ mails' = [mails EXCEPT ![<<job.user, day>>] = @ + 1]
       \/ UNCHANGED mails
    /\ UNCHANGED <<day, open, queue, used, claims, left>>

\* The run is done, or fails, or the worker ends.
RunEnd(r) ==
    /\ run[r] # Idle
    /\ run' = [run EXCEPT ![r] = Idle]
    /\ UNCHANGED <<day, open, queue, used, claims, mails, left>>

-----------------------------------------------------------------------------
Job(r) ==
    \/ RunLoad(r)
    \/ RunRecipients(r)
    \/ \E u \in Users : RunPlan(r, u)
    \/ RunCommit(r)
    \/ RunRefused(r)
    \/ \E job \in run[r].jobs : RunSend(r, job)
    \/ RunEnd(r)

Next ==
    \/ NextDay
    \/ \E i \in Ids : Create(i) \/ Commit(i) \/ Rollback(i)
    \/ \E r \in Runs : Job(r)

Spec == Init /\ [][Next]_vars

-----------------------------------------------------------------------------
Box == INSTANCE Outbox WITH
    Items     <- Ids,
    waiting   <- DOMAIN queue,
    summaries <- claims,
    sent      <- {d \in Deliveries : mails[d] > 0}

\* Every commit, crash, overlap and repetition is a step of the outbox:
\* nothing is counted twice or counted and kept, a user has one summary a
\* day, and an event that left the queue does not come back.
KeepsOutbox == Box!Spec

\* An event that leaves was evaluated or is past its retention: one that a
\* request commits while a run is at work waits for the next run.
LateEventsWait ==
    [][\A i \in DOMAIN queue \ DOMAIN queue' :
          (\E r \in Runs : i \in run[r].events) \/ queue[i] < day - Retention]_vars

\* One summary mail per user and day.
OneMailPerDay == \A d \in Deliveries : mails[d] <= 1

=============================================================================
