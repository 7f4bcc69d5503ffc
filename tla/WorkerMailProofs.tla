---------------------------- MODULE WorkerMailProofs ----------------------------
(***************************************************************************)
(* The theorems about the jobs hold in their composition: a behaviour of   *)
(* WorkerMail is one of the notification summary, and of the subscriptions *)
(* when it is theirs.  The alerts, the diff of a subscription and the      *)
(* discussion are proved about here.                                       *)
(***************************************************************************)
EXTENDS WorkerMail, FiniteSetTheorems, TLAPS

SummaryProofs == INSTANCE NotificationSummaryProofs WITH
    MaxDay <- SummaryDays,
    day <- sumDay, open <- sumOpen, queue <- sumQueue, used <- sumUsed,
    run <- sumRun, claims <- sumClaims, mails <- sumMails, left <- sumLeft

SubscriptionProofs == INSTANCE SubscriptionDigestProofs WITH
    MailRuns <- Runs,
    clock <- subClock, world <- subWorld, subs <- subs, puts <- subPuts,
    posts <- subPosts, diff <- subDiff, events <- subEvents, mail <- subMail,
    claims <- subClaims, mails <- subMails, told <- subTold

\* The instance the module composes and the one its theorems come from say the
\* same, definition by definition.
LEMMA SummaryBehaviour == Spec => SummaryProofs!Spec
<1>1. Init => SummaryProofs!Init
  BY DEF Init, Summary!Init, Summary!Idle, Summary!Deliveries, Summary!Days,
         SummaryProofs!Init, SummaryProofs!Idle, SummaryProofs!Deliveries, SummaryProofs!Days
<1>2. Summary!Next => SummaryProofs!Next
  <2>1. ASSUME Summary!NextDay
        PROVE  SummaryProofs!NextDay
    BY <2>1 DEF Summary!NextDay, SummaryProofs!NextDay, Summary!Idle, SummaryProofs!Idle
  <2>2. ASSUME NEW i, Summary!Create(i)
        PROVE  SummaryProofs!Create(i)
    BY <2>2 DEF Summary!Create, SummaryProofs!Create, Summary!With, SummaryProofs!With,
         Summary!Cardinality, SummaryProofs!Cardinality
  <2>3. ASSUME NEW i, Summary!Commit(i)
        PROVE  SummaryProofs!Commit(i)
    BY <2>3 DEF Summary!Commit, SummaryProofs!Commit, Summary!With, SummaryProofs!With,
         Summary!Restrict, SummaryProofs!Restrict
  <2>4. ASSUME NEW i, Summary!Rollback(i)
        PROVE  SummaryProofs!Rollback(i)
    BY <2>4 DEF Summary!Rollback, SummaryProofs!Rollback, Summary!Restrict, SummaryProofs!Restrict
  <2>5. ASSUME NEW r, Summary!RunLoad(r)
        PROVE  SummaryProofs!RunLoad(r)
    BY <2>5 DEF Summary!RunLoad, SummaryProofs!RunLoad, Summary!Idle, SummaryProofs!Idle
  <2>6. ASSUME NEW r, Summary!RunRecipients(r)
        PROVE  SummaryProofs!RunRecipients(r)
    BY <2>6 DEF Summary!RunRecipients, SummaryProofs!RunRecipients
  <2>7. ASSUME NEW r, NEW u, Summary!RunPlan(r, u)
        PROVE  SummaryProofs!RunPlan(r, u)
    BY <2>7 DEF Summary!RunPlan, SummaryProofs!RunPlan, Summary!Consumed, SummaryProofs!Consumed,
         Summary!EventsOf, SummaryProofs!EventsOf
  <2>8. ASSUME NEW r, Summary!RunCommit(r)
        PROVE  SummaryProofs!RunCommit(r)
    BY <2>8 DEF Summary!RunCommit, SummaryProofs!RunCommit, Summary!ClaimsFree,
         SummaryProofs!ClaimsFree, Summary!Claimed, SummaryProofs!Claimed, Summary!Leave,
         SummaryProofs!Leave, Summary!Restrict, SummaryProofs!Restrict, Summary!Idle,
         SummaryProofs!Idle
  <2>9. ASSUME NEW r, Summary!RunRefused(r)
        PROVE  SummaryProofs!RunRefused(r)
    BY <2>9 DEF Summary!RunRefused, SummaryProofs!RunRefused, Summary!ClaimsFree,
         SummaryProofs!ClaimsFree, Summary!Idle, SummaryProofs!Idle
  <2>10. ASSUME NEW r, NEW job, Summary!RunSend(r, job)
         PROVE  SummaryProofs!RunSend(r, job)
    BY <2>10 DEF Summary!RunSend, SummaryProofs!RunSend
  <2>11. ASSUME NEW r, Summary!RunEnd(r)
         PROVE  SummaryProofs!RunEnd(r)
    BY <2>11 DEF Summary!RunEnd, SummaryProofs!RunEnd, Summary!Idle, SummaryProofs!Idle
  <2> QED
    BY <2>1, <2>2, <2>3, <2>4, <2>5, <2>6, <2>7, <2>8, <2>9, <2>10, <2>11 DEF Summary!Next,
         Summary!Job, SummaryProofs!Next, SummaryProofs!Job
<1>3. [Next]_vars => [SummaryProofs!Next]_(SummaryProofs!vars)
  BY <1>2 DEF Next, SubscriptionsStep, SummaryStep, AlertsStep, DiffStep, DiscussionStep, vars,
              sumVars, SummaryProofs!vars
<1> QED
  BY <1>1, <1>3, PTL DEF Spec, SummaryProofs!Spec

LEMMA SummaryAssumptions == SummaryProofs!ConstantsAssumption
  BY ConstantsAssumption
  DEF Summary!ConstantsAssumption, SummaryProofs!ConstantsAssumption, Summary!IsFiniteSet,
      SummaryProofs!IsFiniteSet

\* In the composition, too, the notification summary implements the outbox.
THEOREM Refinement == Spec => KeepsOutbox
<1>1. SummaryProofs!Box!Init => Summary!Box!Init
  BY DEF Summary!Box!Init, SummaryProofs!Box!Init, Summary!Deliveries, SummaryProofs!Deliveries,
         Summary!Days, SummaryProofs!Days
<1>2. [SummaryProofs!Box!Next]_(SummaryProofs!Box!vars) => [Summary!Box!Next]_(Summary!Box!vars)
  BY DEF Summary!Box!Next, SummaryProofs!Box!Next, Summary!Box!vars, SummaryProofs!Box!vars,
         Summary!Box!Enqueue, SummaryProofs!Box!Enqueue, Summary!Box!Settle, SummaryProofs!Box!Settle,
         Summary!Box!Send, SummaryProofs!Box!Send, Summary!Box!Counted, SummaryProofs!Box!Counted,
         Summary!Deliveries, SummaryProofs!Deliveries, Summary!Days, SummaryProofs!Days
<1>3. Spec => SummaryProofs!KeepsOutbox
  BY SummaryBehaviour, SummaryProofs!Refinement, SummaryAssumptions
<1> QED
  BY <1>1, <1>2, <1>3, PTL DEF KeepsOutbox, Summary!KeepsOutbox, SummaryProofs!KeepsOutbox,
                               Summary!Box!Spec, SummaryProofs!Box!Spec

\* An event that leaves the queue was read by a run or is past its retention.
THEOREM LateWait == Spec => LateEventsWait
  BY SummaryBehaviour, SummaryProofs!LateWait, SummaryAssumptions, PTL
  DEF LateEventsWait, Summary!LateEventsWait, SummaryProofs!LateEventsWait, Summary!vars,
      SummaryProofs!vars

-----------------------------------------------------------------------------
\* The alerts of a team, for every number of users, locations, days and
\* overlapping runs.
AlertJob == [user : Users, keys : SUBSET Alerts!Key]

AlertRunRecord ==
    [step : {"idle", "plan", "commit", "send"}, existing : SUBSET (Alerts!Key \cup Alerts!BaselineMarks),
     current : SUBSET Alerts!Key, inapp : SUBSET (Users \X Alerts!Key), jobs : SUBSET AlertJob, on : Alerts!Days]

\* The type invariant with the runs as records.
AlertTypeInv ==
    /\ alertDay \in Alerts!Days
    /\ alertMarks \subseteq Alerts!Key \cup Alerts!BaselineMarks
    /\ alertRun \in [Runs -> AlertRunRecord]
    /\ alertClaims \subseteq Users \X Alerts!Days
    /\ alertMails \in [Users \X Alerts!Days -> Nat]
    /\ alerts \in [Users \X Alerts!Key -> Nat]
    /\ alertQuiet \subseteq Alerts!Key

\* What a run is about to tell is new to it and has its baseline.
AlertPlanInv ==
    \A r \in Runs : alertRun[r].step = "commit" =>
        /\ \A u \in Users, k \in Alerts!Key :
              <<u, k>> \in alertRun[r].inapp => k \in Alerts!NotifyKeys(r) /\ k[2] \in Alerts!InAppReasons
        /\ \A job \in alertRun[r].jobs : job.keys \subseteq Alerts!NotifyKeys(r)

\* Who was alerted of a key was alerted once and the key is marked; a key that
\* was recorded silently is marked and alerted to nobody.
AlertInv ==
    /\ alertQuiet \subseteq alertMarks
    /\ \A u \in Users, k \in Alerts!Key :
          /\ alerts[<<u, k>>] <= 1
          /\ alerts[<<u, k>>] > 0 => k \in alertMarks
          /\ k \in alertQuiet => alerts[<<u, k>>] = 0

\* A mail still to send is claimed, by one run, and has not been sent.
AlertMailInv ==
    /\ \A r \in Runs : alertRun[r].step \in {"commit", "send"} =>
          \A j, k \in alertRun[r].jobs : j.user = k.user => j = k
    /\ \A r \in Runs : alertRun[r].step = "send" =>
          \A j \in alertRun[r].jobs :
              <<j.user, alertRun[r].on>> \in alertClaims /\ alertMails[<<j.user, alertRun[r].on>>] = 0
    /\ \A r, s \in Runs : r # s /\ alertRun[r].step = "send" /\ alertRun[s].step = "send" =>
          \A j \in alertRun[r].jobs, k \in alertRun[s].jobs : j.user # k.user \/ alertRun[r].on # alertRun[s].on
    /\ \A d \in Users \X Alerts!Days : alertMails[d] <= 1 /\ (d \notin alertClaims => alertMails[d] = 0)

\* A run tells of the keys its candidates have.
LEMMA ClassifiedKeys ==
    ASSUME NEW found \in Alerts!Candidates, NEW prioritized
    PROVE  Alerts!Classified(found, prioritized) \subseteq Alerts!Key
<1>1. DOMAIN found \subseteq Alerts!Locations
  BY DEF Alerts!Candidates
<1>2. ASSUME NEW l \in Alerts!Locations, NEW severity
      PROVE  Alerts!KeysOf(l, severity, prioritized) \subseteq Alerts!Key
  BY DEF Alerts!KeysOf, Alerts!Key, Alerts!InAppReasons, Alerts!EmailReasons
<1> QED
  BY <1>1, <1>2 DEF Alerts!Classified

LEMMA AlertIdleType ==
    ASSUME Alerts!ConstantsAssumption
    PROVE  Alerts!Idle \in AlertRunRecord
  BY DEF Alerts!Idle, AlertRunRecord, Alerts!Days, Alerts!ConstantsAssumption

LEMMA AlertSentType ==
    ASSUME NEW t \in AlertRunRecord, NEW job
    PROVE  [t EXCEPT !.jobs = t.jobs \ {job}] \in AlertRunRecord
  BY DEF AlertRunRecord

LEMMA AlertInitType ==
    ASSUME Alerts!ConstantsAssumption, Alerts!Init
    PROVE  AlertTypeInv
<1>1. \A l \in Alerts!Locations \X {"visible"} : l \in Alerts!Key
  BY DEF Alerts!Key, Alerts!InAppReasons
<1>2. alertMarks \subseteq Alerts!Key \cup Alerts!BaselineMarks
  BY <1>1 DEF Alerts!Init, Alerts!BaselineMarks
<1>3. alertRun \in [Runs -> AlertRunRecord]
  BY AlertIdleType DEF Alerts!Init
<1> QED
  BY <1>2, <1>3 DEF Alerts!Init, AlertTypeInv, Alerts!Days, Alerts!ConstantsAssumption

\* A plan is well typed.
LEMMA AlertPlanTypes ==
    ASSUME AlertTypeInv, NEW r \in Runs, NEW recipients \in SUBSET Users
    PROVE  /\ Alerts!NotifyKeys(r) \subseteq Alerts!Key
           /\ Alerts!InAppPlan(r, recipients) \subseteq Users \X Alerts!Key
           /\ \A u \in Users : [user |-> u, keys |-> Alerts!EmailPlan(r, u)] \in AlertJob
<1>1. Alerts!NotifyKeys(r) \subseteq Alerts!Key
  BY DEF Alerts!NotifyKeys, Alerts!NewKeys, AlertTypeInv, AlertRunRecord
<1>2. \A u \in Users : Alerts!EmailPlan(r, u) \subseteq Alerts!Key
  BY <1>1 DEF Alerts!EmailPlan
<1> QED
  BY <1>1, <1>2 DEF Alerts!InAppPlan, AlertJob

LEMMA AlertNextType ==
    ASSUME Alerts!ConstantsAssumption, AlertTypeInv, [Alerts!Next]_(Alerts!vars)
    PROVE  AlertTypeInv'
<1> USE DEF AlertTypeInv
<1>1. CASE Alerts!NextDay
  BY <1>1 DEF Alerts!NextDay, Alerts!Days, Alerts!ConstantsAssumption
<1>2. ASSUME NEW r \in Runs, Alerts!RunLoad(r)
      PROVE  AlertTypeInv'
  <2>1. PICK found \in Alerts!Candidates, prioritized \in SUBSET Cves :
            alertRun' = [alertRun EXCEPT ![r] = [step |-> "plan", existing |-> alertMarks, inapp |-> {}, jobs |-> {},
                                       on |-> alertDay, current |-> Alerts!Classified(found, prioritized)]]
    BY <1>2 DEF Alerts!RunLoad
  <2>2. [step |-> "plan", existing |-> alertMarks, inapp |-> {}, jobs |-> {}, on |-> alertDay,
         current |-> Alerts!Classified(found, prioritized)] \in AlertRunRecord
    BY ClassifiedKeys DEF AlertRunRecord
  <2> QED
    BY <1>2, <2>1, <2>2 DEF Alerts!RunLoad
<1>3. ASSUME NEW r \in Runs, Alerts!RunPlan(r)
      PROVE  AlertTypeInv'
  <2>1. PICK recipients \in SUBSET Users : \E inapp, email \in SUBSET recipients :
          alertRun' = [alertRun EXCEPT
              ![r].step = "commit",
              ![r].inapp = {a \in Alerts!InAppPlan(r, recipients) : a[1] \in inapp},
              ![r].jobs = {job \in {[user |-> u, keys |-> Alerts!EmailPlan(r, u)] : u \in email} :
                              job.keys # {} /\ <<job.user, alertRun[r].on>> \notin alertClaims}]
    BY <1>3 DEF Alerts!RunPlan
  <2>2. PICK inapp \in SUBSET recipients, email \in SUBSET recipients :
          alertRun' = [alertRun EXCEPT
              ![r].step = "commit",
              ![r].inapp = {a \in Alerts!InAppPlan(r, recipients) : a[1] \in inapp},
              ![r].jobs = {job \in {[user |-> u, keys |-> Alerts!EmailPlan(r, u)] : u \in email} :
                              job.keys # {} /\ <<job.user, alertRun[r].on>> \notin alertClaims}]
    BY <2>1
  <2>3. {job \in {[user |-> u, keys |-> Alerts!EmailPlan(r, u)] : u \in email} :
            job.keys # {} /\ <<job.user, alertRun[r].on>> \notin alertClaims} \in SUBSET AlertJob
    <3>1. \A u \in Users : [user |-> u, keys |-> Alerts!EmailPlan(r, u)] \in AlertJob
      BY AlertPlanTypes
    <3> QED
      BY <3>1
  <2>4. {a \in Alerts!InAppPlan(r, recipients) : a[1] \in inapp} \in SUBSET (Users \X Alerts!Key)
    <3>1. Alerts!InAppPlan(r, recipients) \subseteq Users \X Alerts!Key
      BY AlertPlanTypes
    <3> QED
      BY <3>1
  <2>5. alertRun' \in [Runs -> AlertRunRecord]
    <3> DEFINE jobs == {job \in {[user |-> u, keys |-> Alerts!EmailPlan(r, u)] : u \in email} :
                          job.keys # {} /\ <<job.user, alertRun[r].on>> \notin alertClaims}
               alerted == {a \in Alerts!InAppPlan(r, recipients) : a[1] \in inapp}
    <3>1. jobs \in SUBSET AlertJob /\ alerted \in SUBSET (Users \X Alerts!Key)
      BY <2>3, <2>4
    <3>2. alertRun' = [alertRun EXCEPT ![r] = [@ EXCEPT !.step = "commit", !.inapp = alerted, !.jobs = jobs]]
      BY <2>2
    <3> HIDE DEF jobs, alerted
    <3>3. alertRun[r] \in AlertRunRecord
      OBVIOUS
    <3>4. [alertRun[r] EXCEPT !.step = "commit", !.inapp = alerted, !.jobs = jobs] \in AlertRunRecord
      BY <3>1, <3>3 DEF AlertRunRecord
    <3> QED
      BY <3>2, <3>4
  <2> QED
    BY <1>3, <2>5 DEF Alerts!RunPlan
<1>4. ASSUME NEW r \in Runs, Alerts!RunCommit(r)
      PROVE  AlertTypeInv'
  <2>1. /\ Alerts!Inserted(r) \subseteq Alerts!Key \cup Alerts!BaselineMarks
        /\ Alerts!Introduced(r) \subseteq Alerts!Key
    BY DEF Alerts!Inserted, Alerts!Introduced, Alerts!NewKeys, Alerts!MissingBaselines, AlertRunRecord
  <2>2. [Alerts!Idle EXCEPT !.step = "send", !.jobs = alertRun[r].jobs, !.on = alertRun[r].on] \in AlertRunRecord
    BY AlertIdleType DEF AlertRunRecord
  <2>3. alertRun' \in [Runs -> AlertRunRecord] /\ alertMails' = alertMails /\ alertDay' = alertDay
    BY <1>4, <2>2 DEF Alerts!RunCommit
  <2>4. alerts' \in [Users \X Alerts!Key -> Nat]
    <3>1. \A a \in Users \X Alerts!Key : Alerts!Alerted(r, a) \in Nat
      BY DEF Alerts!Alerted
    <3> QED
      BY <1>4, <3>1 DEF Alerts!RunCommit
  <2>5. alertClaims' \subseteq Users \X Alerts!Days
    BY <1>4 DEF Alerts!RunCommit, AlertRunRecord, AlertJob
  <2>6. alertMarks' \subseteq Alerts!Key \cup Alerts!BaselineMarks /\ alertQuiet' \subseteq Alerts!Key
    BY <1>4, <2>1 DEF Alerts!RunCommit
  <2> QED
    BY <2>3, <2>4, <2>5, <2>6
<1>5. ASSUME NEW r \in Runs, Alerts!RunRefused(r) \/ Alerts!RunEnd(r)
      PROVE  AlertTypeInv'
  BY <1>5, AlertIdleType DEF Alerts!RunRefused, Alerts!RunEnd
<1>6. ASSUME NEW r \in Runs, NEW job \in alertRun[r].jobs, Alerts!RunSend(r, job)
      PROVE  AlertTypeInv'
  <2>1. <<job.user, alertRun[r].on>> \in Users \X Alerts!Days
    BY DEF AlertRunRecord, AlertJob
  <2>2. alertMails' \in [Users \X Alerts!Days -> Nat]
    BY <1>6, <2>1 DEF Alerts!RunSend
  <2>3. alertRun' \in [Runs -> AlertRunRecord]
    <3>1. [alertRun[r] EXCEPT !.jobs = alertRun[r].jobs \ {job}] \in AlertRunRecord
      BY AlertSentType
    <3>2. alertRun' = [alertRun EXCEPT ![r] = [alertRun[r] EXCEPT !.jobs = alertRun[r].jobs \ {job}]]
      BY <1>6 DEF Alerts!RunSend
    <3> QED
      BY <3>1, <3>2
  <2> QED
    BY <1>6, <2>2, <2>3 DEF Alerts!RunSend
<1>7. CASE UNCHANGED Alerts!vars
  BY <1>7 DEF Alerts!vars
<1> QED
  BY <1>1, <1>2, <1>3, <1>4, <1>5, <1>6, <1>7 DEF Alerts!Next, Alerts!Job

-----------------------------------------------------------------------------
\* What a run still at its plan or its commit tells does not change under it.
LEMMA AlertSameKeys ==
    ASSUME NEW r, alertRun'[r] = alertRun[r]
    PROVE  Alerts!NotifyKeys(r)' = Alerts!NotifyKeys(r)
  BY DEF Alerts!NotifyKeys, Alerts!NewKeys, Alerts!MissingBaselines

LEMMA AlertNextPlan ==
    ASSUME Alerts!ConstantsAssumption, AlertTypeInv, AlertPlanInv, [Alerts!Next]_(Alerts!vars)
    PROVE  AlertPlanInv'
<1> SUFFICES ASSUME NEW s \in Runs, alertRun'[s].step = "commit"
             PROVE  /\ \A u \in Users, k \in Alerts!Key :
                          <<u, k>> \in alertRun'[s].inapp => k \in Alerts!NotifyKeys(s)' /\ k[2] \in Alerts!InAppReasons
                    /\ \A job \in alertRun'[s].jobs : job.keys \subseteq Alerts!NotifyKeys(s)'
  BY DEF AlertPlanInv
<1>1. CASE alertRun'[s] = alertRun[s]
  BY <1>1, AlertSameKeys DEF AlertPlanInv
<1>2. ASSUME NEW r \in Runs, Alerts!RunPlan(r), r = s
      PROVE  /\ \A u \in Users, k \in Alerts!Key :
                   <<u, k>> \in alertRun'[s].inapp => k \in Alerts!NotifyKeys(s)' /\ k[2] \in Alerts!InAppReasons
             /\ \A job \in alertRun'[s].jobs : job.keys \subseteq Alerts!NotifyKeys(s)'
  <2>0. PICK recipients \in SUBSET Users : \E inapp, email \in SUBSET recipients :
          alertRun' = [alertRun EXCEPT
              ![r].step = "commit",
              ![r].inapp = {a \in Alerts!InAppPlan(r, recipients) : a[1] \in inapp},
              ![r].jobs = {job \in {[user |-> u, keys |-> Alerts!EmailPlan(r, u)] : u \in email} :
                              job.keys # {} /\ <<job.user, alertRun[r].on>> \notin alertClaims}]
    BY <1>2 DEF Alerts!RunPlan
  <2>1. PICK inapp \in SUBSET recipients, email \in SUBSET recipients :
          alertRun' = [alertRun EXCEPT
              ![r].step = "commit",
              ![r].inapp = {a \in Alerts!InAppPlan(r, recipients) : a[1] \in inapp},
              ![r].jobs = {job \in {[user |-> u, keys |-> Alerts!EmailPlan(r, u)] : u \in email} :
                              job.keys # {} /\ <<job.user, alertRun[r].on>> \notin alertClaims}]
    BY <2>0
  <2>2. alertRun[r] \in AlertRunRecord
    BY DEF AlertTypeInv
  <2>3. /\ alertRun'[r].existing = alertRun[r].existing /\ alertRun'[r].current = alertRun[r].current
        /\ alertRun'[r].inapp = {a \in Alerts!InAppPlan(r, recipients) : a[1] \in inapp}
        /\ alertRun'[r].jobs = {job \in {[user |-> u, keys |-> Alerts!EmailPlan(r, u)] : u \in email} :
                              job.keys # {} /\ <<job.user, alertRun[r].on>> \notin alertClaims}
    BY <2>1, <2>2 DEF AlertTypeInv, AlertRunRecord
  <2>4. Alerts!NotifyKeys(r)' = Alerts!NotifyKeys(r)
    BY <2>3 DEF Alerts!NotifyKeys, Alerts!NewKeys, Alerts!MissingBaselines
  <2>5. ASSUME NEW u \in Users, NEW k \in Alerts!Key, <<u, k>> \in alertRun'[r].inapp
        PROVE  k \in Alerts!NotifyKeys(r) /\ k[2] \in Alerts!InAppReasons
    BY <2>3, <2>5 DEF Alerts!InAppPlan
  <2>6. ASSUME NEW job \in alertRun'[r].jobs
        PROVE  job.keys \subseteq Alerts!NotifyKeys(r)
    <3>1. PICK u \in email : job = [user |-> u, keys |-> Alerts!EmailPlan(r, u)]
      BY <2>3, <2>6
    <3>2. job.keys = Alerts!EmailPlan(r, u)
      BY <3>1
    <3> QED
      BY <3>2 DEF Alerts!EmailPlan
  <2> QED
    BY <1>2, <2>4, <2>5, <2>6
<1>3. ASSUME NEW r \in Runs, Alerts!Job(r), ~Alerts!RunPlan(r), r = s
      PROVE  FALSE
  <2>1. alertRun \in [Runs -> AlertRunRecord]
    BY DEF AlertTypeInv
  <2>2. CASE Alerts!RunLoad(r)
    BY <1>3, <2>1, <2>2 DEF Alerts!RunLoad
  <2>3. CASE Alerts!RunCommit(r)
    <3>1. alertRun'[r].step = "send"
      BY <2>1, <2>3 DEF Alerts!RunCommit, Alerts!Idle
    <3> QED
      BY <1>3, <3>1
  <2>4. CASE Alerts!RunRefused(r) \/ Alerts!RunEnd(r)
    BY <1>3, <2>1, <2>4 DEF Alerts!RunRefused, Alerts!RunEnd, Alerts!Idle
  <2>5. CASE \E job \in alertRun[r].jobs : Alerts!RunSend(r, job)
    <3>1. alertRun'[r].step = "send"
      BY <2>1, <2>5 DEF Alerts!RunSend, AlertRunRecord
    <3> QED
      BY <1>3, <3>1
  <2> QED
    BY <1>3, <2>2, <2>3, <2>4, <2>5 DEF Alerts!Job
<1>4. ASSUME NEW r \in Runs, Alerts!Job(r), r # s
      PROVE  alertRun'[s] = alertRun[s]
  BY <1>4
    DEF Alerts!Job, Alerts!RunLoad, Alerts!RunPlan, Alerts!RunCommit, Alerts!RunRefused, Alerts!RunSend,
        Alerts!RunEnd, AlertTypeInv
<1>5. CASE Alerts!NextDay \/ UNCHANGED Alerts!vars
  BY <1>1, <1>5 DEF Alerts!NextDay, Alerts!vars
<1> QED
  BY <1>1, <1>2, <1>3, <1>4, <1>5 DEF Alerts!Next

\* One alert, of the key's own channel.
LEMMA AlertedOf ==
    ASSUME AlertTypeInv, AlertPlanInv, NEW r \in Runs, alertRun[r].step = "commit",
           NEW u \in Users, NEW k \in Alerts!Key
    PROVE  /\ Alerts!Alerted(r, <<u, k>>) \in 0..1
           /\ Alerts!Alerted(r, <<u, k>>) = 1 => k \in Alerts!NotifyKeys(r)
<1>1. <<u, k>> \in alertRun[r].inapp => k \in Alerts!NotifyKeys(r) /\ k[2] \in Alerts!InAppReasons
  BY DEF AlertPlanInv
<1>2. (\E job \in alertRun[r].jobs : job.user = u /\ k \in job.keys /\ k[2] \in Alerts!EmailReasons)
         => k \in Alerts!NotifyKeys(r)
  BY DEF AlertPlanInv
<1>3. k[2] \in Alerts!InAppReasons => k[2] \notin Alerts!EmailReasons
  BY DEF Alerts!InAppReasons, Alerts!EmailReasons
<1> QED
  BY <1>1, <1>2, <1>3 DEF Alerts!Alerted

LEMMA AlertNextAlert ==
    ASSUME Alerts!ConstantsAssumption, AlertTypeInv, AlertPlanInv, AlertInv, [Alerts!Next]_(Alerts!vars)
    PROVE  AlertInv'
<1>1. ASSUME NEW r \in Runs, Alerts!RunCommit(r)
      PROVE  AlertInv'
  <2>1. /\ alertRun[r].step = "commit" /\ Alerts!Inserted(r) \cap alertMarks = {}
        /\ alertMarks' = (alertMarks \ ((alertRun[r].existing \ Alerts!BaselineMarks) \ alertRun[r].current))
                              \cup Alerts!Inserted(r)
        /\ alerts' = [a \in Users \X Alerts!Key |->
                         IF a[2] \in alertRun[r].current THEN alerts[a] + Alerts!Alerted(r, a) ELSE 0]
        /\ alertQuiet' = (alertQuiet \cap alertRun[r].current) \cup Alerts!Introduced(r)
    BY <1>1 DEF Alerts!RunCommit, Alerts!MarksFree
  <2>2. Alerts!NewKeys(r) \subseteq Alerts!Inserted(r) /\ Alerts!NotifyKeys(r) \subseteq Alerts!NewKeys(r)
    BY DEF Alerts!Inserted, Alerts!NotifyKeys
  <2>3. alertQuiet' \subseteq alertMarks'
    <3>1. Alerts!Introduced(r) \subseteq Alerts!NewKeys(r)
      BY DEF Alerts!Introduced
    <3> QED
      BY <2>1, <2>2, <3>1 DEF AlertInv
  <2>4. Alerts!Introduced(r) \cap Alerts!NotifyKeys(r) = {}
    BY
      DEF Alerts!Introduced, Alerts!NotifyKeys, Alerts!BaselineFor, Alerts!MissingBaselines,
          Alerts!BaselineMarks, Alerts!InAppReasons, Alerts!EmailReasons
  <2>5. ASSUME NEW u \in Users, NEW k \in Alerts!Key
        PROVE  /\ alerts'[<<u, k>>] <= 1
               /\ alerts'[<<u, k>>] > 0 => k \in alertMarks'
               /\ k \in alertQuiet' => alerts'[<<u, k>>] = 0
    <3>1. alerts'[<<u, k>>] = IF k \in alertRun[r].current THEN alerts[<<u, k>>] + Alerts!Alerted(r, <<u, k>>) ELSE 0
      BY <2>1
    <3>2. alerts[<<u, k>>] \in Nat
      BY DEF AlertTypeInv
    <3>3. /\ alerts[<<u, k>>] <= 1
          /\ alerts[<<u, k>>] > 0 => k \in alertMarks
          /\ k \in alertQuiet => k \in alertMarks /\ alerts[<<u, k>>] = 0
      BY DEF AlertInv
    <3>4. Alerts!Alerted(r, <<u, k>>) \in 0..1 /\ (Alerts!Alerted(r, <<u, k>>) = 1 => k \in Alerts!NotifyKeys(r))
      BY <2>1, AlertedOf
    <3>5. k \in alertMarks => k \notin Alerts!NotifyKeys(r)
      BY <2>1, <2>2
    <3>6. k \in alertRun[r].current /\ (k \in alertMarks \/ k \in Alerts!NotifyKeys(r)) => k \in alertMarks'
      BY <2>1, <2>2
    <3>7. k \in alertQuiet' => (k \in alertQuiet \/ k \in Alerts!Introduced(r))
      BY <2>1
    <3>8. k \in Alerts!Introduced(r) => k \notin alertMarks /\ k \notin Alerts!NotifyKeys(r)
      BY <2>1, <2>2, <2>4 DEF Alerts!Introduced
    <3>a. CASE k \notin alertRun[r].current
      BY <3>1, <3>a
    <3>b. CASE k \in alertRun[r].current /\ Alerts!Alerted(r, <<u, k>>) = 1
      <4>1. k \in Alerts!NotifyKeys(r) /\ k \notin alertMarks /\ alerts[<<u, k>>] = 0
        BY <3>2, <3>3, <3>4, <3>5, <3>b
      <4> QED
        BY <3>1, <3>b, <4>1, <3>6, <3>7, <3>8, <3>3
    <3>c. CASE k \in alertRun[r].current /\ Alerts!Alerted(r, <<u, k>>) = 0
      <4>1. alerts'[<<u, k>>] = alerts[<<u, k>>]
        BY <3>1, <3>2, <3>c
      <4> QED
        BY <4>1, <3>2, <3>3, <3>6, <3>7, <3>8, <3>c
    <3> QED
      BY <3>a, <3>b, <3>c, <3>4
  <2> QED
    BY <2>3, <2>5 DEF AlertInv
<1>2. CASE UNCHANGED <<alertMarks, alerts, alertQuiet>>
  BY <1>2 DEF AlertInv
<1> QED
  BY <1>1, <1>2
    DEF Alerts!Next, Alerts!Job, Alerts!NextDay, Alerts!RunLoad, Alerts!RunPlan, Alerts!RunRefused,
        Alerts!RunSend, Alerts!RunEnd, Alerts!vars

\* A plan has one mail per user.
LEMMA AlertPlanStep ==
    ASSUME AlertTypeInv, NEW r \in Runs, Alerts!RunPlan(r)
    PROVE  /\ alertRun'[r].step = "commit"
           /\ \E email \in SUBSET Users : alertRun'[r].jobs =
                 {job \in {[user |-> u, keys |-> Alerts!EmailPlan(r, u)] : u \in email} :
                     job.keys # {} /\ <<job.user, alertRun[r].on>> \notin alertClaims}
           /\ \A s \in Runs : s # r => alertRun'[s] = alertRun[s]
           /\ UNCHANGED <<alertClaims, alertMails>>
<1>1. PICK recipients \in SUBSET Users : \E inapp, email \in SUBSET recipients :
        alertRun' = [alertRun EXCEPT
            ![r].step = "commit",
            ![r].inapp = {a \in Alerts!InAppPlan(r, recipients) : a[1] \in inapp},
            ![r].jobs = {job \in {[user |-> u, keys |-> Alerts!EmailPlan(r, u)] : u \in email} :
                            job.keys # {} /\ <<job.user, alertRun[r].on>> \notin alertClaims}]
  BY DEF Alerts!RunPlan
<1>2. PICK inapp \in SUBSET recipients, email \in SUBSET recipients :
        alertRun' = [alertRun EXCEPT
            ![r].step = "commit",
            ![r].inapp = {a \in Alerts!InAppPlan(r, recipients) : a[1] \in inapp},
            ![r].jobs = {job \in {[user |-> u, keys |-> Alerts!EmailPlan(r, u)] : u \in email} :
                            job.keys # {} /\ <<job.user, alertRun[r].on>> \notin alertClaims}]
  BY <1>1
<1> DEFINE toAlert == {a \in Alerts!InAppPlan(r, recipients) : a[1] \in inapp}
           jobs == {job \in {[user |-> u, keys |-> Alerts!EmailPlan(r, u)] : u \in email} :
                       job.keys # {} /\ <<job.user, alertRun[r].on>> \notin alertClaims}
<1>3. alertRun' = [alertRun EXCEPT ![r].step = "commit", ![r].inapp = toAlert, ![r].jobs = jobs]
  BY <1>2
<1>4. alertRun \in [Runs -> AlertRunRecord]
  BY DEF AlertTypeInv
<1>5. alertRun'[r].step = "commit" /\ alertRun'[r].jobs = jobs /\ \A s \in Runs : s # r => alertRun'[s] = alertRun[s]
  <2> HIDE DEF toAlert, jobs
  <2> QED
    BY <1>3, <1>4 DEF AlertRunRecord
<1>6. UNCHANGED <<alertClaims, alertMails>>
  BY DEF Alerts!RunPlan
<1>7. email \in SUBSET Users
  BY <1>1, <1>2
<1> QED
  BY <1>5, <1>6, <1>7

LEMMA OneAlertJobPerUser ==
    ASSUME AlertTypeInv, NEW r \in Runs, Alerts!RunPlan(r)
    PROVE  \A j, k \in alertRun'[r].jobs : j.user = k.user => j = k
<1>1. PICK email \in SUBSET Users : alertRun'[r].jobs =
        {job \in {[user |-> u, keys |-> Alerts!EmailPlan(r, u)] : u \in email} :
            job.keys # {} /\ <<job.user, alertRun[r].on>> \notin alertClaims}
  BY AlertPlanStep
<1>2. \A j \in alertRun'[r].jobs : j = [user |-> j.user, keys |-> Alerts!EmailPlan(r, j.user)]
  BY <1>1
<1> QED
  BY <1>2

\* Its parts, for the proof that every step keeps it.
UserMails(t) == t.step \in {"commit", "send"} => \A j, k \in t.jobs : j.user = k.user => j = k

Unsent(t) == t.step = "send" => \A j \in t.jobs : /\ <<j.user, t.on>> \in alertClaims
                                                  /\ alertMails[<<j.user, t.on>>] = 0

Apart(t, v) == t.step = "send" /\ v.step = "send" =>
    \A j \in t.jobs, k \in v.jobs : j.user # k.user \/ t.on # v.on

LEMMA AlertMailParts ==
    AlertMailInv <=>
        /\ \A r \in Runs : UserMails(alertRun[r]) /\ Unsent(alertRun[r])
        /\ \A r, s \in Runs : r # s => Apart(alertRun[r], alertRun[s])
        /\ \A d \in Users \X Alerts!Days : alertMails[d] <= 1 /\ (d \notin alertClaims => alertMails[d] = 0)
  BY DEF AlertMailInv, UserMails, Unsent, Apart

LEMMA AlertNextMail ==
    ASSUME Alerts!ConstantsAssumption, AlertTypeInv, AlertMailInv, [Alerts!Next]_(Alerts!vars)
    PROVE  AlertMailInv'
<1>0. /\ alertRun \in [Runs -> AlertRunRecord] /\ alertMails \in [Users \X Alerts!Days -> Nat]
      /\ \A r \in Runs : UserMails(alertRun[r]) /\ Unsent(alertRun[r])
      /\ \A r, s \in Runs : r # s => Apart(alertRun[r], alertRun[s])
      /\ \A d \in Users \X Alerts!Days : alertMails[d] <= 1 /\ (d \notin alertClaims => alertMails[d] = 0)
  BY AlertMailParts DEF AlertTypeInv
<1>p. SUFFICES /\ \A r \in Runs : UserMails(alertRun'[r]) /\ Unsent(alertRun[r])'
               /\ \A r, s \in Runs : r # s => Apart(alertRun'[r], alertRun'[s])
               /\ \A d \in Users \X Alerts!Days : alertMails'[d] <= 1 /\ (d \notin alertClaims' => alertMails'[d] = 0)
  BY DEF AlertMailInv, UserMails, Unsent, Apart
<1>1. ASSUME NEW r \in Runs, UNCHANGED <<alertClaims, alertMails>>,
             alertRun'[r].step # "send", UserMails(alertRun'[r]),
             \A s \in Runs : s # r => alertRun'[s] = alertRun[s]
      PROVE  /\ \A s \in Runs : UserMails(alertRun'[s]) /\ Unsent(alertRun[s])'
             /\ \A s, t \in Runs : s # t => Apart(alertRun'[s], alertRun'[t])
             /\ \A d \in Users \X Alerts!Days : alertMails'[d] <= 1 /\ (d \notin alertClaims' => alertMails'[d] = 0)
  BY <1>0, <1>1 DEF Unsent, Apart
<1>2. ASSUME NEW r \in Runs, Alerts!RunLoad(r)
      PROVE  /\ alertRun'[r].step = "plan" /\ UNCHANGED <<alertClaims, alertMails>>
             /\ \A s \in Runs : s # r => alertRun'[s] = alertRun[s]
  BY <1>0, <1>2 DEF Alerts!RunLoad
<1>3. ASSUME NEW r \in Runs, Alerts!RunPlan(r)
      PROVE  /\ alertRun'[r].step = "commit" /\ UserMails(alertRun'[r])
             /\ UNCHANGED <<alertClaims, alertMails>> /\ \A s \in Runs : s # r => alertRun'[s] = alertRun[s]
  BY <1>3, AlertPlanStep, OneAlertJobPerUser DEF UserMails
<1>4. ASSUME NEW r \in Runs, Alerts!RunRefused(r) \/ Alerts!RunEnd(r)
      PROVE  /\ alertRun'[r].step = "idle" /\ UNCHANGED <<alertClaims, alertMails>>
             /\ \A s \in Runs : s # r => alertRun'[s] = alertRun[s]
  BY <1>0, <1>4 DEF Alerts!RunRefused, Alerts!RunEnd, Alerts!Idle
<1>5. ASSUME NEW r \in Runs, Alerts!RunCommit(r)
      PROVE  /\ \A s \in Runs : UserMails(alertRun'[s]) /\ Unsent(alertRun[s])'
             /\ \A s, t \in Runs : s # t => Apart(alertRun'[s], alertRun'[t])
             /\ \A d \in Users \X Alerts!Days : alertMails'[d] <= 1 /\ (d \notin alertClaims' => alertMails'[d] = 0)
  <2>1. /\ alertRun'[r].step = "send" /\ alertRun'[r].jobs = alertRun[r].jobs /\ alertRun'[r].on = alertRun[r].on
        /\ \A s \in Runs : s # r => alertRun'[s] = alertRun[s]
    BY <1>0, <1>5 DEF Alerts!RunCommit, Alerts!Idle
  <2>2. /\ alertRun[r].step = "commit" /\ alertMails' = alertMails
        /\ \A job \in alertRun[r].jobs : <<job.user, alertRun[r].on>> \notin alertClaims
        /\ alertClaims' = alertClaims \cup {<<job.user, alertRun[r].on>> : job \in alertRun[r].jobs}
    BY <1>5 DEF Alerts!RunCommit, Alerts!ClaimsFree
  <2>3. \A job \in alertRun[r].jobs : job.user \in Users /\ alertRun[r].on \in Alerts!Days
    BY <1>0 DEF AlertRunRecord, AlertJob
  <2>4. UserMails(alertRun'[r]) /\ Unsent(alertRun[r])'
    BY <1>0, <2>1, <2>2, <2>3 DEF UserMails, Unsent
  <2>5. ASSUME NEW s \in Runs, s # r
        PROVE  /\ UserMails(alertRun'[s]) /\ Unsent(alertRun[s])'
               /\ Apart(alertRun'[s], alertRun'[r]) /\ Apart(alertRun'[r], alertRun'[s])
    <3>1. UserMails(alertRun[s]) /\ Unsent(alertRun[s]) /\ alertRun'[s] = alertRun[s]
      BY <1>0, <2>1, <2>5
    <3>2. Unsent(alertRun[s])'
      BY <3>1, <2>2 DEF Unsent
    <3>3. ASSUME alertRun[s].step = "send", NEW j \in alertRun[s].jobs, NEW k \in alertRun[r].jobs
          PROVE  j.user # k.user \/ alertRun[s].on # alertRun[r].on
      BY <2>2, <3>1, <3>3 DEF Unsent
    <3> QED
      BY <2>1, <3>1, <3>2, <3>3 DEF Apart
  <2>6. \A s, t \in Runs : s # t /\ s # r /\ t # r => Apart(alertRun'[s], alertRun'[t])
    BY <1>0, <2>1
  <2>7. \A d \in Users \X Alerts!Days : alertMails'[d] <= 1 /\ (d \notin alertClaims' => alertMails'[d] = 0)
    BY <1>0, <2>2
  <2> QED
    BY <2>4, <2>5, <2>6, <2>7
<1>6. ASSUME NEW r \in Runs, NEW job \in alertRun[r].jobs, Alerts!RunSend(r, job)
      PROVE  /\ \A s \in Runs : UserMails(alertRun'[s]) /\ Unsent(alertRun[s])'
             /\ \A s, t \in Runs : s # t => Apart(alertRun'[s], alertRun'[t])
             /\ \A d \in Users \X Alerts!Days : alertMails'[d] <= 1 /\ (d \notin alertClaims' => alertMails'[d] = 0)
  <2> DEFINE d == <<job.user, alertRun[r].on>>
  <2>1. d \in Users \X Alerts!Days /\ alertRun[r].step = "send" /\ alertClaims' = alertClaims
    BY <1>0, <1>6 DEF Alerts!RunSend, AlertRunRecord, AlertJob
  <2>2. d \in alertClaims /\ alertMails[d] = 0
    BY <1>0, <2>1 DEF Unsent
  <2>3. /\ alertRun'[r].step = "send" /\ alertRun'[r].jobs = alertRun[r].jobs \ {job}
        /\ alertRun'[r].on = alertRun[r].on
        /\ \A s \in Runs : s # r => alertRun'[s] = alertRun[s]
    BY <1>0, <1>6, <2>1 DEF Alerts!RunSend, AlertRunRecord
  <2>4. alertMails' \in {alertMails, [alertMails EXCEPT ![d] = 1]}
    <3>1. alertMails[d] + 1 = 1
      BY <2>2
    <3> QED
      BY <1>6, <3>1 DEF Alerts!RunSend
  <2>5. \A e \in Users \X Alerts!Days : e # d => alertMails'[e] = alertMails[e]
    BY <1>0, <2>1, <2>4
  <2>6. alertMails'[d] \in {0, 1}
    BY <1>0, <2>1, <2>2, <2>4
  <2>7. ASSUME NEW s \in Runs, NEW k \in alertRun'[s].jobs, alertRun'[s].step = "send"
        PROVE  /\ <<k.user, alertRun'[s].on>> \in Users \X Alerts!Days /\ <<k.user, alertRun'[s].on>> # d
               /\ <<k.user, alertRun'[s].on>> \in alertClaims /\ alertMails[<<k.user, alertRun'[s].on>>] = 0
    <3>1. k \in alertRun[s].jobs /\ alertRun[s].step = "send" /\ alertRun'[s].on = alertRun[s].on
      BY <2>1, <2>3, <2>7
    <3>2. <<k.user, alertRun[s].on>> \in Users \X Alerts!Days
      BY <1>0, <3>1 DEF AlertRunRecord, AlertJob
    <3>3. <<k.user, alertRun[s].on>> \in alertClaims /\ alertMails[<<k.user, alertRun[s].on>>] = 0
      BY <1>0, <3>1 DEF Unsent
    <3>4. CASE s = r
      <4>1. k # job
        BY <2>3, <2>7, <3>4
      <4>2. k.user # job.user
        BY <1>0, <2>1, <3>1, <3>4, <4>1 DEF UserMails
      <4> QED
        BY <3>1, <3>2, <3>3, <4>2
    <3>5. CASE s # r
      <4>1. k.user # job.user \/ alertRun[s].on # alertRun[r].on
        BY <1>0, <2>1, <3>1, <3>5 DEF Apart
      <4> QED
        BY <3>1, <3>2, <3>3, <4>1
    <3> QED
      BY <3>4, <3>5
  <2>8. \A s \in Runs : Unsent(alertRun[s])'
    BY <2>1, <2>5, <2>7 DEF Unsent
  <2>9. \A s \in Runs : UserMails(alertRun'[s])
    BY <1>0, <2>1, <2>3 DEF UserMails
  <2>a. \A s, t \in Runs : s # t => Apart(alertRun'[s], alertRun'[t])
    <3>1. \A s \in Runs : /\ alertRun'[s].jobs \subseteq alertRun[s].jobs
                          /\ alertRun'[s].step = alertRun[s].step /\ alertRun'[s].on = alertRun[s].on
      BY <2>1, <2>3
    <3> QED
      BY <1>0, <3>1 DEF Apart
  <2>b. \A e \in Users \X Alerts!Days : alertMails'[e] <= 1 /\ (e \notin alertClaims' => alertMails'[e] = 0)
    BY <1>0, <2>1, <2>2, <2>5, <2>6
  <2> QED
    BY <2>8, <2>9, <2>a, <2>b
<1>7. CASE Alerts!NextDay \/ UNCHANGED Alerts!vars
  BY <1>0, <1>7 DEF Alerts!NextDay, Alerts!vars, Unsent
<1>8. ASSUME NEW r \in Runs, Alerts!RunLoad(r) \/ Alerts!RunPlan(r) \/ Alerts!RunRefused(r) \/ Alerts!RunEnd(r)
      PROVE  /\ \A s \in Runs : UserMails(alertRun'[s]) /\ Unsent(alertRun[s])'
             /\ \A s, t \in Runs : s # t => Apart(alertRun'[s], alertRun'[t])
             /\ \A d \in Users \X Alerts!Days : alertMails'[d] <= 1 /\ (d \notin alertClaims' => alertMails'[d] = 0)
  <2>1. alertRun'[r].step # "send" /\ UserMails(alertRun'[r])
        /\ UNCHANGED <<alertClaims, alertMails>> /\ \A s \in Runs : s # r => alertRun'[s] = alertRun[s]
    BY <1>2, <1>3, <1>4, <1>8 DEF UserMails
  <2> QED
    BY <1>1, <2>1
<1> QED
  BY <1>5, <1>6, <1>7, <1>8 DEF Alerts!Next, Alerts!Job

LEMMA AlertInitInv ==
    ASSUME Alerts!ConstantsAssumption, Alerts!Init
    PROVE  AlertTypeInv /\ AlertPlanInv /\ AlertInv /\ AlertMailInv
<1>1. AlertTypeInv
  BY AlertInitType
<1>2. \A r \in Runs : alertRun[r].step = "idle"
  BY DEF Alerts!Init, Alerts!Idle
<1>3. AlertPlanInv
  BY <1>2 DEF AlertPlanInv
<1>4. AlertInv
  BY DEF Alerts!Init, AlertInv
<1>5. AlertMailInv
  BY <1>2 DEF Alerts!Init, AlertMailInv
<1> QED
  BY <1>1, <1>3, <1>4, <1>5

LEMMA AlertsInvariance == Spec => [](part = "alerts" => AlertTypeInv /\ AlertPlanInv /\ AlertInv /\ AlertMailInv)
<1> DEFINE Inv == part = "alerts" => AlertTypeInv /\ AlertPlanInv /\ AlertInv /\ AlertMailInv
<1>0. Alerts!ConstantsAssumption
  BY ConstantsAssumption
<1>1. Init => Inv
  BY <1>0, AlertInitInv DEF Init
<1>2. Inv /\ [Next]_vars => Inv'
  <2> SUFFICES ASSUME Inv, [Next]_vars, part' = "alerts"
               PROVE  (AlertTypeInv /\ AlertPlanInv /\ AlertInv /\ AlertMailInv)'
    OBVIOUS
  <2>1. part = "alerts" /\ [Alerts!Next]_(Alerts!vars)
    BY DEF Next, SubscriptionsStep, SummaryStep, AlertsStep, DiffStep, DiscussionStep, vars,
           alertVars, Alerts!vars
  <2>2. AlertTypeInv /\ AlertPlanInv /\ AlertInv /\ AlertMailInv
    BY <2>1
  <2> QED
    BY <1>0, <2>1, <2>2, AlertNextType, AlertNextPlan, AlertNextAlert, AlertNextMail
<1> QED
  BY <1>1, <1>2, PTL DEF Spec

\* Every reachable state of the marks, the runs, the claims and the alerts is
\* well typed, for any users, locations, days and overlapping runs.
THEOREM AlertsTyped == Spec => [](part = "alerts" => Alerts!TypeOK)
<1>1. AlertTypeInv => Alerts!TypeOK
  BY DEF AlertTypeInv, Alerts!TypeOK, AlertRunRecord, AlertJob
<1> QED
  BY <1>1, AlertsInvariance, PTL

\* However runs overlap, fail and repeat, a user is alerted of a key once until
\* a run has seen it gone.
THEOREM AlertsOnce == Spec => []AlertedOnce
<1>1. (part = "alerts" => AlertTypeInv /\ AlertPlanInv /\ AlertInv /\ AlertMailInv) => AlertedOnce
  BY DEF AlertTypeInv, AlertInv, AlertedOnce, Alerts!AlertedOnce
<1> QED
  BY <1>1, AlertsInvariance, PTL

\* What was there when a kind of alert was introduced is never alerted while it
\* stays.
THEOREM SilentIntroduction == Spec => []SilentBaseline
<1>1. (part = "alerts" => AlertTypeInv /\ AlertPlanInv /\ AlertInv /\ AlertMailInv) => SilentBaseline
  BY DEF AlertTypeInv, AlertInv, SilentBaseline, Alerts!SilentBaseline
<1> QED
  BY <1>1, AlertsInvariance, PTL

-----------------------------------------------------------------------------
\* The behaviour is one of the subscriptions.
OfSubscriptions == part = "subscriptions"

LEMMA SubscriptionsBehaviour == Spec /\ OfSubscriptions => SubscriptionProofs!Spec
<1>1. Init /\ OfSubscriptions => SubscriptionProofs!Init
  BY DEF OfSubscriptions, Init, Subscriptions!Init, SubscriptionProofs!Init, Subscriptions!NoPost,
       SubscriptionProofs!NoPost, Subscriptions!NoDiff, SubscriptionProofs!NoDiff,
       Subscriptions!NoMail, SubscriptionProofs!NoMail, Subscriptions!Days, SubscriptionProofs!Days,
       Subscriptions!Day, SubscriptionProofs!Day, Subscriptions!Subscribable,
       SubscriptionProofs!Subscribable
<1>2. Subscriptions!Next => SubscriptionProofs!Next
  <2>1. ASSUME NEW u, NEW c, Subscriptions!SubscribeLoad(u, c)
        PROVE  SubscriptionProofs!SubscribeLoad(u, c)
    BY <2>1 DEF Subscriptions!SubscribeLoad, SubscriptionProofs!SubscribeLoad,
         Subscriptions!SubscriptionsOf, SubscriptionProofs!SubscriptionsOf,
         Subscriptions!Cardinality, SubscriptionProofs!Cardinality
  <2>2. ASSUME NEW p, Subscriptions!SubscribeCommit(p)
        PROVE  SubscriptionProofs!SubscribeCommit(p)
    BY <2>2 DEF Subscriptions!SubscribeCommit, SubscriptionProofs!SubscribeCommit,
         Subscriptions!Later, SubscriptionProofs!Later
  <2>3. ASSUME NEW s, Subscriptions!Unsubscribe(s)
        PROVE  SubscriptionProofs!Unsubscribe(s)
    BY <2>3 DEF Subscriptions!Unsubscribe, SubscriptionProofs!Unsubscribe, Subscriptions!Restrict,
         SubscriptionProofs!Restrict, Subscriptions!Cardinality, SubscriptionProofs!Cardinality
  <2>4. ASSUME NEW c, Subscriptions!Broadcast(c)
        PROVE  SubscriptionProofs!Broadcast(c)
    BY <2>4 DEF Subscriptions!Broadcast, SubscriptionProofs!Broadcast, Subscriptions!Cardinality,
         SubscriptionProofs!Cardinality
  <2>5. ASSUME Subscriptions!BroadcastCommit
        PROVE  SubscriptionProofs!BroadcastCommit
    BY <2>5 DEF Subscriptions!BroadcastCommit, SubscriptionProofs!BroadcastCommit,
         Subscriptions!NoPost, SubscriptionProofs!NoPost
  <2>6. ASSUME Subscriptions!Tick
        PROVE  SubscriptionProofs!Tick
    BY <2>6 DEF Subscriptions!Tick, SubscriptionProofs!Tick, Subscriptions!MailOpen,
         SubscriptionProofs!MailOpen, Subscriptions!NoMail, SubscriptionProofs!NoMail,
         Subscriptions!Day, SubscriptionProofs!Day
  <2>7. ASSUME NEW c, Subscriptions!ScanChanges(c)
        PROVE  SubscriptionProofs!ScanChanges(c)
    BY <2>7 DEF Subscriptions!ScanChanges, SubscriptionProofs!ScanChanges
  <2>8. ASSUME NEW recipients, Subscriptions!DiffStart(recipients)
        PROVE  SubscriptionProofs!DiffStart(recipients)
    BY <2>8 DEF Subscriptions!DiffStart, SubscriptionProofs!DiffStart, Subscriptions!NoDiff,
         SubscriptionProofs!NoDiff
  <2>9. ASSUME NEW c, Subscriptions!DiffRows(c)
        PROVE  SubscriptionProofs!DiffRows(c)
    BY <2>9 DEF Subscriptions!DiffRows, SubscriptionProofs!DiffRows
  <2>10. ASSUME Subscriptions!DiffSubs
         PROVE  SubscriptionProofs!DiffSubs
    BY <2>10 DEF Subscriptions!DiffSubs, SubscriptionProofs!DiffSubs, Subscriptions!Restrict,
         SubscriptionProofs!Restrict
  <2>11. ASSUME Subscriptions!DiffCommit
         PROVE  SubscriptionProofs!DiffCommit
    BY <2>11 DEF Subscriptions!DiffCommit, SubscriptionProofs!DiffCommit, Subscriptions!Stores,
         SubscriptionProofs!Stores, Subscriptions!Flushed, SubscriptionProofs!Flushed,
         Subscriptions!Changed, SubscriptionProofs!Changed, Subscriptions!DiffNext,
         SubscriptionProofs!DiffNext, Subscriptions!NoDiff, SubscriptionProofs!NoDiff,
         Subscriptions!Subscribable, SubscriptionProofs!Subscribable, Subscriptions!Later,
         SubscriptionProofs!Later
  <2>12. ASSUME Subscriptions!DiffFails
         PROVE  SubscriptionProofs!DiffFails
    BY <2>12 DEF Subscriptions!DiffFails, SubscriptionProofs!DiffFails, Subscriptions!NoDiff,
         SubscriptionProofs!NoDiff
  <2>13. ASSUME NEW r, Subscriptions!MailStart(r)
         PROVE  SubscriptionProofs!MailStart(r)
    BY <2>13 DEF Subscriptions!MailStart, SubscriptionProofs!MailStart, Subscriptions!NoMail,
         SubscriptionProofs!NoMail
  <2>14. ASSUME NEW r, NEW u, Subscriptions!MailPlan(r, u)
         PROVE  SubscriptionProofs!MailPlan(r, u)
    BY <2>14 DEF Subscriptions!MailPlan, SubscriptionProofs!MailPlan, Subscriptions!Planned,
         SubscriptionProofs!Planned, Subscriptions!Window, SubscriptionProofs!Window,
         Subscriptions!Cursor, SubscriptionProofs!Cursor, Subscriptions!ClaimsOf,
         SubscriptionProofs!ClaimsOf, Subscriptions!ClaimedOn, SubscriptionProofs!ClaimedOn,
         Subscriptions!Day, SubscriptionProofs!Day, Subscriptions!Times, SubscriptionProofs!Times
  <2>15. ASSUME NEW r, Subscriptions!MailCommit(r)
         PROVE  SubscriptionProofs!MailCommit(r)
    BY <2>15 DEF Subscriptions!MailCommit, SubscriptionProofs!MailCommit, Subscriptions!ClaimsFree,
         SubscriptionProofs!ClaimsFree, Subscriptions!ClaimedOn, SubscriptionProofs!ClaimedOn,
         Subscriptions!ClaimsOf, SubscriptionProofs!ClaimsOf
  <2>16. ASSUME NEW r, Subscriptions!MailRefused(r)
         PROVE  SubscriptionProofs!MailRefused(r)
    BY <2>16 DEF Subscriptions!MailRefused, SubscriptionProofs!MailRefused,
         Subscriptions!ClaimsFree, SubscriptionProofs!ClaimsFree, Subscriptions!ClaimedOn,
         SubscriptionProofs!ClaimedOn, Subscriptions!ClaimsOf, SubscriptionProofs!ClaimsOf,
         Subscriptions!NoMail, SubscriptionProofs!NoMail
  <2>17. ASSUME NEW r, NEW job, Subscriptions!MailSend(r, job)
         PROVE  SubscriptionProofs!MailSend(r, job)
    BY <2>17 DEF Subscriptions!MailSend, SubscriptionProofs!MailSend
  <2>18. ASSUME NEW r, Subscriptions!MailEnd(r)
         PROVE  SubscriptionProofs!MailEnd(r)
    BY <2>18 DEF Subscriptions!MailEnd, SubscriptionProofs!MailEnd, Subscriptions!NoMail,
         SubscriptionProofs!NoMail
  <2> QED
    BY <2>1, <2>2, <2>3, <2>4, <2>5, <2>6, <2>7, <2>8, <2>9, <2>10, <2>11, <2>12, <2>13, <2>14,
         <2>15, <2>16, <2>17, <2>18 DEF Subscriptions!Next, SubscriptionProofs!Next,
         Subscriptions!Requests, SubscriptionProofs!Requests, Subscriptions!Surroundings,
         SubscriptionProofs!Surroundings, Subscriptions!MailStep, SubscriptionProofs!MailStep
<1>3. [Next]_vars /\ OfSubscriptions => [SubscriptionProofs!Next]_(SubscriptionProofs!vars) /\ OfSubscriptions'
  BY <1>2 DEF OfSubscriptions, Next, SubscriptionsStep, SummaryStep, AlertsStep, DiffStep,
              DiscussionStep, vars, subVars, SubscriptionProofs!vars
<1> QED
  BY <1>1, <1>3, PTL DEF Spec, SubscriptionProofs!Spec

LEMMA OtherThanSubscriptions == Spec /\ ~OfSubscriptions => []~OfSubscriptions
<1>1. [Next]_vars /\ ~OfSubscriptions => ~OfSubscriptions'
  BY DEF OfSubscriptions, Next, SubscriptionsStep, SummaryStep, AlertsStep, DiffStep, DiscussionStep, vars
<1> QED
  BY <1>1, PTL DEF Spec

LEMMA SubscriptionAssumptions == SubscriptionProofs!ConstantsAssumption
  BY ConstantsAssumption
  DEF Subscriptions!ConstantsAssumption, SubscriptionProofs!ConstantsAssumption,
      Subscriptions!IsFiniteSet, SubscriptionProofs!IsFiniteSet

\* No event of a subscription is in two summaries.
THEOREM CountsOnce == Spec => []CountedOnce
<1>1. SubscriptionProofs!CountedOnce => CountedOnce
  BY DEF CountedOnce, Subscriptions!CountedOnce, SubscriptionProofs!CountedOnce
<1>2. SubscriptionProofs!Spec => []SubscriptionProofs!CountedOnce
  BY SubscriptionProofs!CountsOnce, SubscriptionAssumptions
<1>3. ~OfSubscriptions => CountedOnce
  BY DEF OfSubscriptions, CountedOnce
<1> QED
  BY <1>1, <1>2, <1>3, SubscriptionsBehaviour, OtherThanSubscriptions, PTL

\* A change that a stored state absorbed was told, or was there before.
THEOREM AllTold == Spec => []NothingAbsorbed
<1>1. SubscriptionProofs!NothingAbsorbed => NothingAbsorbed
  BY DEF NothingAbsorbed, Subscriptions!NothingAbsorbed, SubscriptionProofs!NothingAbsorbed
<1>2. SubscriptionProofs!Spec => []SubscriptionProofs!NothingAbsorbed
  BY SubscriptionProofs!AllTold, SubscriptionAssumptions
<1>3. ~OfSubscriptions => NothingAbsorbed
  BY DEF OfSubscriptions, NothingAbsorbed
<1> QED
  BY <1>1, <1>2, <1>3, SubscriptionsBehaviour, OtherThanSubscriptions, PTL

\* No job mails a user twice a day.
THEOREM OneMail == Spec => []OneMailPerDay
<1> DEFINE bySubscriptions == OfSubscriptions => SubscriptionProofs!OneMailPerDay
           byAlerts == part = "alerts" => Alerts!OneMailPerDay
<1>1. Spec => []SummaryProofs!OneMailPerDay
  BY SummaryBehaviour, SummaryProofs!OneSummaryMail, SummaryAssumptions, PTL
<1>2. Spec => []bySubscriptions
  <2>1. SubscriptionProofs!Spec => []SubscriptionProofs!OneMailPerDay
    BY SubscriptionProofs!OneSummaryMail, SubscriptionAssumptions
  <2> QED
    BY <2>1, SubscriptionsBehaviour, OtherThanSubscriptions, PTL
<1>3. Spec => []byAlerts
  <2>1. (part = "alerts" => AlertTypeInv /\ AlertPlanInv /\ AlertInv /\ AlertMailInv) => byAlerts
    BY DEF AlertTypeInv, AlertMailInv, Alerts!OneMailPerDay
  <2> QED
    BY <2>1, AlertsInvariance, PTL
<1>4. SummaryProofs!OneMailPerDay /\ bySubscriptions /\ byAlerts => OneMailPerDay
  BY DEF OneMailPerDay, OfSubscriptions,
         Summary!OneMailPerDay, SummaryProofs!OneMailPerDay, Summary!Deliveries, SummaryProofs!Deliveries,
         Summary!Days, SummaryProofs!Days, Subscriptions!OneMailPerDay, SubscriptionProofs!OneMailPerDay
<1> QED
  BY <1>1, <1>2, <1>3, <1>4, PTL

\* The diff of a subscription: the stored state is what the last run saw, with
\* the EPSS last told.
LocationsOf(found, pairs) ==
    [p \in {q \in DOMAIN found : Diff!Contains(pairs, q)} |->
        [images |-> {Diff!Identity(s) : s \in found[p].images}, fixable |-> found[p].fixable]]

DiffInv ==
    /\ Diff!TypeOK
    /\ DOMAIN seen.rows \subseteq DiffPairs
    /\ seen.scores \in Diff!ScoreSets
    /\ seen.known <=> state.v = 1
    /\ state.scope = seen.scope
    /\ state.locations = LocationsOf(seen.rows, seen.scope)
    /\ seen.known => state.scores = [seen.scores EXCEPT !.epss = notified]

LEMMA Built ==
    ASSUME NEW found, NEW scored, NEW pairs
    PROVE  /\ Diff!BuildState(found, scored, pairs) =
                  [v |-> 1, scope |-> pairs, scores |-> Diff!ScoresOf(found, scored),
                   locations |-> LocationsOf(found, pairs)]
           /\ DOMAIN LocationsOf(found, pairs) = {q \in DOMAIN found : Diff!Contains(pairs, q)}
  BY DEF Diff!BuildState, LocationsOf

\* The scores of a world are well typed, and none only where nothing is.
LEMMA NowTypes ==
    ASSUME Diff!ConstantsAssumption, Diff!TypeOK
    PROVE  /\ Diff!Now \in Diff!ScoreSets
           /\ Diff!Now = Diff!NoScores <=> DOMAIN rows = {}
           /\ Diff!Now.epss \in EpssScores \cup {None}
<1>1. Diff!NoScores \in Diff!ScoreSets /\ scores \in Diff!ScoreSets
  BY DEF Diff!NoScores, Diff!ScoreSets, Diff!TypeOK, Diff!EffectiveScores
<1>2. scores # Diff!NoScores
  <2>1. scores.severity \in Ranks /\ None \notin Ranks
    BY DEF Diff!ConstantsAssumption, Diff!TypeOK, Diff!EffectiveScores
  <2> QED
    BY <2>1 DEF Diff!NoScores
<1> QED
  BY <1>1, <1>2 DEF Diff!Now, Diff!ScoresOf, Diff!ScoreSets

\* What a run compares with is what it compares with in the world.
LEMMA SameMoves ==
    ASSUME DiffInv, seen.known, NEW threshold
    PROVE  Diff!ScoresChanged(state.scores, Diff!Now, threshold) <=> Diff!Moved(threshold)
<1>1. /\ state.scores.severity = seen.scores.severity /\ state.scores.cvss = seen.scores.cvss
      /\ state.scores.epss = notified
  BY DEF DiffInv, Diff!ScoreSets
<1> QED
  BY <1>1 DEF Diff!ScoresChanged, Diff!Moved

\* What a run stores and what it tells.
LEMMA RunStores ==
    ASSUME DiffInv, NEW threshold, Diff!Run(threshold)
    PROVE  /\ state'.v = 1 /\ state'.scope = scope /\ state'.locations = LocationsOf(rows, scope)
           /\ ~seen.known => state'.scores = Diff!Now /\ told'.events = {}
           /\ seen.known => /\ state'.scores = Diff!StoredScores(state.scores, Diff!Now, threshold, Diff!Visible # {})
                            /\ told'.events = Diff!Events(state, Diff!BuildState(rows, scores, scope), threshold)
           /\ told' = [events |-> told'.events, notes |-> Diff!Notes(told'.events)]
<1> DEFINE fresh == Diff!BuildState(rows, scores, scope)
<1>1. /\ fresh = [v |-> 1, scope |-> scope, scores |-> Diff!Now, locations |-> LocationsOf(rows, scope)]
      /\ DOMAIN fresh.locations = Diff!Visible
  <2>1. fresh = [v |-> 1, scope |-> scope, scores |-> Diff!Now, locations |-> LocationsOf(rows, scope)]
    BY Built DEF Diff!Now
  <2>2. fresh.locations = LocationsOf(rows, scope)
    BY <2>1
  <2>3. DOMAIN LocationsOf(rows, scope) = Diff!Visible
    BY Built DEF Diff!Visible
  <2> QED
    BY <2>1, <2>2, <2>3
<1>2. /\ state' = Diff!DiffStored(state, fresh, threshold)
      /\ told' = [events |-> Diff!DiffEvents(state, fresh, threshold),
                  notes |-> Diff!Notes(Diff!DiffEvents(state, fresh, threshold))]
  BY DEF Diff!Run
<1> HIDE DEF fresh
<1>3. seen.known <=> state.v = 1
  BY DEF DiffInv
<1>4. CASE seen.known
  <2>1. /\ Diff!DiffEvents(state, fresh, threshold) = Diff!Events(state, fresh, threshold)
        /\ Diff!DiffStored(state, fresh, threshold) =
              [fresh EXCEPT !.scores = Diff!StoredScores(state.scores, fresh.scores, threshold, DOMAIN fresh.locations # {})]
    BY <1>3, <1>4 DEF Diff!DiffEvents, Diff!DiffStored
  <2> QED
    BY <1>1, <1>2, <1>4, <2>1 DEF fresh
<1>5. CASE ~seen.known
  <2>1. Diff!DiffEvents(state, fresh, threshold) = {} /\ Diff!DiffStored(state, fresh, threshold) = fresh
    BY <1>3, <1>5 DEF Diff!DiffEvents, Diff!DiffStored
  <2> QED
    BY <1>1, <1>2, <1>5, <2>1
<1> QED
  BY <1>4, <1>5

\* The anchor of a state is the EPSS last told.
LEMMA RunAnchors ==
    ASSUME Diff!ConstantsAssumption, DiffInv, NEW threshold, Diff!Run(threshold)
    PROVE  /\ state'.scores = [seen'.scores EXCEPT !.epss = notified']
           /\ seen'.scores \in Diff!ScoreSets
           /\ notified' \in EpssScores \cup {None}
<1> DEFINE moved == Diff!Moved(threshold)
<1>1. /\ seen'.scores = IF Diff!Now = Diff!NoScores /\ seen.known THEN seen.scores ELSE Diff!Now
      /\ notified' = IF \/ ~seen.known
                        \/ moved /\ Diff!Visible # {}
                        \/ ~moved /\ notified = None
                     THEN Diff!Now.epss ELSE notified
  BY DEF Diff!Run
<1>2. /\ Diff!Now \in Diff!ScoreSets /\ seen.scores \in Diff!ScoreSets
      /\ Diff!Now.epss \in EpssScores \cup {None} /\ notified \in EpssScores \cup {None}
      /\ Diff!TypeOK
  BY NowTypes DEF DiffInv, Diff!TypeOK
<1>3. seen'.scores \in Diff!ScoreSets /\ notified' \in EpssScores \cup {None}
  BY <1>1, <1>2
<1>4. CASE ~seen.known
  <2>1. state'.scores = Diff!Now
    BY <1>4, RunStores
  <2> QED
    BY <1>1, <1>2, <1>3, <1>4, <2>1 DEF Diff!ScoreSets
<1>5. CASE seen.known
  <2>1. /\ state.scores = [seen.scores EXCEPT !.epss = notified]
        /\ Diff!ScoresChanged(state.scores, Diff!Now, threshold) <=> moved
    BY <1>5, SameMoves DEF DiffInv
  <2>2. state'.scores = Diff!StoredScores(state.scores, Diff!Now, threshold, Diff!Visible # {})
    BY <1>5, RunStores
  <2>3. CASE Diff!Now = Diff!NoScores
    <3>1. state'.scores = state.scores /\ seen'.scores = seen.scores
      BY <1>1, <1>5, <2>2, <2>3 DEF Diff!StoredScores
    <3>2. ~moved /\ Diff!Now.epss = None
      BY <2>3 DEF Diff!Moved, Diff!NoScores
    <3>3. notified' = notified
      BY <1>1, <1>5, <3>2
    <3> QED
      BY <1>3, <2>1, <3>1, <3>3
  <2>4. CASE Diff!Now # Diff!NoScores
    <3>1. seen'.scores = Diff!Now
      BY <1>1, <2>4
    <3>2. state.scores.epss = notified
      BY <1>2, <2>1 DEF Diff!ScoreSets
    <3>3. state'.scores =
             [Diff!Now EXCEPT !.epss = IF moved
                                       THEN (IF Diff!Visible # {} THEN Diff!Now.epss ELSE notified)
                                       ELSE (IF notified = None THEN Diff!Now.epss ELSE notified)]
      BY <2>1, <2>2, <2>4, <3>2 DEF Diff!StoredScores
    <3>4. notified' = IF moved
                      THEN (IF Diff!Visible # {} THEN Diff!Now.epss ELSE notified)
                      ELSE (IF notified = None THEN Diff!Now.epss ELSE notified)
      BY <1>1, <1>5
    <3> QED
      BY <1>3, <3>1, <3>3, <3>4
  <2> QED
    BY <2>3, <2>4
<1> QED
  BY <1>3, <1>4, <1>5

\* One event of each kind that has a pair.
EventsIn(moved, images, fixes, gone) ==
    {e \in {[kind |-> "scores_changed", scope |-> moved], [kind |-> "new_images", scope |-> images],
            [kind |-> "fix_available", scope |-> fixes], [kind |-> "no_longer_affected", scope |-> gone]} :
        e.scope # {}}

ScopeIn(events, kind) == UNION {e.scope : e \in {x \in events : x.kind = kind}}

LEMMA EventScopes ==
    ASSUME NEW moved, NEW images, NEW fixes, NEW gone
    PROVE  /\ ScopeIn(EventsIn(moved, images, fixes, gone), "scores_changed") = moved
           /\ ScopeIn(EventsIn(moved, images, fixes, gone), "new_images") = images
           /\ ScopeIn(EventsIn(moved, images, fixes, gone), "fix_available") = fixes
           /\ ScopeIn(EventsIn(moved, images, fixes, gone), "no_longer_affected") = gone
           /\ IsFiniteSet(EventsIn(moved, images, fixes, gone))
<1> DEFINE events == EventsIn(moved, images, fixes, gone)
<1>1. {x \in events : x.kind = "scores_changed"} =
          IF moved = {} THEN {} ELSE {[kind |-> "scores_changed", scope |-> moved]}
  BY DEF EventsIn
<1>2. {x \in events : x.kind = "new_images"} =
          IF images = {} THEN {} ELSE {[kind |-> "new_images", scope |-> images]}
  BY DEF EventsIn
<1>3. {x \in events : x.kind = "fix_available"} =
          IF fixes = {} THEN {} ELSE {[kind |-> "fix_available", scope |-> fixes]}
  BY DEF EventsIn
<1>4. {x \in events : x.kind = "no_longer_affected"} =
          IF gone = {} THEN {} ELSE {[kind |-> "no_longer_affected", scope |-> gone]}
  BY DEF EventsIn
<1>5. ASSUME NEW S, NEW k, NEW T, T = IF S = {} THEN {} ELSE {[kind |-> k, scope |-> S]}
      PROVE  UNION {e.scope : e \in T} = S
  <2>1. CASE S = {}
    BY <1>5, <2>1
  <2>2. CASE S # {}
    <3>1. T = {[kind |-> k, scope |-> S]}
      BY <1>5, <2>2
    <3>2. {e.scope : e \in T} = {S}
      BY <3>1
    <3> QED
      BY <3>2
  <2> QED
    BY <2>1, <2>2
<1>6. IsFiniteSet(events)
  <2> DEFINE all == {[kind |-> "scores_changed", scope |-> moved]}
                    \cup {[kind |-> "new_images", scope |-> images]}
                    \cup {[kind |-> "fix_available", scope |-> fixes]}
                    \cup {[kind |-> "no_longer_affected", scope |-> gone]}
  <2>1. IsFiniteSet(all)
    BY FS_Singleton, FS_Union
  <2>2. events \subseteq all
    BY DEF EventsIn
  <2> QED
    BY <2>1, <2>2, FS_Subset
<1> HIDE DEF events
<1>7. ScopeIn(events, "scores_changed") = moved /\ ScopeIn(events, "new_images") = images
  BY <1>1, <1>2, <1>5 DEF ScopeIn
<1>8. ScopeIn(events, "fix_available") = fixes /\ ScopeIn(events, "no_longer_affected") = gone
  BY <1>3, <1>4, <1>5 DEF ScopeIn
<1> QED
  BY <1>6, <1>7, <1>8 DEF events

LEMMA SameSizeOfEvents ==
    ASSUME NEW S
    PROVE  Diff!Cardinality(S) = Cardinality(S)
  BY DEF Diff!Cardinality, Cardinality

\* A summary covers the pairs of the events it stands for.
LEMMA NotesCover ==
    ASSUME Diff!ConstantsAssumption, NEW events, IsFiniteSet(events)
    PROVE  /\ UNION {n.scope : n \in Diff!Notes(events)} = UNION {e.scope : e \in events}
           /\ Diff!Cardinality(Diff!Notes(events)) <= Cap
<1>1. Cardinality(events) \in Nat /\ Cap \in Nat \ {0}
  BY FS_CardinalityType DEF Diff!ConstantsAssumption
<1>2. CASE Cardinality(events) > Cap
  <2> DEFINE summary == [kind |-> "summary", scope |-> UNION {e.scope : e \in events}]
  <2>1. Diff!Notes(events) = {summary}
    BY <1>2, SameSizeOfEvents DEF Diff!Notes
  <2>2. Cardinality({summary}) = 1
    BY FS_Singleton
  <2>3. summary.scope = UNION {e.scope : e \in events}
    OBVIOUS
  <2> HIDE DEF summary
  <2>4. UNION {n.scope : n \in {summary}} = summary.scope
    OBVIOUS
  <2>5. Diff!Cardinality({summary}) <= Cap
    BY <1>1, <2>2, SameSizeOfEvents
  <2> QED
    BY <2>1, <2>3, <2>4, <2>5
<1>3. CASE ~(Cardinality(events) > Cap)
  <2>1. Diff!Notes(events) = events
    BY <1>3, SameSizeOfEvents DEF Diff!Notes
  <2>2. Diff!Cardinality(events) <= Cap
    BY <1>1, <1>3, SameSizeOfEvents
  <2> QED
    BY <2>1, <2>2
<1> QED
  BY <1>2, <1>3

\* A run tells of the pairs of each kind what is true of the world.
LEMMA EventsOfRun ==
    ASSUME Diff!ConstantsAssumption, DiffInv, seen.known, NEW threshold, Diff!Run(threshold)
    PROVE  /\ Diff!NewImagesExact /\ Diff!FixesExact /\ Diff!GoneExact /\ Diff!ScoresExact
           /\ IsFiniteSet(told'.events)
           /\ told'.events \subseteq Diff!Event
<1> DEFINE fresh == Diff!BuildState(rows, scores, scope)
           moved == IF Diff!Moved(threshold) THEN Diff!Visible ELSE {}
           images == {p \in Diff!Followed \cap DOMAIN rows :
                         p \in DOMAIN seen.rows => ~(Diff!TagsIn(rows, p) \subseteq Diff!TagsIn(seen.rows, p))}
           fixes == {p \in Diff!Followed \cap DOMAIN rows \cap DOMAIN seen.rows :
                        ~(rows[p].fixable \subseteq seen.rows[p].fixable)}
           gone == (Diff!Followed \cap DOMAIN seen.rows) \ DOMAIN rows
<1>1. /\ fresh.scope = scope /\ fresh.scores = Diff!Now
      /\ fresh.locations = LocationsOf(rows, scope)
      /\ state.locations = LocationsOf(seen.rows, seen.scope)
      /\ state.scope = seen.scope
  <2>1. fresh = [v |-> 1, scope |-> scope, scores |-> Diff!Now, locations |-> LocationsOf(rows, scope)]
    BY Built DEF Diff!Now
  <2> HIDE DEF fresh
  <2> QED
    BY <2>1 DEF DiffInv
<1> HIDE DEF fresh
<1>2. /\ DOMAIN fresh.locations = Diff!Visible
      /\ DOMAIN state.locations = {p \in DOMAIN seen.rows : Diff!Contains(seen.scope, p)}
  <2>1. DOMAIN LocationsOf(rows, scope) = Diff!Visible
    BY Built DEF Diff!Visible
  <2>2. DOMAIN LocationsOf(seen.rows, seen.scope) = {p \in DOMAIN seen.rows : Diff!Contains(seen.scope, p)}
    BY Built
  <2> QED
    BY <1>1, <2>1, <2>2
<1>3. DOMAIN rows \subseteq DiffPairs /\ DOMAIN seen.rows \subseteq DiffPairs
  BY DEF DiffInv, Diff!TypeOK
<1>4. ASSUME NEW p \in Diff!Visible
      PROVE  fresh.locations[p].images = Diff!TagsIn(rows, p) /\ fresh.locations[p].fixable = rows[p].fixable
  BY <1>1 DEF LocationsOf, Diff!Visible, Diff!TagsIn, Diff!Identity
<1>5. ASSUME NEW p \in DOMAIN state.locations
      PROVE  state.locations[p].images = Diff!TagsIn(seen.rows, p) /\ state.locations[p].fixable = seen.rows[p].fixable
  BY <1>1, <1>2 DEF LocationsOf, Diff!TagsIn, Diff!Identity
<1>6. Diff!NewImages(state, fresh) = images
  BY <1>1, <1>2, <1>3, <1>4, <1>5 DEF Diff!NewImages, Diff!Followed, Diff!Visible
<1>7. Diff!FixAvailable(state, fresh) = fixes
  BY <1>1, <1>2, <1>3, <1>4, <1>5 DEF Diff!FixAvailable, Diff!Followed, Diff!Visible
<1>8. Diff!NoLongerAffected(state, fresh) = gone
  BY <1>1, <1>2, <1>3 DEF Diff!NoLongerAffected, Diff!Followed, Diff!Visible
<1>9. (IF Diff!ScoresChanged(state.scores, fresh.scores, threshold) THEN DOMAIN fresh.locations ELSE {}) = moved
  BY <1>1, <1>2, SameMoves
<1> HIDE DEF moved, images, fixes, gone
<1>a. told'.events = EventsIn(moved, images, fixes, gone)
  <2>1. told'.events = Diff!Events(state, fresh, threshold)
    BY RunStores DEF fresh
  <2> QED
    BY <2>1, <1>6, <1>7, <1>8, <1>9 DEF Diff!Events, EventsIn
<1>b. /\ Diff!ToldOf("scores_changed") = moved /\ Diff!ToldOf("new_images") = images
      /\ Diff!ToldOf("fix_available") = fixes /\ Diff!ToldOf("no_longer_affected") = gone
      /\ IsFiniteSet(told'.events)
  <2>1. \A kind : Diff!ToldOf(kind) = ScopeIn(told'.events, kind)
    BY DEF Diff!ToldOf, ScopeIn
  <2> QED
    BY <1>a, <2>1, EventScopes
<1>c. seen'.threshold = threshold
  BY DEF Diff!Run
<1>d. /\ moved \in SUBSET DiffPairs /\ images \in SUBSET DiffPairs
      /\ fixes \in SUBSET DiffPairs /\ gone \in SUBSET DiffPairs
  BY <1>3 DEF moved, images, fixes, gone, Diff!Visible, Diff!Followed
<1>e. told'.events \subseteq Diff!Event
  <2>1. ASSUME NEW e \in told'.events
        PROVE  e \in Diff!Event
    <3>1. /\ e.scope \in {moved, images, fixes, gone} \ {{}} /\ e.kind \in Diff!Kinds
          /\ e = [kind |-> e.kind, scope |-> e.scope]
      BY <1>a DEF EventsIn, Diff!Kinds
    <3>2. e.scope \in (SUBSET DiffPairs) \ {{}}
      BY <1>d, <3>1
    <3> QED
      BY <3>1, <3>2 DEF Diff!Event
  <2> QED
    BY <2>1
<1>f. Diff!NewImagesExact
  BY <1>b DEF images, Diff!NewImagesExact
<1>g. Diff!FixesExact
  BY <1>b DEF fixes, Diff!FixesExact
<1>h. Diff!GoneExact
  BY <1>b DEF gone, Diff!GoneExact
<1>i. Diff!ScoresExact
  BY <1>b, <1>c DEF moved, Diff!ScoresExact
<1> QED
  BY <1>b, <1>e, <1>f, <1>g, <1>h, <1>i

LEMMA RunExact ==
    ASSUME Diff!ConstantsAssumption, DiffInv, NEW threshold, Diff!Run(threshold)
    PROVE  Diff!Exact /\ told'.events \subseteq Diff!Event
<1>1. CASE seen.known
  <2>1. IsFiniteSet(told'.events)
    BY <1>1, EventsOfRun
  <2>2. told'.notes = Diff!Notes(told'.events)
    BY RunStores
  <2> QED
    BY <1>1, <2>1, <2>2, EventsOfRun, NotesCover DEF Diff!Exact
<1>2. CASE ~seen.known
  <2>1. told'.events = {} /\ told'.notes = Diff!Notes({})
    BY <1>2, RunStores
  <2> QED
    BY <1>2, <2>1, NotesCover, FS_EmptySet DEF Diff!Exact
<1> QED
  BY <1>1, <1>2

\* The scans, the scores and the access change, and no state with them.
LEMMA ChangeKeeps ==
    ASSUME Diff!ConstantsAssumption, DiffInv,
           \/ \E p \in DiffPairs, l \in Diff!Locations : Diff!ScanFinds(p, l)
           \/ \E p \in DiffPairs : Diff!ScanLoses(p)
           \/ \E s \in Diff!EffectiveScores : Diff!Rescored(s)
           \/ \E sc \in Diff!Scopes : Diff!AccessChanges(sc)
    PROVE  DiffInv' /\ changes' # changes
<1>1. changes' = changes + 1 /\ changes < MaxChanges /\ UNCHANGED <<state, told, seen, notified>>
  BY DEF Diff!ScanFinds, Diff!ScanLoses, Diff!Rescored, Diff!AccessChanges, Diff!Change
<1>2. changes \in 0 .. MaxChanges /\ MaxChanges \in Nat
  BY DEF DiffInv, Diff!TypeOK, Diff!ConstantsAssumption
<1>3. changes' \in 0 .. MaxChanges /\ changes' # changes
  BY <1>1, <1>2
<1>4. DOMAIN rows \subseteq DiffPairs /\ rows \in [DOMAIN rows -> Diff!Locations]
  BY DEF DiffInv, Diff!TypeOK
<1> DEFINE WorldTyped == /\ DOMAIN rows \subseteq DiffPairs /\ rows \in [DOMAIN rows -> Diff!Locations]
                         /\ scores \in Diff!EffectiveScores /\ scope \in Diff!Scopes
<1>5. WorldTyped'
  <2>1. scores \in Diff!EffectiveScores /\ scope \in Diff!Scopes
    BY DEF DiffInv, Diff!TypeOK
  <2>2. ASSUME NEW p \in DiffPairs, NEW l \in Diff!Locations, Diff!ScanFinds(p, l)
        PROVE  WorldTyped'
    BY <1>4, <2>1, <2>2 DEF Diff!ScanFinds
  <2>3. ASSUME NEW p \in DiffPairs, Diff!ScanLoses(p)
        PROVE  WorldTyped'
    BY <1>4, <2>1, <2>3 DEF Diff!ScanLoses
  <2>4. ASSUME NEW s \in Diff!EffectiveScores, Diff!Rescored(s)
        PROVE  WorldTyped'
    BY <1>4, <2>1, <2>4 DEF Diff!Rescored
  <2>5. ASSUME NEW sc \in Diff!Scopes, Diff!AccessChanges(sc)
        PROVE  WorldTyped'
    BY <1>4, <2>1, <2>5 DEF Diff!AccessChanges
  <2> HIDE DEF WorldTyped
  <2> QED
    BY <2>2, <2>3, <2>4, <2>5
<1>6. Diff!TypeOK'
  BY <1>1, <1>3, <1>5 DEF DiffInv, Diff!TypeOK
<1> QED
  BY <1>1, <1>3, <1>6 DEF DiffInv, LocationsOf

\* The locations of a state are typed.
LEMMA LocationTypes ==
    ASSUME DOMAIN rows \subseteq DiffPairs, rows \in [DOMAIN rows -> Diff!Locations]
    PROVE  /\ DOMAIN LocationsOf(rows, scope) \subseteq DiffPairs
           /\ \A p \in DOMAIN LocationsOf(rows, scope) :
                 /\ LocationsOf(rows, scope)[p].images \subseteq Diff!Tags
                 /\ LocationsOf(rows, scope)[p].fixable \subseteq Components
<1>2. DOMAIN LocationsOf(rows, scope) = {q \in DOMAIN rows : Diff!Contains(scope, q)}
  BY Built
<1>3. ASSUME NEW p \in DOMAIN rows
      PROVE  rows[p].images \subseteq Specs /\ rows[p].fixable \subseteq Components
  BY DEF Diff!Locations
<1>4. ASSUME NEW p \in DOMAIN LocationsOf(rows, scope)
      PROVE  /\ LocationsOf(rows, scope)[p].images = {Diff!Identity(s) : s \in rows[p].images}
             /\ LocationsOf(rows, scope)[p].fixable = rows[p].fixable
  BY <1>4 DEF LocationsOf
<1> QED
  BY <1>2, <1>3, <1>4 DEF Diff!Tags, Diff!Identity

\* A run stores what it saw.
LEMMA RunKeeps ==
    ASSUME Diff!ConstantsAssumption, DiffInv, NEW threshold, Diff!Run(threshold)
    PROVE  DiffInv'
<1>1. /\ Diff!TypeOK /\ UNCHANGED <<rows, scores, scope, changes>>
      /\ seen'.rows = rows /\ seen'.scope = scope /\ seen'.known = TRUE
  BY DEF DiffInv, Diff!Run
<1>2. /\ state'.v = 1 /\ state'.scope = scope /\ state'.locations = LocationsOf(rows, scope)
  BY RunStores
<1>3. /\ state'.scores = [seen'.scores EXCEPT !.epss = notified']
      /\ seen'.scores \in Diff!ScoreSets
      /\ notified' \in EpssScores \cup {None}
  BY RunAnchors
<1>4. state'.scores \in Diff!ScoreSets
  BY <1>3 DEF Diff!ScoreSets
<1>5. told'.events \subseteq Diff!Event
  BY RunExact
<1>6. Diff!TypeOK'
  BY <1>1, <1>2, <1>3, <1>4, <1>5, LocationTypes DEF Diff!TypeOK
<1>7. DOMAIN seen'.rows \subseteq DiffPairs
  BY <1>1 DEF Diff!TypeOK
<1>8. LocationsOf(rows, scope) = LocationsOf(seen'.rows, seen'.scope)
  BY <1>1
<1> QED
  BY <1>1, <1>2, <1>3, <1>6, <1>7, <1>8 DEF DiffInv, LocationsOf

LEMMA DiffInit ==
    ASSUME Diff!ConstantsAssumption, Diff!Init
    PROVE  DiffInv
<1>1. /\ DOMAIN rows \subseteq DiffPairs /\ DOMAIN rows # {}
      /\ rows \in [DOMAIN rows -> [images : {{s} : s \in Specs}, fixable : {{}}]]
  <2>1. PICK ps \in SUBSET DiffPairs : rows \in [ps -> [images : {{s} : s \in Specs}, fixable : {{}}]]
    BY DEF Diff!Init
  <2> QED
    BY <2>1 DEF Diff!Init
<1>2. [images : {{s} : s \in Specs}, fixable : {{}}] \subseteq Diff!Locations
  BY DEF Diff!Locations
<1>3. rows \in [DOMAIN rows -> Diff!Locations]
  BY <1>1, <1>2
<1>4. scores \in Diff!EffectiveScores /\ scope \in Diff!Scopes /\ scores \in Diff!ScoreSets
  BY DEF Diff!Init, Diff!EffectiveScores, Diff!ScoreSets
<1>5. PICK v \in {0, 1} : state = [Diff!BuildState(rows, scores, scope) EXCEPT !.v = v]
  BY DEF Diff!Init
<1>6. Diff!BuildState(rows, scores, scope) =
         [v |-> 1, scope |-> scope, scores |-> scores, locations |-> LocationsOf(rows, scope)]
  BY <1>1, Built DEF Diff!ScoresOf
<1>7. /\ state.v = v /\ state.scope = scope /\ state.scores = scores
      /\ state.locations = LocationsOf(rows, scope)
  BY <1>5, <1>6
<1>8. /\ seen = [rows |-> rows, scores |-> scores, scope |-> scope, known |-> state.v = 1, threshold |-> 0]
      /\ notified = scores.epss /\ changes = 0 /\ told = Diff!Silent
  BY DEF Diff!Init
<1>9. Diff!TypeOK
  <2>1. changes \in 0 .. MaxChanges /\ told.events \subseteq Diff!Event /\ notified \in EpssScores \cup {None}
    BY <1>4, <1>8 DEF Diff!ConstantsAssumption, Diff!Silent, Diff!EffectiveScores
  <2> QED
    BY <1>1, <1>3, <1>4, <1>7, <2>1, LocationTypes DEF Diff!TypeOK
<1>a. state.scores = [seen.scores EXCEPT !.epss = notified]
  BY <1>4, <1>7, <1>8 DEF Diff!EffectiveScores
<1> QED
  BY <1>1, <1>4, <1>7, <1>8, <1>9, <1>a DEF DiffInv

\* Every step of the diff keeps the invariant, and tells exactly what changed.
LEMMA DiffStepKeeps ==
    ASSUME Diff!ConstantsAssumption, DiffInv, [Diff!Next]_(Diff!vars)
    PROVE  DiffInv' /\ (Diff!Next => Diff!Exact)
<1>1. ASSUME NEW threshold \in Thresholds, Diff!Run(threshold)
      PROVE  DiffInv' /\ Diff!Exact
  BY <1>1, RunKeeps, RunExact
<1>2. CASE /\ Diff!Next
           /\ ~\E threshold \in Thresholds : Diff!Run(threshold)
  BY <1>2, ChangeKeeps DEF Diff!Next, Diff!Exact
<1>3. CASE UNCHANGED Diff!vars /\ ~Diff!Next
  BY <1>3 DEF DiffInv, Diff!vars, Diff!TypeOK, LocationsOf
<1> QED
  BY <1>1, <1>2, <1>3

LEMMA DiffInvariance == Spec => [](part = "diff" => DiffInv)
<1> DEFINE Inv == part = "diff" => DiffInv
<1>0. Diff!ConstantsAssumption
  BY ConstantsAssumption
<1>1. Init => Inv
  BY <1>0, DiffInit DEF Init
<1>2. Inv /\ [Next]_vars => Inv'
  <2> SUFFICES ASSUME Inv, [Next]_vars, part' = "diff"
               PROVE  DiffInv'
    OBVIOUS
  <2>1. part = "diff" /\ [Diff!Next]_(Diff!vars)
    BY DEF Next, SubscriptionsStep, SummaryStep, AlertsStep, DiffStep, DiscussionStep, vars,
           diffVars, Diff!vars
  <2> QED
    BY <1>0, <2>1, DiffStepKeeps
<1> QED
  BY <1>1, <1>2, PTL DEF Spec

\* However scans, scores and access change between two runs of the diff, a
\* subscriber is told of exactly what changed in the pairs seen at both, of
\* scores against those last told, and of nothing because access changed.
THEOREM ToldExactly == Spec => DiffExact
<1> DEFINE Step == part = "diff" => Diff!Exact
           Kept == part = "diff" => DiffInv
<1>1. Kept /\ [Next]_vars => [Step]_vars
  <2> SUFFICES ASSUME Kept, Next, part = "diff"
               PROVE  Diff!Exact
    OBVIOUS
  <2>1. Diff!Next
    BY DEF Next, SubscriptionsStep, SummaryStep, AlertsStep, DiffStep, DiscussionStep
  <2> QED
    BY <2>1, ConstantsAssumption, DiffStepKeeps DEF ConstantsAssumption
<1>2. Spec => []Kept
  BY DiffInvariance
<1>3. Spec => [][Step]_vars
  <2> HIDE DEF Step, Kept
  <2> QED
    BY <1>1, <1>2, PTL DEF Spec
<1> QED
  BY <1>3 DEF DiffExact

-----------------------------------------------------------------------------
\* The discussion: every notification there was has a cause and a comment.
SentUpTo(n) == [cause : 1 .. n, by : Talkers \cup {Stranger}, about : 0 .. n, user : Talkers,
                key : Talk!Keys \cup {"mail"}]

\* Whom every version of a comment mentions is among the previous ids of any
\* edit that is still to be committed.
AlwaysInv ==
    /\ DOMAIN comments \subseteq DOMAIN always /\ DOMAIN always \subseteq 0 .. causes
    /\ always \in [DOMAIN always -> SUBSET Talkers]
    /\ \A c \in DOMAIN comments :
          /\ always[c] \subseteq Talk!Mentioned(comments[c].names)
          /\ comments[c].segments = Legacy \/ comments[c].segments = Talk!Mentioned(comments[c].names)
    /\ \A e \in edits :
          /\ e.comment \in DOMAIN always /\ always[e.comment] \subseteq e.previous
          /\ e.mentions = Talk!Mentioned(e.names)

\* MentionedOnce, of deleted comments as well.
MentionedInv ==
    \A c \in DOMAIN always : \A x \in sent :
        x.key = "mention" /\ x.about = c /\ x.user \in always[c] => x.cause = c

TalkInv ==
    /\ Talk!TypeOK
    /\ sent \subseteq SentUpTo(causes)
    /\ Talk!HeardOnce
    /\ AlwaysInv
    /\ MentionedInv

\* What a step that tells nobody may change.
Untold == UNCHANGED <<causes, sent>>

LEMMA UntoldKeeps ==
    ASSUME TalkInv, Untold
    PROVE  (sent \subseteq SentUpTo(causes))' /\ Talk!HeardOnce'
  BY DEF TalkInv, Untold, SentUpTo, Talk!HeardOnce

\* The notifications of one call are the users', of its key.
LEMMA CreatedOf ==
    ASSUME Talk!TypeOK, Talk!ConstantsAssumption, causes < MaxCauses,
           NEW users \in SUBSET Talkers, NEW key \in Talk!Keys, NEW sc \in Talk!Scopes
    PROVE  /\ Talk!Created(users, key, sc) \subseteq Talk!Notification
           /\ \A n \in Talk!Created(users, key, sc) : n.user \in users /\ n.key = key
<1>1. causes + 1 \in 1 .. MaxCauses
  BY DEF Talk!TypeOK, Talk!ConstantsAssumption
<1>2. ASSUME NEW n \in Talk!Created(users, key, sc)
      PROVE  n \in Talk!Notification /\ n.user \in users /\ n.key = key
  <2>1. PICK u \in users : n = [cause |-> causes + 1, user |-> u, key |-> key, scope |-> sc, read |-> FALSE]
    BY <1>2 DEF Talk!Created
  <2> QED
    BY <1>1, <2>1 DEF Talk!Notification
<1> QED
  BY <1>2

\* Each user is told once, and not the own.
OneEach(by, created) ==
    /\ created \subseteq Talk!Notification
    /\ \A n, m \in created : n.user = m.user => n.key = m.key
    /\ \A n \in created : n.user # by

\* What is told is of the transaction, and a mention of a notification.
ToldOf(about, created) ==
    \A x \in sent' : x \in sent \/ (/\ x.cause = causes + 1 /\ x.about = about
                                    /\ x.key = "mention" =>
                                          \E n \in created : n.key = "mention" /\ n.user = x.user)

\* What a transaction tells, when each user is told once and not the own.
LEMMA DeliverKeeps ==
    ASSUME TalkInv, Talk!ConstantsAssumption, causes < MaxCauses,
           NEW by \in Talkers \cup {Stranger}, NEW about \in 0 .. causes + 1,
           NEW created, OneEach(by, created), NEW mailed \in SUBSET Talkers,
           Talk!Deliver(by, about, created, mailed)
    PROVE  /\ causes' = causes + 1 /\ causes' \in 0 .. MaxCauses
           /\ inbox' \subseteq Talk!Notification
           /\ (sent \subseteq SentUpTo(causes))'
           /\ Talk!HeardOnce'
           /\ ToldOf(about, created)
<1> DEFINE posts == Talk!Mails(mailed) \cup {[user |-> n.user, key |-> n.key] : n \in created}
           told_(p) == [cause |-> causes + 1, by |-> by, about |-> about, user |-> p.user, key |-> p.key]
<1>1. /\ causes' = causes + 1 /\ inbox' = inbox \cup created
      /\ sent' = sent \cup {told_(p) : p \in posts}
  BY DEF Talk!Deliver
<1>2. causes \in Nat /\ causes' \in 0 .. MaxCauses /\ inbox' \subseteq Talk!Notification
  BY <1>1 DEF TalkInv, Talk!TypeOK, Talk!ConstantsAssumption, OneEach
<1>3. ASSUME NEW p \in posts
      PROVE  /\ p.user \in Talkers /\ p.key \in Talk!Keys \cup {"mail"} /\ p = [user |-> p.user, key |-> p.key]
             /\ p.key # "mail" => p.user # by /\ \E n \in created : n.user = p.user /\ n.key = p.key
  <2>1. CASE p \in Talk!Mails(mailed)
    BY <2>1 DEF Talk!Mails
  <2>2. CASE p \in {[user |-> n.user, key |-> n.key] : n \in created}
    <3>1. PICK n \in created : p = [user |-> n.user, key |-> n.key]
      BY <2>2
    <3> QED
      BY <3>1 DEF Talk!Notification, OneEach
  <2> QED
    BY <2>1, <2>2
<1>4. ASSUME NEW p \in posts, NEW q \in posts, p.user = q.user, (p.key = "mail") <=> (q.key = "mail")
      PROVE  p = q
  BY <1>3, <1>4 DEF OneEach
<1> HIDE DEF posts
<1>5. ASSUME NEW x \in sent'
      PROVE  \/ x \in sent /\ x.cause \in 1 .. causes
             \/ \E p \in posts : x = told_(p)
  BY <1>1, <1>5 DEF TalkInv, SentUpTo
<1>6. (sent \subseteq SentUpTo(causes))'
  <2>1. sent \subseteq SentUpTo(causes')
    BY <1>1, <1>2 DEF TalkInv, SentUpTo
  <2>2. ASSUME NEW p \in posts
        PROVE  told_(p) \in SentUpTo(causes')
    BY <1>1, <1>2, <1>3 DEF SentUpTo
  <2> QED
    BY <1>1, <2>1, <2>2 DEF SentUpTo
<1>7. ASSUME NEW x \in sent', NEW y \in sent', x.cause = y.cause, x.user = y.user,
             (x.key = "mail") <=> (y.key = "mail")
      PROVE  x = y
  <2>1. CASE x \in sent /\ y \in sent
    BY <1>7, <2>1 DEF TalkInv, Talk!HeardOnce
  <2>2. CASE \E p, q \in posts : x = told_(p) /\ y = told_(q)
    BY <1>4, <1>7, <2>2
  <2>3. ~(causes + 1 \in 1 .. causes)
    BY <1>2
  <2> QED
    BY <1>5, <1>7, <2>1, <2>2, <2>3
<1>8. ASSUME NEW x \in sent', x.user = x.by
      PROVE  x.key = "mail"
  BY <1>3, <1>5, <1>8 DEF TalkInv, Talk!HeardOnce
<1>9. Talk!HeardOnce'
  BY <1>7, <1>8 DEF Talk!HeardOnce
<1>a. ASSUME NEW x \in sent', x \notin sent
      PROVE  /\ x.cause = causes + 1 /\ x.about = about
             /\ x.key = "mention" => \E n \in created : n.key = "mention" /\ n.user = x.user
  BY <1>3, <1>5, <1>a
<1> QED
  BY <1>1, <1>2, <1>6, <1>9, <1>a DEF ToldOf

\* A new comment is of a cause of its own.
LEMMA AddKeeps ==
    ASSUME TalkInv, Talk!ConstantsAssumption, causes < MaxCauses,
           NEW u \in Talkers, NEW names \in Mentionings,
           NEW thread \in {"cve", "acceptance"}, Talk!Add(u, thread, FALSE, names),
           causes' = causes + 1, UNCHANGED edits,
           \A x \in sent' : x \in sent \/ (x.cause = causes + 1 /\ x.about = causes + 1)
    PROVE  /\ DOMAIN comments' \subseteq 0 .. MaxCauses /\ comments' \in [DOMAIN comments' -> Talk!Comment]
           /\ AlwaysInv' /\ MentionedInv'
<1> DEFINE new == causes + 1
           comment == [thread |-> thread, author |-> u, escalated |-> FALSE,
                       names |-> names, segments |-> Talk!Mentioned(names)]
<1>1. causes \in Nat /\ new \in 0 .. MaxCauses /\ new \notin 0 .. causes /\ MaxCauses \in Nat
  BY DEF TalkInv, Talk!TypeOK, Talk!ConstantsAssumption
<1>2. /\ DOMAIN comments \subseteq DOMAIN always /\ DOMAIN always \subseteq 0 .. causes
      /\ new \notin DOMAIN always /\ new \notin DOMAIN comments
  BY <1>1 DEF TalkInv, AlwaysInv
<1>3. /\ Talk!Mentioned(names) \subseteq Talkers /\ names \in SUBSET (Talkers \cup {Stranger})
      /\ Talk!Recipients(u, names) \subseteq Talk!Mentioned(names)
  BY DEF Talk!Mentioned, Talk!Recipients, Talk!ConstantsAssumption
<1>4. comment \in Talk!Comment
  BY <1>3 DEF Talk!Comment
<1> HIDE DEF comment
<1>5. /\ DOMAIN comments' = DOMAIN comments \cup {new} /\ comments'[new] = comment
      /\ \A c \in DOMAIN comments : comments'[c] = comments[c]
  BY <1>2 DEF Talk!Add, comment
<1>6. /\ DOMAIN always' = DOMAIN always \cup {new} /\ always'[new] = Talk!Recipients(u, names)
      /\ \A c \in DOMAIN always : always'[c] = always[c]
  BY <1>2 DEF Talk!Add
<1>7. comments' = [c \in DOMAIN comments' |-> comments'[c]] /\ always' = [c \in DOMAIN always' |-> always'[c]]
  BY <1>5, <1>6 DEF Talk!Add
<1>8. \A c \in DOMAIN comments : comments[c] \in Talk!Comment
  BY DEF TalkInv, Talk!TypeOK
<1>9. \A c \in DOMAIN comments' : comments'[c] \in Talk!Comment
  BY <1>4, <1>5, <1>8
<1>a. DOMAIN comments' \subseteq 0 .. MaxCauses
  BY <1>1, <1>5 DEF TalkInv, Talk!TypeOK
<1>b. comments' \in [DOMAIN comments' -> Talk!Comment]
  BY <1>7, <1>9
<1>c. AlwaysInv'
  <2>1. DOMAIN comments' \subseteq DOMAIN always' /\ DOMAIN always' \subseteq 0 .. causes'
    BY <1>1, <1>2, <1>5, <1>6
  <2>2. \A c \in DOMAIN always' : always'[c] \in SUBSET Talkers
    BY <1>3, <1>6 DEF TalkInv, AlwaysInv
  <2>3. always' \in [DOMAIN always' -> SUBSET Talkers]
    BY <1>7, <2>2
  <2>4. ASSUME NEW c \in DOMAIN comments'
        PROVE  /\ always'[c] \subseteq Talk!Mentioned(comments'[c].names)
               /\ \/ comments'[c].segments = Legacy
                  \/ comments'[c].segments = Talk!Mentioned(comments'[c].names)
    <3>1. CASE c = new
      BY <1>3, <1>5, <1>6, <3>1 DEF comment
    <3>2. CASE c \in DOMAIN comments
      BY <1>2, <1>5, <1>6, <3>2 DEF TalkInv, AlwaysInv
    <3> QED
      BY <1>5, <2>4, <3>1, <3>2
  <2>5. ASSUME NEW e \in edits
        PROVE  /\ e.comment \in DOMAIN always' /\ always'[e.comment] \subseteq e.previous
               /\ e.mentions = Talk!Mentioned(e.names)
    BY <1>6 DEF TalkInv, AlwaysInv
  <2> QED
    BY <2>1, <2>3, <2>4, <2>5 DEF AlwaysInv, Talk!Mentioned
<1>d. ASSUME NEW c \in DOMAIN always', NEW x \in sent',
             x.key = "mention", x.about = c, x.user \in always'[c]
      PROVE  x.cause = c
  <2>1. CASE x \in sent
    <3>1. x.about \in 0 .. causes
      BY <2>1 DEF TalkInv, SentUpTo
    <3>2. c \in DOMAIN always
      BY <1>1, <1>6, <1>d, <3>1
    <3> QED
      BY <1>6, <1>d, <2>1, <3>2 DEF TalkInv, MentionedInv
  <2> QED
    BY <1>d, <2>1
<1>e. MentionedInv'
  BY <1>d DEF MentionedInv
<1> QED
  BY <1>a, <1>b, <1>c, <1>e

\* A user that a comment mentions is told of that and nothing else.
LEMMA AddCveKeeps ==
    ASSUME TalkInv, Talk!ConstantsAssumption, NEW u \in Talkers, NEW names \in Mentionings,
           Talk!AddCveComment(u, names)
    PROVE  TalkInv'
<1> DEFINE mentioned == Talk!Recipients(u, names)
           mentions == Talk!Created(mentioned, "mention", Unscoped)
           others(sc) == Talk!Created(Talk!OtherSubscribers(u, mentioned), "subscription.comment", sc)
<1>1. causes < MaxCauses /\ Talk!Add(u, "cve", FALSE, names)
      /\ UNCHANGED <<sees, prefs, edits, warns, moves>>
  BY DEF Talk!AddCveComment, Talk!CanAdd
<1>2. mentioned \in SUBSET Talkers /\ u \notin mentioned
      /\ Talk!OtherSubscribers(u, mentioned) \in SUBSET Talkers
      /\ u \notin Talk!OtherSubscribers(u, mentioned)
      /\ mentioned \cap Talk!OtherSubscribers(u, mentioned) = {}
  BY DEF Talk!Recipients, Talk!Mentioned, Talk!OtherSubscribers, Talk!ConstantsAssumption
<1>3. PICK created : /\ created = mentions \/ \E sc \in SUBSET TalkPairs : created = mentions \cup others(sc)
                     /\ Talk!Deliver(u, causes + 1, created, mentioned \cap Reachable)
  BY DEF Talk!AddCveComment
<1>4. mentions \subseteq Talk!Notification /\ \A n \in mentions : n.user \in mentioned /\ n.key = "mention"
  <2>1. "mention" \in Talk!Keys /\ Unscoped \in Talk!Scopes
    BY DEF Talk!Keys, Talk!Scopes
  <2>2. Talk!TypeOK
    BY DEF TalkInv
  <2> QED
    BY <1>1, <1>2, <2>1, <2>2, CreatedOf
<1>5. ASSUME NEW sc \in SUBSET TalkPairs
      PROVE  /\ others(sc) \subseteq Talk!Notification
             /\ \A n \in others(sc) : n.user \in Talk!OtherSubscribers(u, mentioned)
                                      /\ n.key = "subscription.comment"
  <2>1. "subscription.comment" \in Talk!Keys /\ sc \in Talk!Scopes
    BY DEF Talk!Keys, Talk!Scopes
  <2>2. Talk!TypeOK
    BY DEF TalkInv
  <2> QED
    BY <1>1, <1>2, <2>1, <2>2, CreatedOf
<1> HIDE DEF mentions, others, mentioned
<1>6. ASSUME NEW n \in created
      PROVE  /\ n \in Talk!Notification /\ n.user # u
             /\ \/ n.user \in mentioned /\ n.key = "mention"
                \/ n.user \in Talk!OtherSubscribers(u, mentioned) /\ n.key = "subscription.comment"
  BY <1>2, <1>3, <1>4, <1>5, <1>6
<1>7. OneEach(u, created)
  BY <1>2, <1>6 DEF OneEach
<1>8. causes \in Nat /\ causes + 1 \in 0 .. causes + 1 /\ u \in Talkers \cup {Stranger}
  BY DEF TalkInv, Talk!TypeOK
<1>9. /\ causes' = causes + 1 /\ causes' \in 0 .. MaxCauses
      /\ inbox' \subseteq Talk!Notification /\ (sent \subseteq SentUpTo(causes))' /\ Talk!HeardOnce'
      /\ \A x \in sent' : x \in sent \/ (x.cause = causes + 1 /\ x.about = causes + 1)
  <2>1. mentioned \cap Reachable \in SUBSET Talkers
    BY <1>2
  <2>2. Talk!Deliver(u, causes + 1, created, mentioned \cap Reachable)
    BY <1>3
  <2>3. /\ causes' = causes + 1 /\ causes' \in 0 .. MaxCauses
        /\ inbox' \subseteq Talk!Notification /\ (sent \subseteq SentUpTo(causes))' /\ Talk!HeardOnce'
        /\ ToldOf(causes + 1, created)
    BY <1>1, <1>7, <1>8, <2>1, <2>2, DeliverKeeps
  <2> QED
    BY <2>3 DEF ToldOf
<1>a. /\ DOMAIN comments' \subseteq 0 .. MaxCauses /\ comments' \in [DOMAIN comments' -> Talk!Comment]
      /\ AlwaysInv' /\ MentionedInv'
  BY <1>1, <1>9, AddKeeps
<1>b. Talk!TypeOK'
  BY <1>1, <1>9, <1>a DEF TalkInv, Talk!TypeOK
<1> QED
  BY <1>9, <1>a, <1>b DEF TalkInv

\* Of a comment on the acceptance the other side hears, unless it is mentioned.
LEMMA AddRaKeeps ==
    ASSUME TalkInv, Talk!ConstantsAssumption, NEW u \in Talkers, NEW names \in Mentionings,
           Talk!AddRaComment(u, names)
    PROVE  TalkInv'
<1> DEFINE mentioned == Talk!Recipients(u, names)
           mentions == Talk!Created(mentioned, "mention", Unscoped)
           other == Talk!Counterpart(u, mentioned)
           creator == IF Talk!CreatorIsMailed(u, mentioned) THEN {Creator} ELSE {}
<1>1. causes < MaxCauses /\ Talk!Add(u, "acceptance", FALSE, names)
      /\ UNCHANGED <<sees, prefs, edits, warns, moves>>
      /\ Talk!Deliver(u, causes + 1, mentions \cup other, (mentioned \cup creator) \cap Reachable)
  BY DEF Talk!AddRaComment, Talk!CanAdd
<1>2. mentioned \in SUBSET Talkers /\ u \notin mentioned /\ (mentioned \cup creator) \cap Reachable \in SUBSET Talkers
  BY DEF Talk!Recipients, Talk!Mentioned, Talk!ConstantsAssumption
<1>3. Talk!TypeOK /\ Unscoped \in Talk!Scopes
      /\ {"mention", "risk_comment_sec_team", "risk_comment"} \subseteq Talk!Keys
  BY DEF TalkInv, Talk!Keys, Talk!Scopes
<1>4. mentions \subseteq Talk!Notification /\ \A n \in mentions : n.user \in mentioned /\ n.key = "mention"
  BY <1>1, <1>2, <1>3, CreatedOf
<1> HIDE DEF mentions, mentioned, creator
<1>5. \E key \in {"risk_comment_sec_team", "risk_comment"} :
         /\ other \subseteq Talk!Notification
         /\ \A n \in other : n.user \notin mentioned /\ n.user # u /\ n.key = key
  <2>1. CASE u \notin SecTeam
    <3>1. SecTeam \ mentioned \in SUBSET Talkers
      BY DEF Talk!ConstantsAssumption
    <3>2. other = Talk!Created(SecTeam \ mentioned, "risk_comment_sec_team", Unscoped)
      BY <2>1 DEF Talk!Counterpart
    <3>3. other \subseteq Talk!Notification
          /\ \A n \in other : n.user \in SecTeam \ mentioned /\ n.key = "risk_comment_sec_team"
      BY <1>1, <1>3, <3>1, <3>2, CreatedOf
    <3> QED
      BY <2>1, <3>3
  <2>2. CASE u \in SecTeam
    <3>1. {Creator} \ (mentioned \cup {u}) \in SUBSET Talkers
      BY DEF Talk!ConstantsAssumption
    <3>2. other = Talk!Created({Creator} \ (mentioned \cup {u}), "risk_comment", Unscoped)
      BY <2>2 DEF Talk!Counterpart
    <3>3. other \subseteq Talk!Notification
          /\ \A n \in other : n.user \in {Creator} \ (mentioned \cup {u}) /\ n.key = "risk_comment"
      BY <1>1, <1>3, <3>1, <3>2, CreatedOf
    <3> QED
      BY <3>3
  <2> QED
    BY <2>1, <2>2
<1> HIDE DEF other
<1>7. OneEach(u, mentions \cup other)
  BY <1>2, <1>4, <1>5 DEF OneEach
<1>8. causes \in Nat /\ causes + 1 \in 0 .. causes + 1 /\ u \in Talkers \cup {Stranger}
  BY DEF TalkInv, Talk!TypeOK
<1>9. /\ causes' = causes + 1 /\ causes' \in 0 .. MaxCauses
      /\ inbox' \subseteq Talk!Notification /\ (sent \subseteq SentUpTo(causes))' /\ Talk!HeardOnce'
      /\ \A x \in sent' : x \in sent \/ (x.cause = causes + 1 /\ x.about = causes + 1)
  <2>1. (mentioned \cup creator) \cap Reachable \in SUBSET Talkers
    BY <1>2
  <2>2. Talk!Deliver(u, causes + 1, mentions \cup other, (mentioned \cup creator) \cap Reachable)
    BY <1>1
  <2>3. /\ causes' = causes + 1 /\ causes' \in 0 .. MaxCauses
        /\ inbox' \subseteq Talk!Notification /\ (sent \subseteq SentUpTo(causes))' /\ Talk!HeardOnce'
        /\ ToldOf(causes + 1, mentions \cup other)
    BY <1>1, <1>7, <1>8, <2>1, <2>2, DeliverKeeps
  <2> QED
    BY <2>3 DEF ToldOf
<1>a. /\ DOMAIN comments' \subseteq 0 .. MaxCauses /\ comments' \in [DOMAIN comments' -> Talk!Comment]
      /\ AlwaysInv' /\ MentionedInv'
  BY <1>1, <1>9, AddKeeps
<1>b. Talk!TypeOK'
  BY <1>1, <1>9, <1>a DEF TalkInv, Talk!TypeOK
<1> QED
  BY <1>9, <1>a, <1>b DEF TalkInv

\* An edit remembers at least those that every version so far mentions.
LEMMA EditLoadKeeps ==
    ASSUME TalkInv, Talk!ConstantsAssumption, NEW c \in DOMAIN comments, NEW names \in Mentionings,
           Talk!EditLoad(c, names)
    PROVE  TalkInv'
<1> DEFINE edit == [comment |-> c, previous |-> Talk!PreviousIds(c),
                    names |-> names, mentions |-> Talk!Mentioned(names)]
<1>1. edits' = edits \cup {edit}
      /\ UNCHANGED <<sees, prefs, comments, warns, inbox, causes, moves, sent, always>>
  BY DEF Talk!EditLoad
<1>2. comments[c] \in Talk!Comment /\ c \in 0 .. MaxCauses
  BY DEF TalkInv, Talk!TypeOK
<1>3. /\ Talk!Mentioned(names) \subseteq Talkers /\ Talk!Mentioned(comments[c].names) \subseteq Talkers
      /\ names \in SUBSET (Talkers \cup {Stranger})
  BY DEF Talk!Mentioned, Talk!ConstantsAssumption
<1>4. Talk!PreviousIds(c) \subseteq Talkers
  BY <1>2, <1>3 DEF Talk!PreviousIds, Talk!Comment
<1>5. always[c] \subseteq Talk!PreviousIds(c) /\ c \in DOMAIN always
  BY DEF TalkInv, AlwaysInv, Talk!PreviousIds
<1>6. Talk!TypeOK'
  BY <1>1, <1>2, <1>3, <1>4 DEF TalkInv, Talk!TypeOK
<1>7. /\ edit.comment \in DOMAIN always /\ always[edit.comment] \subseteq edit.previous
      /\ edit.mentions = Talk!Mentioned(edit.names)
  BY <1>5
<1> HIDE DEF edit
<1>8. AlwaysInv'
  BY <1>1, <1>7 DEF TalkInv, AlwaysInv, Talk!Mentioned
<1>9. MentionedInv'
  BY <1>1 DEF TalkInv, MentionedInv
<1>a. (sent \subseteq SentUpTo(causes))' /\ Talk!HeardOnce'
  BY <1>1, UntoldKeeps DEF Untold
<1> QED
  BY <1>6, <1>8, <1>9, <1>a DEF TalkInv

\* Edits of a comment that overlap tell nobody of its constant mentions.
LEMMA EditCommitKeeps ==
    ASSUME TalkInv, Talk!ConstantsAssumption, NEW e \in edits, Talk!EditCommit(e)
    PROVE  TalkInv'
<1> DEFINE author == comments[e.comment].author
           new == Talk!NewlyMentioned(e, author)
           created == Talk!Created(new, "mention", Unscoped)
<1>1. /\ e.comment \in DOMAIN comments /\ causes < MaxCauses /\ edits' = edits \ {e}
      /\ comments' = [comments EXCEPT ![e.comment].names = e.names, ![e.comment].segments = e.mentions]
      /\ always' = [always EXCEPT ![e.comment] = @ \cap e.mentions]
      /\ Talk!Deliver(author, e.comment, created, new \cap Reachable)
      /\ UNCHANGED <<sees, prefs, warns, moves>>
  BY DEF Talk!EditCommit
<1>2. /\ Talk!TypeOK /\ comments[e.comment] \in Talk!Comment /\ author \in Talkers
      /\ e.mentions \subseteq Talkers /\ e.names \in SUBSET (Talkers \cup {Stranger})
      /\ causes \in Nat /\ e.comment \in 0 .. causes + 1
  <2>1. Talk!TypeOK
    BY DEF TalkInv
  <2>2. comments[e.comment] \in Talk!Comment
    BY <1>1, <2>1 DEF Talk!TypeOK
  <2>3. causes \in Nat /\ e.comment \in 0 .. causes
    BY <1>1, <2>1 DEF Talk!TypeOK, TalkInv, AlwaysInv
  <2> QED
    BY <2>1, <2>2, <2>3 DEF Talk!TypeOK, Talk!Comment
<1>3. /\ new \in SUBSET Talkers /\ author \notin new /\ new \cap Reachable \in SUBSET Talkers
      /\ new \cap e.previous = {}
  BY <1>2 DEF Talk!NewlyMentioned
<1>4. created \subseteq Talk!Notification /\ \A n \in created : n.user \in new /\ n.key = "mention"
  <2>1. "mention" \in Talk!Keys /\ Unscoped \in Talk!Scopes
    BY DEF Talk!Keys, Talk!Scopes
  <2> QED
    BY <1>1, <1>2, <1>3, <2>1, CreatedOf
<1> HIDE DEF created, new
<1>5. OneEach(author, created)
  BY <1>3, <1>4 DEF OneEach
<1>6. /\ causes' = causes + 1 /\ causes' \in 0 .. MaxCauses
      /\ inbox' \subseteq Talk!Notification /\ (sent \subseteq SentUpTo(causes))' /\ Talk!HeardOnce'
      /\ ToldOf(e.comment, created)
  <2>1. author \in Talkers \cup {Stranger}
    BY <1>2
  <2> HIDE DEF author
  <2> QED
    BY <1>1, <1>2, <1>3, <1>5, <2>1, DeliverKeeps
<1> HIDE DEF author
<1>7. \A c \in DOMAIN comments : comments[c] \in Talk!Comment
  BY <1>2 DEF Talk!TypeOK
<1>8. /\ DOMAIN comments' = DOMAIN comments
      /\ \A c \in DOMAIN comments : c # e.comment => comments'[c] = comments[c]
      /\ comments'[e.comment] = [comments[e.comment] EXCEPT !.names = e.names, !.segments = e.mentions]
  BY <1>1
<1>9. /\ comments'[e.comment] \in Talk!Comment
      /\ comments'[e.comment].names = e.names /\ comments'[e.comment].segments = e.mentions
  BY <1>2, <1>8 DEF Talk!Comment
<1>a. \A c \in DOMAIN comments' : comments'[c] \in Talk!Comment
  BY <1>7, <1>8, <1>9
<1>b. comments' = [c \in DOMAIN comments' |-> comments'[c]]
  BY <1>1
<1>c. comments' \in [DOMAIN comments' -> Talk!Comment]
  BY <1>a, <1>b
<1>d. Talk!TypeOK'
  BY <1>1, <1>2, <1>6, <1>8, <1>c DEF Talk!TypeOK
<1>e. /\ DOMAIN always' = DOMAIN always /\ e.comment \in DOMAIN always
      /\ always'[e.comment] = always[e.comment] \cap e.mentions
      /\ \A c \in DOMAIN always : always'[c] \subseteq always[c]
      /\ \A c \in DOMAIN always : c # e.comment => always'[c] = always[c]
  BY <1>1 DEF TalkInv, AlwaysInv
<1>f. AlwaysInv'
  <2>1. DOMAIN comments' \subseteq DOMAIN always' /\ DOMAIN always' \subseteq 0 .. causes'
    BY <1>2, <1>6, <1>8, <1>e DEF TalkInv, AlwaysInv
  <2>2. \A c \in DOMAIN always' : always'[c] \in SUBSET Talkers
    BY <1>e DEF TalkInv, AlwaysInv
  <2>3. always' = [c \in DOMAIN always' |-> always'[c]]
    BY <1>1 DEF TalkInv, AlwaysInv
  <2>4. always' \in [DOMAIN always' -> SUBSET Talkers]
    BY <2>2, <2>3
  <2>5. ASSUME NEW c \in DOMAIN comments'
        PROVE  /\ always'[c] \subseteq Talk!Mentioned(comments'[c].names)
               /\ \/ comments'[c].segments = Legacy
                  \/ comments'[c].segments = Talk!Mentioned(comments'[c].names)
    <3>1. CASE c = e.comment
      BY <1>8, <1>9, <1>e, <3>1 DEF TalkInv, AlwaysInv
    <3>2. CASE c # e.comment
      BY <1>8, <1>e, <3>2 DEF TalkInv, AlwaysInv
    <3> QED
      BY <3>1, <3>2
  <2>6. ASSUME NEW f \in edits'
        PROVE  /\ f.comment \in DOMAIN always' /\ always'[f.comment] \subseteq f.previous
               /\ f.mentions = Talk!Mentioned(f.names)
    BY <1>1, <1>e DEF TalkInv, AlwaysInv
  <2> QED
    BY <2>1, <2>4, <2>5, <2>6 DEF AlwaysInv, Talk!Mentioned
<1>g. ASSUME NEW c \in DOMAIN always', NEW x \in sent',
             x.key = "mention", x.about = c, x.user \in always'[c]
      PROVE  x.cause = c
  <2>1. x.user \in always[c]
    BY <1>e, <1>g
  <2>2. CASE x \in sent
    BY <1>e, <1>g, <2>1, <2>2 DEF TalkInv, MentionedInv
  <2>3. CASE x \notin sent
    <3>1. x.about = e.comment /\ x.user \in new
      BY <1>4, <1>6, <1>g, <2>3 DEF ToldOf
    <3>2. x.user \in e.previous
      BY <1>g, <2>1, <3>1 DEF TalkInv, AlwaysInv
    <3> QED
      BY <1>3, <3>1, <3>2
  <2> QED
    BY <2>2, <2>3
<1>h. MentionedInv'
  BY <1>g DEF MentionedInv
<1> QED
  BY <1>6, <1>d, <1>f, <1>h DEF TalkInv

\* Steps that tell nobody and mention nobody.
LEMMA QuietKeeps ==
    ASSUME TalkInv, UNCHANGED <<causes, sent, always>>, Talk!TypeOK', edits' \subseteq edits,
           DOMAIN comments' \subseteq DOMAIN comments,
           \A c \in DOMAIN comments' : comments'[c] = comments[c]
    PROVE  TalkInv'
<1>1. AlwaysInv'
  BY DEF TalkInv, AlwaysInv, Talk!Mentioned
<1>2. MentionedInv'
  BY DEF TalkInv, MentionedInv
<1>3. (sent \subseteq SentUpTo(causes))' /\ Talk!HeardOnce'
  BY UntoldKeeps DEF Untold
<1> QED
  BY <1>1, <1>2, <1>3 DEF TalkInv

\* A comment and an edit that go, the warning that is looked for, changes of
\* preferences and of access, and what users do with their inbox.
LEMMA QuietSteps ==
    ASSUME TalkInv, Talk!ConstantsAssumption,
           \/ \E e \in edits : Talk!EditFails(e)
           \/ \E c \in DOMAIN comments : Talk!DeleteComment(c)
           \/ \E r \in WarnRuns : Talk!WarnLoad(r)
           \/ \E u \in Readers, category \in Talk!Categories, channel \in {"in_app", "email"} :
                 Talk!SetPreferences(u, category, channel)
           \/ \E u \in Readers, pairs \in SUBSET TalkPairs : Talk!AccessChanges(u, pairs)
           \/ \E u \in Readers :
                 \/ \E n \in Talk!InboxOf(u) : Talk!MarkRead(n) \/ Talk!Delete(n)
                 \/ Talk!MarkAllRead(u) \/ Talk!Clear(u)
    PROVE  TalkInv'
<1> DEFINE Same == /\ UNCHANGED <<causes, sent, always>> /\ edits' \subseteq edits
                   /\ DOMAIN comments' \subseteq DOMAIN comments
                   /\ \A c \in DOMAIN comments' : comments'[c] = comments[c]
<1>0. /\ Talk!TypeOK /\ Readers \subseteq Talkers /\ moves \in Nat /\ MaxMoves \in Nat
      /\ comments = [c \in DOMAIN comments |-> comments[c]]
  BY DEF TalkInv, Talk!TypeOK, Talk!ConstantsAssumption
<1>1. ASSUME NEW e \in edits, Talk!EditFails(e)
      PROVE  Same /\ Talk!TypeOK'
  BY <1>0, <1>1 DEF Talk!EditFails, Talk!TypeOK
<1>2. ASSUME NEW c \in DOMAIN comments, Talk!DeleteComment(c)
      PROVE  Same /\ Talk!TypeOK'
  <2>1. comments' = [d \in DOMAIN comments \ {c} |-> comments[d]]
        /\ UNCHANGED <<sees, prefs, edits, warns, inbox, causes, moves, sent, always>>
    BY <1>2 DEF Talk!DeleteComment
  <2>2. comments' \in [DOMAIN comments' -> Talk!Comment] /\ DOMAIN comments' \subseteq DOMAIN comments
    BY <1>0, <2>1 DEF Talk!TypeOK
  <2> QED
    BY <1>0, <2>1, <2>2 DEF Talk!TypeOK
<1>3. ASSUME NEW r \in WarnRuns, Talk!WarnLoad(r)
      PROVE  Same /\ Talk!TypeOK'
  <2>1. warns' \in [WarnRuns -> {"idle", "unwarned"}]
    BY <1>0, <1>3 DEF Talk!WarnLoad, Talk!TypeOK
  <2> QED
    BY <1>0, <1>3, <2>1 DEF Talk!WarnLoad, Talk!TypeOK
<1>4. ASSUME NEW u \in Readers, NEW category \in Talk!Categories, NEW channel \in {"in_app", "email"},
             Talk!SetPreferences(u, category, channel)
      PROVE  Same /\ Talk!TypeOK'
  <2> DEFINE key == <<u, category>>
             chosen == [Talk!Effective(u, category) EXCEPT ![channel] = ~@]
  <2>1. /\ prefs' = [k \in DOMAIN prefs \cup {key} |-> IF k = key THEN chosen ELSE prefs[k]]
        /\ moves < MaxMoves /\ moves' = moves + 1
        /\ UNCHANGED <<sees, comments, edits, warns, inbox, causes, sent, always>>
    BY <1>4 DEF Talk!SetPreferences, Talk!Move
  <2>2. key \in Talkers \X Talk!Categories
    BY <1>0
  <2>3. Talk!Effective(u, category) \in Talk!Channels
    BY <1>0 DEF Talk!Effective, Talk!Defaults, Talk!Channels, Talk!TypeOK
  <2>4. chosen \in Talk!Channels
    <3>1. CASE channel = "in_app"
      BY <2>3, <3>1 DEF Talk!Channels
    <3>2. CASE channel = "email"
      BY <2>3, <3>2 DEF Talk!Channels
    <3> QED
      BY <3>1, <3>2
  <2> HIDE DEF key, chosen
  <2>5. DOMAIN prefs' \subseteq Talkers \X Talk!Categories /\ prefs' \in [DOMAIN prefs' -> Talk!Channels]
    BY <1>0, <2>1, <2>2, <2>4 DEF Talk!TypeOK
  <2> QED
    BY <1>0, <2>1, <2>5 DEF Talk!TypeOK
<1>5. ASSUME NEW u \in Readers, NEW pairs \in SUBSET TalkPairs, Talk!AccessChanges(u, pairs)
      PROVE  Same /\ Talk!TypeOK'
  <2>1. sees' \in [Talkers -> SUBSET TalkPairs]
    BY <1>0, <1>5 DEF Talk!AccessChanges, Talk!TypeOK
  <2> QED
    BY <1>0, <1>5, <2>1 DEF Talk!AccessChanges, Talk!Move, Talk!TypeOK
<1>6. ASSUME NEW n \in Talk!Notification
      PROVE  [n EXCEPT !.read = TRUE] \in Talk!Notification
  BY DEF Talk!Notification
<1>7. ASSUME NEW u \in Readers,
             \/ \E n \in Talk!InboxOf(u) : Talk!MarkRead(n) \/ Talk!Delete(n)
             \/ Talk!MarkAllRead(u) \/ Talk!Clear(u)
      PROVE  Same /\ Talk!TypeOK'
  <2>1. Talk!OnlyInbox
    BY <1>7 DEF Talk!MarkRead, Talk!Delete, Talk!MarkAllRead, Talk!Clear
  <2>2. inbox' \subseteq Talk!Notification
    <3>1. inbox \subseteq Talk!Notification
      BY <1>0 DEF Talk!TypeOK
    <3>2. ASSUME NEW n \in Talk!InboxOf(u), Talk!MarkRead(n)
          PROVE  inbox' \subseteq Talk!Notification
      BY <1>6, <3>1, <3>2 DEF Talk!MarkRead, Talk!InboxOf
    <3>3. ASSUME NEW n \in Talk!InboxOf(u), Talk!Delete(n)
          PROVE  inbox' \subseteq Talk!Notification
      BY <3>1, <3>3 DEF Talk!Delete
    <3>4. CASE Talk!MarkAllRead(u)
      BY <1>6, <3>1, <3>4 DEF Talk!MarkAllRead
    <3>5. CASE Talk!Clear(u)
      BY <3>1, <3>5 DEF Talk!Clear
    <3> QED
      BY <1>7, <3>2, <3>3, <3>4, <3>5
  <2> QED
    BY <1>0, <2>1, <2>2 DEF Talk!OnlyInbox, Talk!TypeOK
<1> HIDE DEF Same
<1>8. Same /\ Talk!TypeOK'
  BY <1>1, <1>2, <1>3, <1>4, <1>5, <1>7
<1> QED
  BY <1>8, QuietKeeps DEF Same

\* The warning is of no comment, and nobody's.
LEMMA WarnCommitKeeps ==
    ASSUME TalkInv, Talk!ConstantsAssumption, NEW r \in WarnRuns, Talk!WarnCommit(r)
    PROVE  TalkInv'
<1> DEFINE created == Talk!Created({Creator}, "risk_expiring", Unscoped)
<1>1. /\ causes < MaxCauses /\ warns' = [warns EXCEPT ![r] = "idle"]
      /\ Talk!Deliver(Stranger, 0, created, {})
      /\ UNCHANGED <<sees, prefs, comments, edits, moves, always>>
  BY DEF Talk!WarnCommit
<1>2. /\ Talk!TypeOK /\ {Creator} \in SUBSET Talkers /\ Creator # Stranger
      /\ "risk_expiring" \in Talk!Keys /\ Unscoped \in Talk!Scopes /\ causes \in Nat
      /\ {} \in SUBSET Talkers /\ Stranger \in Talkers \cup {Stranger} /\ 0 \in 0 .. causes + 1
  BY DEF TalkInv, Talk!TypeOK, Talk!ConstantsAssumption, Talk!Keys, Talk!Scopes
<1>3. created \subseteq Talk!Notification /\ \A n \in created : n.user \in {Creator} /\ n.key = "risk_expiring"
  BY <1>1, <1>2, CreatedOf
<1> HIDE DEF created
<1>4. OneEach(Stranger, created)
  BY <1>2, <1>3 DEF OneEach
<1>5. /\ causes' = causes + 1 /\ causes' \in 0 .. MaxCauses
      /\ inbox' \subseteq Talk!Notification /\ (sent \subseteq SentUpTo(causes))' /\ Talk!HeardOnce'
      /\ ToldOf(0, created)
  BY <1>1, <1>2, <1>4, DeliverKeeps
<1>6. warns' \in [WarnRuns -> {"idle", "unwarned"}]
  BY <1>1, <1>2 DEF Talk!TypeOK
<1>7. Talk!TypeOK'
  BY <1>1, <1>2, <1>5, <1>6 DEF Talk!TypeOK
<1>8. AlwaysInv'
  <2>1. DOMAIN always' \subseteq 0 .. causes'
    BY <1>1, <1>2, <1>5 DEF TalkInv, AlwaysInv
  <2> QED
    BY <1>1, <2>1 DEF TalkInv, AlwaysInv, Talk!Mentioned
<1>9. MentionedInv'
  BY <1>1, <1>3, <1>5 DEF TalkInv, MentionedInv, ToldOf
<1> QED
  BY <1>5, <1>7, <1>8, <1>9 DEF TalkInv

\* A discussion starts with a comment of the time before segments.
LEMMA TalkInit ==
    ASSUME Talk!Init, Talk!ConstantsAssumption
    PROVE  TalkInv
<1>1. PICK u \in Readers, names \in Mentionings :
         /\ comments = [c \in {0} |-> [thread |-> "cve", author |-> u, escalated |-> TRUE,
                                       names |-> names, segments |-> Legacy]]
         /\ always = [c \in {0} |-> (names \cap Talkers) \ {u}]
  BY DEF Talk!Init
<1>2. /\ u \in Talkers /\ names \in SUBSET (Talkers \cup {Stranger})
      /\ edits = {} /\ inbox = {} /\ causes = 0 /\ moves = 0 /\ sent = {} /\ prefs = <<>>
      /\ warns = [r \in WarnRuns |-> "idle"] /\ sees \in [Talkers -> {TalkPairs}]
      /\ MaxCauses \in Nat /\ MaxMoves \in Nat
  BY DEF Talk!Init, Talk!ConstantsAssumption
<1>3. [thread |-> "cve", author |-> u, escalated |-> TRUE, names |-> names, segments |-> Legacy]
         \in Talk!Comment
  BY <1>2 DEF Talk!Comment
<1>4. comments \in [{0} -> Talk!Comment] /\ DOMAIN comments = {0} /\ comments[0].names = names
      /\ comments[0].segments = Legacy
  BY <1>1, <1>3
<1>5. DOMAIN prefs = {} /\ prefs \in [{} -> Talk!Channels]
  BY <1>2
<1>6. Talk!TypeOK
  BY <1>2, <1>4, <1>5 DEF Talk!TypeOK
<1>7. AlwaysInv
  BY <1>1, <1>2, <1>4 DEF AlwaysInv, Talk!Mentioned
<1> QED
  BY <1>2, <1>6, <1>7 DEF TalkInv, MentionedInv, Talk!HeardOnce

LEMMA TalkInvariance == Spec => [](part = "discussion" => TalkInv)
<1> DEFINE Inv == part = "discussion" => TalkInv
<1>1. Init => Inv
  BY ConstantsAssumption, TalkInit DEF Init
<1>2. Inv /\ [Next]_vars => Inv'
  <2> SUFFICES ASSUME Inv, [Next]_vars, part' = "discussion"
               PROVE  TalkInv'
    OBVIOUS
  <2>1. CASE DiscussionStep
    <3>1. TalkInv /\ Talk!Next
      BY <2>1 DEF DiscussionStep
    <3>2. CASE Talk!Commenting
      BY <3>1, <3>2, ConstantsAssumption, AddCveKeeps, AddRaKeeps, EditLoadKeeps DEF Talk!Commenting
    <3>3. CASE \E e \in edits : Talk!EditCommit(e)
      BY <3>1, <3>3, ConstantsAssumption, EditCommitKeeps
    <3>4. CASE \E r \in WarnRuns : Talk!WarnCommit(r)
      BY <3>1, <3>4, ConstantsAssumption, WarnCommitKeeps
    <3>5. CASE ~Talk!Commenting /\ ~(\E e \in edits : Talk!EditCommit(e))
               /\ ~(\E r \in WarnRuns : Talk!WarnCommit(r))
      <4>1. \/ \E e \in edits : Talk!EditFails(e)
            \/ \E c \in DOMAIN comments : Talk!DeleteComment(c)
            \/ \E r \in WarnRuns : Talk!WarnLoad(r)
            \/ \E u \in Readers, category \in Talk!Categories, channel \in {"in_app", "email"} :
                  Talk!SetPreferences(u, category, channel)
            \/ \E u \in Readers, pairs \in SUBSET TalkPairs : Talk!AccessChanges(u, pairs)
            \/ \E u \in Readers :
                  \/ \E n \in Talk!InboxOf(u) : Talk!MarkRead(n) \/ Talk!Delete(n)
                  \/ Talk!MarkAllRead(u) \/ Talk!Clear(u)
        BY <3>1, <3>5 DEF Talk!Next
      <4> QED
        BY <3>1, <4>1, ConstantsAssumption, QuietSteps
    <3> QED
      BY <3>2, <3>3, <3>4, <3>5
  <2>2. CASE SubscriptionsStep \/ SummaryStep \/ AlertsStep \/ DiffStep
    BY <2>2 DEF SubscriptionsStep, SummaryStep, AlertsStep, DiffStep
  <2>3. CASE UNCHANGED vars
    <3>1. TalkInv /\ UNCHANGED talkVars
      BY <2>3 DEF vars
    <3> QED
      BY <3>1 DEF talkVars, TalkInv, Talk!TypeOK, SentUpTo, Talk!HeardOnce, AlwaysInv, MentionedInv, Talk!Mentioned
  <2> QED
    BY <2>1, <2>2, <2>3 DEF Next
<1> QED
  BY <1>1, <1>2, PTL DEF Spec

\* Of a comment or an edit a user hears once and never of the own; whom every
\* version of a comment mentions is told by the first alone, although edits
\* overlap and some are lost; and who lost access reads nothing of what was
\* lost: notify_mention_users, broadcast_subscription_event, notify_risk_comment,
\* _previous_mention_ids, _visible_to.
THEOREM NoticesAreRight == Spec => []NoticesRight
<1>1. ASSUME TalkInv
      PROVE  Talk!NoticesRight
  <2>1. Talk!HeardOnce
    BY <1>1 DEF TalkInv
  <2>2. Talk!MentionedOnce
    BY <1>1 DEF TalkInv, AlwaysInv, MentionedInv, Talk!MentionedOnce
  <2>3. Talk!Discreet
    <3> SUFFICES ASSUME NEW u \in Talkers \ SecTeam, NEW n \in Talk!Listed(u) \cup Talk!Unread(u),
                        n.scope # Unscoped
                 PROVE  Talk!VisibleScope(n) # {} /\ Talk!VisibleScope(n) \subseteq sees[u]
      BY DEF Talk!Discreet
    <3>1. n.user = u /\ Talk!VisibleTo(n)
      BY DEF Talk!Listed, Talk!Unread, Talk!Newest, Talk!InboxOf
    <3> QED
      BY <3>1 DEF Talk!VisibleTo, Talk!VisibleScope
  <2> QED
    BY <2>1, <2>2, <2>3 DEF Talk!NoticesRight
<1>2. (part = "discussion" => TalkInv) => NoticesRight
  BY <1>1 DEF NoticesRight
<1> QED
  BY <1>2, TalkInvariance, PTL

-----------------------------------------------------------------------------
\* Whatever part a behaviour is of, its state is of its type: the rows, the
\* runs of the jobs, the stored state of a subscription, the inbox.
THEOREM TypesHold == Spec => []TypeOK
<1> DEFINE ofPart == part \in Parts
           bySubscriptions == OfSubscriptions => SubscriptionProofs!TypeOK
           byAlerts == part = "alerts" => Alerts!TypeOK
           byDiff == part = "diff" => DiffInv
           byTalk == part = "discussion" => TalkInv
<1>1. Spec => []ofPart
  <2>1. Init => ofPart
    BY DEF Init
  <2>2. ofPart /\ [Next]_vars => ofPart'
    BY DEF Next, SubscriptionsStep, SummaryStep, AlertsStep, DiffStep, DiscussionStep, vars
  <2> QED
    BY <2>1, <2>2, PTL DEF Spec
<1>2. Spec => []SummaryProofs!TypeOK
  BY SummaryBehaviour, SummaryProofs!TypeCorrect, SummaryAssumptions, PTL
<1>3. Spec => []bySubscriptions
  <2>1. SubscriptionProofs!Spec => []SubscriptionProofs!TypeOK
    BY SubscriptionProofs!TypeCorrect, SubscriptionAssumptions
  <2> QED
    BY <2>1, SubscriptionsBehaviour, OtherThanSubscriptions, PTL
<1>4. ofPart /\ SummaryProofs!TypeOK /\ bySubscriptions /\ byAlerts /\ byDiff /\ byTalk => TypeOK
  <2>1. SummaryProofs!TypeOK => Summary!TypeOK
    BY DEF Summary!TypeOK, SummaryProofs!TypeOK, Summary!Days, SummaryProofs!Days,
           Summary!Deliveries, SummaryProofs!Deliveries
  <2>2. SubscriptionProofs!TypeOK => Subscriptions!TypeOK
    <3>1. /\ Subscriptions!Times = SubscriptionProofs!Times /\ Subscriptions!Versions = SubscriptionProofs!Versions
          /\ Subscriptions!Subscribable = SubscriptionProofs!Subscribable
          /\ Subscriptions!NoDiff = SubscriptionProofs!NoDiff /\ Subscriptions!NoPost = SubscriptionProofs!NoPost
      BY DEF Subscriptions!Times, SubscriptionProofs!Times, Subscriptions!Versions,
             SubscriptionProofs!Versions, Subscriptions!Subscribable, SubscriptionProofs!Subscribable,
             Subscriptions!NoDiff, SubscriptionProofs!NoDiff, Subscriptions!NoPost, SubscriptionProofs!NoPost
    <3>2. Subscriptions!Days = SubscriptionProofs!Days
      BY <3>1 DEF Subscriptions!Days, SubscriptionProofs!Days, Subscriptions!Day, SubscriptionProofs!Day
    <3>3. Subscriptions!Event = SubscriptionProofs!Event
      BY <3>1 DEF Subscriptions!Event, SubscriptionProofs!Event
    <3>4. Subscriptions!Claim = SubscriptionProofs!Claim
      BY <3>1, <3>2, <3>3 DEF Subscriptions!Claim, SubscriptionProofs!Claim
    <3>5. SubscriptionProofs!DiffTypeOK => Subscriptions!DiffTypeOK
      BY <3>1 DEF Subscriptions!DiffTypeOK, SubscriptionProofs!DiffTypeOK
    <3>6. SubscriptionProofs!MailTypeOK => Subscriptions!MailTypeOK
      BY <3>1, <3>4 DEF Subscriptions!MailTypeOK, SubscriptionProofs!MailTypeOK
    <3> QED
      BY <3>1, <3>2, <3>3, <3>4, <3>5, <3>6 DEF Subscriptions!TypeOK, SubscriptionProofs!TypeOK
  <2>3. (DiffInv => Diff!TypeOK) /\ (TalkInv => Talk!TypeOK)
    BY DEF DiffInv, TalkInv
  <2> QED
    BY <2>1, <2>2, <2>3 DEF TypeOK, OfSubscriptions
<1> QED
  BY <1>1, <1>2, <1>3, <1>4, AlertsTyped, DiffInvariance, TalkInvariance, PTL

=============================================================================
