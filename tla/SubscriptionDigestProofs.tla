----------------------- MODULE SubscriptionDigestProofs -----------------------
(***************************************************************************)
(* Proofs about SubscriptionDigest, for every number of subscribers, CVEs, *)
(* days and overlapping runs.                                              *)
(***************************************************************************)
EXTENDS SubscriptionDigest, TLAPS

MailRecord == [step : {"idle", "plan", "send"}, now : Times, todo : SUBSET Users, jobs : SUBSET Claim]

\* The type invariant with the mail runs as records.
TypeInv ==
    /\ clock \in Times
    /\ world \in [Cves -> Versions]
    /\ DOMAIN subs \subseteq Subscribable /\ subs \in [DOMAIN subs -> Versions]
    /\ puts \subseteq Subscribable \X Versions
    /\ posts = NoPost \/ posts.events \subseteq Event
    /\ DiffTypeOK
    /\ mail \in [MailRuns -> MailRecord]
    /\ events \subseteq Event
    /\ claims \subseteq Claim
    /\ mails \in [Users \X Days -> Nat]
    /\ told \in [Subscribable -> Versions]

\* What is stored, and what a diff run has read of it, was told.
ToldInv ==
    /\ \A s \in DOMAIN subs : subs[s] <= told[s]
    /\ diff.step = "subs" => \A s \in DOMAIN diff.loaded : s \in Subscribable /\ diff.loaded[s] <= told[s]

\* A summary counts events of its user up to its own time, a user has one a
\* day, and of those of a user one is the last.
ClaimInv ==
    /\ \A k \in claims : \A e \in k.counted : e.user = k.user /\ e.at <= k.sent_at
    /\ \A j, k \in claims : j.user = k.user /\ j.sent_on = k.sent_on => j = k
    /\ \A k \in claims : \E l \in ClaimsOf(k.user) : \A j \in ClaimsOf(k.user) : j.sent_at <= l.sent_at

\* A run plans one mail per user, of this day, for events after every summary
\* of the user but one of this day, with which it cannot be committed.
PlanKnown(r) ==
    /\ mail[r] # NoMail => Day(mail[r].now) = Day(clock)
    /\ mail[r] # NoMail => \A j \in mail[r].jobs : j.sent_on = Day(clock)
    /\ \A j, k \in mail[r].jobs : j.user = k.user => j = k
    /\ mail[r].step = "plan" => \A j \in mail[r].jobs :
          /\ j.user \notin mail[r].todo
          /\ \A e \in j.counted : e.user = j.user /\ e.at <= j.sent_at
          /\ \A k \in ClaimsOf(j.user) : k.sent_on # j.sent_on => \A e \in j.counted : e.at > k.sent_at

PlanInv == \A r \in MailRuns : PlanKnown(r)

\* A mail still to send is claimed, by one run, and has not been sent.
Unsent(r) == mail[r].step = "send" => \A j \in mail[r].jobs : j \in claims /\ mails[<<j.user, j.sent_on>>] = 0

Apart(r, s) == mail[r].step = "send" /\ mail[s].step = "send" => mail[r].jobs \cap mail[s].jobs = {}

MailInv ==
    /\ \A r \in MailRuns : Unsent(r)
    /\ \A r, s \in MailRuns : r # s => Apart(r, s)
    /\ \A u \in Users, d \in Days : mails[<<u, d>>] <= 1 /\ (~ClaimedOn(u, d) => mails[<<u, d>>] = 0)

Inv == TypeInv /\ ToldInv /\ ClaimInv /\ PlanInv /\ MailInv /\ CountedOnce

-----------------------------------------------------------------------------
LEMMA DayType ==
    ASSUME ConstantsAssumption, NEW t \in Times
    PROVE  Day(t) \in Days
<1>1. /\ t \in Nat /\ MaxTime \in Nat /\ DayLength \in Nat \ {0} /\ t <= MaxTime
  BY DEF Times, ConstantsAssumption
<1>2. t \div DayLength \in Nat /\ MaxTime \div DayLength \in Nat
  BY <1>1
<1>3. t \div DayLength <= MaxTime \div DayLength
  BY <1>1
<1> QED
  BY <1>2, <1>3 DEF Day, Days

LEMMA NoMailType ==
    ASSUME ConstantsAssumption
    PROVE  NoMail \in MailRecord
  BY DEF NoMail, MailRecord, Times, ConstantsAssumption

LEMMA InitInv ==
    ASSUME ConstantsAssumption, Init
    PROVE  Inv
<1>1. TypeInv
  <2>1. mail \in [MailRuns -> MailRecord]
    BY NoMailType DEF Init
  <2>2. subs \in [DOMAIN subs -> Versions] /\ DOMAIN subs \subseteq Subscribable
    BY DEF Init
  <2>3. 0 \in Times /\ 0 \in Versions
    BY DEF Times, Versions, ConstantsAssumption
  <2> QED
    BY <2>1, <2>2, <2>3 DEF Init, TypeInv, DiffTypeOK
<1>2. ToldInv
  BY DEF Init, ToldInv, NoDiff
<1>3. ClaimInv /\ CountedOnce
  BY DEF Init, ClaimInv, CountedOnce
<1>4. PlanInv
  BY DEF Init, PlanInv, PlanKnown, NoMail
<1>5. MailInv
  <2>1. mail \in [MailRuns -> {NoMail}] /\ claims = {} /\ mails = [d \in Users \X Days |-> 0]
    BY DEF Init
  <2> QED
    BY <2>1 DEF MailInv, Unsent, Apart, NoMail
<1> QED
  BY <1>1, <1>2, <1>3, <1>4, <1>5 DEF Inv

-----------------------------------------------------------------------------
\* What the steps of a mail run do to its record: the others keep theirs.
LEMMA StartStep ==
    ASSUME TypeInv, NEW r \in MailRuns, MailStart(r)
    PROVE  /\ mail' \in [MailRuns -> MailRecord]
           /\ \A s \in MailRuns : s # r => mail'[s] = mail[s]
           /\ mail'[r].step = "plan" /\ mail'[r].now = clock /\ mail'[r].jobs = {}
<1>1. PICK recipients \in SUBSET Users :
        mail' = [mail EXCEPT ![r] = [step |-> "plan", now |-> clock, todo |-> recipients, jobs |-> {}]]
  BY DEF MailStart
<1>2. [step |-> "plan", now |-> clock, todo |-> recipients, jobs |-> {}] \in MailRecord
  BY DEF TypeInv, MailRecord
<1> QED
  BY <1>1, <1>2 DEF TypeInv

\* A user is passed over, or planned with what the window holds.
LEMMA PlanStep ==
    ASSUME ConstantsAssumption, TypeInv, NEW r \in MailRuns, NEW u \in Users, MailPlan(r, u)
    PROVE  /\ mail' \in [MailRuns -> MailRecord]
           /\ \A s \in MailRuns : s # r => mail'[s] = mail[s]
           /\ mail[r].step = "plan" /\ mail'[r].step = "plan" /\ mail'[r].now = mail[r].now
           /\ u \in mail[r].todo /\ mail'[r].todo = mail[r].todo \ {u}
           /\ \/ mail'[r].jobs = mail[r].jobs
              \/ mail'[r].jobs = mail[r].jobs \cup {Planned(r, u)}
<1>1. PICK jobs \in {{}} \cup {{Planned(r, u)}} :
        mail' = [mail EXCEPT ![r].todo = @ \ {u}, ![r].jobs = @ \cup jobs]
  BY DEF MailPlan
<1>2. mail[r] \in MailRecord /\ mail[r].step = "plan" /\ u \in mail[r].todo
  BY DEF TypeInv, MailPlan
<1>3. Planned(r, u) \in Claim
  <2>1. mail[r].now \in Times /\ Day(mail[r].now) \in Days
    BY <1>2, DayType DEF MailRecord
  <2>2. Window(u, mail[r].now) \subseteq Event
    BY DEF Window, TypeInv
  <2> QED
    BY <2>1, <2>2 DEF Planned, Claim
<1>4. jobs \subseteq Claim
  BY <1>3
<1> DEFINE rec == [mail[r] EXCEPT !.todo = mail[r].todo \ {u}, !.jobs = mail[r].jobs \cup jobs]
<1>5. /\ rec \in MailRecord /\ rec.step = "plan" /\ rec.now = mail[r].now
      /\ rec.todo = mail[r].todo \ {u} /\ rec.jobs = mail[r].jobs \cup jobs
  BY <1>2, <1>4 DEF MailRecord
<1>6. mail' = [mail EXCEPT ![r] = rec]
  BY <1>1, <1>2 DEF MailRecord
<1> HIDE DEF rec
<1>7. mail' \in [MailRuns -> MailRecord] /\ mail'[r] = rec /\ \A s \in MailRuns : s # r => mail'[s] = mail[s]
  BY <1>5, <1>6 DEF TypeInv
<1>8. mail'[r].jobs = mail[r].jobs \/ mail'[r].jobs = mail[r].jobs \cup {Planned(r, u)}
  BY <1>5, <1>7
<1> QED
  BY <1>2, <1>5, <1>7, <1>8

LEMMA CommitStep ==
    ASSUME TypeInv, NEW r \in MailRuns, MailCommit(r)
    PROVE  /\ mail' \in [MailRuns -> MailRecord]
           /\ \A s \in MailRuns : s # r => mail'[s] = mail[s]
           /\ mail[r].step = "plan" /\ mail'[r].step = "send" /\ mail'[r].jobs = mail[r].jobs
           /\ mail'[r].now = mail[r].now
           /\ claims' = claims \cup mail[r].jobs
           /\ \A j \in mail[r].jobs, k \in claims : j.user = k.user => k.sent_on # j.sent_on
           /\ UNCHANGED <<clock, events, mails>>
<1> DEFINE rec == [mail[r] EXCEPT !.step = "send"]
<1>1. rec \in MailRecord /\ rec.step = "send" /\ rec.jobs = mail[r].jobs /\ rec.now = mail[r].now
  BY DEF MailRecord, TypeInv
<1>2. mail' = [mail EXCEPT ![r] = rec]
  BY DEF MailCommit
<1> HIDE DEF rec
<1>3. \A j \in mail[r].jobs, k \in claims : j.user = k.user => k.sent_on # j.sent_on
  BY DEF MailCommit, ClaimsFree, ClaimedOn, ClaimsOf
<1>4. mail[r].step = "plan" /\ claims' = claims \cup mail[r].jobs /\ UNCHANGED <<clock, events, mails>>
  BY DEF MailCommit
<1> QED
  BY <1>1, <1>2, <1>3, <1>4 DEF TypeInv

LEMMA SendStep ==
    ASSUME TypeInv, NEW r \in MailRuns, NEW job \in mail[r].jobs, MailSend(r, job)
    PROVE  /\ mail' \in [MailRuns -> MailRecord]
           /\ \A s \in MailRuns : s # r => mail'[s] = mail[s]
           /\ mail[r].step = "send" /\ mail'[r].step = "send" /\ mail'[r].jobs = mail[r].jobs \ {job}
           /\ mail'[r].now = mail[r].now
           /\ job \in Claim /\ <<job.user, job.sent_on>> \in Users \X Days
<1> DEFINE rec == [mail[r] EXCEPT !.jobs = mail[r].jobs \ {job}]
<1>1. /\ rec \in MailRecord /\ rec.step = mail[r].step /\ rec.jobs = mail[r].jobs \ {job}
      /\ rec.now = mail[r].now
  BY DEF MailRecord, TypeInv
<1>2. mail' = [mail EXCEPT ![r] = rec] /\ mail[r].step = "send"
  BY DEF MailSend
<1>3. job \in Claim /\ <<job.user, job.sent_on>> \in Users \X Days
  BY DEF TypeInv, MailRecord, Claim
<1> HIDE DEF rec
<1> QED
  BY <1>1, <1>2, <1>3 DEF TypeInv

LEMMA StopStep ==
    ASSUME ConstantsAssumption, TypeInv, NEW r \in MailRuns, MailRefused(r) \/ MailEnd(r)
    PROVE  /\ mail' \in [MailRuns -> MailRecord]
           /\ \A s \in MailRuns : s # r => mail'[s] = mail[s]
           /\ mail'[r] = NoMail
           /\ UNCHANGED <<clock, world, subs, puts, posts, diff, events, claims, mails, told>>
<1>1. mail' = [mail EXCEPT ![r] = NoMail]
  BY DEF MailRefused, MailEnd
<1>2. UNCHANGED <<clock, world, subs, puts, posts, diff, events, claims, mails, told>>
  BY DEF MailRefused, MailEnd
<1> QED
  BY <1>1, <1>2, NoMailType DEF TypeInv

\* A run changes its own record only.
LEMMA OthersKeep ==
    ASSUME ConstantsAssumption, TypeInv, NEW r \in MailRuns, MailStep(r), NEW s \in MailRuns, s # r
    PROVE  mail'[s] = mail[s]
<1>1. CASE MailStart(r)
  BY <1>1, StartStep
<1>2. ASSUME NEW u \in Users, MailPlan(r, u)
      PROVE  mail'[s] = mail[s]
  BY <1>2, PlanStep
<1>3. CASE MailCommit(r)
  BY <1>3, CommitStep
<1>4. ASSUME NEW job \in mail[r].jobs, MailSend(r, job)
      PROVE  mail'[s] = mail[s]
  BY <1>4, SendStep
<1>5. CASE MailRefused(r) \/ MailEnd(r)
  BY <1>5, StopStep
<1> QED
  BY <1>1, <1>2, <1>3, <1>4, <1>5 DEF MailStep

-----------------------------------------------------------------------------
\* The run of the diff is one batch after the other; none of its steps touches
\* a claim or a mail.
DiffStep == (\E recipients \in SUBSET Users : DiffStart(recipients)) \/ (\E c \in Cves : DiffRows(c))
            \/ DiffSubs \/ DiffFails

LEMMA DiffTypes ==
    ASSUME TypeInv, DiffStep
    PROVE  DiffTypeOK' /\ UNCHANGED <<clock, world, subs, puts, posts, events, mail, claims, mails, told>>
<1>1. ASSUME NEW recipients \in SUBSET Users, DiffStart(recipients)
      PROVE  DiffTypeOK' /\ UNCHANGED <<clock, world, subs, puts, posts, events, mail, claims, mails, told>>
  BY <1>1 DEF DiffStart, DiffTypeOK, TypeInv, Subscribable
<1>2. ASSUME NEW c \in Cves, DiffRows(c)
      PROVE  DiffTypeOK' /\ UNCHANGED <<clock, world, subs, puts, posts, events, mail, claims, mails, told>>
  <2>1. diff # NoDiff
    BY <1>2 DEF DiffRows, NoDiff
  <2>2. diff.now \in Times /\ diff.recipients \subseteq Users /\ diff.todo \subseteq Cves
    BY <2>1 DEF TypeInv, DiffTypeOK
  <2>3. world[c] \in Versions
    BY DEF TypeInv
  <2>4. diff' = [step |-> "rows", now |-> diff.now, recipients |-> diff.recipients,
                 todo |-> diff.todo \ {c}, cve |-> c, fresh |-> world[c]]
    BY <1>2 DEF DiffRows
  <2>5. DiffTypeOK'
    BY <2>2, <2>3, <2>4 DEF DiffTypeOK
  <2> QED
    BY <1>2, <2>5 DEF DiffRows
<1>3. ASSUME DiffSubs
      PROVE  DiffTypeOK' /\ UNCHANGED <<clock, world, subs, puts, posts, events, mail, claims, mails, told>>
  <2>1. diff # NoDiff /\ diff.step = "rows"
    BY <1>3 DEF DiffSubs, NoDiff
  <2>2. /\ diff.now \in Times /\ diff.recipients \subseteq Users /\ diff.todo \subseteq Cves
        /\ diff.cve \in Cves /\ diff.fresh \in Versions
    BY <2>1 DEF TypeInv, DiffTypeOK
  <2> DEFINE loaded == {s \in DOMAIN subs : s[1] \in diff.recipients /\ s[2] = diff.cve}
             read == Restrict(subs, loaded)
  <2>3. read \in [DOMAIN read -> Versions]
    BY DEF TypeInv, Restrict
  <2> HIDE DEF read
  <2>4. diff' = [step |-> "subs", now |-> diff.now, recipients |-> diff.recipients,
                 todo |-> diff.todo, cve |-> diff.cve, fresh |-> diff.fresh, loaded |-> read]
    BY <1>3 DEF DiffSubs, read
  <2>5. DiffTypeOK'
    BY <2>2, <2>3, <2>4 DEF DiffTypeOK
  <2> QED
    BY <1>3, <2>5 DEF DiffSubs
<1>4. ASSUME DiffFails
      PROVE  DiffTypeOK' /\ UNCHANGED <<clock, world, subs, puts, posts, events, mail, claims, mails, told>>
  BY <1>4 DEF DiffFails, DiffTypeOK
<1> QED
  BY <1>1, <1>2, <1>3, <1>4 DEF DiffStep

\* What the diff is about to store and to tell is well typed.
LEMMA DiffFacts ==
    ASSUME TypeInv, diff.step = "subs"
    PROVE  /\ diff.now \in Times /\ diff.recipients \subseteq Users /\ diff.todo \subseteq Cves
           /\ diff.cve \in Cves /\ diff.fresh \in Versions
           /\ diff.loaded \in [DOMAIN diff.loaded -> Versions]
<1>1. diff # NoDiff
  BY DEF NoDiff
<1> QED
  BY <1>1 DEF TypeInv, DiffTypeOK

LEMMA LaterType ==
    ASSUME ConstantsAssumption, NEW v \in Versions, NEW w \in Versions
    PROVE  Later(v, w) \in Versions /\ v <= Later(v, w) /\ w <= Later(v, w)
  BY DEF Later, Versions, ConstantsAssumption

LEMMA NextType ==
    ASSUME ConstantsAssumption, TypeInv, ToldInv, [Next]_vars
    PROVE  TypeInv'
<1>1. CASE Tick
  BY <1>1 DEF Tick, TypeInv, DiffTypeOK, Times, ConstantsAssumption
<1>2. ASSUME NEW c \in Cves, ScanChanges(c)
      PROVE  TypeInv'
  <2>1. world' \in [Cves -> Versions]
    BY <1>2 DEF ScanChanges, TypeInv, Versions, ConstantsAssumption
  <2> QED
    BY <1>2, <2>1 DEF ScanChanges, TypeInv, DiffTypeOK
<1>3. ASSUME NEW u \in Users, NEW c \in Cves, SubscribeLoad(u, c)
      PROVE  TypeInv'
  <2>1. puts' \subseteq Subscribable \X Versions
    BY <1>3 DEF SubscribeLoad, TypeInv, Subscribable
  <2> QED
    BY <1>3, <2>1 DEF SubscribeLoad, TypeInv, DiffTypeOK
<1>4. ASSUME NEW p \in puts, SubscribeCommit(p)
      PROVE  TypeInv'
  <2>1. p[1] \in Subscribable /\ p[2] \in Versions
    BY DEF TypeInv
  <2>2. DOMAIN subs' \subseteq Subscribable /\ subs' \in [DOMAIN subs' -> Versions]
    BY <1>4, <2>1 DEF SubscribeCommit, TypeInv
  <2>3. told' \in [Subscribable -> Versions]
    <3>1. Later(told[p[1]], p[2]) \in Versions
      BY <2>1, LaterType DEF TypeInv
    <3> QED
      BY <1>4, <2>1, <3>1 DEF SubscribeCommit, TypeInv
  <2> QED
    BY <1>4, <2>2, <2>3 DEF SubscribeCommit, TypeInv, DiffTypeOK
<1>5. ASSUME NEW s \in DOMAIN subs, Unsubscribe(s)
      PROVE  TypeInv'
  <2>1. DOMAIN subs' \subseteq Subscribable /\ subs' \in [DOMAIN subs' -> Versions]
    BY <1>5 DEF Unsubscribe, Restrict, TypeInv
  <2> QED
    BY <1>5, <2>1 DEF Unsubscribe, TypeInv, DiffTypeOK
<1>6. ASSUME NEW c \in Cves, Broadcast(c)
      PROVE  TypeInv'
  <2>1. PICK exclude \in SUBSET Users :
          posts' = [open |-> TRUE,
                    events |-> {[user |-> u, cve |-> c, version |-> App, at |-> clock]
                                    : u \in {v \in Users \ exclude : <<v, c>> \in DOMAIN subs}}]
    BY <1>6 DEF Broadcast
  <2> DEFINE heard == {v \in Users \ exclude : <<v, c>> \in DOMAIN subs}
             new == {[user |-> u, cve |-> c, version |-> App, at |-> clock] : u \in heard}
  <2>2. posts'.events \subseteq Event
    <3>1. \A u \in heard : [user |-> u, cve |-> c, version |-> App, at |-> clock] \in Event
      BY DEF Event, TypeInv
    <3>2. new \subseteq Event
      BY <3>1
    <3>3. posts' = [open |-> TRUE, events |-> new]
      BY <2>1
    <3> HIDE DEF new
    <3> QED
      BY <3>2, <3>3
  <2> QED
    BY <1>6, <2>2 DEF Broadcast, TypeInv, DiffTypeOK
<1>7. CASE BroadcastCommit
  <2>1. posts.events \subseteq Event
    BY <1>7 DEF BroadcastCommit, NoPost, TypeInv
  <2> QED
    BY <1>7, <2>1 DEF BroadcastCommit, TypeInv, DiffTypeOK
<1>8. CASE DiffStep
  BY <1>8, DiffTypes DEF TypeInv
<1>9. CASE DiffCommit
  <2>1. /\ diff.step = "subs" /\ diff.fresh \in Versions /\ diff.now \in Times
        /\ diff.recipients \subseteq Users /\ diff.todo \subseteq Cves
    BY <1>9, DiffFacts DEF DiffCommit
  <2>2. DOMAIN subs' \subseteq Subscribable /\ subs' \in [DOMAIN subs' -> Versions]
    BY <1>9, <2>1 DEF DiffCommit, TypeInv
  <2>3. told' \in [Subscribable -> Versions]
    BY <1>9, <2>1, LaterType DEF DiffCommit, TypeInv
  <2>4. Flushed \subseteq Event
    <3>1. Changed \subseteq Users \X Cves
      BY <2>1 DEF Changed, ToldInv, Subscribable
    <3> QED
      BY <2>1, <3>1 DEF Flushed, Event
  <2>5. DiffTypeOK'
    <3>1. diff' = NoDiff \/ diff' = [step |-> "next", now |-> diff.now, recipients |-> diff.recipients,
                                     todo |-> diff.todo]
      BY <1>9 DEF DiffCommit, DiffNext
    <3> QED
      BY <2>1, <3>1 DEF DiffTypeOK
  <2>6. events' \subseteq Event
    BY <1>9, <2>4 DEF DiffCommit, TypeInv
  <2> QED
    BY <1>9, <2>2, <2>3, <2>5, <2>6 DEF DiffCommit, TypeInv
<1>10. ASSUME NEW r \in MailRuns, MailStart(r) \/ \E u \in Users : MailPlan(r, u)
       PROVE  TypeInv'
  <2>1. mail' \in [MailRuns -> MailRecord]
    BY <1>10, StartStep, PlanStep
  <2>2. UNCHANGED <<clock, world, subs, puts, posts, diff, events, claims, mails, told>>
    BY <1>10 DEF MailStart, MailPlan
  <2> QED
    BY <2>1, <2>2 DEF TypeInv, DiffTypeOK
<1>11. ASSUME NEW r \in MailRuns, MailCommit(r)
       PROVE  TypeInv'
  <2>1. mail' \in [MailRuns -> MailRecord]
    BY <1>11, CommitStep
  <2>2. mail[r].jobs \subseteq Claim
    BY DEF TypeInv, MailRecord
  <2> QED
    BY <1>11, <2>1, <2>2 DEF MailCommit, TypeInv, DiffTypeOK
<1>12. ASSUME NEW r \in MailRuns, NEW job \in mail[r].jobs, MailSend(r, job)
       PROVE  TypeInv'
  <2>1. mail' \in [MailRuns -> MailRecord] /\ <<job.user, job.sent_on>> \in Users \X Days
    BY <1>12, SendStep
  <2>2. mails' \in [Users \X Days -> Nat]
    BY <1>12, <2>1 DEF MailSend, TypeInv
  <2> QED
    BY <1>12, <2>1, <2>2 DEF MailSend, TypeInv, DiffTypeOK
<1>13. ASSUME NEW r \in MailRuns, MailRefused(r) \/ MailEnd(r)
       PROVE  TypeInv'
  BY <1>13, StopStep DEF TypeInv, DiffTypeOK
<1>14. CASE UNCHANGED vars
  BY <1>14 DEF vars, TypeInv, DiffTypeOK
<1> QED
  BY <1>1, <1>2, <1>3, <1>4, <1>5, <1>6, <1>7, <1>8, <1>9, <1>10, <1>11, <1>12, <1>13, <1>14
  DEF Next, Requests, Surroundings, MailStep, DiffStep

\* What is told stays told; what is stored is what was told or was there when
\* the user subscribed.
LEMMA NextTold ==
    ASSUME ConstantsAssumption, TypeInv, ToldInv, [Next]_vars
    PROVE  ToldInv'
<1>1. CASE UNCHANGED <<subs, told, diff>>
  BY <1>1 DEF ToldInv
<1>2. ASSUME NEW p \in puts, SubscribeCommit(p)
      PROVE  ToldInv'
  <2>1. p[1] \in Subscribable /\ p[2] \in Versions /\ diff' = diff
    BY <1>2 DEF TypeInv, SubscribeCommit
  <2>2. CASE p[1] \in DOMAIN subs
    BY <1>2, <2>1, <2>2 DEF SubscribeCommit, ToldInv
  <2>3. CASE p[1] \notin DOMAIN subs
    <3>1. /\ subs' = [s \in DOMAIN subs \cup {p[1]} |-> IF s = p[1] THEN p[2] ELSE subs[s]]
          /\ told' = [told EXCEPT ![p[1]] = Later(@, p[2])]
      BY <1>2, <2>3 DEF SubscribeCommit
    <3>2. told[p[1]] <= told'[p[1]] /\ p[2] <= told'[p[1]]
      BY <2>1, <3>1, LaterType DEF TypeInv
    <3>3. \A s \in Subscribable : told[s] \in Nat /\ told'[s] \in Nat /\ told[s] <= told'[s]
      <4>1. \A v \in Versions : v \in Nat
        BY DEF Versions
      <4>2. \A s \in Subscribable : told[s] \in Versions /\ told'[s] \in Versions
        BY <2>1, <3>1, LaterType DEF TypeInv
      <4> QED
        BY <3>1, <3>2, <4>1, <4>2 DEF TypeInv
    <3>4. \A s \in DOMAIN subs' : subs'[s] <= told'[s]
      <4>1. \A s \in DOMAIN subs : s \in Subscribable /\ subs[s] \in Nat /\ subs[s] <= told[s]
        BY DEF TypeInv, ToldInv, Versions
      <4> QED
        BY <3>1, <3>2, <3>3, <4>1
    <3>5. diff.step = "subs" =>
            \A s \in DOMAIN diff.loaded : s \in Subscribable /\ diff.loaded[s] <= told'[s]
      <4>1. SUFFICES ASSUME diff.step = "subs", NEW s \in DOMAIN diff.loaded
                     PROVE  s \in Subscribable /\ diff.loaded[s] <= told'[s]
        OBVIOUS
      <4>2. s \in Subscribable /\ diff.loaded[s] <= told[s] /\ diff.loaded[s] \in Nat
        BY <4>1, DiffFacts DEF ToldInv, Versions
      <4> QED
        BY <3>3, <4>2
    <3> QED
      BY <2>1, <3>4, <3>5 DEF ToldInv
  <2> QED
    BY <2>2, <2>3
<1>3. ASSUME NEW s \in DOMAIN subs, Unsubscribe(s)
      PROVE  ToldInv'
  BY <1>3 DEF Unsubscribe, Restrict, ToldInv
<1>4. ASSUME DiffStep
      PROVE  ToldInv'
  <2>1. UNCHANGED <<subs, told>>
    BY <1>4, DiffTypes
  <2>2. CASE DiffSubs
    <3> DEFINE loaded == {s \in DOMAIN subs : s[1] \in diff.recipients /\ s[2] = diff.cve}
    <3>1. diff'.loaded = Restrict(subs, loaded)
      BY <2>2 DEF DiffSubs
    <3>2. DOMAIN diff'.loaded \subseteq DOMAIN subs /\ \A s \in DOMAIN diff'.loaded : diff'.loaded[s] = subs[s]
      BY <3>1 DEF Restrict
    <3> QED
      BY <2>1, <3>2 DEF ToldInv, TypeInv
  <2>3. CASE ~DiffSubs
    <3>1. diff'.step # "subs"
      BY <1>4, <2>3 DEF DiffStep, DiffStart, DiffRows, DiffFails, NoDiff
    <3> QED
      BY <2>1, <3>1 DEF ToldInv
  <2> QED
    BY <2>2, <2>3
<1>5. CASE DiffCommit
  <2>1. /\ diff.step = "subs" /\ diff.fresh \in Versions
        /\ diff.loaded \in [DOMAIN diff.loaded -> Versions]
    BY <1>5, DiffFacts DEF DiffCommit
  <2>2. diff'.step # "subs"
    BY <1>5 DEF DiffCommit, DiffNext, NoDiff
  <2>3. ASSUME NEW s \in DOMAIN subs'
        PROVE  subs'[s] <= told'[s]
    <3>1. /\ s \in DOMAIN subs /\ s \in Subscribable /\ subs[s] \in Versions /\ told[s] \in Versions
          /\ subs[s] <= told[s]
      BY <1>5 DEF DiffCommit, TypeInv, ToldInv
    <3>2. /\ subs'[s] = IF s \in DOMAIN diff.loaded THEN diff.fresh ELSE subs[s]
          /\ told'[s] = IF s \in Changed THEN Later(told[s], diff.fresh) ELSE told[s]
      BY <1>5, <3>1 DEF DiffCommit, Stores
    <3>3. CASE s \in Changed
      BY <2>1, <3>1, <3>2, <3>3, LaterType DEF Changed
    <3>4. CASE s \in DOMAIN diff.loaded /\ s \notin Changed
      <4>1. diff.loaded[s] = diff.fresh /\ diff.loaded[s] <= told[s]
        BY <2>1, <3>4 DEF Changed, ToldInv
      <4> QED
        BY <3>2, <3>4, <4>1
    <3>5. CASE s \notin DOMAIN diff.loaded
      BY <3>1, <3>2, <3>5 DEF Changed
    <3> QED
      BY <3>3, <3>4, <3>5
  <2> QED
    BY <2>2, <2>3 DEF ToldInv
<1> QED
  BY <1>1, <1>2, <1>3, <1>4, <1>5
  DEF Next, Requests, Surroundings, Tick, ScanChanges, SubscribeLoad, Broadcast, BroadcastCommit,
      MailStep, MailStart, MailPlan, MailCommit, MailRefused, MailSend, MailEnd, DiffStep, vars

-----------------------------------------------------------------------------
\* What the next summary of a user counts is later than every earlier one.
LEMMA CursorAfterClaims ==
    ASSUME TypeInv, ClaimInv, NEW u, NEW now, NEW k \in ClaimsOf(u)
    PROVE  Cursor(u, now) \in Times /\ k.sent_at <= Cursor(u, now)
<1> DEFINE last(t) == /\ \E j \in ClaimsOf(u) : j.sent_at = t
                      /\ \A j \in ClaimsOf(u) : j.sent_at <= t
<1>1. k \in claims /\ k.user = u
  BY DEF ClaimsOf
<1>2. PICK l \in ClaimsOf(u) : \A j \in ClaimsOf(u) : j.sent_at <= l.sent_at
  BY <1>1 DEF ClaimInv
<1>3. l.sent_at \in Times /\ last(l.sent_at)
  BY <1>2 DEF TypeInv, Claim, ClaimsOf
<1>4. Cursor(u, now) = CHOOSE t \in Times : last(t)
  BY DEF Cursor
<1>5. Cursor(u, now) \in Times /\ last(Cursor(u, now))
  <2> HIDE DEF last
  <2> QED
    BY <1>3, <1>4
<1> QED
  BY <1>5

LEMMA PlannedKnown ==
    ASSUME TypeInv, ClaimInv, PlanInv, NEW r \in MailRuns, NEW u \in Users, mail[r].step = "plan"
    PROVE  /\ Planned(r, u).user = u /\ Planned(r, u).sent_on = Day(clock)
           /\ \A e \in Planned(r, u).counted :
                 /\ e.user = u /\ e.at <= Planned(r, u).sent_at
                 /\ \A k \in ClaimsOf(u) : e.at > k.sent_at
<1>1. mail[r] # NoMail
  BY DEF NoMail
<1>2. Day(mail[r].now) = Day(clock)
  BY <1>1 DEF PlanInv, PlanKnown
<1>3. ASSUME NEW e \in Window(u, mail[r].now), NEW k \in ClaimsOf(u)
      PROVE  e.at > k.sent_at
  <2>1. Cursor(u, mail[r].now) \in Times /\ k.sent_at <= Cursor(u, mail[r].now)
    BY CursorAfterClaims
  <2>2. e.at \in Times /\ k.sent_at \in Times /\ e.at > Cursor(u, mail[r].now)
    BY DEF Window, TypeInv, Event, Claim, ClaimsOf
  <2> QED
    BY <2>1, <2>2 DEF Times
<1>4. \A e \in Window(u, mail[r].now) : e.user = u /\ e.at <= mail[r].now
  BY DEF Window
<1> QED
  BY <1>2, <1>3, <1>4 DEF Planned

\* A mail that is committed is for the day it has, and counts nothing that an
\* earlier summary may have counted.
LEMMA CommittedKnown ==
    ASSUME TypeInv, PlanInv, NEW r \in MailRuns, MailCommit(r), NEW j \in mail[r].jobs
    PROVE  /\ j \in Claim /\ j.sent_on = Day(clock)
           /\ \A i \in mail[r].jobs : i.user = j.user => i = j
           /\ \A e \in j.counted : e.user = j.user /\ e.at <= j.sent_at
           /\ \A k \in ClaimsOf(j.user) : k.sent_on # j.sent_on /\ \A e \in j.counted : e.at > k.sent_at
<1>1. mail[r].step = "plan" /\ mail[r] # NoMail
  BY DEF MailCommit, NoMail
<1>2. j \in Claim
  BY DEF TypeInv, MailRecord
<1>3. \A k \in ClaimsOf(j.user) : k.sent_on # j.sent_on
  BY CommitStep DEF ClaimsOf
<1> QED
  BY <1>1, <1>2, <1>3 DEF PlanInv, PlanKnown

LEMMA NextClaims ==
    ASSUME TypeInv, ClaimInv, PlanInv, CountedOnce, [Next]_vars
    PROVE  ClaimInv' /\ CountedOnce'
<1>1. CASE UNCHANGED claims
  BY <1>1 DEF ClaimInv, CountedOnce, ClaimsOf
<1>2. ASSUME NEW r \in MailRuns, MailCommit(r)
      PROVE  ClaimInv' /\ CountedOnce'
  <2>1. claims' = claims \cup mail[r].jobs
    BY <1>2, CommitStep
  <2>2. \A j \in mail[r].jobs :
           /\ j \in Claim /\ j.sent_on = Day(clock)
           /\ \A i \in mail[r].jobs : i.user = j.user => i = j
           /\ \A e \in j.counted : e.user = j.user /\ e.at <= j.sent_at
           /\ \A k \in claims : k.user = j.user =>
                 k.sent_on # j.sent_on /\ \A e \in j.counted : e.at > k.sent_at
    BY <1>2, CommittedKnown DEF ClaimsOf
  <2>3. \A k \in claims : k \in Claim /\ \A e \in k.counted : e.user = k.user /\ e.at <= k.sent_at
    BY DEF TypeInv, ClaimInv
  <2>4. \A k \in claims' : \A e \in k.counted : e.user = k.user /\ e.at <= k.sent_at
    BY <2>1, <2>2, <2>3
  <2>5. \A j, k \in claims' : j.user = k.user /\ j.sent_on = k.sent_on => j = k
    BY <2>1, <2>2 DEF ClaimInv
  <2>6. ASSUME NEW k \in claims'
        PROVE  \E l \in claims' : l.user = k.user /\ \A i \in claims' : i.user = k.user => i.sent_at <= l.sent_at
    <3>1. CASE \A j \in mail[r].jobs : j.user # k.user
      <4>1. PICK l \in ClaimsOf(k.user) : \A i \in ClaimsOf(k.user) : i.sent_at <= l.sent_at
        BY <2>1, <3>1 DEF ClaimInv
      <4> QED
        BY <2>1, <3>1, <4>1 DEF ClaimsOf
    <3>2. ASSUME NEW j \in mail[r].jobs, j.user = k.user
          PROVE  \E l \in claims' : l.user = k.user /\ \A i \in claims' : i.user = k.user => i.sent_at <= l.sent_at
      <4>1. \A i \in claims' : i.user = k.user => i \in claims \/ i = j
        BY <2>1, <2>2, <3>2
      <4>2. j.sent_at \in Nat /\ \A i \in claims : i.sent_at \in Nat
        BY <2>2, <2>3 DEF Claim, Times
      <4>3. CASE \A i \in claims : i.user # k.user
        BY <2>1, <3>2, <4>1, <4>2, <4>3
      <4>4. ASSUME NEW i \in claims, i.user = k.user
            PROVE  \E l \in claims' : l.user = k.user /\ \A h \in claims' : h.user = k.user => h.sent_at <= l.sent_at
        <5>1. PICK l \in claims : l.user = k.user /\ \A h \in claims : h.user = k.user => h.sent_at <= l.sent_at
          BY <4>4 DEF ClaimInv, ClaimsOf
        <5>2. CASE j.sent_at <= l.sent_at
          BY <2>1, <4>1, <5>1, <5>2
        <5>3. CASE ~(j.sent_at <= l.sent_at)
          <6>1. \A h \in claims' : h.user = k.user => h.sent_at <= j.sent_at
            BY <4>1, <4>2, <5>1, <5>3
          <6> QED
            BY <2>1, <3>2, <6>1
        <5> QED
          BY <5>2, <5>3
      <4> QED
        BY <4>3, <4>4
    <3> QED
      BY <3>1, <3>2
  <2>7. ASSUME NEW j \in mail[r].jobs, NEW k \in claims, j.user = k.user
        PROVE  j.counted \cap k.counted = {}
    <3> SUFFICES ASSUME NEW e \in j.counted \cap k.counted
                 PROVE  FALSE
      OBVIOUS
    <3>1. e.at > k.sent_at /\ e.at <= k.sent_at
      BY <2>2, <2>3, <2>7
    <3>2. e \in Event /\ k.sent_at \in Times
      BY <2>3 DEF Claim
    <3> QED
      BY <3>1, <3>2 DEF Event, Times
  <2>8. CountedOnce'
    BY <2>1, <2>2, <2>7 DEF CountedOnce
  <2> QED
    BY <2>4, <2>5, <2>6, <2>8 DEF ClaimInv, ClaimsOf
<1> QED
  BY <1>1, <1>2
  DEF Next, Requests, Surroundings, Tick, ScanChanges, SubscribeLoad, SubscribeCommit, Unsubscribe,
      Broadcast, BroadcastCommit, DiffStart, DiffRows, DiffSubs, DiffCommit, DiffFails,
      MailStep, MailStart, MailPlan, MailRefused, MailSend, MailEnd, vars

LEMMA NextPlans ==
    ASSUME ConstantsAssumption, TypeInv, ClaimInv, PlanInv, [Next]_vars, NEW s \in MailRuns
    PROVE  PlanKnown(s)'
<1>0. PlanKnown(s)
  BY DEF PlanInv
<1>1. CASE UNCHANGED <<clock, claims, mail>>
  BY <1>0, <1>1 DEF PlanKnown, ClaimsOf
<1>2. CASE Tick
  <2>1. UNCHANGED <<claims, mail>> /\ clock' = clock + 1
    BY <1>2 DEF Tick
  <2>2. mail[s] # NoMail => Day(clock') = Day(clock)
    BY <1>2, <2>1 DEF Tick, MailOpen
  <2>3. mail[s] = NoMail => mail[s].jobs = {}
    BY DEF NoMail
  <2> QED
    BY <1>0, <2>1, <2>2, <2>3 DEF PlanKnown, ClaimsOf
<1>3. CASE MailStart(s)
  <2>1. UNCHANGED <<clock, claims>>
    BY <1>3 DEF MailStart
  <2> QED
    BY <1>3, <2>1, StartStep DEF PlanKnown
<1>4. ASSUME NEW u \in Users, MailPlan(s, u)
      PROVE  PlanKnown(s)'
  <2>1. UNCHANGED <<clock, claims>>
    BY <1>4 DEF MailPlan
  <2>2. /\ mail[s].step = "plan" /\ mail'[s].step = "plan" /\ mail'[s].now = mail[s].now
        /\ u \in mail[s].todo /\ mail'[s].todo = mail[s].todo \ {u}
        /\ \/ mail'[s].jobs = mail[s].jobs
           \/ mail'[s].jobs = mail[s].jobs \cup {Planned(s, u)}
    BY <1>4, PlanStep
  <2>3. /\ Planned(s, u).user = u /\ Planned(s, u).sent_on = Day(clock)
        /\ \A e \in Planned(s, u).counted :
              /\ e.user = u /\ e.at <= Planned(s, u).sent_at
              /\ \A k \in ClaimsOf(u) : e.at > k.sent_at
    BY <2>2, PlannedKnown
  <2>4. mail[s] # NoMail
    BY <2>2 DEF NoMail
  <2>5. /\ Day(mail[s].now) = Day(clock)
        /\ \A j \in mail[s].jobs : j.sent_on = Day(clock)
        /\ \A j, k \in mail[s].jobs : j.user = k.user => j = k
        /\ \A j \in mail[s].jobs :
              /\ j.user \notin mail[s].todo
              /\ \A e \in j.counted : e.user = j.user /\ e.at <= j.sent_at
              /\ \A k \in ClaimsOf(j.user) : k.sent_on # j.sent_on => \A e \in j.counted : e.at > k.sent_at
    BY <1>0, <2>2, <2>4 DEF PlanKnown
  <2>6. CASE mail'[s].jobs = mail[s].jobs
    BY <2>1, <2>2, <2>5, <2>6 DEF PlanKnown, ClaimsOf
  <2>7. CASE mail'[s].jobs = mail[s].jobs \cup {Planned(s, u)}
    <3> DEFINE p == Planned(s, u)
    <3>1. \A j \in mail[s].jobs : j.user # u
      BY <2>2, <2>5
    <3> HIDE DEF p
    <3>2. /\ p.user = u /\ p.sent_on = Day(clock)
          /\ \A e \in p.counted : /\ e.user = u /\ e.at <= p.sent_at
                                  /\ \A k \in ClaimsOf(u) : e.at > k.sent_at
      BY <2>3 DEF p
    <3>3. mail'[s].jobs = mail[s].jobs \cup {p}
      BY <2>7 DEF p
    <3>4. \A j, k \in mail'[s].jobs : j.user = k.user => j = k
      BY <2>5, <3>1, <3>2, <3>3
    <3>5. \A j \in mail'[s].jobs :
             /\ j.user \notin mail'[s].todo /\ j.sent_on = Day(clock)
             /\ \A e \in j.counted : e.user = j.user /\ e.at <= j.sent_at
             /\ \A k \in ClaimsOf(j.user) : k.sent_on # j.sent_on => \A e \in j.counted : e.at > k.sent_at
      BY <2>2, <2>5, <3>2, <3>3
    <3> QED
      BY <2>1, <2>2, <2>5, <3>4, <3>5 DEF PlanKnown, ClaimsOf
  <2> QED
    BY <2>2, <2>6, <2>7
<1>5. CASE MailCommit(s)
  <2>1. mail[s] # NoMail
    BY <1>5 DEF MailCommit, NoMail
  <2>2. /\ mail'[s].step = "send" /\ mail'[s].jobs = mail[s].jobs /\ mail'[s].now = mail[s].now
        /\ clock' = clock
    BY <1>5, CommitStep
  <2> QED
    BY <1>0, <2>1, <2>2 DEF PlanKnown
<1>6. ASSUME NEW job \in mail[s].jobs, MailSend(s, job)
      PROVE  PlanKnown(s)'
  <2>1. mail[s] # NoMail /\ clock' = clock
    BY <1>6 DEF MailSend, NoMail
  <2> QED
    BY <1>0, <1>6, <2>1, SendStep DEF PlanKnown
<1>7. CASE MailRefused(s) \/ MailEnd(s)
  BY <1>7, StopStep DEF PlanKnown, NoMail
<1>8. ASSUME NEW r \in MailRuns, r # s, MailStep(r)
      PROVE  PlanKnown(s)'
  <2>1. mail'[s] = mail[s]
    BY <1>8, OthersKeep
  <2>2. clock' = clock
    BY <1>8 DEF MailStep, MailStart, MailPlan, MailCommit, MailRefused, MailSend, MailEnd
  <2>3. CASE claims' = claims
    BY <1>0, <2>1, <2>2, <2>3 DEF PlanKnown, ClaimsOf
  <2>4. CASE MailCommit(r)
    <3>1. claims' = claims \cup mail[r].jobs /\ \A k \in mail[r].jobs : k.sent_on = Day(clock)
      BY <2>4, CommitStep, CommittedKnown
    <3>2. mail[s].step = "plan" => \A j \in mail[s].jobs : j.sent_on = Day(clock)
      BY <1>0 DEF PlanKnown, NoMail
    <3>3. mail[s].step = "plan" => \A j \in mail[s].jobs :
             \A k \in claims' : k.user = j.user /\ k.sent_on # j.sent_on => \A e \in j.counted : e.at > k.sent_at
      BY <1>0, <3>1, <3>2 DEF PlanKnown, ClaimsOf
    <3> QED
      BY <1>0, <2>1, <2>2, <3>3 DEF PlanKnown, ClaimsOf
  <2> QED
    BY <1>8, <2>3, <2>4 DEF MailStep, MailStart, MailPlan, MailRefused, MailSend, MailEnd
<1> QED
  BY <1>1, <1>2, <1>3, <1>4, <1>5, <1>6, <1>7, <1>8
  DEF Next, Requests, Surroundings, ScanChanges, SubscribeLoad, SubscribeCommit, Unsubscribe,
      Broadcast, BroadcastCommit, DiffStart, DiffRows, DiffSubs, DiffCommit, DiffFails, MailStep, vars

LEMMA NextMails ==
    ASSUME TypeInv, ClaimInv, PlanInv, MailInv, ConstantsAssumption, [Next]_vars
    PROVE  MailInv'
<1>0. /\ \A r \in MailRuns : Unsent(r)
      /\ \A r, s \in MailRuns : r # s => Apart(r, s)
      /\ \A u \in Users, d \in Days : mails[<<u, d>>] <= 1 /\ (~ClaimedOn(u, d) => mails[<<u, d>>] = 0)
  BY DEF MailInv
<1>1. ASSUME UNCHANGED <<claims, mails>>, NEW r \in MailRuns, mail'[r].step # "send",
             \A s \in MailRuns : s # r => mail'[s] = mail[s]
      PROVE  MailInv'
  BY <1>0, <1>1 DEF MailInv, Unsent, Apart, ClaimedOn, ClaimsOf
<1>2. CASE UNCHANGED <<mail, claims, mails>>
  BY <1>0, <1>2 DEF MailInv, Unsent, Apart, ClaimedOn, ClaimsOf
<1>3. ASSUME NEW r \in MailRuns, MailStart(r) \/ \E u \in Users : MailPlan(r, u)
      PROVE  /\ mail'[r].step # "send" /\ \A s \in MailRuns : s # r => mail'[s] = mail[s]
             /\ UNCHANGED <<claims, mails>>
  <2>1. mail'[r].step # "send" /\ \A s \in MailRuns : s # r => mail'[s] = mail[s]
    BY <1>3, StartStep, PlanStep
  <2>2. UNCHANGED <<claims, mails>>
    BY <1>3 DEF MailStart, MailPlan
  <2> QED
    BY <2>1, <2>2
<1>4. ASSUME NEW r \in MailRuns, MailRefused(r) \/ MailEnd(r)
      PROVE  /\ mail'[r].step # "send" /\ \A s \in MailRuns : s # r => mail'[s] = mail[s]
             /\ UNCHANGED <<claims, mails>>
  BY <1>4, StopStep DEF NoMail
<1>5. ASSUME NEW r \in MailRuns, MailCommit(r)
      PROVE  MailInv'
  <2>1. /\ mail'[r].jobs = mail[r].jobs /\ \A s \in MailRuns : s # r => mail'[s] = mail[s]
        /\ claims' = claims \cup mail[r].jobs /\ mails' = mails
        /\ \A j \in mail[r].jobs, k \in claims : j.user = k.user => k.sent_on # j.sent_on
    BY <1>5, CommitStep
  <2>2. \A j \in mail[r].jobs : j.user \in Users /\ j.sent_on \in Days /\ ~ClaimedOn(j.user, j.sent_on)
    BY <2>1 DEF TypeInv, MailRecord, Claim, ClaimedOn, ClaimsOf
  <2>3. \A s \in MailRuns : Unsent(s)'
    BY <1>0, <2>1, <2>2 DEF Unsent
  <2>4. \A s, t \in MailRuns : s # t => Apart(s, t)'
    <3>1. \A s \in MailRuns : mail[s].step = "send" => mail[r].jobs \cap mail[s].jobs = {}
      BY <1>0, <2>1 DEF Unsent
    <3>2. ASSUME NEW s \in MailRuns, NEW t \in MailRuns, s # t, s # r, t # r
          PROVE  Apart(s, t)'
      BY <1>0, <2>1, <3>2 DEF Apart
    <3>3. ASSUME NEW s \in MailRuns, s # r
          PROVE  Apart(s, r)' /\ Apart(r, s)'
      BY <2>1, <3>1, <3>3 DEF Apart
    <3> QED
      BY <3>2, <3>3
  <2>5. \A u \in Users, d \in Days : mails'[<<u, d>>] <= 1 /\ (~ClaimedOn(u, d)' => mails'[<<u, d>>] = 0)
    BY <1>0, <2>1 DEF ClaimedOn, ClaimsOf
  <2> QED
    BY <2>3, <2>4, <2>5 DEF MailInv
<1>6. ASSUME NEW r \in MailRuns, NEW job \in mail[r].jobs, MailSend(r, job)
      PROVE  MailInv'
  <2> DEFINE d0 == <<job.user, job.sent_on>>
  <2>1. /\ mail[r].step = "send" /\ mail'[r].step = "send" /\ mail'[r].jobs = mail[r].jobs \ {job}
        /\ \A s \in MailRuns : s # r => mail'[s] = mail[s]
        /\ job \in Claim /\ d0 \in Users \X Days
    BY <1>6, SendStep
  <2>2. claims' = claims /\ mails' \in {mails, [mails EXCEPT ![d0] = @ + 1]}
    BY <1>6 DEF MailSend
  <2>3. job \in claims /\ mails[d0] = 0
    BY <1>0, <2>1 DEF Unsent
  <2>4. \A s \in MailRuns : mail'[s].step = "send" => job \notin mail'[s].jobs
    BY <1>0, <2>1 DEF Apart
  <2>5. mails \in [Users \X Days -> Nat]
    BY DEF TypeInv
  <2> HIDE DEF d0
  <2>6. mails'[d0] <= 1 /\ \A d \in Users \X Days : d # d0 => mails'[d] = mails[d]
    BY <2>1, <2>2, <2>3, <2>5
  <2>7. ASSUME NEW u \in Users, NEW d \in Days
        PROVE  mails'[<<u, d>>] <= 1 /\ (~ClaimedOn(u, d)' => mails'[<<u, d>>] = 0)
    <3>1. CASE <<u, d>> = d0
      <4>1. ClaimedOn(u, d)'
        BY <2>2, <2>3, <3>1 DEF ClaimedOn, ClaimsOf, d0
      <4> QED
        BY <2>6, <3>1, <4>1
    <3>2. CASE <<u, d>> # d0
      BY <1>0, <2>2, <2>6, <3>2 DEF ClaimedOn, ClaimsOf
    <3> QED
      BY <3>1, <3>2
  <2>8. ASSUME NEW s \in MailRuns
        PROVE  Unsent(s)'
    <3> SUFFICES ASSUME mail'[s].step = "send", NEW j \in mail'[s].jobs
                 PROVE  j \in claims /\ mails'[<<j.user, j.sent_on>>] = 0
      BY <2>2 DEF Unsent
    <3>1. j # job
      BY <2>4
    <3>2. mail[s].step = "send" /\ j \in mail[s].jobs
      BY <2>1
    <3>3. j \in claims /\ mails[<<j.user, j.sent_on>>] = 0
      BY <1>0, <3>2 DEF Unsent
    <3>4. <<j.user, j.sent_on>> \in Users \X Days
      BY <3>3 DEF TypeInv, Claim
    <3>5. <<j.user, j.sent_on>> # d0
      BY <2>3, <3>1, <3>3 DEF ClaimInv, d0
    <3> QED
      BY <2>6, <3>3, <3>4, <3>5
  <2>9. \A s, t \in MailRuns : s # t => Apart(s, t)'
    BY <1>0, <2>1 DEF Apart
  <2> QED
    BY <2>7, <2>8, <2>9 DEF MailInv
<1> QED
  BY <1>1, <1>2, <1>3, <1>4, <1>5, <1>6
  DEF Next, Requests, Surroundings, Tick, ScanChanges, SubscribeLoad, SubscribeCommit, Unsubscribe,
      Broadcast, BroadcastCommit, DiffStart, DiffRows, DiffSubs, DiffCommit, DiffFails, MailStep, vars

-----------------------------------------------------------------------------
\* The inductive invariant holds in every reachable state: it is what each of
\* the properties below follows from.
THEOREM Invariance ==
    ASSUME ConstantsAssumption
    PROVE  Spec => []Inv
<1>1. Init => Inv
  BY InitInv
<1>2. Inv /\ [Next]_vars => Inv'
  <2> SUFFICES ASSUME Inv, [Next]_vars PROVE Inv'
    OBVIOUS
  <2>1. TypeInv' /\ ToldInv'
    BY NextType, NextTold DEF Inv
  <2>2. ClaimInv' /\ CountedOnce'
    BY NextClaims DEF Inv
  <2>3. PlanInv'
    BY NextPlans DEF Inv, PlanInv
  <2>4. MailInv'
    BY NextMails DEF Inv
  <2> QED
    BY <2>1, <2>2, <2>3, <2>4 DEF Inv
<1> QED
  BY <1>1, <1>2, PTL DEF Spec

\* Every reachable state of subscriptions, requests, runs, events and claims is
\* well typed.
THEOREM TypeCorrect ==
    ASSUME ConstantsAssumption
    PROVE  Spec => []TypeOK
<1>1. Inv => TypeOK
  BY DEF Inv, TypeInv, TypeOK, MailTypeOK, MailRecord
<1> QED
  BY <1>1, Invariance, PTL

\* A user has one summary of subscriptions a day, whatever overlaps or fails.
THEOREM OneSummaryMail ==
    ASSUME ConstantsAssumption
    PROVE  Spec => []OneMailPerDay
<1>1. Inv => OneMailPerDay
  BY DEF Inv, TypeInv, MailInv, OneMailPerDay
<1> QED
  BY <1>1, Invariance, PTL

\* No event is in two summaries, whatever their windows are.
THEOREM CountsOnce ==
    ASSUME ConstantsAssumption
    PROVE  Spec => []CountedOnce
<1>1. Inv => CountedOnce
  BY DEF Inv
<1> QED
  BY <1>1, Invariance, PTL

\* A change that the stored state absorbed was told, or was there when the user
\* subscribed.
THEOREM AllTold ==
    ASSUME ConstantsAssumption
    PROVE  Spec => []NothingAbsorbed
<1>1. Inv => NothingAbsorbed
  BY DEF Inv, ToldInv, NothingAbsorbed
<1> QED
  BY <1>1, Invariance, PTL

=============================================================================
