----------------------- MODULE NotificationSummaryProofs -----------------------
(***************************************************************************)
(* Proofs about NotificationSummary, for every number of users, events,    *)
(* days and overlapping runs: what the tables hold is well typed, a user   *)
(* has a mail a day, and every step is a step of the Outbox or none.       *)
(***************************************************************************)
EXTENDS NotificationSummary, TLAPS

Summary == [user : Users, counted : SUBSET Ids]

RunRecord ==
    [step : {"idle", "load", "plan", "send"}, events : SUBSET Ids, sent_today : SUBSET Users,
     todo : SUBSET Users, consumed : SUBSET Ids, jobs : SUBSET Summary]

\* The type invariant with the runs as records.
TypeInv ==
    /\ day \in Days
    /\ DOMAIN open \subseteq Ids /\ open \in [DOMAIN open -> Days]
    /\ DOMAIN queue \subseteq Ids /\ queue \in [DOMAIN queue -> Days]
    /\ used \subseteq Ids /\ left \subseteq Ids
    /\ run \in [Runs -> RunRecord]
    /\ DOMAIN claims \subseteq Deliveries /\ claims \in [DOMAIN claims -> SUBSET Ids]
    /\ mails \in [Deliveries -> Nat]

\* An event is held by a request, or queued, or gone, and its id is used.
IdInv ==
    /\ DOMAIN open \cup DOMAIN queue \cup left \subseteq used
    /\ DOMAIN open \cap DOMAIN queue = {}
    /\ left \cap (DOMAIN open \cup DOMAIN queue) = {}

\* A summary counts events of its user that are gone.
ClaimInv ==
    \A d \in DOMAIN claims : claims[d] \subseteq {i \in left : OwnerOf[i] = d[1]}

\* A run read events that a request has committed; those another summary
\* counted since are in one of this day.
EventsKnown(r) ==
    run[r].step \in {"load", "plan"} =>
        /\ run[r].events \subseteq DOMAIN queue \cup left
        /\ \A d \in DOMAIN claims : claims[d] \cap run[r].events # {} => d[2] = day

\* A plan has one mail per user, for events of the user that were evaluated.
PlanKnown(r) ==
    /\ run[r].step = "load" => run[r].consumed = {} /\ run[r].jobs = {}
    /\ run[r].step = "plan" =>
          /\ run[r].consumed \subseteq run[r].events
          /\ \A j \in run[r].jobs : /\ j.counted \subseteq {i \in run[r].consumed : OwnerOf[i] = j.user}
                                    /\ j.user \notin run[r].todo
    /\ \A j, k \in run[r].jobs : j.user = k.user => j = k

\* A mail still to send is claimed and has not been sent.
Unsent(r) ==
    run[r].step = "send" =>
        \A j \in run[r].jobs : <<j.user, day>> \in DOMAIN claims /\ mails[<<j.user, day>>] = 0

Apart(r, s) ==
    run[r].step = "send" /\ run[s].step = "send" =>
        \A j \in run[r].jobs, k \in run[s].jobs : j.user # k.user

MailInv ==
    /\ \A r \in Runs : Unsent(r)
    /\ \A r, s \in Runs : r # s => Apart(r, s)
    /\ \A d \in Deliveries : mails[d] <= 1 /\ (d \notin DOMAIN claims => mails[d] = 0)

RunInv == \A r \in Runs : EventsKnown(r) /\ PlanKnown(r)

Inv == TypeInv /\ IdInv /\ ClaimInv /\ RunInv /\ MailInv

-----------------------------------------------------------------------------
LEMMA Helpers ==
    /\ \A f, s, v : DOMAIN With(f, s, v) = DOMAIN f \cup s
    /\ \A f, s, v : \A x \in DOMAIN f \cup s : With(f, s, v)[x] = IF x \in s THEN v ELSE f[x]
    /\ \A f, s : DOMAIN Restrict(f, s) = s /\ \A x \in s : Restrict(f, s)[x] = f[x]
  BY DEF With, Restrict

LEMMA IdleType == Idle \in RunRecord
  BY DEF Idle, RunRecord

LEMMA InitInv ==
    ASSUME ConstantsAssumption, Init
    PROVE  Inv
<1>1. DOMAIN open = {} /\ DOMAIN queue = {} /\ DOMAIN claims = {}
  BY DEF Init
<1>2. TypeInv
  <2>1. run \in [Runs -> RunRecord]
    BY IdleType DEF Init
  <2>2. /\ open \in [DOMAIN open -> Days] /\ queue \in [DOMAIN queue -> Days]
        /\ claims \in [DOMAIN claims -> SUBSET Ids]
    BY <1>1 DEF Init
  <2>3. day \in Days /\ mails \in [Deliveries -> Nat] /\ used \subseteq Ids /\ left \subseteq Ids
    BY DEF Init, Days, ConstantsAssumption
  <2> QED
    BY <1>1, <2>1, <2>2, <2>3 DEF TypeInv
<1>3. IdInv /\ ClaimInv
  BY <1>1 DEF Init, IdInv, ClaimInv
<1>4. RunInv
  BY DEF Init, RunInv, EventsKnown, PlanKnown, Idle
<1>5. MailInv
  BY DEF Init, MailInv, Unsent, Apart, Idle
<1> QED
  BY <1>2, <1>3, <1>4, <1>5 DEF Inv

-----------------------------------------------------------------------------
\* What the steps of a run do to its record: the others keep theirs.
LEMMA LoadStep ==
    ASSUME TypeInv, NEW r \in Runs, RunLoad(r)
    PROVE  /\ run' \in [Runs -> RunRecord]
           /\ \A s \in Runs : s # r => run'[s] = run[s]
           /\ run'[r].step = "load" /\ run'[r].events = DOMAIN queue
           /\ run'[r].consumed = {} /\ run'[r].jobs = {}
<1> DEFINE rec == [Idle EXCEPT !.step = "load", !.events = DOMAIN queue]
<1>1. /\ rec \in RunRecord /\ rec.step = "load" /\ rec.events = DOMAIN queue
      /\ rec.consumed = {} /\ rec.jobs = {}
  BY DEF Idle, RunRecord, TypeInv
<1>2. run' = [run EXCEPT ![r] = rec]
  BY DEF RunLoad
<1> HIDE DEF rec
<1> QED
  BY <1>1, <1>2 DEF TypeInv

LEMMA RecipientsStep ==
    ASSUME TypeInv, NEW r \in Runs, RunRecipients(r)
    PROVE  /\ run' \in [Runs -> RunRecord]
           /\ \A s \in Runs : s # r => run'[s] = run[s]
           /\ run[r].step = "load" /\ run'[r].step = "plan" /\ run'[r].events = run[r].events
           /\ run'[r].consumed = run[r].consumed /\ run'[r].jobs = run[r].jobs
<1> DEFINE sent_today == {u \in Users : <<u, day>> \in DOMAIN claims}
<1>1. PICK recipients \in SUBSET Users :
        run' = [run EXCEPT ![r].step = "plan", ![r].todo = recipients, ![r].sent_today = sent_today]
  BY DEF RunRecipients
<1> DEFINE rec == [run[r] EXCEPT !.step = "plan", !.todo = recipients, !.sent_today = sent_today]
<1>2. run[r] \in RunRecord /\ sent_today \in SUBSET Users
  BY DEF TypeInv
<1> HIDE DEF sent_today
<1>3. /\ rec \in RunRecord /\ rec.step = "plan" /\ rec.events = run[r].events
      /\ rec.consumed = run[r].consumed /\ rec.jobs = run[r].jobs
  BY <1>2 DEF RunRecord
<1>4. run' = [run EXCEPT ![r] = rec]
  BY <1>1, <1>2 DEF RunRecord
<1> HIDE DEF rec
<1> QED
  BY <1>3, <1>4 DEF TypeInv, RunRecipients

\* A user is passed over, or planned with events of theirs that the run read.
LEMMA PlanStep ==
    ASSUME TypeInv, NEW r \in Runs, NEW u \in Users, RunPlan(r, u)
    PROVE  /\ run' \in [Runs -> RunRecord]
           /\ \A s \in Runs : s # r => run'[s] = run[s]
           /\ run[r].step = "plan" /\ run'[r].step = "plan" /\ u \in run[r].todo
           /\ run'[r].events = run[r].events /\ run'[r].todo = run[r].todo \ {u}
           /\ \E counted \in SUBSET EventsOf(r, u) :
                 /\ run'[r].consumed \in {run[r].consumed, run[r].consumed \cup EventsOf(r, u)}
                 /\ \/ run'[r].jobs = run[r].jobs
                    \/ /\ run'[r].jobs = run[r].jobs \cup {[user |-> u, counted |-> counted]}
                       /\ run'[r].consumed = run[r].consumed \cup EventsOf(r, u)
<1>1. run[r] \in RunRecord /\ run[r].step = "plan" /\ u \in run[r].todo
  BY DEF TypeInv, RunPlan
<1>2. CASE u \in run[r].sent_today
  <2> DEFINE rec == [run[r] EXCEPT !.todo = run[r].todo \ {u}]
  <2>1. /\ rec \in RunRecord /\ rec.step = "plan" /\ rec.events = run[r].events
        /\ rec.todo = run[r].todo \ {u} /\ rec.consumed = run[r].consumed /\ rec.jobs = run[r].jobs
    BY <1>1 DEF RunRecord
  <2>2. run' = [run EXCEPT ![r] = rec]
    BY <1>2 DEF RunPlan
  <2> HIDE DEF rec
  <2> QED
    BY <1>1, <2>1, <2>2 DEF TypeInv
<1>3. CASE u \notin run[r].sent_today
  <2>1. PICK counted \in SUBSET EventsOf(r, u), news \in BOOLEAN :
          run' = [run EXCEPT ![r].todo = @ \ {u},
                             ![r].consumed = @ \cup Consumed(r, u, counted),
                             ![r].jobs = IF news THEN @ \cup {[user |-> u, counted |-> counted]} ELSE @]
    BY <1>3 DEF RunPlan
  <2> DEFINE jobs == IF news THEN run[r].jobs \cup {[user |-> u, counted |-> counted]} ELSE run[r].jobs
             rec == [run[r] EXCEPT !.todo = run[r].todo \ {u},
                                   !.consumed = run[r].consumed \cup EventsOf(r, u),
                                   !.jobs = jobs]
  <2>2. EventsOf(r, u) \subseteq Ids
    BY <1>1 DEF EventsOf, RunRecord
  <2>3. [user |-> u, counted |-> counted] \in Summary
    BY <2>2 DEF Summary
  <2>4. jobs \subseteq Summary
    BY <1>1, <2>3 DEF RunRecord
  <2>5. run' = [run EXCEPT ![r] = rec]
    BY <1>1, <2>1 DEF RunRecord, Consumed
  <2>6. jobs = run[r].jobs \/ jobs = run[r].jobs \cup {[user |-> u, counted |-> counted]}
    OBVIOUS
  <2> HIDE DEF jobs
  <2>7. /\ rec \in RunRecord /\ rec.step = "plan" /\ rec.events = run[r].events
        /\ rec.todo = run[r].todo \ {u} /\ rec.consumed = run[r].consumed \cup EventsOf(r, u)
        /\ rec.jobs = jobs
    BY <1>1, <2>2, <2>4 DEF RunRecord
  <2> HIDE DEF rec
  <2>8. run' \in [Runs -> RunRecord] /\ run'[r] = rec /\ \A s \in Runs : s # r => run'[s] = run[s]
    BY <2>5, <2>7 DEF TypeInv
  <2> QED
    BY <1>1, <2>6, <2>7, <2>8
<1> QED
  BY <1>2, <1>3

LEMMA CommitStep ==
    ASSUME TypeInv, NEW r \in Runs, RunCommit(r)
    PROVE  /\ run' \in [Runs -> RunRecord]
           /\ \A s \in Runs : s # r => run'[s] = run[s]
           /\ run[r].step = "plan" /\ run'[r].step = "send" /\ run'[r].jobs = run[r].jobs
<1> DEFINE rec == [Idle EXCEPT !.step = "send", !.jobs = run[r].jobs]
<1>1. rec \in RunRecord /\ rec.step = "send" /\ rec.jobs = run[r].jobs
  BY DEF Idle, RunRecord, TypeInv
<1>2. run' = [run EXCEPT ![r] = rec]
  BY DEF RunCommit
<1> HIDE DEF rec
<1> QED
  BY <1>1, <1>2 DEF TypeInv, RunCommit

LEMMA SendStep ==
    ASSUME TypeInv, NEW r \in Runs, NEW job \in run[r].jobs, RunSend(r, job)
    PROVE  /\ run' \in [Runs -> RunRecord]
           /\ \A s \in Runs : s # r => run'[s] = run[s]
           /\ run[r].step = "send" /\ run'[r].step = "send" /\ run'[r].jobs = run[r].jobs \ {job}
           /\ <<job.user, day>> \in Deliveries
<1> DEFINE rec == [run[r] EXCEPT !.jobs = run[r].jobs \ {job}]
<1>1. rec \in RunRecord /\ rec.step = run[r].step /\ rec.jobs = run[r].jobs \ {job}
  BY DEF RunRecord, TypeInv
<1>2. run' = [run EXCEPT ![r] = rec]
  BY DEF RunSend
<1>3. <<job.user, day>> \in Deliveries
  BY DEF TypeInv, RunRecord, Summary, Deliveries
<1> HIDE DEF rec
<1> QED
  BY <1>1, <1>2, <1>3 DEF TypeInv, RunSend

LEMMA StopStep ==
    ASSUME TypeInv, NEW r \in Runs, RunRefused(r) \/ RunEnd(r)
    PROVE  /\ run' \in [Runs -> RunRecord]
           /\ \A s \in Runs : s # r => run'[s] = run[s]
           /\ run'[r].step = "idle" /\ run'[r].jobs = {}
           /\ UNCHANGED <<day, open, queue, used, claims, mails, left>>
<1>1. run' = [run EXCEPT ![r] = Idle]
  BY DEF RunRefused, RunEnd
<1>2. UNCHANGED <<day, open, queue, used, claims, mails, left>>
  BY DEF RunRefused, RunEnd
<1>3. Idle.step = "idle" /\ Idle.jobs = {}
  BY DEF Idle
<1> QED
  BY <1>1, <1>2, <1>3, IdleType DEF TypeInv

\* A run changes its own record only.
LEMMA OthersKeep ==
    ASSUME TypeInv, NEW r \in Runs, Job(r), NEW s \in Runs, s # r
    PROVE  run'[s] = run[s]
<1>1. CASE RunLoad(r)
  BY <1>1, LoadStep
<1>2. CASE RunRecipients(r)
  BY <1>2, RecipientsStep
<1>3. ASSUME NEW u \in Users, RunPlan(r, u)
      PROVE  run'[s] = run[s]
  BY <1>3, PlanStep
<1>4. CASE RunCommit(r)
  BY <1>4, CommitStep
<1>5. ASSUME NEW job \in run[r].jobs, RunSend(r, job)
      PROVE  run'[s] = run[s]
  BY <1>5, SendStep
<1>6. CASE RunRefused(r) \/ RunEnd(r)
  BY <1>6, StopStep
<1> QED
  BY <1>1, <1>2, <1>3, <1>4, <1>5, <1>6 DEF Job

\* What a commit does to the tables: the events evaluated leave, and each mail
\* of the plan has a claim of the day, with what it counts.
LEMMA CommitTables ==
    ASSUME TypeInv, NEW r \in Runs, RunCommit(r)
    PROVE  /\ Leave(r) \subseteq DOMAIN queue /\ run[r].consumed \cap DOMAIN queue \subseteq Leave(r)
           /\ DOMAIN queue' = DOMAIN queue \ Leave(r) /\ queue' \in [DOMAIN queue' -> Days]
           /\ left' = left \cup Leave(r)
           /\ DOMAIN claims' = DOMAIN claims \cup {<<job.user, day>> : job \in run[r].jobs}
           /\ \A d \in DOMAIN claims : claims'[d] = claims[d]
           /\ \A d \in DOMAIN claims' \ DOMAIN claims :
                 \E job \in run[r].jobs : d = <<job.user, day>> /\ claims'[d] = job.counted
           /\ \A job \in run[r].jobs : <<job.user, day>> \notin DOMAIN claims
           /\ UNCHANGED <<day, open, used, mails>>
<1>1. Leave(r) \subseteq DOMAIN queue /\ run[r].consumed \cap DOMAIN queue \subseteq Leave(r)
  BY DEF Leave
<1>2. queue' = Restrict(queue, DOMAIN queue \ Leave(r)) /\ left' = left \cup Leave(r)
  BY DEF RunCommit
<1>3. DOMAIN queue' = DOMAIN queue \ Leave(r) /\ queue' \in [DOMAIN queue' -> Days]
  <2>1. queue \in [DOMAIN queue -> Days]
    BY DEF TypeInv
  <2>2. queue' = [x \in DOMAIN queue \ Leave(r) |-> queue[x]]
    BY <1>2 DEF Restrict
  <2> HIDE DEF Leave
  <2> QED
    BY <2>1, <2>2
<1> DEFINE new == {<<job.user, day>> : job \in run[r].jobs}
<1>4. DOMAIN Claimed(r) = new
  BY DEF Claimed
<1>5. \A d \in new : \E job \in run[r].jobs : d = <<job.user, day>> /\ Claimed(r)[d] = job.counted
  <2> SUFFICES ASSUME NEW d \in new
               PROVE  \E job \in run[r].jobs : d = <<job.user, day>> /\ Claimed(r)[d] = job.counted
    OBVIOUS
  <2>1. PICK job \in run[r].jobs : d = <<job.user, day>>
    OBVIOUS
  <2> DEFINE chosen == CHOOSE j \in run[r].jobs : j.user = d[1]
  <2>2. chosen \in run[r].jobs /\ chosen.user = d[1]
    BY <2>1
  <2>3. Claimed(r)[d] = chosen.counted
    BY DEF Claimed
  <2> HIDE DEF chosen
  <2> QED
    BY <2>1, <2>2, <2>3
<1>6. claims' = [d \in DOMAIN claims \cup DOMAIN Claimed(r) |->
                    IF d \in DOMAIN claims THEN claims[d] ELSE Claimed(r)[d]]
  BY DEF RunCommit
<1>7. /\ DOMAIN claims' = DOMAIN claims \cup new
      /\ \A d \in DOMAIN claims : claims'[d] = claims[d]
      /\ \A d \in new \ DOMAIN claims : claims'[d] = Claimed(r)[d]
  <2> HIDE DEF new
  <2> QED
    BY <1>4, <1>6
<1>8. \A job \in run[r].jobs : <<job.user, day>> \notin DOMAIN claims
  BY DEF RunCommit, ClaimsFree
<1>9. UNCHANGED <<day, open, used, mails>>
  BY DEF RunCommit
<1>a. \A d \in DOMAIN claims' \ DOMAIN claims :
         \E job \in run[r].jobs : d = <<job.user, day>> /\ claims'[d] = job.counted
  <2> HIDE DEF new
  <2> QED
    BY <1>5, <1>7
<1> QED
  BY <1>1, <1>2, <1>3, <1>7, <1>8, <1>9, <1>a

LEMMA NextType ==
    ASSUME ConstantsAssumption, TypeInv, [Next]_vars
    PROVE  TypeInv'
<1>1. CASE NextDay
  BY <1>1 DEF NextDay, TypeInv, Days, ConstantsAssumption
<1>2. ASSUME NEW i \in Ids, Create(i)
      PROVE  TypeInv'
  <2>1. DOMAIN open' = DOMAIN open \cup {i} /\ open' \in [DOMAIN open' -> Days]
    BY <1>2 DEF Create, With, TypeInv
  <2> QED
    BY <1>2, <2>1 DEF Create, TypeInv
<1>3. ASSUME NEW i \in Ids, Commit(i) \/ Rollback(i)
      PROVE  TypeInv'
  <2>1. DOMAIN open' = DOMAIN open \ {i} /\ open' \in [DOMAIN open' -> Days]
    BY <1>3 DEF Commit, Rollback, Restrict, TypeInv
  <2>2. /\ DOMAIN queue' \in {DOMAIN queue, DOMAIN queue \cup {i}}
        /\ queue' \in [DOMAIN queue' -> Days]
    BY <1>3 DEF Commit, Rollback, With, TypeInv
  <2> QED
    BY <1>3, <2>1, <2>2 DEF Commit, Rollback, TypeInv
<1>4. ASSUME NEW r \in Runs, RunLoad(r)
      PROVE  TypeInv'
  BY <1>4, LoadStep DEF RunLoad, TypeInv
<1>5. ASSUME NEW r \in Runs, RunRecipients(r)
      PROVE  TypeInv'
  BY <1>5, RecipientsStep DEF RunRecipients, TypeInv
<1>6. ASSUME NEW r \in Runs, NEW u \in Users, RunPlan(r, u)
      PROVE  TypeInv'
  <2>1. UNCHANGED <<day, open, queue, used, claims, mails, left>>
    BY <1>6 DEF RunPlan
  <2>2. run' \in [Runs -> RunRecord]
    BY <1>6, PlanStep
  <2> QED
    BY <2>1, <2>2 DEF TypeInv
<1>7. ASSUME NEW r \in Runs, RunCommit(r)
      PROVE  TypeInv'
  <2>1. /\ Leave(r) \subseteq DOMAIN queue
        /\ DOMAIN queue' = DOMAIN queue \ Leave(r) /\ queue' \in [DOMAIN queue' -> Days]
        /\ left' = left \cup Leave(r) /\ UNCHANGED <<day, open, used, mails>>
    BY <1>7, CommitTables
  <2>2. \A job \in run[r].jobs : <<job.user, day>> \in Deliveries /\ job.counted \subseteq Ids
    BY DEF TypeInv, RunRecord, Summary, Deliveries
  <2>3. /\ DOMAIN claims' = DOMAIN claims \cup {<<job.user, day>> : job \in run[r].jobs}
        /\ \A d \in DOMAIN claims : claims'[d] = claims[d]
        /\ \A d \in DOMAIN claims' \ DOMAIN claims :
              \E job \in run[r].jobs : d = <<job.user, day>> /\ claims'[d] = job.counted
    BY <1>7, CommitTables
  <2>4. DOMAIN claims' \subseteq Deliveries
    BY <2>2, <2>3 DEF TypeInv
  <2>5. \A d \in DOMAIN claims' : claims'[d] \subseteq Ids
    BY <2>2, <2>3 DEF TypeInv
  <2>6. claims' = [d \in DOMAIN claims' |-> claims'[d]]
    BY <1>7 DEF RunCommit
  <2>7. claims' \in [DOMAIN claims' -> SUBSET Ids]
    BY <2>5, <2>6
  <2>8. run' \in [Runs -> RunRecord]
    BY <1>7, CommitStep
  <2> QED
    BY <2>1, <2>4, <2>7, <2>8 DEF TypeInv
<1>8. ASSUME NEW r \in Runs, NEW job \in run[r].jobs, RunSend(r, job)
      PROVE  TypeInv'
  <2>1. mails' \in [Deliveries -> Nat]
    <3>1. <<job.user, day>> \in Deliveries
      BY <1>8, SendStep
    <3>2. mails \in [Deliveries -> Nat]
      BY DEF TypeInv
    <3>3. mails' = mails \/ mails' = [mails EXCEPT ![<<job.user, day>>] = @ + 1]
      BY <1>8 DEF RunSend
    <3> QED
      BY <3>1, <3>2, <3>3
  <2>2. run' \in [Runs -> RunRecord]
    BY <1>8, SendStep
  <2> QED
    BY <1>8, <2>1, <2>2 DEF RunSend, TypeInv
<1>9. ASSUME NEW r \in Runs, RunRefused(r) \/ RunEnd(r)
      PROVE  TypeInv'
  BY <1>9, StopStep DEF TypeInv
<1>a. CASE UNCHANGED vars
  BY <1>a DEF vars, TypeInv
<1> QED
  BY <1>1, <1>2, <1>3, <1>4, <1>5, <1>6, <1>7, <1>8, <1>9, <1>a DEF Next, Job

\* Every reachable state of the queue, the runs, the claims and the mails is
\* well typed.
THEOREM TypeCorrect ==
    ASSUME ConstantsAssumption
    PROVE  Spec => []TypeOK
<1>1. Init => TypeInv
  BY InitInv DEF Inv
<1>2. TypeInv /\ [Next]_vars => TypeInv'
  BY NextType
<1>3. TypeInv => TypeOK
  BY DEF TypeInv, TypeOK, RunRecord, Summary
<1> QED
  BY <1>1, <1>2, <1>3, PTL DEF Spec

-----------------------------------------------------------------------------
LEMMA NextIds ==
    ASSUME TypeInv, IdInv, [Next]_vars
    PROVE  IdInv'
<1>1. CASE UNCHANGED <<open, queue, used, left>>
  BY <1>1 DEF IdInv
<1>2. ASSUME NEW i \in Ids, Create(i)
      PROVE  IdInv'
  <2>1. DOMAIN open' = DOMAIN open \cup {i}
    BY <1>2 DEF Create, With
  <2> QED
    BY <1>2, <2>1 DEF Create, IdInv
<1>3. ASSUME NEW i \in Ids, Commit(i) \/ Rollback(i)
      PROVE  IdInv'
  <2>1. i \in DOMAIN open /\ DOMAIN open' = DOMAIN open \ {i}
    BY <1>3 DEF Commit, Rollback, Restrict
  <2>2. DOMAIN queue' \in {DOMAIN queue, DOMAIN queue \cup {i}}
    BY <1>3 DEF Commit, Rollback, With
  <2>3. UNCHANGED <<used, left>>
    BY <1>3 DEF Commit, Rollback
  <2> QED
    BY <2>1, <2>2, <2>3 DEF IdInv
<1>4. ASSUME NEW r \in Runs, RunCommit(r)
      PROVE  IdInv'
  BY <1>4, CommitTables DEF IdInv
<1> QED
  BY <1>1, <1>2, <1>3, <1>4
  DEF Next, Job, NextDay, RunLoad, RunRecipients, RunPlan, RunRefused, RunSend, RunEnd, vars

\* What a plan counts is gone when the plan is committed, and no earlier
\* summary counted it: the user would have a claim of the day.
LEMMA CountedOnce ==
    ASSUME TypeInv, IdInv, ClaimInv, RunInv, NEW r \in Runs, RunCommit(r), NEW job \in run[r].jobs
    PROVE  /\ job.counted \subseteq {i \in left' : OwnerOf[i] = job.user}
           /\ \A d \in DOMAIN claims : claims[d] \cap job.counted = {}
<1>1. run[r].step = "plan" /\ run[r] \in RunRecord
  BY DEF RunCommit, TypeInv
<1>2. /\ run[r].consumed \subseteq run[r].events
      /\ job.counted \subseteq {i \in run[r].consumed : OwnerOf[i] = job.user}
      /\ run[r].events \subseteq DOMAIN queue \cup left
      /\ \A d \in DOMAIN claims : claims[d] \cap run[r].events # {} => d[2] = day
  BY <1>1 DEF RunInv, PlanKnown, EventsKnown
<1>3. run[r].consumed \cap DOMAIN queue \subseteq Leave(r) /\ left' = left \cup Leave(r)
  BY CommitTables
<1>4. job.counted \subseteq {i \in left' : OwnerOf[i] = job.user}
  BY <1>2, <1>3
<1>5. ASSUME NEW d \in DOMAIN claims, NEW i \in claims[d] \cap job.counted
      PROVE  FALSE
  <2>1. OwnerOf[i] = d[1] /\ OwnerOf[i] = job.user
    BY <1>2 DEF ClaimInv
  <2>2. d[2] = day
    BY <1>2
  <2>3. d \in Deliveries
    BY DEF TypeInv
  <2>4. d = <<d[1], d[2]>>
    BY <2>3 DEF Deliveries
  <2>5. d = <<job.user, day>>
    BY <2>1, <2>2, <2>4
  <2> QED
    BY <2>5, CommitTables
<1> QED
  BY <1>4, <1>5

LEMMA NextClaims ==
    ASSUME TypeInv, IdInv, ClaimInv, RunInv, [Next]_vars
    PROVE  ClaimInv'
<1>1. CASE UNCHANGED <<claims, left>>
  BY <1>1 DEF ClaimInv
<1>2. ASSUME NEW r \in Runs, RunCommit(r)
      PROVE  ClaimInv'
  <2> SUFFICES ASSUME NEW d \in DOMAIN claims'
               PROVE  claims'[d] \subseteq {i \in left' : OwnerOf[i] = d[1]}
    BY DEF ClaimInv
  <2>1. CASE d \in DOMAIN claims
    BY <1>2, <2>1, CommitTables DEF ClaimInv
  <2>2. CASE d \notin DOMAIN claims
    <3>1. PICK job \in run[r].jobs : d = <<job.user, day>> /\ claims'[d] = job.counted
      BY <1>2, <2>2, CommitTables
    <3>2. d[1] = job.user
      BY <3>1
    <3> QED
      BY <1>2, <3>1, <3>2, CountedOnce
  <2> QED
    BY <2>1, <2>2
<1> QED
  BY <1>1, <1>2 DEF Next, Job, NextDay, Create, Commit, Rollback, RunLoad, RunRecipients, RunPlan,
                    RunRefused, RunSend, RunEnd, vars

\* The events of a run stay queued or gone, and who counts them claims today.
LEMMA NextEvents ==
    ASSUME TypeInv, IdInv, ClaimInv, RunInv, [Next]_vars, NEW s \in Runs
    PROVE  EventsKnown(s)'
<1>1. SUFFICES ASSUME run'[s].step \in {"load", "plan"}
               PROVE  /\ run'[s].events \subseteq DOMAIN queue' \cup left'
                      /\ \A d \in DOMAIN claims' : claims'[d] \cap run'[s].events # {} => d[2] = day'
  BY DEF EventsKnown
<1>2. CASE RunLoad(s)
  <2>1. run'[s].events = DOMAIN queue
    BY <1>2, LoadStep
  <2>2. \A d \in DOMAIN claims : claims[d] \cap DOMAIN queue = {}
    BY DEF ClaimInv, IdInv
  <2> QED
    BY <1>2, <2>1, <2>2 DEF RunLoad
<1>3. CASE NextDay
  BY <1>1, <1>3 DEF NextDay, Idle
<1>4. ASSUME run[s].step \in {"load", "plan"}, run'[s].events = run[s].events, ~NextDay
      PROVE  /\ run'[s].events \subseteq DOMAIN queue' \cup left'
             /\ \A d \in DOMAIN claims' : claims'[d] \cap run'[s].events # {} => d[2] = day'
  <2>1. /\ run[s].events \subseteq DOMAIN queue \cup left
        /\ \A d \in DOMAIN claims : claims[d] \cap run[s].events # {} => d[2] = day
    BY <1>4 DEF RunInv, EventsKnown
  <2>2. CASE UNCHANGED <<day, queue, left, claims>>
    BY <1>4, <2>1, <2>2
  <2>3. ASSUME NEW i \in Ids, Commit(i)
        PROVE  DOMAIN queue \subseteq DOMAIN queue' /\ UNCHANGED <<day, left, claims>>
    BY <2>3 DEF Commit, With
  <2>4. ASSUME NEW r \in Runs, RunCommit(r)
        PROVE  /\ DOMAIN queue \cup left \subseteq DOMAIN queue' \cup left' /\ day' = day
               /\ \A d \in DOMAIN claims' : claims'[d] \cap run[s].events # {} => d[2] = day
    <3>0. /\ \A d \in DOMAIN claims : claims'[d] = claims[d]
          /\ \A d \in DOMAIN claims' \ DOMAIN claims :
                \E job \in run[r].jobs : d = <<job.user, day>> /\ claims'[d] = job.counted
      BY <2>4, CommitTables
    <3>1. DOMAIN queue \cup left \subseteq DOMAIN queue' \cup left' /\ day' = day
      BY <2>4, CommitTables
    <3>2. ASSUME NEW d \in DOMAIN claims', claims'[d] \cap run[s].events # {}
          PROVE  d[2] = day
      <4>1. CASE d \in DOMAIN claims
        <5>1. claims'[d] = claims[d]
          BY <3>0, <4>1
        <5> QED
          BY <2>1, <3>2, <4>1, <5>1
      <4>2. CASE d \notin DOMAIN claims
        <5>1. PICK job \in run[r].jobs : d = <<job.user, day>>
          BY <3>0, <4>2
        <5> QED
          BY <5>1
      <4> QED
        BY <4>1, <4>2
    <3> QED
      BY <3>1, <3>2
  <2> QED
    BY <1>4, <2>1, <2>2, <2>3, <2>4
    DEF Next, Job, Create, Rollback, RunLoad, RunRecipients, RunPlan, RunRefused, RunSend, RunEnd, vars
<1>5. ~RunLoad(s) /\ ~NextDay => run[s].step \in {"load", "plan"} /\ run'[s].events = run[s].events
  <2>1. CASE run' = run
    BY <1>1, <2>1
  <2>2. ASSUME NEW r \in Runs, Job(r), ~RunLoad(s)
        PROVE  run[s].step \in {"load", "plan"} /\ run'[s].events = run[s].events
    <3>1. CASE r # s
      <4>1. run'[s] = run[s]
        BY <2>2, <3>1, OthersKeep
      <4> QED
        BY <1>1, <4>1
    <3>2. CASE r = s
      <4>1. CASE RunRecipients(s)
        BY <4>1, RecipientsStep
      <4>2. ASSUME NEW u \in Users, RunPlan(s, u)
            PROVE  run[s].step \in {"load", "plan"} /\ run'[s].events = run[s].events
        BY <4>2, PlanStep
      <4>3. CASE RunCommit(s)
        BY <1>1, <4>3, CommitStep
      <4>4. ASSUME NEW job \in run[s].jobs, RunSend(s, job)
            PROVE  FALSE
        BY <1>1, <4>4, SendStep
      <4>5. CASE RunRefused(s) \/ RunEnd(s)
        BY <1>1, <4>5, StopStep
      <4> QED
        BY <2>2, <3>2, <4>1, <4>2, <4>3, <4>4, <4>5 DEF Job
    <3> QED
      BY <3>1, <3>2
  <2> QED
    BY <2>1, <2>2 DEF Next, Create, Commit, Rollback, vars
<1> QED
  BY <1>2, <1>3, <1>4, <1>5

LEMMA NextPlans ==
    ASSUME TypeInv, RunInv, [Next]_vars, NEW s \in Runs
    PROVE  PlanKnown(s)'
<1>1. CASE run'[s] = run[s]
  BY <1>1 DEF RunInv, PlanKnown
<1>2. CASE RunLoad(s)
  BY <1>2, LoadStep DEF PlanKnown
<1>3. CASE RunRecipients(s)
  BY <1>3, RecipientsStep DEF RunInv, PlanKnown
<1>4. ASSUME NEW u \in Users, RunPlan(s, u)
      PROVE  PlanKnown(s)'
  <2>1. /\ run[s].step = "plan" /\ run'[s].step = "plan" /\ u \in run[s].todo
        /\ run'[s].events = run[s].events /\ run'[s].todo = run[s].todo \ {u}
    BY <1>4, PlanStep
  <2>2. PICK counted \in SUBSET EventsOf(s, u) :
          /\ run'[s].consumed \in {run[s].consumed, run[s].consumed \cup EventsOf(s, u)}
          /\ \/ run'[s].jobs = run[s].jobs
             \/ /\ run'[s].jobs = run[s].jobs \cup {[user |-> u, counted |-> counted]}
                /\ run'[s].consumed = run[s].consumed \cup EventsOf(s, u)
    BY <1>4, PlanStep
  <2>3. /\ run[s].consumed \subseteq run[s].events
        /\ \A j \in run[s].jobs : /\ j.counted \subseteq {i \in run[s].consumed : OwnerOf[i] = j.user}
                                  /\ j.user \notin run[s].todo
        /\ \A j, k \in run[s].jobs : j.user = k.user => j = k
    BY <2>1 DEF RunInv, PlanKnown
  <2>4. EventsOf(s, u) \subseteq {i \in run[s].events : OwnerOf[i] = u}
    BY DEF EventsOf
  <2>5. run'[s].consumed \subseteq run'[s].events
    BY <2>1, <2>2, <2>3, <2>4
  <2>6. \A j \in run'[s].jobs : /\ j.counted \subseteq {i \in run'[s].consumed : OwnerOf[i] = j.user}
                                /\ j.user \notin run'[s].todo
    BY <2>1, <2>2, <2>3, <2>4
  <2>7. \A j, k \in run'[s].jobs : j.user = k.user => j = k
    BY <2>1, <2>2, <2>3
  <2> QED
    BY <2>1, <2>5, <2>6, <2>7 DEF PlanKnown
<1>5. CASE RunCommit(s)
  BY <1>5, CommitStep DEF RunInv, PlanKnown
<1>6. ASSUME NEW job \in run[s].jobs, RunSend(s, job)
      PROVE  PlanKnown(s)'
  BY <1>6, SendStep DEF RunInv, PlanKnown
<1>7. CASE RunRefused(s) \/ RunEnd(s)
  BY <1>7, StopStep DEF PlanKnown
<1>8. ASSUME NEW r \in Runs, r # s, Job(r)
      PROVE  run'[s] = run[s]
  BY <1>8, OthersKeep
<1>9. CASE run' = run
  BY <1>1, <1>9
<1> QED
  BY <1>1, <1>2, <1>3, <1>4, <1>5, <1>6, <1>7, <1>8, <1>9
  DEF Next, Job, NextDay, Create, Commit, Rollback, vars

LEMMA NextMails ==
    ASSUME TypeInv, RunInv, MailInv, [Next]_vars
    PROVE  MailInv'
<1>0. /\ \A r \in Runs : Unsent(r)
      /\ \A r, s \in Runs : r # s => Apart(r, s)
      /\ \A d \in Deliveries : mails[d] <= 1 /\ (d \notin DOMAIN claims => mails[d] = 0)
      /\ run \in [Runs -> RunRecord] /\ mails \in [Deliveries -> Nat]
  BY DEF MailInv, TypeInv
<1>1. ASSUME UNCHANGED <<day, claims, mails>>, NEW r \in Runs, run'[r].step # "send",
             \A s \in Runs : s # r => run'[s] = run[s]
      PROVE  MailInv'
  BY <1>0, <1>1 DEF MailInv, Unsent, Apart
<1>2. CASE UNCHANGED <<run, day, claims, mails>>
  BY <1>0, <1>2 DEF MailInv, Unsent, Apart
<1>3. CASE NextDay
  <2>1. \A r \in Runs : run'[r].step # "send"
    BY <1>3 DEF NextDay, Idle
  <2>2. UNCHANGED <<claims, mails>>
    BY <1>3 DEF NextDay
  <2> QED
    BY <1>0, <2>1, <2>2 DEF MailInv, Unsent, Apart
<1>4. ASSUME NEW r \in Runs, RunLoad(r) \/ RunRecipients(r) \/ \E u \in Users : RunPlan(r, u)
      PROVE  /\ run'[r].step # "send" /\ \A s \in Runs : s # r => run'[s] = run[s]
             /\ UNCHANGED <<day, claims, mails>>
  <2>1. run'[r].step # "send" /\ \A s \in Runs : s # r => run'[s] = run[s]
    BY <1>4, LoadStep, RecipientsStep, PlanStep
  <2>2. UNCHANGED <<day, claims, mails>>
    BY <1>4 DEF RunLoad, RunRecipients, RunPlan
  <2> QED
    BY <2>1, <2>2
<1>5. ASSUME NEW r \in Runs, RunRefused(r) \/ RunEnd(r)
      PROVE  /\ run'[r].step # "send" /\ \A s \in Runs : s # r => run'[s] = run[s]
             /\ UNCHANGED <<day, claims, mails>>
  BY <1>5, StopStep
<1>6. ASSUME NEW r \in Runs, RunCommit(r)
      PROVE  MailInv'
  <2>1. /\ run'[r].jobs = run[r].jobs /\ \A s \in Runs : s # r => run'[s] = run[s]
        /\ DOMAIN claims' = DOMAIN claims \cup {<<job.user, day>> : job \in run[r].jobs}
        /\ \A job \in run[r].jobs : <<job.user, day>> \notin DOMAIN claims
        /\ mails' = mails /\ day' = day
    BY <1>6, CommitStep, CommitTables
  <2>2. \A job \in run[r].jobs : <<job.user, day>> \in Deliveries
    BY DEF TypeInv, RunRecord, Summary, Deliveries
  <2>3. \A s \in Runs : Unsent(s)'
    BY <1>0, <2>1, <2>2 DEF Unsent
  <2>4. \A s, t \in Runs : s # t => Apart(s, t)'
    <3>1. ASSUME NEW s \in Runs, s # r, run[s].step = "send",
                 NEW j \in run[r].jobs, NEW k \in run[s].jobs
          PROVE  j.user # k.user
      BY <1>0, <2>1, <3>1 DEF Unsent
    <3>2. ASSUME NEW s \in Runs, NEW t \in Runs, s # t, s # r, t # r
          PROVE  Apart(s, t)'
      BY <1>0, <2>1, <3>2 DEF Apart
    <3>3. ASSUME NEW s \in Runs, s # r
          PROVE  Apart(s, r)' /\ Apart(r, s)'
      BY <2>1, <3>1, <3>3 DEF Apart
    <3> QED
      BY <3>2, <3>3
  <2>5. \A d \in Deliveries : mails'[d] <= 1 /\ (d \notin DOMAIN claims' => mails'[d] = 0)
    BY <1>0, <2>1
  <2> QED
    BY <2>3, <2>4, <2>5 DEF MailInv
<1>7. ASSUME NEW r \in Runs, NEW job \in run[r].jobs, RunSend(r, job)
      PROVE  MailInv'
  <2> DEFINE d0 == <<job.user, day>>
  <2>1. /\ run[r].step = "send" /\ run'[r].step = "send" /\ run'[r].jobs = run[r].jobs \ {job}
        /\ \A s \in Runs : s # r => run'[s] = run[s]
        /\ d0 \in Deliveries
    BY <1>7, SendStep
  <2>2. day' = day /\ claims' = claims /\ mails' \in {mails, [mails EXCEPT ![d0] = @ + 1]}
    BY <1>7 DEF RunSend
  <2>3. d0 \in DOMAIN claims /\ mails[d0] = 0
    BY <1>0, <2>1 DEF Unsent
  <2>4. \A j \in run'[r].jobs : j.user # job.user
    BY <2>1 DEF RunInv, PlanKnown
  <2>5. \A s \in Runs : s # r /\ run'[s].step = "send" => \A j \in run'[s].jobs : j.user # job.user
    BY <1>0, <2>1 DEF Apart
  <2>6. \A d \in Deliveries : d # d0 => mails'[d] = mails[d]
    BY <1>0, <2>2
  <2>7. mails'[d0] <= 1
    BY <1>0, <2>1, <2>2, <2>3
  <2> HIDE DEF d0
  <2>8. \A d \in Deliveries : mails'[d] <= 1 /\ (d \notin DOMAIN claims' => mails'[d] = 0)
    BY <1>0, <2>2, <2>3, <2>6, <2>7
  <2>9. \A s \in Runs : Unsent(s)'
    <3> SUFFICES ASSUME NEW s \in Runs, run'[s].step = "send", NEW j \in run'[s].jobs
                 PROVE  <<j.user, day>> \in DOMAIN claims' /\ mails'[<<j.user, day>>] = 0
      BY <2>2 DEF Unsent
    <3>1. j.user # job.user
      BY <2>4, <2>5
    <3>2. j \in run[s].jobs /\ run[s].step = "send"
      BY <2>1
    <3>3. <<j.user, day>> \in Deliveries
      BY <3>2 DEF TypeInv, RunRecord, Summary, Deliveries
    <3>4. <<j.user, day>> # d0
      BY <3>1 DEF d0
    <3> QED
      BY <1>0, <2>2, <2>6, <3>2, <3>3, <3>4 DEF Unsent
  <2>a. \A s, t \in Runs : s # t => Apart(s, t)'
    BY <1>0, <2>1 DEF Apart
  <2> QED
    BY <2>8, <2>9, <2>a DEF MailInv
<1> QED
  BY <1>1, <1>2, <1>3, <1>4, <1>5, <1>6, <1>7 DEF Next, Job, Create, Commit, Rollback, vars

LEMMA NextInv ==
    ASSUME ConstantsAssumption, Inv, [Next]_vars
    PROVE  Inv'
<1>1. TypeInv'
  BY NextType DEF Inv
<1>2. IdInv' /\ ClaimInv'
  BY NextIds, NextClaims DEF Inv
<1>3. RunInv'
  BY NextEvents, NextPlans DEF Inv, RunInv
<1>4. MailInv'
  BY NextMails DEF Inv
<1> QED
  BY <1>1, <1>2, <1>3, <1>4 DEF Inv

\* The inductive invariant holds in every reachable state: it is what each of
\* the properties below follows from.
THEOREM Invariance ==
    ASSUME ConstantsAssumption
    PROVE  Spec => []Inv
<1>1. Init => Inv
  BY InitInv
<1>2. Inv /\ [Next]_vars => Inv'
  BY NextInv
<1> QED
  BY <1>1, <1>2, PTL DEF Spec

\* A user has one summary mail a day, however runs overlap, fail and repeat.
THEOREM OneSummaryMail ==
    ASSUME ConstantsAssumption
    PROVE  Spec => []OneMailPerDay
<1>1. Inv => OneMailPerDay
  BY DEF Inv, MailInv, OneMailPerDay
<1> QED
  BY <1>1, Invariance, PTL

\* An event that leaves the queue was read by a run or is past its retention.
THEOREM LateWait ==
    ASSUME ConstantsAssumption
    PROVE  Spec => LateEventsWait
<1> DEFINE Step == \A i \in DOMAIN queue \ DOMAIN queue' :
                      (\E r \in Runs : i \in run[r].events) \/ queue[i] < day - Retention
<1>1. Inv /\ [Next]_vars => Step
  <2> SUFFICES ASSUME Inv, [Next]_vars PROVE Step
    OBVIOUS
  <2>1. ASSUME NEW r \in Runs, RunCommit(r)
        PROVE  Step
    <3>1. DOMAIN queue' = DOMAIN queue \ Leave(r)
      BY <2>1, CommitTables DEF Inv
    <3>2. run[r].consumed \subseteq run[r].events
      BY <2>1 DEF Inv, RunInv, PlanKnown, RunCommit
    <3> QED
      BY <3>1, <3>2 DEF Leave
  <2>2. ASSUME NEW i \in Ids, Commit(i)
        PROVE  Step
    BY <2>2 DEF Commit, With
  <2>3. CASE UNCHANGED queue
    BY <2>3
  <2> QED
    BY <2>1, <2>2, <2>3
    DEF Next, Job, NextDay, Create, Rollback, RunLoad, RunRecipients, RunPlan, RunRefused, RunSend,
        RunEnd, vars
<1> QED
  BY <1>1, Invariance, PTL DEF Spec, LateEventsWait

-----------------------------------------------------------------------------
\* Every step is a step of the outbox or leaves what it sees alone.
LEMMA BoxStep ==
    ASSUME Inv, [Next]_vars
    PROVE  [Box!Next]_(Box!vars)
<1> DEFINE sent == {d \in Deliveries : mails[d] > 0}
<1>1. CASE UNCHANGED <<queue, left, claims, mails>>
  BY <1>1 DEF Box!vars
<1>2. ASSUME NEW i \in Ids, Commit(i)
      PROVE  Box!Enqueue
  <2>1. i \in DOMAIN open /\ DOMAIN queue' = DOMAIN queue \cup {i} /\ UNCHANGED <<left, claims, mails>>
    BY <1>2 DEF Commit, With
  <2>2. DOMAIN queue' \subseteq Ids \ left
    BY <2>1 DEF Inv, TypeInv, IdInv
  <2> QED
    BY <2>1, <2>2 DEF Box!Enqueue
<1>3. ASSUME NEW r \in Runs, RunCommit(r)
      PROVE  Box!Settle
  <2>1. /\ DOMAIN queue' = DOMAIN queue \ Leave(r) /\ Leave(r) \subseteq DOMAIN queue
        /\ left' = left \cup Leave(r) /\ UNCHANGED <<mails, day>>
        /\ DOMAIN claims \subseteq DOMAIN claims' /\ \A d \in DOMAIN claims : claims'[d] = claims[d]
    BY <1>3, CommitTables DEF Inv
  <2>2. DOMAIN claims' \subseteq Users \X Days
    <3>1. \A job \in run[r].jobs : <<job.user, day>> \in Users \X Days
      BY DEF Inv, TypeInv, RunRecord, Summary
    <3>2. DOMAIN claims' = DOMAIN claims \cup {<<job.user, day>> : job \in run[r].jobs}
      BY <1>3, CommitTables DEF Inv
    <3>3. DOMAIN claims \subseteq Users \X Days
      BY DEF Inv, TypeInv, Deliveries
    <3> QED
      BY <3>1, <3>2, <3>3
  <2>3. ASSUME NEW d \in DOMAIN claims' \ DOMAIN claims
        PROVE  claims'[d] \subseteq {i \in left' \ Box!Counted : OwnerOf[i] = d[1]} /\ d \notin sent
    <3>1. PICK job \in run[r].jobs : d = <<job.user, day>> /\ claims'[d] = job.counted
      BY <1>3, CommitTables DEF Inv
    <3>2. /\ job.counted \subseteq {i \in left' : OwnerOf[i] = job.user}
          /\ \A e \in DOMAIN claims : claims[e] \cap job.counted = {}
      BY <1>3, CountedOnce DEF Inv
    <3>3. job.counted \cap Box!Counted = {}
      BY <3>2 DEF Box!Counted
    <3>4. d \notin sent
      BY DEF Inv, MailInv
    <3> QED
      BY <3>1, <3>2, <3>3, <3>4
  <2>4. UNCHANGED sent
    BY <2>1
  <2>5. left' = left \cup (DOMAIN queue \ DOMAIN queue')
    BY <2>1
  <2> QED
    BY <2>1, <2>2, <2>3, <2>4, <2>5 DEF Box!Settle
<1>4. ASSUME NEW r \in Runs, NEW job \in run[r].jobs, RunSend(r, job)
      PROVE  Box!Send \/ UNCHANGED <<queue, left, claims, mails>>
  <2> DEFINE d0 == <<job.user, day>>
  <2>1. CASE UNCHANGED mails
    BY <1>4, <2>1 DEF RunSend
  <2>2. CASE mails' = [mails EXCEPT ![d0] = @ + 1]
    <3>1. d0 \in DOMAIN claims /\ mails[d0] = 0 /\ d0 \in Deliveries
      BY <1>4, SendStep DEF Inv, MailInv, Unsent
    <3>2. mails \in [Deliveries -> Nat]
      BY DEF Inv, TypeInv
    <3> HIDE DEF d0
    <3>3. d0 \in DOMAIN claims \ sent /\ sent' = sent \cup {d0}
      BY <2>2, <3>1, <3>2 DEF Deliveries
    <3>4. UNCHANGED <<queue, left, claims>>
      BY <1>4 DEF RunSend
    <3> QED
      BY <3>3, <3>4 DEF Box!Send
  <2> QED
    BY <1>4, <2>1, <2>2 DEF RunSend
<1> QED
  BY <1>1, <1>2, <1>3, <1>4
  DEF Next, Job, NextDay, Create, Rollback, RunLoad, RunRecipients, RunPlan, RunRefused, RunEnd, vars,
      Box!Next

\* The queue, the claims and the mails implement the outbox: an event is told
\* of in one summary at most, which is its user's, and never returns.
THEOREM Refinement ==
    ASSUME ConstantsAssumption
    PROVE  Spec => KeepsOutbox
<1>1. Init => Box!Init
  <2>1. ASSUME Init
        PROVE  DOMAIN queue = {} /\ {d \in Deliveries : mails[d] > 0} = {} /\ left = {} /\ claims = <<>>
    BY <2>1 DEF Init
  <2> QED
    BY <2>1 DEF Box!Init
<1>2. Inv /\ [Next]_vars => [Box!Next]_(Box!vars)
  BY BoxStep
<1> QED
  BY <1>1, <1>2, Invariance, PTL DEF Spec, KeepsOutbox, Box!Spec

=============================================================================
