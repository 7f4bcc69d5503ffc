-------------------------- MODULE EscalationsProofs --------------------------
(***************************************************************************)
(* Proofs about Escalations, for every number of findings, of overlapping  *)
(* runs and of days, and for every set of deadlines.                       *)
(***************************************************************************)
EXTENDS Escalations, TLAPS

\* The extreme levels of a set that holds one are in the set.
LEMMA Extremes ==
    ASSUME NEW S \in SUBSET (1..3), S # {}
    PROVE  Max(S) \in S /\ Min(S) \in S
<1>0. PICK z \in S : TRUE
  OBVIOUS
<1>1. \E x \in S : \A y \in S : x >= y
  <2>1. CASE 3 \in S
    BY <2>1
  <2>2. CASE 3 \notin S /\ 2 \in S
    BY <2>2
  <2>3. CASE 3 \notin S /\ 2 \notin S
    <3>1. \A x \in S : x = 1
      BY <2>3
    <3> QED
      BY <3>1, <1>0
  <2> QED
    BY <2>1, <2>2, <2>3
<1>2. \E x \in S : \A y \in S : x <= y
  <2>1. CASE 1 \in S
    BY <2>1
  <2>2. CASE 1 \notin S /\ 2 \in S
    BY <2>2
  <2>3. CASE 1 \notin S /\ 2 \notin S
    <3>1. \A x \in S : x = 3
      BY <2>3
    <3> QED
      BY <3>1, <1>0
  <2> QED
    BY <2>1, <2>2, <2>3
<1> QED
  BY <1>1, <1>2 DEF Max, Min

\* The key of a level that came due, or of one still ahead, is a key.
LEMMA KeyTypes ==
    ASSUME NEW f \in Findings
    PROVE  /\ Triggered(f) # {} => TopKey(f) \in Keys
           /\ Ahead(f) # {} => NextKey(f) \in Keys
<1>1. DOMAIN Deadline[f] \subseteq 1..3
  BY ConstantsAssumption DEF ConstantsAssumption
<1>2. Triggered(f) \in SUBSET (1..3) /\ Ahead(f) \in SUBSET (1..3)
  BY <1>1 DEF Triggered, Ahead
<1> QED
  BY <1>2, Extremes DEF TopKey, NextKey, Keys

\* A run's transaction stays well typed when it looks at a finding, picks or
\* drops a key, or adds a row.
LEMMA TransactionTypes ==
    ASSUME NEW t \in Transaction, NEW f \in Findings, NEW key \in Keys
    PROVE  /\ [t EXCEPT !.todo = @ \ {f}] \in Transaction
           /\ [t EXCEPT !.todo = @ \ {f}, !.key = key] \in Transaction
           /\ [t EXCEPT !.todo = @ \ {f}, !.new = @ \cup {key}] \in Transaction
           /\ [t EXCEPT !.key = NoKey] \in Transaction
           /\ [t EXCEPT !.new = @ \cup {key}, !.key = NoKey] \in Transaction
  BY DEF Transaction

\* Counting a mail keeps every counter in range, and never loses a mail.
LEMMA CountedType ==
    ASSUME NEW mails \in [Keys -> 0..Many], NEW key \in Keys
    PROVE  /\ Counted(mails, key) \in [Keys -> 0..Many]
           /\ Counted(mails, key)[key] > 0
           /\ \A k \in Keys : mails[k] > 0 => Counted(mails, key)[k] > 0
  BY DEF Counted, Many

\* What a load reads is a transaction.
LEMMA LoadType ==
    ASSUME TypeOK
    PROVE  [active |-> TRUE, todo |-> Candidates, keep |-> KeptCVEs,
            key |-> NoKey, new |-> {}] \in Transaction
<1>1. world \in [rows : SUBSET Findings, pinned : SUBSET CVEs,
                 accepted : SUBSET CVEs, suppressed : SUBSET Findings]
  BY ConstantsAssumption DEF TypeOK, ConstantsAssumption
<1>2. Candidates \subseteq Findings
  BY <1>1 DEF Candidates
<1>3. KeptCVEs \subseteq CVEs
  BY <1>1 DEF KeptCVEs, CVEs
<1> QED
  BY <1>2, <1>3 DEF Transaction

\* A commit adds at most one row per key.
LEMMA CommittedType ==
    ASSUME NEW rows \in [Keys -> Nat], NEW r
    PROVE  Committed(rows, r) \in [Keys -> Nat]
<1>1. \A k \in Keys : rows[k] \in Nat /\ rows[k] + 1 \in Nat /\ 0 \in Nat
  OBVIOUS
<1>2. \A k \in Keys : Committed(rows, r)[k] \in {0, rows[k] + 1, rows[k]}
  BY DEF Committed
<1> QED
  BY <1>1, <1>2 DEF Committed

\* The steps of a check and of a warning run.
CheckStep(r) ==
    \/ \E f \in Findings : CheckSkip(r, f) \/ CheckSelect(r, f)
    \/ CheckDuplicate(r)
    \/ CheckInsert(r)
    \/ CheckCommit(r)

WarnStep(r) ==
    \/ \E f \in Findings : \/ WarnSkip(r, f)
                           \/ WarnRaises(r, f)
                           \/ WarnSend(r, f)
                           \/ WarnFails(r, f)
    \/ WarnCommit(r)

\* Every step keeps the types.
LEMMA NextType ==
    ASSUME TypeOK, [Next]_vars
    PROVE  TypeOK'
<1> USE DEF TypeOK
<1>1. Checks \subseteq Jobs /\ Warners \subseteq Jobs
  BY DEF Jobs
<1>2. ASSUME NEW r \in Jobs, NEW t \in Transaction, Update(r, t)
      PROVE  run' \in [Jobs -> Transaction]
  BY <1>2 DEF Update
<1>3. Idle \in Transaction
  BY DEF Idle, Transaction
<1>4. ASSUME NEW r \in Checks, CheckStep(r)
      PROVE  TypeOK'
  <2>1. r \in Jobs /\ run[r] \in Transaction
    BY <1>1
  <2>2. ASSUME NEW f \in Findings, CheckSkip(r, f)
        PROVE  TypeOK'
    <3>1. [run[r] EXCEPT !.todo = @ \ {f}] \in Transaction
      BY <2>1 DEF Transaction
    <3> QED
      BY <1>2, <2>1, <2>2, <3>1 DEF CheckSkip, Pass
  <2>3. ASSUME NEW f \in Findings, CheckSelect(r, f)
        PROVE  TypeOK'
    <3>1. TopKey(f) \in Keys
      BY <2>3, KeyTypes DEF CheckSelect
    <3> QED
      BY <1>2, <2>1, <2>3, <3>1, TransactionTypes DEF CheckSelect
  <2>4. CASE CheckDuplicate(r)
    <3>1. [run[r] EXCEPT !.key = NoKey] \in Transaction
      BY <2>1 DEF Transaction
    <3> QED
      BY <1>2, <2>1, <2>4, <3>1 DEF CheckDuplicate
  <2>5. CASE CheckInsert(r)
    <3>1. run[r].key \in Keys
      BY <2>1, <2>5 DEF CheckInsert, Transaction
    <3>2. [run[r] EXCEPT !.new = @ \cup {run[r].key}, !.key = NoKey] \in Transaction
      BY <2>1, <3>1 DEF Transaction
    <3>3. run' \in [Jobs -> Transaction]
      BY <1>2, <2>1, <2>5, <3>2 DEF CheckInsert, Inserted
    <3>4. escalationMails' \in [Keys -> 0..Many]
      BY <2>5, <3>1, CountedType DEF CheckInsert, Inserted
    <3> QED
      BY <2>5, <3>3, <3>4 DEF CheckInsert, Inserted
  <2>6. CASE CheckCommit(r)
    BY <1>2, <1>3, <2>1, <2>6, CommittedType DEF CheckCommit
  <2> QED
    BY <1>4, <2>2, <2>3, <2>4, <2>5, <2>6 DEF CheckStep
<1>5. ASSUME NEW r \in Warners, WarnStep(r)
      PROVE  TypeOK'
  <2>1. r \in Jobs /\ run[r] \in Transaction
    BY <1>1
  <2>2. ASSUME NEW f \in Findings, WarnSkip(r, f) \/ WarnFails(r, f)
        PROVE  TypeOK'
    <3>1. [run[r] EXCEPT !.todo = @ \ {f}] \in Transaction
      BY <2>1 DEF Transaction
    <3> QED
      BY <1>2, <2>1, <2>2, <3>1 DEF WarnSkip, WarnFails, Pass
  <2>3. ASSUME NEW f \in Findings, WarnRaises(r, f)
        PROVE  TypeOK'
    BY <1>2, <1>3, <2>1, <2>3 DEF WarnRaises
  <2>4. ASSUME NEW f \in Findings, WarnSend(r, f)
        PROVE  TypeOK'
    <3>1. NextKey(f) \in Keys
      BY <2>4, KeyTypes DEF WarnSend, ToWarn, InWindow
    <3>2. run' \in [Jobs -> Transaction]
      BY <1>2, <2>1, <2>4, <3>1, TransactionTypes DEF WarnSend
    <3>3. warningMails' \in [Keys -> 0..Many]
      BY <2>4, <3>1, CountedType DEF WarnSend
    <3> QED
      BY <2>4, <3>2, <3>3 DEF WarnSend
  <2>5. CASE WarnCommit(r)
    BY <1>2, <1>3, <2>1, <2>5, CommittedType DEF WarnCommit
  <2> QED
    BY <1>5, <2>2, <2>3, <2>4, <2>5 DEF WarnStep
<1>6. ASSUME NEW r \in Jobs, Load(r) \/ Abort(r)
      PROVE  TypeOK'
  BY <1>2, <1>3, <1>6, LoadType DEF Load, Abort
<1>7. CASE WorldChanges
  BY <1>7 DEF WorldChanges
<1>8. CASE Tick
  BY <1>8, ConstantsAssumption DEF Tick, ConstantsAssumption
<1>9. CASE UNCHANGED vars
  BY <1>9 DEF vars
<1> QED
  BY <1>4, <1>5, <1>6, <1>7, <1>8, <1>9 DEF Next, CheckStep, WarnStep

\* Every reachable state of the tables, the runs and the mailbox is well typed.
THEOREM TypeCorrect == Spec => []TypeOK
<1>1. Init => TypeOK
  BY ConstantsAssumption
     DEF Init, TypeOK, Idle, Transaction, Many, ConstantsAssumption
<1>2. TypeOK /\ [Next]_vars => TypeOK'
  BY NextType
<1> QED
  BY <1>1, <1>2, PTL DEF Spec

-----------------------------------------------------------------------------
\* A row a check holds uncommitted is neither stored nor held by another one.
HeldAlone ==
    \A r \in Checks : \A k \in run[r].new :
        /\ escalations[k] = 0
        /\ \A other \in Checks \ {r} : k \notin run[other].new

UniqueInv == EscalationUnique /\ HeldAlone

\* A step that changes neither the table nor what the checks hold keeps both.
LEMMA HeldUnchanged ==
    ASSUME TypeOK, UniqueInv, escalations' = escalations,
           \A r \in Checks : run'[r].new \subseteq run[r].new
    PROVE  UniqueInv'
  BY DEF UniqueInv, EscalationUnique, HeldAlone

\* An update that adds no row to its transaction adds none to any.
LEMMA UpdateHolds ==
    ASSUME TypeOK, NEW r \in Jobs, NEW t, Update(r, t), t.new \subseteq run[r].new
    PROVE  \A j \in Jobs : run'[j].new \subseteq run[j].new
  BY DEF Update, TypeOK

\* The unique constraint keeps a key to one transaction at a time.
LEMMA InsertUnique ==
    ASSUME TypeOK, UniqueInv, NEW r \in Checks, CheckInsert(r)
    PROVE  UniqueInv'
<1> DEFINE key == run[r].key
<1>1. r \in Jobs /\ run[r] \in Transaction
  BY DEF TypeOK, Jobs
<1>2. key \in Keys
  BY <1>1 DEF CheckInsert, Transaction
<1>3. run'[r].new = run[r].new \cup {key}
  BY <1>1 DEF CheckInsert, Inserted, Update, TypeOK, Transaction
<1>4. \A other \in Checks \ {r} : run'[other].new = run[other].new
  BY <1>1 DEF CheckInsert, Inserted, Update, TypeOK, Jobs
<1>5. escalations' = escalations
  BY DEF CheckInsert, Inserted
<1>6. escalations[key] = 0 /\ \A other \in Checks \ {r} : key \notin run[other].new
  BY DEF CheckInsert, KeyIsFree
<1>7. HeldAlone'
  <2>1. ASSUME NEW c \in Checks, NEW k \in run'[c].new
        PROVE  /\ escalations'[k] = 0
               /\ \A other \in Checks \ {c} : k \notin run'[other].new
    <3>1. CASE c = r /\ k = key
      BY <1>4, <1>5, <1>6, <3>1
    <3>2. CASE c = r /\ k # key
      BY <1>3, <1>4, <1>5, <2>1, <3>2 DEF UniqueInv, HeldAlone
    <3>3. CASE c # r
      BY <1>3, <1>4, <1>5, <1>6, <2>1, <3>3 DEF UniqueInv, HeldAlone
    <3> QED
      BY <3>1, <3>2, <3>3
  <2> QED
    BY <2>1 DEF HeldAlone
<1> QED
  BY <1>5, <1>7 DEF UniqueInv, EscalationUnique

\* A commit stores rows that were not stored and that nobody else holds.
LEMMA CommitUnique ==
    ASSUME TypeOK, UniqueInv, NEW r \in Checks, CheckCommit(r)
    PROVE  UniqueInv'
<1>1. r \in Jobs /\ run[r] \in Transaction
  BY DEF TypeOK, Jobs
<1>2. run'[r].new = {}
  BY <1>1 DEF CheckCommit, Update, TypeOK, Idle
<1>3. \A other \in Checks \ {r} : run'[other].new = run[other].new
  BY <1>1 DEF CheckCommit, Update, TypeOK, Jobs
<1>4. ASSUME NEW k \in Keys
      PROVE  /\ k \in run[r].new => escalations'[k] \in {0, 1}
             /\ k \notin run[r].new => escalations'[k] \in {0, escalations[k]}
  <2>1. escalations'[k] = (CASE CveOf[k[1]] \notin run[r].keep -> 0
                             [] k \in run[r].new -> escalations[k] + 1
                             [] OTHER -> escalations[k])
    BY DEF CheckCommit, Committed
  <2>2. k \in run[r].new => escalations[k] = 0
    BY DEF UniqueInv, HeldAlone
  <2> QED
    BY <2>1, <2>2
<1>5. EscalationUnique'
  BY <1>4 DEF UniqueInv, EscalationUnique, TypeOK
<1>6. HeldAlone'
  <2>1. ASSUME NEW c \in Checks, NEW k \in run'[c].new
        PROVE  /\ escalations'[k] = 0
               /\ \A other \in Checks \ {c} : k \notin run'[other].new
    <3>1. c # r /\ k \in run[c].new
      BY <1>2, <1>3, <2>1
    <3>2. k \in Keys
      BY <3>1 DEF TypeOK, Jobs, Transaction
    <3>3. escalations[k] = 0 /\ \A other \in Checks \ {c} : k \notin run[other].new
      BY <3>1 DEF UniqueInv, HeldAlone
    <3> QED
      BY <1>2, <1>3, <1>4, <3>1, <3>2, <3>3
  <2> QED
    BY <2>1 DEF HeldAlone
<1> QED
  BY <1>5, <1>6 DEF UniqueInv

\* However runs of the check overlap, fail and clear rows, a finding has at
\* most one stored escalation per level.
THEOREM UniqueEscalations == Spec => []EscalationUnique
<1>1. Init => UniqueInv
  BY DEF Init, UniqueInv, EscalationUnique, HeldAlone, Idle, Jobs
<1>2. ASSUME TypeOK, UniqueInv, [Next]_vars
      PROVE  UniqueInv'
  <2>1. Checks \subseteq Jobs /\ Warners \subseteq Jobs
    BY DEF Jobs
  <2>2. ASSUME NEW r \in Jobs, NEW t, Update(r, t), t.new \subseteq run[r].new,
               escalations' = escalations
        PROVE  UniqueInv'
    BY <1>2, <2>1, <2>2, UpdateHolds, HeldUnchanged
  <2>3. ASSUME NEW r \in Jobs
        PROVE  run[r] \in Transaction
    BY <1>2 DEF TypeOK
  <2>4. Idle.new = {}
    BY DEF Idle
  <2>5. ASSUME NEW r \in Checks, NEW f \in Findings, CheckSkip(r, f) \/ CheckSelect(r, f)
        PROVE  UniqueInv'
    <3>1. [run[r] EXCEPT !.todo = @ \ {f}].new = run[r].new
      BY <2>1, <2>3 DEF Transaction
    <3>2. [run[r] EXCEPT !.todo = @ \ {f}, !.key = TopKey(f)].new = run[r].new
      BY <2>1, <2>3 DEF Transaction
    <3> QED
      BY <2>1, <2>2, <2>5, <3>1, <3>2 DEF CheckSkip, CheckSelect, Pass
  <2>6. ASSUME NEW r \in Checks, CheckDuplicate(r)
        PROVE  UniqueInv'
    <3>1. [run[r] EXCEPT !.key = NoKey].new = run[r].new
      BY <2>1, <2>3 DEF Transaction
    <3> QED
      BY <2>1, <2>2, <2>6, <3>1 DEF CheckDuplicate
  <2>7. ASSUME NEW r \in Warners, WarnStep(r)
        PROVE  UniqueInv'
    <3>1. escalations' = escalations
      BY <2>7 DEF WarnStep, WarnSkip, WarnRaises, WarnSend, WarnFails, WarnCommit
    <3>2. \E t : Update(r, t)
      BY <2>7 DEF WarnStep, WarnSkip, WarnRaises, WarnSend, WarnFails, WarnCommit, Pass
    <3>3. \A c \in Checks : run'[c] = run[c]
      BY <1>2, <2>1, <3>2, ConstantsAssumption DEF Update, TypeOK, ConstantsAssumption
    <3> QED
      BY <1>2, <3>1, <3>3, HeldUnchanged
  <2>8. ASSUME NEW r \in Jobs, Load(r) \/ Abort(r)
        PROVE  UniqueInv'
    <3>1. [active |-> TRUE, todo |-> Candidates, keep |-> KeptCVEs,
           key |-> NoKey, new |-> {}].new = {}
      OBVIOUS
    <3> QED
      BY <2>2, <2>4, <2>8, <3>1 DEF Load, Abort
  <2>9. CASE WorldChanges \/ Tick \/ UNCHANGED vars
    BY <1>2, <2>9, HeldUnchanged DEF WorldChanges, Tick, vars
  <2> QED
    BY <1>2, <2>5, <2>6, <2>7, <2>8, <2>9, InsertUnique, CommitUnique
       DEF Next, CheckStep, WarnStep
<1>3. UniqueInv => EscalationUnique
  BY DEF UniqueInv
<1> QED
  BY <1>1, <1>2, <1>3, TypeCorrect, PTL DEF Spec

-----------------------------------------------------------------------------
\* A warning about to be stored was mailed, if there was anyone to mail it to.
PendingWasMailed ==
    \A r \in Warners : \A k \in run[r].new : k[1] \in Contacts => warningMails[k] > 0

MailedInv == WarnedWasMailed /\ PendingWasMailed

\* A step that stores no warning, holds none more and loses no mail keeps both.
LEMMA MailedUnchanged ==
    ASSUME TypeOK, MailedInv, warnings' = warnings,
           \A k \in Keys : warningMails[k] > 0 => warningMails'[k] > 0,
           \A r \in Warners : run'[r].new \subseteq run[r].new
    PROVE  MailedInv'
<1>1. \A r \in Warners : run[r].new \subseteq Keys
  BY DEF TypeOK, Jobs, Transaction
<1> QED
  BY <1>1 DEF MailedInv, WarnedWasMailed, PendingWasMailed

\* A warning joins the transaction after its mail.
LEMMA SendMails ==
    ASSUME TypeOK, MailedInv, NEW r \in Warners, NEW f \in Findings, WarnSend(r, f)
    PROVE  MailedInv'
<1> DEFINE key == NextKey(f)
<1>1. r \in Jobs /\ run[r] \in Transaction
  BY DEF TypeOK, Jobs
<1>2. key \in Keys /\ key[1] = f
  BY KeyTypes DEF WarnSend, ToWarn, InWindow, NextKey
<1>3. run'[r].new = run[r].new \cup {key}
  BY <1>1 DEF WarnSend, Update, TypeOK, Transaction
<1>4. \A other \in Warners \ {r} : run'[other].new = run[other].new
  BY <1>1 DEF WarnSend, Update, TypeOK, Jobs
<1>5. \A k \in Keys : warningMails[k] > 0 => warningMails'[k] > 0
  BY <1>2, CountedType DEF WarnSend, TypeOK
<1>6. f \in Contacts => warningMails'[key] > 0
  BY <1>2, CountedType DEF WarnSend, TypeOK
<1>7. WarnedWasMailed'
  BY <1>5 DEF WarnSend, MailedInv, WarnedWasMailed
<1>8. PendingWasMailed'
  <2>1. ASSUME NEW w \in Warners, NEW k \in run'[w].new, k[1] \in Contacts
        PROVE  warningMails'[k] > 0
    <3>1. CASE k = key
      BY <1>2, <1>6, <2>1, <3>1
    <3>2. CASE k # key
      <4>1. k \in run[w].new
        BY <1>3, <1>4, <2>1, <3>2
      <4>2. k \in Keys
        BY <4>1 DEF TypeOK, Jobs, Transaction
      <4> QED
        BY <1>5, <2>1, <4>1, <4>2 DEF MailedInv, PendingWasMailed
    <3> QED
      BY <3>1, <3>2
  <2> QED
    BY <2>1 DEF PendingWasMailed
<1> QED
  BY <1>7, <1>8 DEF MailedInv

\* What a commit stores was pending, hence mailed.
LEMMA CommitMailed ==
    ASSUME TypeOK, MailedInv, NEW r \in Warners, WarnCommit(r)
    PROVE  MailedInv'
<1>1. r \in Jobs /\ run[r] \in Transaction
  BY DEF TypeOK, Jobs
<1>2. \A w \in Warners : run'[w].new \subseteq run[w].new
  BY <1>1 DEF WarnCommit, Update, TypeOK, Idle, Jobs
<1>3. warningMails' = warningMails
  BY DEF WarnCommit
<1>4. ASSUME NEW k \in Keys, k[1] \in Contacts, warnings'[k] > 0
      PROVE  warningMails[k] > 0
  <2>1. warnings'[k] = (CASE CveOf[k[1]] \notin run[r].keep -> 0
                          [] k \in run[r].new -> warnings[k] + 1
                          [] OTHER -> warnings[k])
    BY DEF WarnCommit, Committed
  <2>2. k \in run[r].new \/ warnings[k] > 0
    BY <1>4, <2>1
  <2> QED
    BY <1>4, <2>2 DEF MailedInv, WarnedWasMailed, PendingWasMailed
<1>5. WarnedWasMailed'
  BY <1>3, <1>4 DEF WarnedWasMailed
<1>6. PendingWasMailed'
  BY <1>2, <1>3 DEF MailedInv, PendingWasMailed
<1> QED
  BY <1>5, <1>6 DEF MailedInv

\* Whatever fails, crashes or overlaps, a stored warning of a finding with a
\* contact was mailed at least once.
THEOREM WarningsAreMailed == Spec => []WarnedWasMailed
<1>1. Init => MailedInv
  BY DEF Init, MailedInv, WarnedWasMailed, PendingWasMailed, Idle, Jobs
<1>2. ASSUME TypeOK, MailedInv, [Next]_vars
      PROVE  MailedInv'
  <2>1. Checks \subseteq Jobs /\ Warners \subseteq Jobs
    BY DEF Jobs
  <2>2. ASSUME NEW r \in Jobs, NEW t, Update(r, t), t.new \subseteq run[r].new,
               warnings' = warnings, warningMails' = warningMails
        PROVE  MailedInv'
    BY <1>2, <2>1, <2>2, UpdateHolds, MailedUnchanged
  <2>3. ASSUME NEW r \in Jobs
        PROVE  run[r] \in Transaction
    BY <1>2 DEF TypeOK
  <2>4. Idle.new = {}
    BY DEF Idle
  <2>5. ASSUME NEW r \in Warners, NEW f \in Findings, WarnSkip(r, f) \/ WarnFails(r, f)
        PROVE  MailedInv'
    <3>1. [run[r] EXCEPT !.todo = @ \ {f}].new = run[r].new
      BY <2>1, <2>3 DEF Transaction
    <3> QED
      BY <2>1, <2>2, <2>5, <3>1 DEF WarnSkip, WarnFails, Pass
  <2>6. ASSUME NEW r \in Warners, NEW f \in Findings, WarnRaises(r, f)
        PROVE  MailedInv'
    BY <2>1, <2>2, <2>4, <2>6 DEF WarnRaises
  <2>7. ASSUME NEW r \in Checks, CheckStep(r)
        PROVE  MailedInv'
    <3>1. warnings' = warnings /\ warningMails' = warningMails
      BY <2>7 DEF CheckStep, CheckSkip, CheckSelect, CheckDuplicate, CheckInsert,
                  Inserted, CheckCommit
    <3>2. \E t : Update(r, t)
      BY <2>7 DEF CheckStep, CheckSkip, CheckSelect, CheckDuplicate, CheckInsert,
                  Inserted, CheckCommit, Pass
    <3>3. \A w \in Warners : run'[w] = run[w]
      BY <1>2, <2>1, <3>2, ConstantsAssumption DEF Update, TypeOK, ConstantsAssumption
    <3> QED
      BY <1>2, <3>1, <3>3, MailedUnchanged
  <2>8. ASSUME NEW r \in Jobs, Load(r) \/ Abort(r)
        PROVE  MailedInv'
    <3>1. [active |-> TRUE, todo |-> Candidates, keep |-> KeptCVEs,
           key |-> NoKey, new |-> {}].new = {}
      OBVIOUS
    <3> QED
      BY <2>2, <2>4, <2>8, <3>1 DEF Load, Abort
  <2>9. CASE WorldChanges \/ Tick \/ UNCHANGED vars
    BY <1>2, <2>9, MailedUnchanged DEF WorldChanges, Tick, vars
  <2> QED
    BY <1>2, <2>5, <2>6, <2>7, <2>8, <2>9, SendMails, CommitMailed
       DEF Next, CheckStep, WarnStep
<1>3. MailedInv => WarnedWasMailed
  BY DEF MailedInv
<1> QED
  BY <1>1, <1>2, <1>3, TypeCorrect, PTL DEF Spec

-----------------------------------------------------------------------------
\* The docs ask for one worker, which runs one warning job at a time.
OneWarner == \A v, w \in Warners : v = w

\* A warning about to be stored is not stored: no other run adds it meanwhile.
PendingIsNew == \A r \in Warners : \A k \in run[r].new : warnings[k] = 0

StoredOnceInv == WarningUnique /\ PendingIsNew

\* A step that stores no warning and holds none more keeps both.
LEMMA StoredUnchanged ==
    ASSUME TypeOK, StoredOnceInv, warnings' = warnings,
           \A r \in Warners : run'[r].new \subseteq run[r].new
    PROVE  StoredOnceInv'
  BY DEF StoredOnceInv, WarningUnique, PendingIsNew

\* A warning is sent when its row is not there: with more than one there the
\* run has ended, with one there it has passed on.
LEMMA SendIsNew ==
    ASSUME TypeOK, StoredOnceInv, NEW r \in Warners, NEW f \in Findings, WarnSend(r, f)
    PROVE  StoredOnceInv'
<1> DEFINE key == NextKey(f)
<1>1. r \in Jobs /\ run[r] \in Transaction
  BY DEF TypeOK, Jobs
<1>2. key \in Keys
  BY KeyTypes DEF WarnSend, ToWarn, InWindow
<1>3. run'[r].new = run[r].new \cup {key}
  BY <1>1 DEF WarnSend, Update, TypeOK, Transaction
<1>4. \A other \in Warners \ {r} : run'[other].new = run[other].new
  BY <1>1 DEF WarnSend, Update, TypeOK, Jobs
<1>5. warnings' = warnings /\ warnings[key] # 1
  BY DEF WarnSend, ToWarn, Warned
<1>6. warnings[key] = 0
  BY <1>2, <1>5 DEF StoredOnceInv, WarningUnique, TypeOK
<1>7. PendingIsNew'
  BY <1>3, <1>4, <1>5, <1>6 DEF StoredOnceInv, PendingIsNew
<1> QED
  BY <1>5, <1>7 DEF StoredOnceInv, WarningUnique

\* A commit stores what was not stored; nobody else has anything pending.
LEMMA CommitOfOne ==
    ASSUME TypeOK, OneWarner, StoredOnceInv, NEW r \in Warners, WarnCommit(r)
    PROVE  StoredOnceInv'
<1>1. r \in Jobs /\ run[r] \in Transaction
  BY DEF TypeOK, Jobs
<1>2. run'[r].new = {}
  BY <1>1 DEF WarnCommit, Update, TypeOK, Idle
<1>3. ASSUME NEW k \in Keys
      PROVE  warnings'[k] <= 1
  <2>1. warnings'[k] = (CASE CveOf[k[1]] \notin run[r].keep -> 0
                          [] k \in run[r].new -> warnings[k] + 1
                          [] OTHER -> warnings[k])
    BY DEF WarnCommit, Committed
  <2>2. warnings[k] \in Nat /\ warnings[k] <= 1 /\ (k \in run[r].new => warnings[k] = 0)
    BY DEF StoredOnceInv, WarningUnique, PendingIsNew, TypeOK
  <2> QED
    BY <2>1, <2>2
<1>4. PendingIsNew'
  BY <1>2 DEF OneWarner, PendingIsNew
<1> QED
  BY <1>3, <1>4 DEF StoredOnceInv, WarningUnique

\* Where one worker runs the warnings, whatever runs of the check overlap with
\* it, fail or crash, a warning has one row: the job never raises on a second.
THEOREM OneWarningStored ==
    ASSUME OneWarner
    PROVE  Spec => []WarningUnique
<1>1. Init => StoredOnceInv
  BY DEF Init, StoredOnceInv, WarningUnique, PendingIsNew, Idle, Jobs
<1>2. ASSUME TypeOK, StoredOnceInv, [Next]_vars
      PROVE  StoredOnceInv'
  <2>1. Checks \subseteq Jobs /\ Warners \subseteq Jobs
    BY DEF Jobs
  <2>2. ASSUME NEW r \in Jobs, NEW t, Update(r, t), t.new \subseteq run[r].new,
               warnings' = warnings
        PROVE  StoredOnceInv'
    BY <1>2, <2>1, <2>2, UpdateHolds, StoredUnchanged
  <2>3. ASSUME NEW r \in Jobs
        PROVE  run[r] \in Transaction
    BY <1>2 DEF TypeOK
  <2>4. Idle.new = {}
    BY DEF Idle
  <2>5. ASSUME NEW r \in Warners, NEW f \in Findings, WarnSkip(r, f) \/ WarnFails(r, f)
        PROVE  StoredOnceInv'
    <3>1. [run[r] EXCEPT !.todo = @ \ {f}].new = run[r].new
      BY <2>1, <2>3 DEF Transaction
    <3> QED
      BY <2>1, <2>2, <2>5, <3>1 DEF WarnSkip, WarnFails, Pass
  <2>6. ASSUME NEW r \in Warners, NEW f \in Findings, WarnRaises(r, f)
        PROVE  StoredOnceInv'
    BY <2>1, <2>2, <2>4, <2>6 DEF WarnRaises
  <2>7. ASSUME NEW r \in Checks, CheckStep(r)
        PROVE  StoredOnceInv'
    <3>1. warnings' = warnings
      BY <2>7 DEF CheckStep, CheckSkip, CheckSelect, CheckDuplicate, CheckInsert,
                  Inserted, CheckCommit
    <3>2. \E t : Update(r, t)
      BY <2>7 DEF CheckStep, CheckSkip, CheckSelect, CheckDuplicate, CheckInsert,
                  Inserted, CheckCommit, Pass
    <3>3. \A w \in Warners : run'[w] = run[w]
      BY <1>2, <2>1, <3>2, ConstantsAssumption DEF Update, TypeOK, ConstantsAssumption
    <3> QED
      BY <1>2, <3>1, <3>3, StoredUnchanged
  <2>8. ASSUME NEW r \in Jobs, Load(r) \/ Abort(r)
        PROVE  StoredOnceInv'
    <3>1. [active |-> TRUE, todo |-> Candidates, keep |-> KeptCVEs,
           key |-> NoKey, new |-> {}].new = {}
      OBVIOUS
    <3> QED
      BY <2>2, <2>4, <2>8, <3>1 DEF Load, Abort
  <2>9. CASE WorldChanges \/ Tick \/ UNCHANGED vars
    BY <1>2, <2>9, StoredUnchanged DEF WorldChanges, Tick, vars
  <2> QED
    BY <1>2, <2>5, <2>6, <2>7, <2>8, <2>9, SendIsNew, CommitOfOne
       DEF Next, CheckStep, WarnStep
<1>3. StoredOnceInv => WarningUnique
  BY DEF StoredOnceInv
<1> QED
  BY <1>1, <1>2, <1>3, TypeCorrect, PTL DEF Spec

=============================================================================
