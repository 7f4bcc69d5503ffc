------------------------ MODULE RiskAcceptancesProofs ------------------------
(***************************************************************************)
(* Proofs about RiskAcceptances, for every value of its constants.         *)
(***************************************************************************)
EXTENDS RiskAcceptances, TLAPS

Request == {Idle} \cup InsertRequest \cup WriteRequest \cup CancelRequest

\* The operation of a request tells what else the request holds.
LEMMA RequestKinds ==
    ASSUME NEW request \in Request
    PROVE  /\ request.op \in {"create", "import"} => request \in InsertRequest
           /\ request.op \in {"update", "review", "assign"} => request \in WriteRequest
           /\ request.op = "cancel" => request \in CancelRequest
           /\ request.op = "idle" => request = Idle
  BY DEF Request, Idle, InsertRequest, WriteRequest, CancelRequest

\* A flush keeps every column within the values the loaded, the assigned and
\* the stored row had.
LEMMA MergeType ==
    ASSUME NEW stored \in Row, NEW loaded \in Row, NEW new \in Row
    PROVE  Merge(stored, loaded, new) \in Row
  BY DEF Merge, Row, Written

\* A submission is approved on the spot or requested.
LEMMA StatusType ==
    ASSUME NEW scope
    PROVE  SubmittedStatus(scope) \in RiskStatus
  BY DEF SubmittedStatus, RiskStatus

\* What a create or an import inserts is a row.
LEMMA NewRowType ==
    ASSUME NEW c \in Clients, NEW cve \in CVEs, NEW scope \in Scopes,
           NEW status \in RiskStatus, NEW expires_at \in Dates
    PROVE  NewRow(c, cve, scope, status, expires_at) \in Row
  BY DEF NewRow, Row, Users

\* What an update assigns is a row.
LEMMA ResubmittedType ==
    ASSUME NEW row \in Row, NEW scope \in Scopes, NEW expires_at \in Dates
    PROVE  Resubmitted(row, scope, expires_at) \in Row
  BY StatusType DEF Resubmitted, Row

\* What a review assigns is a row.
LEMMA ReviewedType ==
    ASSUME NEW row \in Row, NEW verdict \in {"approved", "rejected"},
           NEW reviewer \in SecUsers
    PROVE  Reviewed(row, verdict, reviewer) \in Row
  BY DEF Reviewed, Row, RiskStatus

\* The steps of a request that do not commit.
Reads(c) ==
    \/ CreateCheck(c)
    \/ ImportItem(c)
    \/ \E ra \in Acceptances : \/ UpdateLoad(c, ra)
                               \/ ReviewLoad(c, ra)
                               \/ AssignLoad(c, ra)
                               \/ CancelLoad(c, ra)
    \/ UpdateCheck(c)

\* Whatever a handler reads and assigns, its request is well typed and nothing
\* is stored yet.
LEMMA ReadsType ==
    ASSUME TypeOK, NEW c \in Clients, Reads(c)
    PROVE  /\ req' \in [Clients -> Request]
           /\ \E request \in Request : req' = [req EXCEPT ![c] = request]
           /\ UNCHANGED <<table, used, job, now, overtaken>>
<1> USE DEF TypeOK, Request
<1>1. req \in [Clients -> Request]
  OBVIOUS
<1>2. SUFFICES /\ \E request \in Request : req' = [req EXCEPT ![c] = request]
               /\ UNCHANGED <<table, used, job, now, overtaken>>
  BY <1>1
<1>3. CASE CreateCheck(c)
  <2>1. PICK cve \in CVEs, scope \in Scopes, expires_at \in Dates :
            Begin(c, [op |-> "create",
                      rows |-> {NewRow(c, cve, scope, SubmittedStatus(scope), expires_at)}])
    BY <1>3 DEF CreateCheck
  <2>2. NewRow(c, cve, scope, SubmittedStatus(scope), expires_at) \in Row
    BY StatusType, NewRowType
  <2> QED
    BY <2>1, <2>2 DEF Begin, InsertRequest
<1>4. CASE ImportItem(c)
  <2>1. PICK cve \in CVEs, scope \in ImportScopes, expires_at \in Dates :
            LET row == NewRow(c, cve, scope, "requested", expires_at)
                earlier == IF req[c] = Idle THEN {} ELSE req[c].rows IN
            /\ req[c] = Idle \/ req[c].op = "import"
            /\ req' = [req EXCEPT ![c] = [op |-> "import", rows |-> earlier \cup {row}]]
            /\ UNCHANGED <<table, used, job, now, overtaken>>
    BY <1>4 DEF ImportItem
  <2>2. NewRow(c, cve, scope, "requested", expires_at) \in Row
    BY NewRowType, ConstantsAssumption DEF ConstantsAssumption, RiskStatus
  <2>3. req[c] # Idle => req[c] \in InsertRequest
    BY <1>1, <2>1, RequestKinds
  <2>4. (IF req[c] = Idle THEN {} ELSE req[c].rows) \in SUBSET Row
    BY <2>3 DEF InsertRequest
  <2> QED
    BY <2>1, <2>2, <2>4 DEF InsertRequest
<1>5. ASSUME NEW ra \in Acceptances, UpdateLoad(c, ra)
      PROVE  /\ \E request \in Request : req' = [req EXCEPT ![c] = request]
             /\ UNCHANGED <<table, used, job, now, overtaken>>
  <2>1. PICK scope \in Scopes, expires_at \in Dates :
            Begin(c, [op |-> "update", ra |-> ra, loaded |-> table[ra],
                      new |-> Resubmitted(table[ra], scope, expires_at),
                      checked |-> FALSE])
    BY <1>5 DEF UpdateLoad
  <2>2. table[ra] \in Row
    BY <1>5 DEF UpdateLoad
  <2>3. Resubmitted(table[ra], scope, expires_at) \in Row
    BY <2>2, ResubmittedType
  <2> QED
    BY <2>1, <2>2, <2>3 DEF Begin, WriteRequest
<1>6. ASSUME NEW ra \in Acceptances, ReviewLoad(c, ra)
      PROVE  /\ \E request \in Request : req' = [req EXCEPT ![c] = request]
             /\ UNCHANGED <<table, used, job, now, overtaken>>
  <2>1. PICK verdict \in {"approved", "rejected"} :
            Begin(c, [op |-> "review", ra |-> ra, loaded |-> table[ra],
                      new |-> Reviewed(table[ra], verdict, UserOf[c]),
                      checked |-> TRUE])
    BY <1>6 DEF ReviewLoad
  <2>2. table[ra] \in Row /\ UserOf[c] \in SecUsers
    BY <1>6 DEF ReviewLoad, IsSec
  <2>3. Reviewed(table[ra], verdict, UserOf[c]) \in Row
    BY <2>2, ReviewedType
  <2> QED
    BY <2>1, <2>2, <2>3 DEF Begin, WriteRequest
<1>7. ASSUME NEW ra \in Acceptances, AssignLoad(c, ra)
      PROVE  /\ \E request \in Request : req' = [req EXCEPT ![c] = request]
             /\ UNCHANGED <<table, used, job, now, overtaken>>
  <2>1. PICK assignee \in SecUsers :
            Begin(c, [op |-> "assign", ra |-> ra, loaded |-> table[ra],
                      new |-> [table[ra] EXCEPT !.assigned_to = assignee],
                      checked |-> TRUE])
    BY <1>7 DEF AssignLoad, Assignees
  <2>2. table[ra] \in Row
    BY <1>7 DEF AssignLoad
  <2>3. [table[ra] EXCEPT !.assigned_to = assignee] \in Row
    BY <2>2 DEF Row
  <2> QED
    BY <2>1, <2>2, <2>3 DEF Begin, WriteRequest
<1>8. ASSUME NEW ra \in Acceptances, CancelLoad(c, ra)
      PROVE  /\ \E request \in Request : req' = [req EXCEPT ![c] = request]
             /\ UNCHANGED <<table, used, job, now, overtaken>>
  BY <1>8 DEF CancelLoad, Begin, CancelRequest
<1>9. CASE UpdateCheck(c)
  <2>1. req[c] \in WriteRequest
    BY <1>1, <1>9, RequestKinds DEF UpdateCheck
  <2>2. [req[c] EXCEPT !.checked = TRUE] \in WriteRequest
    BY <2>1 DEF WriteRequest
  <2> QED
    BY <1>9, <2>2 DEF UpdateCheck
<1> QED
  BY <1>3, <1>4, <1>5, <1>6, <1>7, <1>8, <1>9 DEF Reads

\* What a write in flight stores is a row.
LEMMA MergedType ==
    ASSUME TypeOK, NEW c \in Clients, IsWrite(c), req[c].ra \in DOMAIN table
    PROVE  /\ req[c] \in WriteRequest
           /\ Merged(c) \in Row
<1>1. req[c] \in Request
  BY DEF TypeOK, Request
<1>2. req[c] \in WriteRequest
  BY <1>1, RequestKinds DEF IsWrite
<1>3. table[req[c].ra] \in Row
  BY DEF TypeOK
<1> QED
  BY <1>2, <1>3, MergeType DEF Merged, WriteRequest

\* The rows an insert adds are the ones its request held, under fresh keys.
LEMMA InsertType ==
    ASSUME TypeOK, NEW c \in Clients, InsertCommit(c)
    PROVE  TypeOK'
<1>0. PICK ids \in SUBSET (Acceptances \ used) :
      \E stored \in Bijection(ids, req[c].rows) :
          /\ table' = [r \in DOMAIN table \cup ids |->
                           IF r \in ids THEN stored[r] ELSE table[r]]
          /\ used' = used \cup ids
  BY DEF InsertCommit
<1>1. PICK stored \in Bijection(ids, req[c].rows) :
          /\ table' = [r \in DOMAIN table \cup ids |->
                           IF r \in ids THEN stored[r] ELSE table[r]]
          /\ used' = used \cup ids
  BY <1>0
<1>2. req[c] \in Request
  BY DEF TypeOK, Request
<1>3. req[c].rows \subseteq Row
  BY <1>2, RequestKinds DEF InsertCommit, InsertRequest
<1>4. \A r \in ids : stored[r] \in Row
  BY <1>1, <1>3 DEF Bijection, Injection
<1> QED
  BY <1>1, <1>4 DEF InsertCommit, Done, TypeOK

\* Type correctness is preserved by every step.
LEMMA NextType ==
    ASSUME TypeOK, [Next]_vars
    PROVE  TypeOK'
<1>1. ASSUME NEW c \in Clients, Handler(c)
      PROVE  TypeOK'
  <2>1. CASE Reads(c)
    BY <2>1, <1>1, ReadsType DEF TypeOK, Request
  <2>2. CASE InsertCommit(c)
    BY <2>2, <1>1, InsertType
  <2>3. CASE WriteCommit(c)
    BY <2>3, <1>1, MergedType DEF WriteCommit, Done, TypeOK
  <2>4. CASE CancelCommit(c)
    BY <2>4 DEF CancelCommit, Done, TypeOK, Restrict
  <2>5. CASE InsertRefused(c) \/ WriteRefused(c) \/ Abort(c)
    BY <2>5 DEF InsertRefused, WriteRefused, Abort, Done, TypeOK
  <2> QED
    BY <1>1, <2>1, <2>2, <2>3, <2>4, <2>5 DEF Handler, Reads
<1>2. CASE ExpiryLoad
  BY <1>2 DEF ExpiryLoad, TypeOK
<1>3. CASE ExpiryCommit
  <2>1. \A r \in DOMAIN table : [table[r] EXCEPT !.status = "expired"] \in Row
    BY DEF TypeOK, Row, RiskStatus
  <2> QED
    BY <1>3, <2>1 DEF ExpiryCommit, TypeOK
<1>4. CASE ExpiryAbort
  BY <1>4 DEF ExpiryAbort, TypeOK
<1>5. CASE Tick
  BY <1>5, ConstantsAssumption DEF Tick, TypeOK, ConstantsAssumption
<1>6. CASE UNCHANGED vars
  BY <1>6 DEF vars, TypeOK
<1> QED
  BY <1>1, <1>2, <1>3, <1>4, <1>5, <1>6 DEF Next

\* Every reachable table, request and job is what the code's models allow.
THEOREM TypeCorrect == Spec => []TypeOK
<1>1. Init => TypeOK
  BY ConstantsAssumption DEF Init, TypeOK, ConstantsAssumption
<1>2. TypeOK /\ [Next]_vars => TypeOK'
  BY NextType
<1> QED
  BY <1>1, <1>2, PTL DEF Spec

-----------------------------------------------------------------------------
(***************************************************************************)
(* No duplicates.  The unique index compares a new row with the stored     *)
(* ones; that the rows of one import differ among themselves is what the   *)
(* strengthening adds.                                                     *)
(***************************************************************************)
InsertsDistinct ==
    \A c \in Clients : req[c].op \in {"create", "import"} =>
        \A row1, row2 \in req[c].rows : SameKey(row1, row2) => row1 = row2

UniqueInv == TypeOK /\ InsertsDistinct /\ ActiveScopeUnique

\* An active row the unique index accepts has a key no other active row has.
LEMMA CheckedApart ==
    ASSUME NEW row, NEW except, ~ViolatesIndex(row, except), IsActive(row)
    PROVE  \A r \in DOMAIN table \ except :
               IsActive(table[r]) => ~SameKey(table[r], row) /\ ~SameKey(row, table[r])
  BY DEF ViolatesIndex, ExistingActive, SameKey

\* Reading adds at most one item to an import, and only one that differs.
LEMMA ReadsDistinct ==
    ASSUME TypeOK, InsertsDistinct, NEW c \in Clients, Reads(c)
    PROVE  InsertsDistinct'
<1> SUFFICES ASSUME NEW d \in Clients, req'[d].op \in {"create", "import"},
                    NEW row1 \in req'[d].rows, NEW row2 \in req'[d].rows,
                    SameKey(row1, row2)
             PROVE  row1 = row2
  BY DEF InsertsDistinct, SameKey
<1>1. PICK request \in Request : req' = [req EXCEPT ![c] = request]
  BY ReadsType
<1>2. req \in [Clients -> Request]
  BY DEF TypeOK, Request
<1>3. CASE d # c
  BY <1>1, <1>2, <1>3 DEF InsertsDistinct
<1>4. CASE d = c /\ CreateCheck(c)
  BY <1>2, <1>4 DEF CreateCheck, Begin
<1>5. CASE d = c /\ ImportItem(c)
  <2>1. PICK row, earlier :
            /\ earlier = IF req[c] = Idle THEN {} ELSE req[c].rows
            /\ req[c] = Idle \/ req[c].op = "import"
            /\ \A other \in earlier : ~SameKey(other, row)
            /\ req' = [req EXCEPT ![c] = [op |-> "import", rows |-> earlier \cup {row}]]
    BY <1>5 DEF ImportItem
  <2>2. \A other1, other2 \in earlier : SameKey(other1, other2) => other1 = other2
    BY <2>1 DEF InsertsDistinct
  <2>3. req'[d].rows = earlier \cup {row}
    BY <1>2, <1>5, <2>1
  <2> QED
    BY <2>1, <2>2, <2>3 DEF SameKey
<1>6. CASE d = c /\ UpdateCheck(c)
  <2>1. req[c] \in WriteRequest
    BY <1>2, <1>6, RequestKinds DEF UpdateCheck
  <2>2. [req[c] EXCEPT !.checked = TRUE].op = "update"
    BY <1>6, <2>1 DEF UpdateCheck, WriteRequest
  <2>3. req'[c].op \in {"idle", "update"}
    BY <1>2, <1>6, <2>2 DEF UpdateCheck, Idle
  <2> QED
    BY <1>6, <2>3
<1>7. CASE d = c /\ \E ra \in Acceptances : \/ UpdateLoad(c, ra)
                                            \/ ReviewLoad(c, ra)
                                            \/ AssignLoad(c, ra)
                                            \/ CancelLoad(c, ra)
  BY <1>2, <1>7 DEF UpdateLoad, ReviewLoad, AssignLoad, CancelLoad, Begin
<1> QED
  BY <1>3, <1>4, <1>5, <1>6, <1>7 DEF Reads

\* Every step keeps the active rows, and the rows of one insert, apart.
LEMMA NextUnique ==
    ASSUME UniqueInv, [Next]_vars
    PROVE  UniqueInv'
<1> USE DEF UniqueInv
<1>1. TypeOK'
  BY NextType
<1>2. req \in [Clients -> Request]
  BY DEF TypeOK, Request
<1>3. ASSUME NEW c \in Clients, Done(c)
      PROVE  InsertsDistinct'
  BY <1>2, <1>3 DEF Done, Idle, InsertsDistinct
<1>4. ASSUME UNCHANGED table
      PROVE  ActiveScopeUnique'
  BY <1>4 DEF ActiveScopeUnique
<1>5. ASSUME NEW c \in Clients, InsertCommit(c)
      PROVE  ActiveScopeUnique'
  <2>1. PICK ids \in SUBSET (Acceptances \ used) :
        \E stored \in Bijection(ids, req[c].rows) :
            table' = [r \in DOMAIN table \cup ids |->
                          IF r \in ids THEN stored[r] ELSE table[r]]
    BY <1>5 DEF InsertCommit
  <2>2. PICK stored \in Bijection(ids, req[c].rows) :
            table' = [r \in DOMAIN table \cup ids |->
                          IF r \in ids THEN stored[r] ELSE table[r]]
    BY <2>1
  <2>3. /\ \A r \in ids : stored[r] \in req[c].rows
        /\ \A r1, r2 \in ids : stored[r1] = stored[r2] => r1 = r2
    BY <2>2 DEF Bijection, Injection, IsInjective
  <2>4. \A r1, r2 \in ids : SameKey(stored[r1], stored[r2]) => r1 = r2
    BY <1>5, <2>3 DEF InsertCommit, InsertsDistinct
  <2>5. \A r1 \in ids, r2 \in DOMAIN table :
            IsActive(stored[r1]) /\ IsActive(table[r2])
                => ~SameKey(stored[r1], table[r2]) /\ ~SameKey(table[r2], stored[r1])
    BY <1>5, <2>3, CheckedApart DEF InsertCommit
  <2> QED
    BY <2>2, <2>4, <2>5 DEF ActiveScopeUnique, IsActive, SameKey
<1>6. ASSUME NEW c \in Clients, WriteCommit(c)
      PROVE  ActiveScopeUnique'
  <2>1. \A r \in DOMAIN table \ {req[c].ra} :
            IsActive(Merged(c)) /\ IsActive(table[r])
                => ~SameKey(table[r], Merged(c)) /\ ~SameKey(Merged(c), table[r])
    BY <1>6, CheckedApart DEF WriteCommit
  <2>2. /\ req[c].ra \in DOMAIN table
        /\ table' = [table EXCEPT ![req[c].ra] = Merged(c)]
        /\ table \in [DOMAIN table -> Row]
    BY <1>6 DEF WriteCommit, TypeOK
  <2> QED
    BY <2>1, <2>2 DEF ActiveScopeUnique, IsActive
<1>7. ASSUME NEW c \in Clients, CancelCommit(c)
      PROVE  ActiveScopeUnique'
  BY <1>7 DEF CancelCommit, Restrict, ActiveScopeUnique
<1>8. ASSUME ExpiryCommit
      PROVE  ActiveScopeUnique'
  <2>1. \A r \in DOMAIN table' : IsActive(table'[r]) => r \notin job /\ table'[r] = table[r]
    BY <1>8 DEF ExpiryCommit, TypeOK, Row, IsActive, ActiveStatus
  <2> QED
    BY <1>8, <2>1 DEF ExpiryCommit, ActiveScopeUnique
<1>9. ASSUME NEW c \in Clients, Handler(c)
      PROVE  InsertsDistinct' /\ ActiveScopeUnique'
  <2>1. CASE Reads(c)
    BY <2>1, <1>4, ReadsDistinct, ReadsType
  <2>2. CASE InsertCommit(c)
    BY <2>2, <1>3, <1>5 DEF InsertCommit
  <2>3. CASE WriteCommit(c)
    BY <2>3, <1>3, <1>6 DEF WriteCommit
  <2>4. CASE CancelCommit(c)
    BY <2>4, <1>3, <1>7 DEF CancelCommit
  <2>5. CASE InsertRefused(c) \/ WriteRefused(c) \/ Abort(c)
    BY <2>5, <1>3, <1>4 DEF InsertRefused, WriteRefused, Abort
  <2> QED
    BY <1>9, <2>1, <2>2, <2>3, <2>4, <2>5 DEF Handler, Reads
<1>10. CASE ExpiryCommit
  BY <1>1, <1>8, <1>10 DEF ExpiryCommit, InsertsDistinct
<1>11. CASE ExpiryLoad \/ ExpiryAbort \/ Tick \/ UNCHANGED vars
  BY <1>1, <1>4, <1>11 DEF ExpiryLoad, ExpiryAbort, Tick, vars, InsertsDistinct
<1> QED
  BY <1>1, <1>9, <1>10, <1>11 DEF Next

\* Two active acceptances never share CVE and scope, whatever the number of
\* clients, and however their checks and commits interleave.
THEOREM NoDuplicateActive == Spec => []ActiveScopeUnique
<1>1. Init => UniqueInv
  <2>1. Init => TypeOK
    BY ConstantsAssumption DEF Init, TypeOK, ConstantsAssumption
  <2> QED
    BY <2>1 DEF Init, UniqueInv, InsertsDistinct, ActiveScopeUnique, Idle
<1>2. UniqueInv /\ [Next]_vars => UniqueInv'
  BY NextUnique
<1>3. UniqueInv => ActiveScopeUnique
  BY DEF UniqueInv
<1> QED
  BY <1>1, <1>2, <1>3, PTL DEF Spec

\* No step stores a row under a key that was deleted.
THEOREM NoResurrection == Spec => DeletedStaysDeleted
<1>1. ASSUME TypeOK, [Next]_vars
      PROVE  \A r \in used : r \notin DOMAIN table => r \notin DOMAIN table'
  <2>1. ASSUME NEW c \in Clients, Handler(c)
        PROVE  DOMAIN table' \cap used \subseteq DOMAIN table
    <3>1. CASE Reads(c)
      BY <3>1, <1>1, ReadsType
    <3>2. CASE InsertCommit(c)
      <4>1. PICK ids \in SUBSET (Acceptances \ used) : DOMAIN table' = DOMAIN table \cup ids
        BY <3>2 DEF InsertCommit
      <4> QED
        BY <4>1
    <3>3. CASE WriteCommit(c)
      BY <3>3 DEF WriteCommit
    <3>4. CASE CancelCommit(c)
      BY <3>4 DEF CancelCommit, Restrict
    <3>5. CASE InsertRefused(c) \/ WriteRefused(c) \/ Abort(c)
      BY <3>5 DEF InsertRefused, WriteRefused, Abort
    <3> QED
      BY <2>1, <3>1, <3>2, <3>3, <3>4, <3>5 DEF Handler, Reads
  <2>2. CASE ExpiryCommit
    BY <2>2 DEF ExpiryCommit
  <2>3. CASE ExpiryLoad \/ ExpiryAbort \/ Tick \/ UNCHANGED vars
    BY <2>3 DEF ExpiryLoad, ExpiryAbort, Tick, vars
  <2> QED
    BY <1>1, <2>1, <2>2, <2>3 DEF Next
<1> QED
  BY <1>1, TypeCorrect, PTL DEF Spec, DeletedStaysDeleted

-----------------------------------------------------------------------------
(***************************************************************************)
(* Verdicts are signed.                                                    *)
(*                                                                         *)
(* A write in flight holds an outdated row, and any number of others may   *)
(* commit before it.  A review does no harm however late it comes: it was  *)
(* loaded unsigned, so it writes status and signature both.  An edit       *)
(* writes both and the scope, unless what it loaded agrees with what it    *)
(* wants in one of them and not with what is stored: then it overtakes.    *)
(***************************************************************************)
RowOK(row) ==
    /\ row.status = "requested" => row.reviewed_by = Null
    /\ row.status = "approved" /\ SpansTeams(row) => row.reviewed_by # Null
    /\ row.status = "rejected" => row.reviewed_by # Null

InsertOK(request) ==
    request.op \in {"create", "import"} =>
        \A row \in request.rows : RowOK(row) /\ row.reviewed_by = Null

\* What a write wants is made of what it loaded.  The signature a review does
\* not find is one that no edit lost.
WriteOK(c, u) ==
    /\ u.op = "update" =>
          \E scope \in Scopes, expires_at \in Dates :
              u.new = Resubmitted(u.loaded, scope, expires_at)
    /\ u.op = "review" =>
          /\ UserOf[c] \in SecUsers
          /\ u.loaded.status = "requested"
          /\ u.ra \notin overtaken => u.loaded.reviewed_by = Null
          /\ \E verdict \in {"approved", "rejected"} :
                u.new = Reviewed(u.loaded, verdict, UserOf[c])
    /\ u.op = "assign" =>
          \E assignee \in SecUsers : u.new = [u.loaded EXCEPT !.assigned_to = assignee]

WorkflowInv ==
    /\ TypeOK
    /\ \A r \in DOMAIN table \ overtaken : RowOK(table[r])
    /\ \A c \in Clients : InsertOK(req[c]) /\ WriteOK(c, req[c])

\* The columns an edit compares are the loaded ones, or the job has expired
\* the row meanwhile.
Current(row, loaded) ==
    /\ row.scope = loaded.scope
    /\ row.reviewed_by = loaded.reviewed_by
    /\ row.status \in {loaded.status, "expired"}

\* An edit of what is current submits the scope it asks for, and only that.
LEMMA UpdateMerge ==
    ASSUME NEW row \in Row, NEW loaded \in Row, Current(row, loaded),
           NEW scope \in Scopes, NEW expires_at \in Dates
    PROVE  LET merged == Merge(row, loaded, Resubmitted(loaded, scope, expires_at)) IN
           /\ merged.reviewed_by = Null
           /\ merged.status = "approved" => ~SpansTeams(merged)
           /\ RowOK(merged)
<1> DEFINE new == Resubmitted(loaded, scope, expires_at)
           merged == Merge(row, loaded, new)
<1>1. /\ new.scope = scope
      /\ new.status = SubmittedStatus(scope)
      /\ new.reviewed_by = Null
  BY DEF Resubmitted, Row
<1>2. /\ merged.scope = scope
      /\ merged.reviewed_by = Null
      /\ merged.status \in {SubmittedStatus(scope), "expired"}
  BY <1>1 DEF Merge, Written, Current
<1> QED
  BY <1>2 DEF RowOK, SubmittedStatus, SpansTeams

\* Any edit keeps the signature or takes it away.
LEMMA UpdateUnsigns ==
    ASSUME NEW row \in Row, NEW loaded \in Row, NEW scope \in Scopes, NEW expires_at \in Dates
    PROVE  Merge(row, loaded, Resubmitted(loaded, scope, expires_at)).reviewed_by
               \in {row.reviewed_by, Null}
<1>1. Resubmitted(loaded, scope, expires_at).reviewed_by = Null
  BY DEF Resubmitted, Row
<1> QED
  BY <1>1 DEF Merge, Written

\* A review keeps the scope; it is signed, if what it loaded was not, whatever
\* it is stored over.
LEMMA ReviewMerge ==
    ASSUME NEW row \in Row, NEW loaded \in Row, loaded.status = "requested",
           NEW verdict \in {"approved", "rejected"}, NEW reviewer \in SecUsers
    PROVE  LET merged == Merge(row, loaded, Reviewed(loaded, verdict, reviewer)) IN
           /\ merged.scope = row.scope
           /\ merged.reviewed_by \in {row.reviewed_by, reviewer}
           /\ loaded.reviewed_by = Null => merged.reviewed_by = reviewer /\ RowOK(merged)
<1> DEFINE new == Reviewed(loaded, verdict, reviewer)
           merged == Merge(row, loaded, new)
<1>1. /\ new.scope = loaded.scope
      /\ new.status = verdict
      /\ new.reviewed_by = reviewer
  BY DEF Reviewed, Row
<1>2. reviewer # Null
  BY ConstantsAssumption DEF ConstantsAssumption
<1>3. /\ merged.scope = row.scope
      /\ merged.reviewed_by \in {row.reviewed_by, reviewer}
      /\ loaded.reviewed_by = Null => merged.reviewed_by = reviewer
      /\ merged.status = verdict
  BY <1>1, <1>2 DEF Merge, Written
<1> QED
  BY <1>2, <1>3 DEF RowOK

\* An assignment changes nothing but the assignee.
LEMMA AssignMerge ==
    ASSUME NEW row \in Row, NEW loaded \in Row, NEW assignee \in SecUsers
    PROVE  LET merged == Merge(row, loaded, [loaded EXCEPT !.assigned_to = assignee]) IN
           /\ merged.scope = row.scope
           /\ merged.reviewed_by = row.reviewed_by
           /\ merged.status = row.status
<1> DEFINE new == [loaded EXCEPT !.assigned_to = assignee]
<1>1. /\ new.scope = loaded.scope
      /\ new.reviewed_by = loaded.reviewed_by
      /\ new.status = loaded.status
  BY DEF Row
<1> QED
  BY <1>1 DEF Merge, Written

\* What a handler has read, and wants to write, is in order.
LEMMA ReadsOK ==
    ASSUME WorkflowInv, NEW c \in Clients, Reads(c)
    PROVE  InsertOK(req'[c]) /\ WriteOK(c, req'[c])
<1> USE DEF WorkflowInv
<1>1. req \in [Clients -> Request]
  BY DEF TypeOK, Request
<1>2. CASE CreateCheck(c)
  <2>1. PICK cve \in CVEs, scope \in Scopes, expires_at \in Dates :
            req' = [req EXCEPT ![c] = [op |-> "create",
                rows |-> {NewRow(c, cve, scope, SubmittedStatus(scope), expires_at)}]]
    BY <1>2 DEF CreateCheck, Begin
  <2>2. RowOK(NewRow(c, cve, scope, SubmittedStatus(scope), expires_at))
    BY DEF NewRow, RowOK, SubmittedStatus, SpansTeams
  <2> QED
    BY <1>1, <2>1, <2>2 DEF InsertOK, WriteOK, NewRow
<1>3. CASE ImportItem(c)
  <2>1. PICK cve \in CVEs, scope \in ImportScopes, expires_at \in Dates :
            LET row == NewRow(c, cve, scope, "requested", expires_at)
                earlier == IF req[c] = Idle THEN {} ELSE req[c].rows IN
            /\ req[c] = Idle \/ req[c].op = "import"
            /\ req' = [req EXCEPT ![c] = [op |-> "import", rows |-> earlier \cup {row}]]
    BY <1>3 DEF ImportItem
  <2>2. /\ RowOK(NewRow(c, cve, scope, "requested", expires_at))
        /\ NewRow(c, cve, scope, "requested", expires_at).reviewed_by = Null
    BY DEF NewRow, RowOK
  <2>3. req[c] # Idle => \A row \in req[c].rows : RowOK(row) /\ row.reviewed_by = Null
    BY <2>1 DEF InsertOK
  <2>4. \A row \in req'[c].rows : RowOK(row) /\ row.reviewed_by = Null
    BY <1>1, <2>1, <2>2, <2>3
  <2>5. req'[c].op = "import"
    BY <1>1, <2>1
  <2> QED
    BY <2>4, <2>5 DEF InsertOK, WriteOK
<1>4. ASSUME NEW ra \in Acceptances, UpdateLoad(c, ra)
      PROVE  InsertOK(req'[c]) /\ WriteOK(c, req'[c])
  BY <1>1, <1>4 DEF UpdateLoad, Begin, InsertOK, WriteOK
<1>5. ASSUME NEW ra \in Acceptances, ReviewLoad(c, ra)
      PROVE  InsertOK(req'[c]) /\ WriteOK(c, req'[c])
  <2>1. PICK verdict \in {"approved", "rejected"} :
            req' = [req EXCEPT ![c] =
                       [op |-> "review", ra |-> ra, loaded |-> table[ra],
                        new |-> Reviewed(table[ra], verdict, UserOf[c]),
                        checked |-> TRUE]]
    BY <1>5 DEF ReviewLoad, Begin
  <2>2. /\ UserOf[c] \in SecUsers
        /\ table[ra].status = "requested"
        /\ ra \notin overtaken => table[ra].reviewed_by = Null
    BY <1>5 DEF ReviewLoad, IsSec, RowOK
  <2> QED
    BY <1>1, <2>1, <2>2 DEF InsertOK, WriteOK
<1>6. ASSUME NEW ra \in Acceptances, AssignLoad(c, ra)
      PROVE  InsertOK(req'[c]) /\ WriteOK(c, req'[c])
  BY <1>1, <1>6 DEF AssignLoad, Assignees, Begin, InsertOK, WriteOK
<1>7. ASSUME NEW ra \in Acceptances, CancelLoad(c, ra)
      PROVE  InsertOK(req'[c]) /\ WriteOK(c, req'[c])
  BY <1>1, <1>7 DEF CancelLoad, Begin, InsertOK, WriteOK
<1>8. CASE UpdateCheck(c)
  <2>1. req[c] \in WriteRequest /\ WriteOK(c, req[c]) /\ req[c].op = "update"
    BY <1>1, <1>8, RequestKinds DEF UpdateCheck
  <2>2. CASE req'[c] = Idle
    BY <2>2 DEF Idle, InsertOK, WriteOK
  <2>3. CASE req'[c] = [req[c] EXCEPT !.checked = TRUE]
    <3>1. /\ req'[c].op = "update" /\ req'[c].loaded = req[c].loaded
          /\ req'[c].new = req[c].new
      BY <2>1, <2>3 DEF WriteRequest
    <3> QED
      BY <2>1, <3>1 DEF InsertOK, WriteOK
  <2> QED
    BY <1>1, <1>8, <2>2, <2>3 DEF UpdateCheck
<1> QED
  BY <1>2, <1>3, <1>4, <1>5, <1>6, <1>7, <1>8 DEF Reads

\* What a committing write stores; the refinement needs it, too.
LEMMA StoredByWrite ==
    ASSUME WorkflowInv, NEW c \in Clients, WriteCommit(c)
    PROVE  LET row == table[req[c].ra] IN
           /\ req[c].op = "update" => Merged(c).reviewed_by \in {row.reviewed_by, Null}
           /\ req[c].op = "update" /\ ~Overtakes(c) =>
                 /\ Merged(c).reviewed_by = Null
                 /\ Merged(c).status = "approved" => ~SpansTeams(Merged(c))
                 /\ RowOK(Merged(c))
           /\ req[c].op = "review" =>
                 /\ Merged(c).scope = row.scope
                 /\ Merged(c).reviewed_by \in {row.reviewed_by, UserOf[c]}
                 /\ UserOf[c] \in SecUsers
                 /\ req[c].ra \notin overtaken =>
                       Merged(c).reviewed_by = UserOf[c] /\ RowOK(Merged(c))
           /\ req[c].op = "assign" =>
                 /\ Merged(c).scope = row.scope
                 /\ Merged(c).reviewed_by = row.reviewed_by
                 /\ Merged(c).status = row.status
<1> USE DEF WorkflowInv
<1> DEFINE row == table[req[c].ra]
           loaded == req[c].loaded
<1>1. /\ req[c] \in WriteRequest
      /\ req[c].ra \in DOMAIN table
      /\ WriteOK(c, req[c])
  BY MergedType DEF WriteCommit
<1>2. row \in Row /\ loaded \in Row
  BY <1>1 DEF TypeOK, WriteRequest
<1>3. CASE req[c].op = "update"
  <2>1. PICK scope \in Scopes, expires_at \in Dates :
            req[c].new = Resubmitted(loaded, scope, expires_at)
    BY <1>1, <1>3 DEF WriteOK
  <2>2. Merged(c) = Merge(row, loaded, Resubmitted(loaded, scope, expires_at))
    BY <2>1 DEF Merged
  <2>3. ~Overtakes(c) => Current(row, loaded)
    BY <1>3 DEF Overtakes, Current
  <2>4. Merged(c).reviewed_by \in {row.reviewed_by, Null}
    BY <1>2, <2>2, UpdateUnsigns
  <2>5. ASSUME ~Overtakes(c)
        PROVE  /\ Merged(c).reviewed_by = Null
               /\ Merged(c).status = "approved" => ~SpansTeams(Merged(c))
               /\ RowOK(Merged(c))
    BY <1>2, <2>2, <2>3, <2>5, UpdateMerge
  <2> QED
    BY <1>3, <2>4, <2>5
<1>4. CASE req[c].op = "review"
  <2>1. PICK verdict \in {"approved", "rejected"} :
            req[c].new = Reviewed(loaded, verdict, UserOf[c])
    BY <1>1, <1>4 DEF WriteOK
  <2>2. /\ UserOf[c] \in SecUsers /\ loaded.status = "requested"
        /\ req[c].ra \notin overtaken => loaded.reviewed_by = Null
    BY <1>1, <1>4 DEF WriteOK
  <2>3. Merged(c) = Merge(row, loaded, Reviewed(loaded, verdict, UserOf[c]))
    BY <2>1 DEF Merged
  <2> QED
    BY <1>2, <1>4, <2>2, <2>3, ReviewMerge
<1>5. CASE req[c].op = "assign"
  <2>1. PICK assignee \in SecUsers :
            req[c].new = [loaded EXCEPT !.assigned_to = assignee]
    BY <1>1, <1>5 DEF WriteOK
  <2>2. Merged(c) = Merge(row, loaded, [loaded EXCEPT !.assigned_to = assignee])
    BY <2>1 DEF Merged
  <2> QED
    BY <1>2, <1>5, <2>2, AssignMerge
<1> QED
  BY <1>3, <1>4, <1>5 DEF WriteCommit, IsWrite

\* What a write in flight relies on survives whatever leaves its request alone.
LEMMA RequestsFrame ==
    ASSUME NEW d \in Clients, InsertOK(req[d]), WriteOK(d, req[d]), req'[d] = req[d],
           overtaken \subseteq overtaken'
    PROVE  InsertOK(req[d])' /\ WriteOK(d, req[d])'
  BY DEF InsertOK, RowOK, SpansTeams, WriteOK

\* The rest of the invariant once a request is over: what is to show is about
\* the rows.
LEMMA DoneWorkflow ==
    ASSUME WorkflowInv, TypeOK', NEW c \in Clients, Done(c), overtaken \subseteq overtaken',
           \A r \in DOMAIN table' \ overtaken' : RowOK(table'[r])
    PROVE  WorkflowInv'
<1> USE DEF WorkflowInv
<1>1. req \in [Clients -> Request]
  BY DEF TypeOK, Request
<1>2. ASSUME NEW d \in Clients
      PROVE  InsertOK(req[d])' /\ WriteOK(d, req[d])'
  <2>1. CASE d = c
    BY <1>1, <2>1 DEF Done, Idle, InsertOK, WriteOK
  <2>2. CASE d # c
    <3>1. req'[d] = req[d]
      BY <1>1, <2>2 DEF Done
    <3> QED
      BY <3>1, RequestsFrame
  <2> QED
    BY <2>1, <2>2
<1> QED
  BY <1>2 DEF InsertOK, RowOK, SpansTeams

\* Every step keeps the workflow's invariant.
LEMMA NextWorkflow ==
    ASSUME WorkflowInv, [Next]_vars
    PROVE  WorkflowInv'
<1> USE DEF WorkflowInv
<1>1. TypeOK'
  BY NextType
<1>2. req \in [Clients -> Request]
  BY DEF TypeOK, Request
<1>3. ASSUME UNCHANGED <<table, overtaken>>
      PROVE  \A r \in DOMAIN table' \ overtaken' : RowOK(table'[r])
  BY <1>3
<1>4. ASSUME NEW c \in Clients, Reads(c)
      PROVE  WorkflowInv'
  <2>1. PICK request \in Request : req' = [req EXCEPT ![c] = request]
    BY <1>4, ReadsType
  <2>2. UNCHANGED <<table, overtaken>>
    BY <1>4, ReadsType
  <2>3. ASSUME NEW d \in Clients
        PROVE  InsertOK(req[d])' /\ WriteOK(d, req[d])'
    <3>1. CASE d = c
      <4>1. InsertOK(req'[c]) /\ WriteOK(c, req'[c])
        BY <1>4, ReadsOK
      <4> QED
        BY <2>2, <3>1, <4>1 DEF InsertOK, RowOK, SpansTeams, WriteOK
    <3>2. CASE d # c
      <4>1. req'[d] = req[d]
        BY <1>2, <2>1, <3>2
      <4> QED
        BY <2>2, <4>1, RequestsFrame
    <3> QED
      BY <3>1, <3>2
  <2> QED
    BY <1>1, <1>3, <2>2, <2>3 DEF InsertOK, RowOK, SpansTeams
<1>5. ASSUME NEW c \in Clients, InsertCommit(c)
      PROVE  WorkflowInv'
  <2>1. PICK ids \in SUBSET (Acceptances \ used) :
        \E stored \in Bijection(ids, req[c].rows) :
            table' = [r \in DOMAIN table \cup ids |->
                          IF r \in ids THEN stored[r] ELSE table[r]]
    BY <1>5 DEF InsertCommit
  <2>2. PICK stored \in Bijection(ids, req[c].rows) :
            table' = [r \in DOMAIN table \cup ids |->
                          IF r \in ids THEN stored[r] ELSE table[r]]
    BY <2>1
  <2>3. \A r \in ids : RowOK(stored[r])
    BY <1>5, <2>2 DEF InsertCommit, InsertOK, Bijection, Injection
  <2>4. overtaken' = overtaken /\ Done(c)
    BY <1>5 DEF InsertCommit
  <2>5. \A r \in DOMAIN table' \ overtaken' : RowOK(table'[r])
    BY <2>2, <2>3, <2>4
  <2> QED
    BY <1>1, <2>4, <2>5, DoneWorkflow
<1>6. ASSUME NEW c \in Clients, WriteCommit(c)
      PROVE  WorkflowInv'
  <2> DEFINE ra == req[c].ra
  <2>1. /\ ra \in DOMAIN table
        /\ table' = [table EXCEPT ![ra] = Merged(c)]
        /\ overtaken' = overtaken \cup {r \in {ra} : Overtakes(c)}
        /\ Done(c)
        /\ req[c].op \in {"update", "review", "assign"}
    BY <1>6 DEF WriteCommit, IsWrite
  <2>2. ASSUME ra \notin overtaken'
        PROVE  RowOK(Merged(c))
    <3>1. ra \notin overtaken /\ ~Overtakes(c)
      BY <2>1, <2>2
    <3>2. RowOK(table[ra])
      BY <2>1, <3>1
    <3> QED
      BY <1>6, <2>1, <3>1, <3>2, StoredByWrite DEF RowOK, SpansTeams
  <2>3. \A r \in DOMAIN table' \ overtaken' : RowOK(table'[r])
    BY <2>1, <2>2 DEF TypeOK
  <2> QED
    BY <1>1, <2>1, <2>3, DoneWorkflow
<1>7. ASSUME NEW c \in Clients, CancelCommit(c)
      PROVE  WorkflowInv'
  <2>1. Done(c) /\ overtaken' = overtaken /\ \A r \in DOMAIN table' \ overtaken' : RowOK(table'[r])
    BY <1>7 DEF CancelCommit, Restrict
  <2> QED
    BY <1>1, <2>1, DoneWorkflow
<1>8. ASSUME NEW c \in Clients, InsertRefused(c) \/ WriteRefused(c) \/ Abort(c)
      PROVE  WorkflowInv'
  <2>1. Done(c) /\ UNCHANGED <<table, overtaken>>
    BY <1>8 DEF InsertRefused, WriteRefused, Abort
  <2> QED
    BY <1>1, <1>3, <2>1, DoneWorkflow
<1>9. ASSUME UNCHANGED <<req, overtaken>>, \A r \in DOMAIN table' \ overtaken : RowOK(table'[r])
      PROVE  WorkflowInv'
  <2>1. ASSUME NEW d \in Clients
        PROVE  InsertOK(req[d])' /\ WriteOK(d, req[d])'
    BY <1>9, RequestsFrame
  <2> QED
    BY <1>1, <1>9, <2>1 DEF InsertOK, RowOK, SpansTeams
<1>10. CASE ExpiryCommit
  <2>1. /\ DOMAIN table' = DOMAIN table
        /\ UNCHANGED <<req, overtaken>>
        /\ \A r \in DOMAIN table : table'[r] = table[r] \/
               table'[r] = [table[r] EXCEPT !.status = "expired"]
    BY <1>10 DEF ExpiryCommit
  <2>2. \A r \in DOMAIN table : table'[r] = table[r] \/ table'[r].status = "expired"
    BY <2>1 DEF TypeOK, Row
  <2>3. \A r \in DOMAIN table' \ overtaken : RowOK(table'[r])
    BY <2>1, <2>2 DEF RowOK
  <2> QED
    BY <1>9, <2>1, <2>3
<1>11. CASE ExpiryLoad \/ ExpiryAbort \/ Tick \/ UNCHANGED vars
  <2>1. UNCHANGED <<table, req, overtaken>>
    BY <1>11 DEF ExpiryLoad, ExpiryAbort, Tick, vars
  <2> QED
    BY <1>9, <2>1
<1> QED
  BY <1>4, <1>5, <1>6, <1>7, <1>8, <1>10, <1>11 DEF Next, Handler, Reads

\* The invariant behind the theorems about verdicts.
LEMMA WorkflowInvariant == Spec => []WorkflowInv
<1>1. Init => WorkflowInv
  <2>1. Init => TypeOK
    BY ConstantsAssumption DEF Init, TypeOK, ConstantsAssumption
  <2> QED
    BY <2>1 DEF Init, WorkflowInv, InsertOK, WriteOK, Idle
<1>2. WorkflowInv /\ [Next]_vars => WorkflowInv'
  BY NextWorkflow
<1> QED
  BY <1>1, <1>2, PTL DEF Spec

\* However many tabs, reviewers and assignments overlap, an acceptance that no
\* edit overtook is in force across teams, or rejected, with a signature only.
THEOREM VerdictsSigned == Spec => []VerdictsAreSigned
<1>1. WorkflowInv => VerdictsAreSigned
  BY DEF WorkflowInv, RowOK, VerdictsAreSigned
<1> QED
  BY <1>1, WorkflowInvariant, PTL

-----------------------------------------------------------------------------
(***************************************************************************)
(* The refinement of ReviewGate, action by action.                         *)
(***************************************************************************)
Asked == [r \in Acceptances |-> IF Stored(r) THEN table[r].scope ELSE Null]
Covers == [r \in Acceptances |-> Stored(r) /\ table[r].status = "approved"]
Signer == [r \in Acceptances |-> IF Stored(r) THEN table[r].reviewed_by ELSE Null]

\* A step that touches one acceptance, or none, says so in the abstract terms.
LEMMA KeepRow ==
    ASSUME NEW r \in Acceptances, Stored(r)' <=> Stored(r),
           Stored(r) => /\ table'[r].scope = table[r].scope
                        /\ (table'[r].status = "approved") <=> (table[r].status = "approved")
                        /\ table'[r].reviewed_by = table[r].reviewed_by
    PROVE  Gate!Keep(r)
  BY DEF Gate!Keep, Stored

\* Every step is a step of ReviewGate on the mapped variables, or none.
LEMMA RefinesStep ==
    ASSUME WorkflowInv, [Next]_vars
    PROVE  Gate!Next
<1> USE DEF WorkflowInv
<1>0. TypeOK'
  BY NextType
<1>1. /\ Asked' \in [Acceptances -> Scopes \cup {Null}]
      /\ Covers' \in [Acceptances -> BOOLEAN]
      /\ Signer' \in [Acceptances -> SecUsers \cup {Null}]
  BY <1>0 DEF Asked, Covers, Signer, Stored, TypeOK, Row
<1> SUFFICES \/ overtaken' = overtaken /\ \A r \in Acceptances : Gate!Keep(r) \/ Gate!Submit(r)
             \/ overtaken' = overtaken /\ \A r \in Acceptances : Gate!Keep(r) \/ Gate!Lapse(r)
             \/ \E one \in Acceptances :
                   /\ Gate!Alone(one)
                   /\ \A r \in Acceptances \ {one} : Gate!Keep(r)
  BY <1>1 DEF Gate!Next, Asked, Covers, Signer
<1>2. ASSUME UNCHANGED table
      PROVE  \A r \in Acceptances : Gate!Keep(r)
  BY <1>2, KeepRow DEF Stored
<1>3. ASSUME NEW c \in Clients, InsertCommit(c)
      PROVE  \A r \in Acceptances : Gate!Keep(r) \/ Gate!Submit(r)
  <2>1. PICK ids \in SUBSET (Acceptances \ used) :
        \E stored \in Bijection(ids, req[c].rows) :
            table' = [r \in DOMAIN table \cup ids |->
                          IF r \in ids THEN stored[r] ELSE table[r]]
    BY <1>3 DEF InsertCommit
  <2>2. PICK stored \in Bijection(ids, req[c].rows) :
            table' = [r \in DOMAIN table \cup ids |->
                          IF r \in ids THEN stored[r] ELSE table[r]]
    BY <2>1
  <2>3. \A r \in ids : RowOK(stored[r]) /\ stored[r].reviewed_by = Null
    BY <1>3, <2>2 DEF InsertCommit, InsertOK, Bijection, Injection
  <2>4. ASSUME NEW r \in ids
        PROVE  Gate!Submit(r)
    <3>1. Stored(r)' /\ table'[r] = stored[r] /\ table'[r] \in Row
      BY <1>0, <2>2 DEF Stored, TypeOK
    <3> QED
      BY <2>3, <3>1 DEF Gate!Submit, Row, RowOK, SpansTeams
  <2>5. \A r \in Acceptances \ ids : Gate!Keep(r)
    BY <2>2, KeepRow DEF Stored
  <2> QED
    BY <2>4, <2>5
<1>4. ASSUME NEW c \in Clients, WriteCommit(c), NEW ra, ra = req[c].ra
      PROVE  /\ ra \in Acceptances
             /\ \/ overtaken' = overtaken /\ \A r \in Acceptances : Gate!Keep(r) \/ Gate!Submit(r)
                \/ Gate!Alone(ra) /\ \A r \in Acceptances \ {ra} : Gate!Keep(r)
  <2>1. /\ ra \in DOMAIN table
        /\ table' = [table EXCEPT ![ra] = Merged(c)]
        /\ Merged(c) \in Row /\ table[ra] \in Row
        /\ ra \in Acceptances
        /\ overtaken' = overtaken \cup {r \in {ra} : Overtakes(c)}
    BY <1>4, MergedType DEF WriteCommit, TypeOK, WriteRequest
  <2>2. \A r \in Acceptances \ {ra} : Gate!Keep(r)
    BY <2>1, KeepRow DEF Stored, TypeOK
  <2>3. Stored(ra) /\ Stored(ra)' /\ table'[ra] = Merged(c)
    BY <2>1 DEF Stored, TypeOK
  <2>4. CASE req[c].op = "update" /\ Overtakes(c)
    <3>1. Gate!Overtake(ra)
      BY <1>4, <2>1, <2>3, <2>4, StoredByWrite DEF Gate!Overtake, Row
    <3> QED
      BY <2>1, <2>2, <2>4, <3>1 DEF Gate!Alone
  <2>5. CASE req[c].op = "update" /\ ~Overtakes(c)
    <3>1. Gate!Submit(ra)
      BY <1>4, <2>1, <2>3, <2>5, StoredByWrite DEF Gate!Submit, Row, SpansTeams
    <3> QED
      BY <2>1, <2>2, <2>5, <3>1
  <2>6. CASE req[c].op = "review"
    <3>1. overtaken' = overtaken
      BY <2>1, <2>6 DEF Overtakes
    <3>2. /\ Merged(c).scope = table[ra].scope
          /\ Merged(c).reviewed_by \in {table[ra].reviewed_by, UserOf[c]}
          /\ UserOf[c] \in SecUsers
          /\ ra \notin overtaken => Merged(c).reviewed_by = UserOf[c]
      BY <1>4, <2>6, StoredByWrite
    <3>3. CASE Merged(c).reviewed_by = UserOf[c]
      <4>1. Gate!Verdict(ra)
        BY <2>1, <2>3, <3>2, <3>3 DEF Gate!Verdict, Row
      <4> QED
        BY <2>1, <2>2, <3>1, <4>1 DEF Gate!Alone
    <3>4. CASE Merged(c).reviewed_by # UserOf[c]
      <4>1. Gate!Overtake(ra)
        BY <2>1, <2>3, <3>2, <3>4 DEF Gate!Overtake, Row
      <4>2. overtaken' = overtaken \cup {ra}
        BY <3>1, <3>2, <3>4
      <4> QED
        BY <2>1, <2>2, <4>1, <4>2 DEF Gate!Alone
    <3> QED
      BY <3>3, <3>4
  <2>7. CASE req[c].op = "assign"
    <3>1. Gate!Keep(ra)
      BY <1>4, <2>1, <2>3, <2>7, StoredByWrite, KeepRow
    <3>2. overtaken' = overtaken
      BY <2>1, <2>7 DEF Overtakes
    <3> QED
      BY <2>1, <2>2, <3>1, <3>2
  <2> QED
    BY <1>4, <2>4, <2>5, <2>6, <2>7 DEF WriteCommit, IsWrite
<1>5. ASSUME NEW c \in Clients, CancelCommit(c), NEW ra, ra = req[c].ra
      PROVE  /\ ra \in Acceptances
             /\ Gate!Alone(ra)
             /\ \A r \in Acceptances \ {ra} : Gate!Keep(r)
  <2>1. ra \in Acceptances
    BY <1>5, RequestKinds DEF CancelCommit, CancelRequest, TypeOK, Request
  <2>2. ~Stored(ra)'
    BY <1>5 DEF CancelCommit, Restrict, Stored
  <2>3. Gate!Alone(ra)
    BY <1>5, <2>1, <2>2 DEF CancelCommit, Gate!Alone, Gate!Delete
  <2>4. ASSUME NEW r \in Acceptances \ {ra}
        PROVE  Gate!Keep(r)
    <3>1. /\ Stored(r)' <=> Stored(r)
          /\ Stored(r) => table'[r] = table[r]
      BY <1>5 DEF CancelCommit, Restrict, Stored
    <3> QED
      BY <3>1, KeepRow
  <2> QED
    BY <2>1, <2>3, <2>4
<1>6. ASSUME ExpiryCommit
      PROVE  \A r \in Acceptances : Gate!Keep(r) \/ Gate!Lapse(r)
  <2>1. SUFFICES ASSUME NEW r \in Acceptances
                 PROVE  Gate!Keep(r) \/ Gate!Lapse(r)
    OBVIOUS
  <2>2. CASE r \in job
    <3>1. Stored(r) /\ Stored(r)' /\ table'[r] = [table[r] EXCEPT !.status = "expired"]
      BY <1>6, <2>2 DEF ExpiryCommit, Stored
    <3>2. /\ table'[r].scope = table[r].scope
          /\ table'[r].status = "expired"
          /\ table'[r].reviewed_by = table[r].reviewed_by
      BY <3>1 DEF TypeOK, Row, Stored
    <3> QED
      BY <3>1, <3>2 DEF Gate!Lapse
  <2>3. CASE r \notin job
    <3>1. /\ Stored(r)' <=> Stored(r)
          /\ Stored(r) => table'[r] = table[r]
      BY <1>6, <2>3 DEF ExpiryCommit, Stored
    <3> QED
      BY <3>1, KeepRow
  <2> QED
    BY <2>2, <2>3
<1>7. ASSUME NEW c \in Clients, Handler(c)
      PROVE  \/ UNCHANGED <<table, overtaken>>
             \/ InsertCommit(c) \/ WriteCommit(c) \/ CancelCommit(c)
  BY <1>7, ReadsType DEF Handler, Reads, InsertRefused, WriteRefused, Abort
<1>8. CASE \E c \in Clients : Handler(c)
  <2>1. PICK c \in Clients : \/ UNCHANGED <<table, overtaken>>
                             \/ InsertCommit(c) \/ WriteCommit(c) \/ CancelCommit(c)
    BY <1>7, <1>8
  <2>2. PICK ra : ra = req[c].ra
    OBVIOUS
  <2>3. CASE WriteCommit(c)
    BY <1>4, <2>2, <2>3 DEF WriteCommit, IsWrite
  <2>4. CASE CancelCommit(c)
    BY <1>5, <2>2, <2>4
  <2> QED
    BY <1>2, <1>3, <2>1, <2>3, <2>4 DEF InsertCommit
<1>9. CASE ExpiryLoad \/ ExpiryAbort \/ Tick \/ UNCHANGED vars
  BY <1>2, <1>9 DEF ExpiryLoad, ExpiryAbort, Tick, vars
<1>10. CASE ExpiryCommit
  BY <1>6, <1>10 DEF ExpiryCommit
<1> QED
  BY <1>8, <1>9, <1>10 DEF Next

\* The handlers and the job implement the review gate, for any number of tabs
\* and reviewers: what does not follow from it is an edit that overtook.
THEOREM Refinement == Spec => ImplementsReviewGate
<1>1. Init => Gate!Init
  BY DEF Init, Gate!Init, Stored
<1>2. WorkflowInv /\ [Next]_vars => [Gate!Next]_Gate!vars
  BY RefinesStep
<1> QED
  BY <1>1, <1>2, WorkflowInvariant, PTL DEF Spec, ImplementsReviewGate, Gate!Spec

=============================================================================
