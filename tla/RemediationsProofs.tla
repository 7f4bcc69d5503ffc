-------------------------- MODULE RemediationsProofs --------------------------
(***************************************************************************)
(* Proofs about Remediations, for every value of its constants.            *)
(***************************************************************************)
EXTENDS Remediations, TLAPS

Request == {Idle} \cup CreateRequest \cup UpdateRequest \cup DeleteRequest

\* The operation of a request tells what else the request holds.
LEMMA RequestKinds ==
    ASSUME NEW request \in Request
    PROVE  /\ request.op = "create" => request \in CreateRequest
           /\ request.op = "update" => request \in UpdateRequest
           /\ request.op = "delete" => request \in DeleteRequest
  BY DEF Request, Idle, CreateRequest, UpdateRequest, DeleteRequest

\* What a request in flight has ready to store: new rows of distinct targets,
\* all open, or a changed status other than verified, dated if resolved.
RequestOK(request) ==
    /\ request.op = "create" =>
          /\ \A row \in request.rows : row.status = "open"
          /\ \A r1, r2 \in request.rows : r1.target = r2.target => r1 = r2
    /\ request.op = "update" =>
          /\ request.new.status \notin {request.loaded.status, "verified"}
          /\ request.new.status = "resolved" =>
                request.new.resolved_at \notin {request.loaded.resolved_at, Null}

\* A transition leads to another status, never to verified.
LEMMA TransitionsChange ==
    ASSUME NEW old \in RemediationStatus, NEW new \in Transitions(old)
    PROVE  new \in RemediationStatus \ {"verified"} /\ new # old
<1>1. CASE old = "open"
  BY <1>1 DEF Transitions, RemediationStatus
<1>2. CASE old = "in_progress"
  BY <1>2 DEF Transitions, RemediationStatus
<1>3. CASE old = "resolved"
  BY <1>3 DEF Transitions, RemediationStatus
<1>4. CASE old = "verified"
  BY <1>4 DEF Transitions, RemediationStatus
<1>5. CASE old = "wont_fix"
  BY <1>5 DEF Transitions, RemediationStatus
<1> QED
  BY <1>1, <1>2, <1>3, <1>4, <1>5 DEF RemediationStatus

\* What an update assigns is a row with the status asked for, and the given
\* date if that is resolved.
LEMMA AppliedType ==
    ASSUME NEW row \in Row, NEW status \in RemediationStatus, NEW at \in Stamps
    PROVE  /\ Applied(row, status, at) \in Row
           /\ Applied(row, status, at).status = status
           /\ status = "resolved" => Applied(row, status, at).resolved_at = at
<1> DEFINE date == CASE status = "resolved" -> at
                     [] status \in ActiveStatus /\ row.status \notin ActiveStatus -> Null
                     [] OTHER -> row.resolved_at
<1>1. date \in Stamps \cup {Null} /\ (status = "resolved" => date = at)
  <2>1. CASE status = "resolved"
    <3>1. status \notin ActiveStatus
      BY <2>1 DEF ActiveStatus
    <3> QED
      BY <2>1, <3>1
  <2>2. CASE status # "resolved" /\ status \in ActiveStatus /\ row.status \notin ActiveStatus
    BY <2>2
  <2>3. CASE status # "resolved" /\ ~(status \in ActiveStatus /\ row.status \notin ActiveStatus)
    BY <2>3 DEF Row
  <2> QED
    BY <2>1, <2>2, <2>3
<1>2. Applied(row, status, at) = [row EXCEPT !.status = status, !.resolved_at = date]
  BY DEF Applied
<1> HIDE DEF date
<1> QED
  BY <1>1, <1>2 DEF Row

\* A flush writes a changed status and a changed date over what is stored.
LEMMA MergeType ==
    ASSUME NEW stored \in Row, NEW loaded \in Row, NEW new \in Row
    PROVE  /\ Merge(stored, loaded, new) \in Row
           /\ Merge(stored, loaded, new).target = stored.target
           /\ new.status # loaded.status => Merge(stored, loaded, new).status = new.status
           /\ new.resolved_at # loaded.resolved_at
                 => Merge(stored, loaded, new).resolved_at = new.resolved_at
  BY DEF Merge, Row, Written

-----------------------------------------------------------------------------
\* The steps of a request that store nothing.
Reads(c) ==
    \/ CreateCheck(c)
    \/ \E id \in Ids : UpdateLoad(c, id) \/ DeleteLoad(c, id)

Ends(c) == CreateRefused(c) \/ UpdateRefused(c) \/ Abort(c)

\* Whatever a handler reads, what it is about to store is in order.
LEMMA ReadsRequest ==
    ASSUME TypeOK, NEW c \in Clients, Reads(c)
    PROVE  /\ \E request \in Request : /\ RequestOK(request)
                                       /\ req' = [req EXCEPT ![c] = request]
           /\ UNCHANGED <<table, used, job, affected>>
<1>1. CASE CreateCheck(c)
  <2>1. PICK pairs \in SUBSET Targets :
            Begin(c, [op |-> "create", rows |-> {NewRow(c, pair) : pair \in pairs}])
    BY <1>1 DEF CreateCheck
  <2> DEFINE rows == {NewRow(c, pair) : pair \in pairs}
             request == [op |-> "create", rows |-> rows]
  <2>2. \A row \in rows : row \in Row /\ row.status = "open"
    BY DEF NewRow, Row, RemediationStatus, Users
  <2>3. \A r1, r2 \in rows : r1.target = r2.target => r1 = r2
    BY DEF NewRow
  <2>4. request \in Request
    BY <2>2 DEF Request, CreateRequest
  <2>5. RequestOK(request)
    BY <2>2, <2>3 DEF RequestOK
  <2>6. req' = [req EXCEPT ![c] = request] /\ UNCHANGED <<table, used, job, affected>>
    BY <2>1 DEF Begin
  <2> HIDE DEF request
  <2> QED
    BY <2>4, <2>5, <2>6
<1>2. ASSUME NEW id \in Ids, UpdateLoad(c, id)
      PROVE  /\ \E request \in Request : /\ RequestOK(request)
                                         /\ req' = [req EXCEPT ![c] = request]
             /\ UNCHANGED <<table, used, job, affected>>
  <2>1. PICK status \in RemediationStatus, at \in Stamps :
            /\ status \in Transitions(table[id].status)
            /\ at # table[id].resolved_at
            /\ Begin(c, [op |-> "update", id |-> id, loaded |-> table[id],
                         new |-> Applied(table[id], status, at)])
    BY <1>2 DEF UpdateLoad
  <2>2. table[id] \in Row /\ table[id].status \in RemediationStatus
    BY <1>2 DEF UpdateLoad, TypeOK, Row
  <2> DEFINE new == Applied(table[id], status, at)
             request == [op |-> "update", id |-> id, loaded |-> table[id], new |-> new]
  <2>3. /\ new \in Row /\ new.status = status
        /\ status = "resolved" => new.resolved_at = at
    BY <2>1, <2>2, AppliedType
  <2>4. status # "verified" /\ status # table[id].status
    BY <2>1, <2>2, TransitionsChange
  <2>5. at # Null
    BY <2>1, ConstantsAssumption DEF ConstantsAssumption
  <2> HIDE DEF new
  <2>6. request \in Request
    BY <2>2, <2>3 DEF Request, UpdateRequest
  <2>7. RequestOK(request)
    BY <2>1, <2>3, <2>4, <2>5 DEF RequestOK
  <2>8. req' = [req EXCEPT ![c] = request] /\ UNCHANGED <<table, used, job, affected>>
    BY <2>1 DEF Begin, new
  <2> HIDE DEF request
  <2> QED
    BY <2>6, <2>7, <2>8
<1>3. ASSUME NEW id \in Ids, DeleteLoad(c, id)
      PROVE  /\ \E request \in Request : /\ RequestOK(request)
                                         /\ req' = [req EXCEPT ![c] = request]
             /\ UNCHANGED <<table, used, job, affected>>
  <2>1. [op |-> "delete", id |-> id] \in Request
    BY DEF Request, DeleteRequest
  <2>2. RequestOK([op |-> "delete", id |-> id])
    BY DEF RequestOK
  <2> QED
    BY <1>3, <2>1, <2>2 DEF DeleteLoad, Begin
<1> QED
  BY <1>1, <1>2, <1>3 DEF Reads

\* A create stores the rows of its request under fresh keys.
LEMMA StoredRows ==
    ASSUME TypeOK, NEW c \in Clients, Stored(c)
    PROVE  \E ids \in SUBSET (Ids \ used) : \E rows \in [ids -> req[c].rows] :
              /\ req[c].rows \subseteq Row
              /\ \A r, s \in ids : rows[r] = rows[s] => r = s
              /\ table' = [r \in DOMAIN table \cup ids |->
                               IF r \in ids THEN rows[r] ELSE table[r]]
              /\ used' = used \cup ids
<1>1. PICK ids \in SUBSET (Ids \ used) :
          \E rows \in Bijection(ids, req[c].rows) :
              /\ table' = [r \in DOMAIN table \cup ids |->
                               IF r \in ids THEN rows[r] ELSE table[r]]
              /\ used' = used \cup ids
  BY DEF Stored
<1>2. PICK rows \in Bijection(ids, req[c].rows) :
          /\ table' = [r \in DOMAIN table \cup ids |->
                           IF r \in ids THEN rows[r] ELSE table[r]]
          /\ used' = used \cup ids
  BY <1>1
<1>3. req[c] \in CreateRequest
  <2>1. req[c] \in Request /\ req[c].op = "create"
    BY DEF Stored, TypeOK, Request
  <2> QED
    BY <2>1, RequestKinds
<1>4. req[c].rows \subseteq Row
  BY <1>3 DEF CreateRequest
<1>5. rows \in [ids -> req[c].rows] /\ \A r, s \in ids : rows[r] = rows[s] => r = s
  BY <1>2 DEF Bijection, Injection, IsInjective
<1> QED
  BY <1>2, <1>4, <1>5

-----------------------------------------------------------------------------
\* What an update assigns keeps the target and the type of the stored row; its
\* status is the one asked for, dated if it is resolved.
LEMMA UpdatedRow ==
    ASSUME TypeOK, NEW c \in Clients, UpdateCommit(c), RequestOK(req[c])
    PROVE  \E id \in DOMAIN table, row \in Row :
              /\ table' = [table EXCEPT ![id] = row]
              /\ row.target = table[id].target
              /\ row.status # "verified"
              /\ row.status = "resolved" => row.resolved_at # Null
<1>1. req[c] \in UpdateRequest
  <2>1. req[c] \in Request /\ req[c].op = "update"
    BY DEF UpdateCommit, TypeOK, Request
  <2> QED
    BY <2>1, RequestKinds
<1> DEFINE id == req[c].id
           row == Merge(table[id], req[c].loaded, req[c].new)
<1>2. id \in DOMAIN table /\ table' = [table EXCEPT ![id] = row]
  BY DEF UpdateCommit
<1>3. table[id] \in Row /\ req[c].loaded \in Row /\ req[c].new \in Row
  BY <1>1, <1>2 DEF TypeOK, UpdateRequest
<1>4. /\ req[c].new.status \notin {req[c].loaded.status, "verified"}
      /\ req[c].new.status = "resolved" =>
            req[c].new.resolved_at \notin {req[c].loaded.resolved_at, Null}
  BY DEF RequestOK, UpdateCommit
<1> HIDE DEF id
<1>5. /\ row \in Row /\ row.target = table[id].target
      /\ req[c].new.status # req[c].loaded.status => row.status = req[c].new.status
      /\ req[c].new.resolved_at # req[c].loaded.resolved_at
            => row.resolved_at = req[c].new.resolved_at
  BY <1>3, MergeType
<1> HIDE DEF row
<1> QED
  BY <1>2, <1>4, <1>5

\* Type correctness is preserved by every step.
LEMMA NextType ==
    ASSUME TypeOK, \A c \in Clients : RequestOK(req[c]), [Next]_vars
    PROVE  TypeOK'
<1>1. ASSUME NEW c \in Clients, Handler(c)
      PROVE  TypeOK'
  <2>1. CASE Reads(c)
    BY <2>1, ReadsRequest DEF TypeOK, Request
  <2>2. CASE CreateCommit(c)
    <3>1. PICK ids \in SUBSET (Ids \ used) : \E rows \in [ids -> req[c].rows] :
              /\ req[c].rows \subseteq Row
              /\ table' = [r \in DOMAIN table \cup ids |->
                               IF r \in ids THEN rows[r] ELSE table[r]]
              /\ used' = used \cup ids
      BY <2>2, StoredRows DEF CreateCommit
    <3>2. PICK rows \in [ids -> req[c].rows] :
              /\ req[c].rows \subseteq Row
              /\ table' = [r \in DOMAIN table \cup ids |->
                               IF r \in ids THEN rows[r] ELSE table[r]]
              /\ used' = used \cup ids
      BY <3>1
    <3>3. table' \in [DOMAIN table' -> Row] /\ DOMAIN table' \subseteq used' /\ used' \subseteq Ids
      BY <3>2 DEF TypeOK
    <3> QED
      BY <2>2, <3>2, <3>3 DEF CreateCommit, Stored, Done, TypeOK
  <2>3. CASE UpdateCommit(c)
    <3>1. PICK id \in DOMAIN table, row \in Row : table' = [table EXCEPT ![id] = row]
      BY <2>3, UpdatedRow
    <3> QED
      BY <2>3, <3>1 DEF UpdateCommit, Done, TypeOK
  <2>4. CASE DeleteCommit(c)
    BY <2>4 DEF DeleteCommit, Done, TypeOK, Restrict
  <2>5. CASE Ends(c)
    BY <2>5 DEF Ends, CreateRefused, UpdateRefused, Abort, Done, TypeOK
  <2> QED
    BY <1>1, <2>1, <2>2, <2>3, <2>4, <2>5 DEF Handler, Reads, Ends
<1>2. CASE AutoLoad
  BY <1>2 DEF AutoLoad, TypeOK, Run
<1>3. ASSUME NEW id \in Ids, AutoLook(id)
      PROVE  TypeOK'
  BY <1>3 DEF AutoLook, TypeOK, Run
<1>4. CASE AutoCommit
  <2>1. PICK at \in Stamps :
            table' = [r \in DOMAIN table |->
                         IF r \in job.gone THEN Resolved(table[r], at) ELSE table[r]]
    BY <1>4 DEF AutoCommit
  <2>2. \A r \in DOMAIN table : table[r] \in Row /\ Resolved(table[r], at) \in Row
    BY DEF TypeOK, Resolved, Row, RemediationStatus
  <2>3. table' \in [DOMAIN table' -> Row] /\ DOMAIN table' = DOMAIN table
    BY <2>1, <2>2
  <2> QED
    BY <1>4, <2>3 DEF AutoCommit, NoRun, Run, TypeOK
<1>5. CASE AutoStale \/ AutoAbort
  <2>1. NoRun \in Run /\ NoRun.todo \cup NoRun.gone = {}
    BY DEF NoRun, Run
  <2>2. job' = NoRun /\ UNCHANGED <<table, used, req, affected>>
    BY <1>5 DEF AutoStale, AutoAbort
  <2> QED
    BY <2>1, <2>2 DEF TypeOK
<1>6. CASE ScanChanges
  BY <1>6 DEF ScanChanges, TypeOK
<1>7. CASE UNCHANGED vars
  BY <1>7 DEF vars, TypeOK
<1> QED
  BY <1>1, <1>2, <1>3, <1>4, <1>5, <1>6, <1>7 DEF Next, AutoResolve

\* A step leaves every request alone, ends one, or begins one that is in order.
LEMMA NextRequests ==
    ASSUME TypeOK, \A c \in Clients : RequestOK(req[c]), [Next]_vars
    PROVE  \A c \in Clients : RequestOK(req'[c])
<1>1. RequestOK(Idle)
  BY DEF RequestOK, Idle
<1>2. ASSUME NEW c \in Clients, Handler(c)
      PROVE  \E request : RequestOK(request) /\ req' = [req EXCEPT ![c] = request]
  <2>1. CASE Reads(c)
    BY <2>1, ReadsRequest
  <2>2. CASE ~Reads(c)
    BY <1>1, <1>2, <2>2 DEF Handler, Reads, CreateCommit, Stored, CreateRefused, UpdateCommit,
                            UpdateRefused, DeleteCommit, Abort, Done
  <2> QED
    BY <2>1, <2>2
<1>3. CASE \E c \in Clients : Handler(c)
  BY <1>2, <1>3 DEF TypeOK
<1>4. CASE UNCHANGED req
  BY <1>4
<1> QED
  BY <1>3, <1>4 DEF Next, AutoResolve, AutoLoad, AutoLook, AutoCommit, AutoStale, AutoAbort,
                    ScanChanges, vars

-----------------------------------------------------------------------------
(***************************************************************************)
(* What a commit stores was in order when the handler read it.  That it    *)
(* still is when it is merged into a row that has changed since rests on   *)
(* RequestOK: a stale update carries the date with the status.             *)
(***************************************************************************)
IInv ==
    /\ TypeOK
    /\ OnePerTarget
    /\ ResolvedIsDated
    /\ \A c \in Clients : RequestOK(req[c])

\* The fresh start: historical records, no two of one target, all dated.
LEMMA InitInv == Init => IInv
<1> SUFFICES ASSUME Init PROVE IInv
  OBVIOUS
<1>1. NoRun \in Run /\ NoRun.todo \cup NoRun.gone = {}
  BY DEF NoRun, Run
<1>2. TypeOK
  BY <1>1, ConstantsAssumption DEF Init, TypeOK, ConstantsAssumption
<1>3. OnePerTarget /\ ResolvedIsDated
  BY DEF Init, Distinct, OnePerTarget, ResolvedIsDated
<1>4. \A c \in Clients : RequestOK(req[c])
  BY DEF Init, RequestOK, Idle
<1> QED
  BY <1>2, <1>3, <1>4 DEF IInv

\* A row that a step leaves in the table is the row that was there, with the
\* same target, or is new and of a target no row had; if it changed, it is
\* not verified, and dated if it is resolved.
RowsInOrder ==
    \A r \in DOMAIN table' :
        /\ r \in DOMAIN table => table'[r].target = table[r].target
        /\ r \notin DOMAIN table =>
              \A s \in DOMAIN table' :
                  table'[r].target = table'[s].target => r = s
        /\ \/ r \in DOMAIN table /\ table'[r] = table[r]
           \/ /\ table'[r].status # "verified"
              /\ table'[r].status = "resolved" => table'[r].resolved_at # Null

LEMMA NextRows ==
    ASSUME IInv, [Next]_vars
    PROVE  RowsInOrder
<1> USE DEF IInv
<1>1. CASE UNCHANGED table
  BY <1>1 DEF RowsInOrder
<1>2. ASSUME NEW c \in Clients, CreateCommit(c)
      PROVE  RowsInOrder
  <2>1. PICK ids \in SUBSET (Ids \ used) : \E rows \in [ids -> req[c].rows] :
            /\ req[c].rows \subseteq Row
            /\ \A r, s \in ids : rows[r] = rows[s] => r = s
            /\ table' = [r \in DOMAIN table \cup ids |->
                             IF r \in ids THEN rows[r] ELSE table[r]]
            /\ used' = used \cup ids
    <3>1. TypeOK /\ Stored(c)
      BY <1>2 DEF CreateCommit
    <3> QED
      BY <3>1, StoredRows
  <2>2. PICK rows \in [ids -> req[c].rows] :
            /\ req[c].rows \subseteq Row
            /\ \A r, s \in ids : rows[r] = rows[s] => r = s
            /\ table' = [r \in DOMAIN table \cup ids |->
                             IF r \in ids THEN rows[r] ELSE table[r]]
            /\ used' = used \cup ids
    BY <2>1
  <2>3. /\ \A row \in req[c].rows : row.status = "open"
        /\ \A row1, row2 \in req[c].rows : row1.target = row2.target => row1 = row2
    BY <1>2 DEF RequestOK, CreateCommit, Stored
  <2>4. \A row \in req[c].rows, r \in DOMAIN table : table[r].target # row.target
    BY <1>2 DEF CreateCommit, Duplicate
  <2>5. ids \cap DOMAIN table = {}
    BY DEF TypeOK
  <2>6. \A r \in DOMAIN table : r \in DOMAIN table' /\ table'[r] = table[r]
    BY <2>2, <2>5
  <2>7. \A r \in DOMAIN table' \ DOMAIN table :
            r \in ids /\ table'[r] = rows[r] /\ table'[r] \in req[c].rows
    BY <2>2
  <2>8. ASSUME NEW r \in DOMAIN table' \ DOMAIN table, NEW s \in DOMAIN table',
               table'[r].target = table'[s].target
        PROVE  r = s
    <3>1. s \notin DOMAIN table
      BY <2>4, <2>6, <2>7, <2>8
    <3> QED
      BY <2>2, <2>3, <2>7, <2>8, <3>1
  <2> QED
    BY <2>3, <2>6, <2>7, <2>8 DEF RowsInOrder
<1>3. ASSUME NEW c \in Clients, UpdateCommit(c)
      PROVE  RowsInOrder
  <2>1. PICK id \in DOMAIN table, row \in Row :
            /\ table' = [table EXCEPT ![id] = row]
            /\ row.target = table[id].target
            /\ row.status # "verified"
            /\ row.status = "resolved" => row.resolved_at # Null
    BY <1>3, UpdatedRow
  <2> QED
    BY <2>1 DEF RowsInOrder, TypeOK
<1>4. ASSUME NEW c \in Clients, DeleteCommit(c)
      PROVE  RowsInOrder
  BY <1>4 DEF DeleteCommit, Restrict, RowsInOrder
<1>5. CASE AutoCommit
  <2>1. PICK at \in Stamps :
            table' = [r \in DOMAIN table |->
                         IF r \in job.gone THEN Resolved(table[r], at) ELSE table[r]]
    BY <1>5 DEF AutoCommit
  <2>2. at # Null
    BY ConstantsAssumption DEF ConstantsAssumption
  <2>3. \A r \in DOMAIN table :
            /\ Resolved(table[r], at).target = table[r].target
            /\ Resolved(table[r], at).status = "resolved"
            /\ Resolved(table[r], at).resolved_at = at
    BY DEF Resolved, TypeOK, Row
  <2> QED
    BY <2>1, <2>2, <2>3 DEF RowsInOrder
<1> QED
  BY <1>1, <1>2, <1>3, <1>4, <1>5
     DEF Next, Handler, CreateCheck, CreateRefused, UpdateLoad, DeleteLoad, Begin, UpdateRefused,
         Abort, AutoResolve, AutoLoad, AutoLook, AutoStale, AutoAbort, ScanChanges, vars

\* The inductive step.
LEMMA NextInv == IInv /\ [Next]_vars => IInv'
<1> SUFFICES ASSUME IInv, [Next]_vars PROVE IInv'
  OBVIOUS
<1>1. TypeOK' /\ \A c \in Clients : RequestOK(req'[c])
  BY NextType, NextRequests DEF IInv
<1>2. RowsInOrder
  BY NextRows
<1>3. OnePerTarget'
  <2> SUFFICES ASSUME NEW r1 \in DOMAIN table', NEW r2 \in DOMAIN table',
                      table'[r1].target = table'[r2].target
               PROVE  r1 = r2
    BY DEF OnePerTarget
  <2>1. CASE r1 \notin DOMAIN table \/ r2 \notin DOMAIN table
    BY <1>2, <2>1 DEF RowsInOrder
  <2>2. CASE r1 \in DOMAIN table /\ r2 \in DOMAIN table
    BY <1>2, <2>2 DEF RowsInOrder, IInv, OnePerTarget
  <2> QED
    BY <2>1, <2>2
<1>4. ResolvedIsDated'
  BY <1>2 DEF RowsInOrder, IInv, ResolvedIsDated
<1> QED
  BY <1>1, <1>3, <1>4 DEF IInv

\* The invariant holds in every reachable state.
THEOREM Invariance == Spec => []IInv
  BY InitInv, NextInv, PTL DEF Spec

\* Every reachable table, request and run is what the code's models allow.
THEOREM TypeCorrect == Spec => []TypeOK
<1>1. IInv => TypeOK
  BY DEF IInv
<1> QED
  BY Invariance, <1>1, PTL

\* However many requests and batches overlap, one remediation per target.
THEOREM UniqueTargets == Spec => []OnePerTarget
<1>1. IInv => OnePerTarget
  BY DEF IInv
<1> QED
  BY Invariance, <1>1, PTL

\* However updates and the job overtake each other, a resolved remediation
\* has a date.
THEOREM ResolutionsAreDated == Spec => []ResolvedIsDated
<1>1. IInv => ResolvedIsDated
  BY DEF IInv
<1> QED
  BY Invariance, <1>1, PTL

\* No step, stale or not, makes a remediation verified.
THEOREM VerifiedOnlyInHistory == Spec => VerifiedIsHistory
<1>1. IInv /\ [Next]_vars =>
          [\A r \in DOMAIN table' : table'[r].status = "verified"
              => r \in DOMAIN table /\ table[r].status = "verified"]_vars
  BY NextRows DEF RowsInOrder
<1> QED
  BY Invariance, <1>1, PTL DEF Spec, VerifiedIsHistory

=============================================================================
