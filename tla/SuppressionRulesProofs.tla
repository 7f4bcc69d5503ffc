----------------------- MODULE SuppressionRulesProofs -----------------------
(***************************************************************************)
(* Proofs about SuppressionRules, for every value of its constants.        *)
(***************************************************************************)
EXTENDS SuppressionRules, TLAPS

Request == {Idle} \cup InsertRequest \cup WriteRequest \cup DeleteRequest

\* The operation of a request tells what else the request holds.
LEMMA RequestKinds ==
    ASSUME NEW request \in Request
    PROVE  /\ request.op = "create" => request \in InsertRequest
           /\ request.op \in {"update", "review"} => request \in WriteRequest
           /\ request.op = "delete" => request \in DeleteRequest
           /\ request.op = "idle" => request = Idle
  BY DEF Request, Idle, InsertRequest, WriteRequest, DeleteRequest

\* A row that is signed exactly when it is not requested any more.
Signed(row) == row.status = "requested" <=> row.reviewed_by = Null

\* What an update or a review is about to write.  The row it loaded may be out
\* of date, but both columns of a verdict go with the same flush.
WriteOK(c, u) ==
    /\ u.op = "update" => \E scope \in Scopes : u.new = [u.loaded EXCEPT !.scope = scope]
    /\ u.op = "review" =>
          /\ UserOf[c] \in SecUsers
          /\ u.loaded.status = "requested" /\ u.loaded.reviewed_by = Null
          /\ \E verdict \in {"approved", "rejected"} :
                u.new = Reviewed(u.loaded, verdict, UserOf[c])

SignInv ==
    /\ TypeOK
    /\ SignedFromVerdictOn
    /\ \A c \in Clients : req[c].op = "create" => Signed(req[c].row)
    /\ \A c \in Clients : req[c].op \in {"update", "review"} => WriteOK(c, req[c])

\* What the POST handler inserts is a row, signed if it is in force.
LEMMA NewRowOK ==
    ASSUME NEW c \in Clients, NEW target \in Targets, NEW scope \in Scopes
    PROVE  /\ NewRow(c, target, scope) \in Row
           /\ Signed(NewRow(c, target, scope))
  BY ConstantsAssumption
     DEF NewRow, Row, Users, IsSec, SuppressionStatus, Signed, ConstantsAssumption

\* An update stores its scope on whatever verdict there is by then.
LEMMA UpdateMerge ==
    ASSUME NEW row \in Row, NEW loaded \in Row, NEW scope \in Scopes
    PROVE  LET merged == Merge(row, loaded, [loaded EXCEPT !.scope = scope]) IN
           /\ merged \in Row
           /\ merged.status = row.status
           /\ merged.reviewed_by = row.reviewed_by
<1> DEFINE new == [loaded EXCEPT !.scope = scope]
<1>1. /\ new \in Row
      /\ new.status = loaded.status
      /\ new.reviewed_by = loaded.reviewed_by
  BY DEF Row
<1> QED
  BY <1>1 DEF Merge, Row, Written

\* A review stores its verdict and its signature.
LEMMA ReviewMerge ==
    ASSUME NEW row \in Row, NEW loaded \in Row,
           loaded.status = "requested", loaded.reviewed_by = Null,
           NEW verdict \in {"approved", "rejected"}, NEW reviewer \in SecUsers
    PROVE  LET merged == Merge(row, loaded, Reviewed(loaded, verdict, reviewer)) IN
           /\ merged \in Row
           /\ merged.status = verdict
           /\ merged.reviewed_by = reviewer
           /\ reviewer # Null
<1> DEFINE new == Reviewed(loaded, verdict, reviewer)
<1>1. /\ new \in Row
      /\ new.status = verdict
      /\ new.reviewed_by = reviewer
  BY DEF Reviewed, Row, SuppressionStatus
<1>2. reviewer # Null
  BY ConstantsAssumption DEF ConstantsAssumption
<1> QED
  BY <1>1, <1>2 DEF Merge, Row, Written

\* The steps of a request that do not commit.
Reads(c) ==
    \/ CreateCheck(c)
    \/ \E r \in Rules : UpdateLoad(c, r) \/ ReviewLoad(c, r) \/ DeleteLoad(c, r)
    \/ UpdateCheck(c)

\* Whatever a handler reads and assigns, its request is well typed and fit to
\* be written, and nothing is stored yet.
LEMMA ReadsOK ==
    ASSUME SignInv, NEW c \in Clients, Reads(c)
    PROVE  /\ \E request \in Request :
                  /\ req' = [req EXCEPT ![c] = request]
                  /\ request.op = "create" => Signed(request.row)
                  /\ request.op \in {"update", "review"} => WriteOK(c, request)
           /\ UNCHANGED <<table, used>>
<1> USE DEF SignInv
<1>1. req \in [Clients -> Request]
  BY DEF TypeOK, Request
<1>2. ASSUME NEW r \in DOMAIN table
      PROVE  r \in Rules /\ table[r] \in Row /\ Signed(table[r])
  BY <1>2 DEF TypeOK, SignedFromVerdictOn, Signed
<1>3. CASE CreateCheck(c)
  <2>1. PICK target \in Targets, scope \in Scopes :
            Begin(c, [op |-> "create", row |-> NewRow(c, target, scope)])
    BY <1>3 DEF CreateCheck
  <2> DEFINE request == [op |-> "create", row |-> NewRow(c, target, scope)]
  <2>2. request \in Request /\ request.op = "create" /\ Signed(request.row)
    BY NewRowOK DEF Request, InsertRequest
  <2> QED
    BY <2>1, <2>2 DEF Begin
<1>4. ASSUME NEW r \in Rules, UpdateLoad(c, r)
      PROVE  /\ \E request \in Request :
                    /\ req' = [req EXCEPT ![c] = request]
                    /\ request.op = "update" /\ WriteOK(c, request)
             /\ UNCHANGED <<table, used>>
  <2>1. PICK scope \in Scopes :
            Begin(c, [op |-> "update", rule |-> r, loaded |-> table[r],
                      new |-> [table[r] EXCEPT !.scope = scope], checked |-> FALSE])
    BY <1>4 DEF UpdateLoad
  <2>2. table[r] \in Row /\ [table[r] EXCEPT !.scope = scope] \in Row
    BY <1>2, <1>4 DEF UpdateLoad, Row
  <2> DEFINE request == [op |-> "update", rule |-> r, loaded |-> table[r],
                         new |-> [table[r] EXCEPT !.scope = scope], checked |-> FALSE]
  <2>3. request \in Request /\ request.op = "update"
    BY <2>2 DEF Request, WriteRequest
  <2>4. WriteOK(c, request)
    BY DEF WriteOK
  <2> QED
    BY <2>1, <2>3, <2>4 DEF Begin
<1>5. ASSUME NEW r \in Rules, ReviewLoad(c, r)
      PROVE  /\ \E request \in Request :
                    /\ req' = [req EXCEPT ![c] = request]
                    /\ request.op = "review" /\ WriteOK(c, request)
             /\ UNCHANGED <<table, used>>
  <2>1. PICK verdict \in {"approved", "rejected"} :
            Begin(c, [op |-> "review", rule |-> r, loaded |-> table[r],
                      new |-> Reviewed(table[r], verdict, UserOf[c]), checked |-> TRUE])
    BY <1>5 DEF ReviewLoad
  <2>2. /\ table[r] \in Row /\ Signed(table[r])
        /\ table[r].status = "requested" /\ UserOf[c] \in SecUsers
    BY <1>2, <1>5 DEF ReviewLoad, Reviewable, IsSec
  <2>3. Reviewed(table[r], verdict, UserOf[c]) \in Row
    BY <2>2 DEF Reviewed, Row, SuppressionStatus
  <2> DEFINE request == [op |-> "review", rule |-> r, loaded |-> table[r],
                         new |-> Reviewed(table[r], verdict, UserOf[c]), checked |-> TRUE]
  <2>4. request \in Request /\ request.op = "review"
    BY <2>2, <2>3 DEF Request, WriteRequest
  <2>5. WriteOK(c, request)
    BY <2>2 DEF WriteOK, Signed
  <2> QED
    BY <2>1, <2>4, <2>5 DEF Begin
<1>6. ASSUME NEW r \in Rules, DeleteLoad(c, r)
      PROVE  /\ \E request \in Request :
                    req' = [req EXCEPT ![c] = request] /\ request.op = "delete"
             /\ UNCHANGED <<table, used>>
  <2> DEFINE request == [op |-> "delete", rule |-> r]
  <2>1. request \in Request /\ request.op = "delete"
    BY DEF Request, DeleteRequest
  <2> QED
    BY <1>6, <2>1 DEF DeleteLoad, Begin
<1>7. CASE UpdateCheck(c)
  <2>1. req[c] \in WriteRequest /\ WriteOK(c, req[c])
    BY <1>1, <1>7, RequestKinds DEF UpdateCheck
  <2> DEFINE request == [req[c] EXCEPT !.checked = TRUE]
  <2>2. /\ request \in WriteRequest
        /\ request.op = req[c].op /\ request.loaded = req[c].loaded
        /\ request.new = req[c].new
    BY <2>1 DEF WriteRequest
  <2>3. request \in Request /\ request.op = "update" /\ WriteOK(c, request)
    BY <1>7, <2>1, <2>2 DEF UpdateCheck, Request, WriteOK
  <2>4. Idle \in Request /\ Idle.op = "idle"
    BY DEF Request, Idle
  <2>5. req' = [req EXCEPT ![c] = Idle] \/ req' = [req EXCEPT ![c] = request]
    BY <1>7 DEF UpdateCheck
  <2>6. UNCHANGED <<table, used>>
    BY <1>7 DEF UpdateCheck
  <2> HIDE DEF request
  <2> QED
    BY <2>3, <2>4, <2>5, <2>6
<1> QED
  BY <1>3, <1>4, <1>5, <1>6, <1>7 DEF Reads

\* What a committing write stores.
LEMMA StoredByWrite ==
    ASSUME SignInv, NEW c \in Clients, WriteCommit(c)
    PROVE  LET r == req[c].rule IN
           /\ table[r] \in Row
           /\ Merged(c) \in Row
           /\ Signed(table[r]) /\ Signed(Merged(c))
           /\ req[c].op = "update" => /\ Merged(c).status = table[r].status
                                     /\ Merged(c).reviewed_by = table[r].reviewed_by
           /\ req[c].op = "review" => /\ Merged(c).status = req[c].new.status
                                     /\ Merged(c).status # "requested"
                                     /\ Merged(c).reviewed_by = UserOf[c]
                                     /\ UserOf[c] \in SecUsers
<1> USE DEF SignInv
<1> DEFINE loaded == req[c].loaded
           row == table[req[c].rule]
<1>1. req[c] \in WriteRequest /\ WriteOK(c, req[c]) /\ req[c].rule \in DOMAIN table
  BY RequestKinds DEF WriteCommit, IsWrite, TypeOK, Request
<1>2. row \in Row /\ Signed(row) /\ loaded \in Row
  BY <1>1 DEF TypeOK, WriteRequest, SignedFromVerdictOn, Signed
<1>3. CASE req[c].op = "update"
  <2>1. PICK scope \in Scopes : req[c].new = [loaded EXCEPT !.scope = scope]
    BY <1>1, <1>3 DEF WriteOK
  <2>2. Merged(c) = Merge(row, loaded, [loaded EXCEPT !.scope = scope])
    BY <2>1 DEF Merged
  <2> QED
    BY <1>2, <1>3, <2>2, UpdateMerge DEF Signed
<1>4. CASE req[c].op = "review"
  <2>1. PICK verdict \in {"approved", "rejected"} :
            req[c].new = Reviewed(loaded, verdict, UserOf[c])
    BY <1>1, <1>4 DEF WriteOK
  <2>2. /\ UserOf[c] \in SecUsers
        /\ loaded.status = "requested" /\ loaded.reviewed_by = Null
    BY <1>1, <1>4 DEF WriteOK
  <2>3. Merged(c) = Merge(row, loaded, Reviewed(loaded, verdict, UserOf[c]))
    BY <2>1 DEF Merged
  <2>4. req[c].new.status = verdict
    BY <1>2, <2>1 DEF Reviewed, Row
  <2> QED
    BY <1>2, <1>4, <2>2, <2>3, <2>4, ReviewMerge DEF Signed
<1> QED
  BY <1>3, <1>4 DEF WriteCommit, IsWrite

\* Every step keeps the rows signed from their verdict on.
LEMMA NextSigned ==
    ASSUME SignInv, [Next]_vars
    PROVE  SignInv'
<1> USE DEF SignInv
<1>1. req \in [Clients -> Request]
  BY DEF TypeOK, Request
<1>2. ASSUME NEW c \in Clients, Reads(c)
      PROVE  SignInv'
  <2>1. PICK request \in Request :
            /\ req' = [req EXCEPT ![c] = request]
            /\ request.op = "create" => Signed(request.row)
            /\ request.op \in {"update", "review"} => WriteOK(c, request)
    BY <1>2, ReadsOK
  <2>2. UNCHANGED <<table, used>>
    BY <1>2, ReadsOK
  <2>3. TypeOK' /\ SignedFromVerdictOn'
    BY <1>1, <2>1, <2>2 DEF TypeOK, Request, SignedFromVerdictOn
  <2>4. \A d \in Clients : req'[d] = IF d = c THEN request ELSE req[d]
    BY <1>1, <2>1
  <2>5. ASSUME NEW d \in Clients, req'[d].op \in {"update", "review"}
        PROVE  WriteOK(d, req[d])'
    <3>1. WriteOK(d, IF d = c THEN request ELSE req[d])
      BY <2>1, <2>4, <2>5
    <3> QED
      BY <2>4, <3>1 DEF WriteOK
  <2>6. ASSUME NEW d \in Clients, req'[d].op = "create"
        PROVE  Signed(req[d].row)'
    BY <2>1, <2>4, <2>6 DEF Signed
  <2> QED
    BY <2>3, <2>5, <2>6
<1>3. ASSUME NEW c \in Clients, Done(c), TypeOK', SignedFromVerdictOn'
      PROVE  SignInv'
  <2>1. \A d \in Clients : req'[d] = IF d = c THEN Idle ELSE req[d]
    BY <1>1, <1>3 DEF Done
  <2>2. ASSUME NEW d \in Clients, req'[d].op \in {"update", "review"}
        PROVE  WriteOK(d, req[d])'
    <3>1. req'[d] = req[d]
      BY <2>1, <2>2 DEF Idle
    <3> QED
      BY <2>2, <3>1 DEF WriteOK
  <2>3. ASSUME NEW d \in Clients, req'[d].op = "create"
        PROVE  Signed(req[d].row)'
    BY <2>1, <2>3 DEF Idle, Signed
  <2> QED
    BY <1>3, <2>2, <2>3
<1>4. ASSUME NEW c \in Clients, InsertCommit(c)
      PROVE  SignInv'
  <2>1. PICK r \in Rules \ used :
            /\ table' = [id \in DOMAIN table \cup {r} |->
                             IF id = r THEN req[c].row ELSE table[id]]
            /\ used' = used \cup {r}
    BY <1>4 DEF InsertCommit
  <2>2. req[c].row \in Row /\ Signed(req[c].row)
    BY <1>1, <1>4, RequestKinds DEF InsertCommit, InsertRequest
  <2>3. TypeOK' /\ SignedFromVerdictOn'
    BY <1>4, <2>1, <2>2 DEF InsertCommit, Done, TypeOK, SignedFromVerdictOn, Signed
  <2> QED
    BY <1>3, <1>4, <2>3 DEF InsertCommit
<1>5. ASSUME NEW c \in Clients, WriteCommit(c)
      PROVE  SignInv'
  <2>1. Merged(c) \in Row /\ Signed(Merged(c))
    BY <1>5, StoredByWrite
  <2>2. TypeOK' /\ SignedFromVerdictOn'
    BY <1>5, <2>1 DEF WriteCommit, Done, TypeOK, SignedFromVerdictOn, Signed
  <2> QED
    BY <1>3, <1>5, <2>2 DEF WriteCommit
<1>6. ASSUME NEW c \in Clients, DeleteCommit(c)
      PROVE  SignInv'
  <2>1. TypeOK' /\ SignedFromVerdictOn'
    BY <1>6 DEF DeleteCommit, Done, Restrict, TypeOK, SignedFromVerdictOn
  <2> QED
    BY <1>3, <1>6, <2>1 DEF DeleteCommit
<1>7. ASSUME NEW c \in Clients, InsertRefused(c) \/ WriteRefused(c) \/ Abort(c)
      PROVE  SignInv'
  <2>1. Done(c) /\ UNCHANGED <<table, used>>
    BY <1>7 DEF InsertRefused, WriteRefused, Abort
  <2>2. TypeOK' /\ SignedFromVerdictOn'
    BY <2>1 DEF Done, TypeOK, SignedFromVerdictOn
  <2> QED
    BY <1>3, <2>1, <2>2
<1>8. CASE UNCHANGED vars
  BY <1>8 DEF vars, TypeOK, SignedFromVerdictOn, Signed, WriteOK
<1> QED
  BY <1>2, <1>4, <1>5, <1>6, <1>7, <1>8 DEF Next, Reads

\* The invariant behind the theorems that need no assumption on the clients.
LEMMA SignInvariant == Spec => []SignInv
<1>1. Init => SignInv
  BY DEF Init, SignInv, TypeOK, SignedFromVerdictOn, Idle
<1>2. SignInv /\ [Next]_vars => SignInv'
  BY NextSigned
<1> QED
  BY <1>1, <1>2, PTL DEF Spec

\* Every reachable table and request is what the code's models allow.
THEOREM TypeCorrect == Spec => []TypeOK
<1>1. SignInv => TypeOK
  BY DEF SignInv
<1> QED
  BY <1>1, SignInvariant, PTL

\* Status and signature never disagree, whatever the number of reviewers.
THEOREM SignedRules == Spec => []SignedFromVerdictOn
<1>1. SignInv => SignedFromVerdictOn
  BY DEF SignInv
<1> QED
  BY <1>1, SignInvariant, PTL

\* No interleaving leads from a verdict back to a request.
THEOREM NoReturn == Spec => NeverBackToRequested
<1>1. ASSUME SignInv, [Next]_vars, NEW r \in DOMAIN table \cap DOMAIN table',
             table'[r].status = "requested"
      PROVE  table[r].status = "requested"
  <2>1. ASSUME NEW c \in Clients, Reads(c) \/ InsertRefused(c) \/ WriteRefused(c) \/ Abort(c)
        PROVE  UNCHANGED table
    BY <1>1, <2>1, ReadsOK DEF InsertRefused, WriteRefused, Abort
  <2>2. ASSUME NEW c \in Clients, InsertCommit(c)
        PROVE  table'[r] = table[r]
    BY <1>1, <2>2 DEF InsertCommit, SignInv, TypeOK
  <2>3. ASSUME NEW c \in Clients, DeleteCommit(c)
        PROVE  table'[r] = table[r]
    BY <1>1, <2>3 DEF DeleteCommit, Restrict
  <2>4. ASSUME NEW c \in Clients, WriteCommit(c)
        PROVE  table[r].status = "requested"
    <3>1. CASE r = req[c].rule
      <4>1. table'[r] = Merged(c)
        BY <1>1, <2>4, <3>1 DEF WriteCommit, SignInv, TypeOK
      <4> QED
        BY <1>1, <2>4, <3>1, <4>1, StoredByWrite DEF WriteCommit, IsWrite
    <3>2. CASE r # req[c].rule
      BY <1>1, <2>4, <3>2 DEF WriteCommit, SignInv, TypeOK
    <3> QED
      BY <3>1, <3>2
  <2> QED
    BY <1>1, <2>1, <2>2, <2>3, <2>4 DEF Next, Reads, vars
<1>2. SignInv /\ [Next]_vars =>
          \A r \in DOMAIN table \cap DOMAIN table' :
              table'[r].status = "requested" => table[r].status = "requested"
  BY <1>1
<1> QED
  BY <1>2, SignInvariant, PTL DEF Spec, NeverBackToRequested

\* Two active rules never share CVE and scope, or component and pattern,
\* whatever the number of clients: the index decides at the commit, whatever
\* the check ahead of it saw.
THEOREM NoDuplicateRule == Spec => []ActiveRuleUnique
<1>1. Init => ActiveRuleUnique
  BY DEF Init, ActiveRuleUnique
<1>2. ASSUME SignInv, ActiveRuleUnique, [Next]_vars
      PROVE  ActiveRuleUnique'
  <2>1. ASSUME NEW row, NEW except, ~ViolatesIndex(row, except), IsActive(row),
               row.target \notin Bare
        PROVE  \A r \in DOMAIN table \ except :
                   IsActive(table[r]) => ~SameTarget(table[r], row) /\ ~SameTarget(row, table[r])
    BY <2>1 DEF ViolatesIndex, ExistingActive, SameTarget
  <2>2. ASSUME NEW c \in Clients, Reads(c) \/ InsertRefused(c) \/ WriteRefused(c) \/ Abort(c)
        PROVE  UNCHANGED table
    BY <1>2, <2>2, ReadsOK DEF InsertRefused, WriteRefused, Abort
  <2>3. ASSUME NEW c \in Clients, InsertCommit(c)
        PROVE  ActiveRuleUnique'
    <3>1. PICK r \in Rules \ used :
              table' = [id \in DOMAIN table \cup {r} |->
                            IF id = r THEN req[c].row ELSE table[id]]
      BY <2>3 DEF InsertCommit
    <3>2. \A id \in DOMAIN table :
              IsActive(table[id]) /\ IsActive(req[c].row) /\ req[c].row.target \notin Bare
                  => ~SameTarget(table[id], req[c].row) /\ ~SameTarget(req[c].row, table[id])
      BY <2>1, <2>3 DEF InsertCommit
    <3> QED
      BY <1>2, <3>1, <3>2 DEF ActiveRuleUnique, IsActive, SameTarget
  <2>4. ASSUME NEW c \in Clients, WriteCommit(c)
        PROVE  ActiveRuleUnique'
    <3>1. \A id \in DOMAIN table \ {req[c].rule} :
              IsActive(table[id]) /\ IsActive(Merged(c)) /\ Merged(c).target \notin Bare
                  => ~SameTarget(table[id], Merged(c)) /\ ~SameTarget(Merged(c), table[id])
      BY <2>1, <2>4 DEF WriteCommit
    <3>2. /\ table' = [table EXCEPT ![req[c].rule] = Merged(c)]
          /\ table \in [DOMAIN table -> Row]
      BY <1>2, <2>4 DEF WriteCommit, SignInv, TypeOK
    <3> QED
      BY <1>2, <3>1, <3>2 DEF ActiveRuleUnique, IsActive, SameTarget
  <2>5. ASSUME NEW c \in Clients, DeleteCommit(c)
        PROVE  ActiveRuleUnique'
    BY <1>2, <2>5 DEF DeleteCommit, Restrict, ActiveRuleUnique
  <2>6. UNCHANGED table => ActiveRuleUnique'
    BY <1>2 DEF ActiveRuleUnique
  <2> QED
    BY <1>2, <2>2, <2>3, <2>4, <2>5, <2>6 DEF Next, Reads, vars
<1>3. SignInv /\ ActiveRuleUnique /\ [Next]_vars => ActiveRuleUnique'
  BY <1>2
<1> QED
  BY <1>1, <1>3, SignInvariant, PTL DEF Spec

\* Status and signature never part, and never change but for the verdict of the
\* reviewer who signs: of two who loaded the rule as requested, the later one
\* replaces both, and no edit replaces either.
THEOREM SignersJudged == Spec => SignerPassedVerdict
<1>1. ASSUME SignInv, [Next]_vars, NEW r \in DOMAIN table \cap DOMAIN table',
             \/ table'[r].status # table[r].status
             \/ table'[r].reviewed_by # table[r].reviewed_by
      PROVE  \E c \in Clients : JudgedBy(c, r)
  <2>1. ASSUME NEW c \in Clients, Reads(c) \/ InsertRefused(c) \/ WriteRefused(c) \/ Abort(c)
        PROVE  UNCHANGED table
    BY <1>1, <2>1, ReadsOK DEF InsertRefused, WriteRefused, Abort
  <2>2. ASSUME NEW c \in Clients, InsertCommit(c)
        PROVE  table'[r] = table[r]
    BY <1>1, <2>2 DEF InsertCommit, SignInv, TypeOK
  <2>3. ASSUME NEW c \in Clients, DeleteCommit(c)
        PROVE  table'[r] = table[r]
    BY <1>1, <2>3 DEF DeleteCommit, Restrict
  <2>4. ASSUME NEW c \in Clients, WriteCommit(c)
        PROVE  JudgedBy(c, r)
    <3>1. req[c].rule = r
      BY <1>1, <2>4 DEF WriteCommit, SignInv, TypeOK
    <3>2. table'[r] = Merged(c) /\ req'[c] = Idle
      BY <1>1, <2>4, <3>1 DEF WriteCommit, Done, SignInv, TypeOK
    <3>3. req[c].op = "review"
      BY <1>1, <2>4, <3>1, <3>2, StoredByWrite DEF WriteCommit, IsWrite
    <3> QED
      BY <1>1, <2>4, <3>1, <3>2, <3>3, StoredByWrite DEF JudgedBy, IsSec
  <2> QED
    BY <1>1, <2>1, <2>2, <2>3, <2>4 DEF Next, Reads, vars
<1>2. SignInv /\ [Next]_vars =>
          \A r \in DOMAIN table \cap DOMAIN table' :
              \/ table'[r].status # table[r].status
              \/ table'[r].reviewed_by # table[r].reviewed_by
              => \E c \in Clients : JudgedBy(c, r)
  BY <1>1
<1> QED
  BY <1>2, SignInvariant, PTL DEF Spec, SignerPassedVerdict

=============================================================================
