------------------------------ MODULE AccessProofs ------------------------------
(***************************************************************************)
(* Proofs about the caches and the views of Access.                        *)
(***************************************************************************)
EXTENDS Access, FiniteSetTheorems, WellFoundedInduction, TLAPS

\* What is true of a clock that is bounded.
LEMMA BoundedClock ==
    ASSUME NEW n \in Nat
    PROVE  /\ 0 \in 0 .. n
           /\ \A t \in 0 .. n : t \in Nat /\ (t < n => t + 1 \in 0 .. n)
  OBVIOUS

-----------------------------------------------------------------------------
(***************************************************************************)
(* The annotations of peer clusters                                        *)
(***************************************************************************)
\* Who queries holds the lock, and who holds it queries.
PeersLocked ==
    /\ peersLoop.step \in {"asleep", "query", "read"}
    /\ peersLock = "loop" <=> peersLoop.step \in {"query", "read"}
    /\ \A r \in Requests : peersLock = r <=> peersReq[r].step \in {"query", "read"}

\* What has been read replaces no later reading.
Reading(task) == task.step = "read" => peersIndex.read_at <= task.read_at /\ task.read_at <= clock

PeersOrdered ==
    /\ peersIndex.read_at <= clock
    /\ Reading(peersLoop)
    /\ \A r \in Requests : Reading(peersReq[r])

LEMMA PeersClock ==
    ASSUME Peers!ConstantsAssumption
    PROVE  /\ 0 \in Peers!Times
           /\ \A t \in Peers!Times : t \in Nat /\ (t < MaxTime["peers"] => t + 1 \in Peers!Times)
<1>1. MaxTime["peers"] \in Nat
  BY DEF Peers!ConstantsAssumption
<1> QED
  BY <1>1, BoundedClock DEF Peers!Times

LEMMA PeersInit ==
    ASSUME Peers!ConstantsAssumption, Peers!Init
    PROVE  Peers!TypeOK /\ PeersLocked /\ PeersOrdered
<1>0. /\ peersLoop.step = "asleep" /\ \A r \in Requests : peersReq[r].step = "asleep"
      /\ peersIndex.read_at = -1 /\ clock = 0 /\ peersLock = "no one"
  BY DEF Peers!Init, Peers!Asleep, Peers!NoIndex, Peers!Never, Peers!NoOne
<1>1. Peers!TypeOK
  BY PeersClock DEF Peers!TypeOK, Peers!Task, Peers!Init, Peers!Asleep, Peers!NoIndex, Peers!Never, Peers!NoOne
<1>2. PeersLocked
  BY <1>0 DEF PeersLocked, Peers!ConstantsAssumption
<1>3. PeersOrdered
  <2>1. -1 <= 0
    OBVIOUS
  <2> QED
    BY <1>0, <2>1 DEF PeersOrdered, Reading
<1> QED
  BY <1>1, <1>2, <1>3

LEMMA PeersType ==
    ASSUME Peers!ConstantsAssumption, Peers!TypeOK, Peers!Next
    PROVE  Peers!TypeOK'
<1> USE DEF Peers!TypeOK, Peers!Never, Peers!NoOne, Peers!NoIndex
<1>1. Peers!Asleep \in Peers!Task
  BY PeersClock DEF Peers!Asleep, Peers!Task
<1>2. ASSUME NEW pairs \in SUBSET PeerPairs
      PROVE  Peers!Done(pairs) \in Peers!Task
  BY PeersClock DEF Peers!Done, Peers!Task
<1>3. CASE Peers!Tick
  BY <1>3, PeersClock DEF Peers!Tick
<1>4. ASSUME NEW p \in PeerPairs, Peers!Annotate(p) \/ Peers!Revoke(p)
      PROVE  Peers!TypeOK'
  BY <1>4 DEF Peers!Annotate, Peers!Revoke
<1>5. CASE Peers!Restart
  BY <1>5, <1>1 DEF Peers!Restart
<1>6. CASE Peers!Loop
  <2>1. CASE Peers!LoopLock
    BY <2>1, <1>1 DEF Peers!LoopLock, Peers!Asleep, Peers!Task
  <2>2. CASE Peers!LoopRead
    BY <2>2 DEF Peers!LoopRead, Peers!Query, Peers!Task
  <2>3. CASE Peers!LoopPublish
    BY <2>3, <1>1 DEF Peers!LoopPublish, Peers!Publish, Peers!Task
  <2>4. CASE Peers!LoopFails
    BY <2>4, <1>1 DEF Peers!LoopFails
  <2> QED
    BY <1>6, <2>1, <2>2, <2>3, <2>4 DEF Peers!Loop
<1>7. ASSUME NEW r \in Requests, Peers!Resolve(r) \/ Peers!Load(r)
      PROVE  Peers!TypeOK'
  <2>0. ASSUME peersIndex # [loaded_at |-> -1, read_at |-> -1, pairs |-> {}]
        PROVE  Peers!Answer(peersIndex) \in Peers!Task
    BY <2>0, <1>2 DEF Peers!Answer
  <2>1. CASE Peers!Resolve(r)
    <3>1. [Peers!Asleep EXCEPT !.step = "wait", !.since = clock] \in Peers!Task
      BY PeersClock DEF Peers!Asleep, Peers!Task
    <3> QED
      BY <2>0, <2>1, <3>1, <1>2 DEF Peers!Resolve
  <2>2. CASE Peers!LoadLock(r)
    <3>1. [peersReq[r] EXCEPT !.step = "query"] \in Peers!Task
      BY DEF Peers!Task
    <3>2. \/ /\ peersLock' = r
             /\ peersReq' = [peersReq EXCEPT ![r] = [peersReq[r] EXCEPT !.step = "query"]]
          \/ /\ peersLock' = peersLock
             /\ peersIndex # Peers!NoIndex
             /\ peersReq' = [peersReq EXCEPT ![r] = Peers!Answer(peersIndex)]
          \/ /\ peersLock' = peersLock
             /\ peersReq' = [peersReq EXCEPT ![r] = Peers!Done({})]
      BY <2>2 DEF Peers!LoadLock
    <3>3. \E task \in Peers!Task : peersReq' = [peersReq EXCEPT ![r] = task]
      BY <2>0, <3>1, <3>2, <1>2
    <3>4. peersReq' \in [Requests -> Peers!Task]
      BY <3>3
    <3> QED
      BY <2>2, <3>2, <3>4 DEF Peers!LoadLock
  <2>3. CASE Peers!LoadRead(r)
    BY <2>3 DEF Peers!LoadRead, Peers!Query, Peers!Task
  <2>4. CASE Peers!LoadPublish(r)
    <3>1. peersReq[r].pairs \in SUBSET PeerPairs /\ peersReq[r].read_at \in Peers!Times
      BY DEF Peers!Task
    <3>2. peersIndex' \in [loaded_at : Peers!Times, read_at : Peers!Times, pairs : SUBSET PeerPairs]
      BY <2>4, <3>1 DEF Peers!LoadPublish, Peers!Publish
    <3> QED
      BY <2>4, <3>1, <3>2, <1>2 DEF Peers!LoadPublish, Peers!Publish
  <2>5. CASE Peers!LoadFails(r)
    BY <2>5, <1>2 DEF Peers!LoadFails
  <2> QED
    BY <1>7, <2>1, <2>2, <2>3, <2>4, <2>5 DEF Peers!Load
<1> QED
  BY <1>3, <1>4, <1>5, <1>6, <1>7 DEF Peers!Next

\* Who waited for the lock queries, or finds what another load has left.
LEMMA PeersLockStep ==
    ASSUME Peers!TypeOK, NEW r \in Requests, Peers!LoadLock(r)
    PROVE  /\ peersLock = "no one"
           /\ \/ peersLock' = r /\ peersReq'[r].step = "query"
              \/ peersLock' = "no one" /\ peersReq'[r].step = "done"
<1>1. [peersReq[r] EXCEPT !.step = "query"].step = "query"
  BY DEF Peers!TypeOK, Peers!Task
<1>2. \A pairs : Peers!Done(pairs).step = "done"
  BY DEF Peers!Done
<1>3. \/ /\ peersLock' = r
         /\ peersReq' = [peersReq EXCEPT ![r] = [peersReq[r] EXCEPT !.step = "query"]]
      \/ /\ peersLock' = peersLock
         /\ \E pairs : peersReq' = [peersReq EXCEPT ![r] = Peers!Done(pairs)]
  BY DEF Peers!LoadLock, Peers!Answer
<1> QED
  BY <1>1, <1>2, <1>3 DEF Peers!LoadLock, Peers!Free, Peers!NoOne, Peers!TypeOK

\* A step of one request leaves the tasks of the others alone.
LEMMA PeersLockedNext ==
    ASSUME Peers!ConstantsAssumption, Peers!TypeOK, PeersLocked, Peers!Next
    PROVE  PeersLocked'
<1> USE DEF PeersLocked, Peers!NoOne
<1>0. "loop" \notin Requests /\ "no one" \notin Requests
  BY DEF Peers!ConstantsAssumption
<1>1. CASE Peers!Tick \/ \E p \in PeerPairs : Peers!Annotate(p) \/ Peers!Revoke(p)
  BY <1>1 DEF Peers!Tick, Peers!Annotate, Peers!Revoke
<1>2. CASE Peers!Restart
  BY <1>2, <1>0 DEF Peers!Restart, Peers!Asleep
<1>3. CASE Peers!Loop
  <2>1. CASE Peers!LoopLock
    BY <1>0, <2>1 DEF Peers!LoopLock, Peers!Asleep, Peers!Free
  <2>2. CASE Peers!LoopRead
    BY <2>2 DEF Peers!LoopRead, Peers!Query, Peers!TypeOK, Peers!Task
  <2>3. CASE Peers!LoopPublish \/ Peers!LoopFails
    <3>1. peersLock = "loop" /\ peersLock' = "no one" /\ peersReq' = peersReq
      BY <2>3 DEF Peers!LoopPublish, Peers!LoopFails
    <3>2. peersLoop' = Peers!Asleep /\ Peers!Asleep.step = "asleep"
      BY <2>3 DEF Peers!LoopPublish, Peers!LoopFails, Peers!Asleep
    <3> QED
      BY <1>0, <3>1, <3>2
  <2> QED
    BY <1>3, <2>1, <2>2, <2>3 DEF Peers!Loop
<1>4. ASSUME NEW r \in Requests, Peers!Resolve(r) \/ Peers!Load(r)
      PROVE  PeersLocked'
  <2>1. /\ peersLoop' = peersLoop
        /\ \A s \in Requests \ {r} : peersReq'[s] = peersReq[s]
    BY <1>4 DEF Peers!Resolve, Peers!Load, Peers!LoadLock, Peers!LoadRead, Peers!LoadPublish,
                Peers!LoadFails, Peers!TypeOK
  <2>2. CASE Peers!Resolve(r)
    <3>1. peersReq'[r].step \in {"done", "wait"}
      BY <2>2 DEF Peers!Resolve, Peers!Answer, Peers!Done, Peers!Asleep, Peers!TypeOK
    <3> QED
      BY <2>1, <2>2, <3>1 DEF Peers!Resolve
  <2>3. CASE Peers!LoadLock(r)
    <3> QED
      BY <1>0, <2>1, <2>3, PeersLockStep DEF Peers!LoadLock
  <2>4. CASE Peers!LoadRead(r)
    <3>1. peersReq'[r].step = "read"
      BY <2>4 DEF Peers!LoadRead, Peers!Query, Peers!TypeOK, Peers!Task
    <3> QED
      BY <2>1, <2>4, <3>1 DEF Peers!LoadRead
  <2>5. CASE Peers!LoadPublish(r)
    <3>1. peersReq'[r].step = "done"
      BY <2>5 DEF Peers!LoadPublish, Peers!Done, Peers!TypeOK
    <3> QED
      BY <1>0, <2>1, <2>5, <3>1 DEF Peers!LoadPublish
  <2>6. CASE Peers!LoadFails(r)
    <3>1. peersReq'[r].step = "done"
      BY <2>6 DEF Peers!LoadFails, Peers!Done, Peers!TypeOK
    <3> QED
      BY <1>0, <2>1, <2>6, <3>1 DEF Peers!LoadFails
  <2> QED
    BY <1>4, <2>2, <2>3, <2>4, <2>5, <2>6 DEF Peers!Load
<1> QED
  BY <1>1, <1>2, <1>3, <1>4 DEF Peers!Next

\* The index is read ever later: who publishes held the lock since it read.
LEMMA PeersOrderedNext ==
    ASSUME Peers!ConstantsAssumption, Peers!TypeOK, PeersLocked, PeersOrdered, Peers!Next
    PROVE  PeersOrdered' /\ Peers!Forward
<1> USE DEF PeersOrdered, Peers!Forward
<1>0. clock \in Nat /\ "loop" \notin Requests
  BY PeersClock DEF Peers!ConstantsAssumption, Peers!TypeOK
<1>i. peersIndex.read_at \in Int
  <2>1. CASE peersIndex = Peers!NoIndex
    BY <2>1 DEF Peers!NoIndex, Peers!Never
  <2>2. CASE peersIndex # Peers!NoIndex
    BY <2>2, PeersClock DEF Peers!TypeOK
  <2> QED
    BY <2>1, <2>2
<1>t. \A task \in Peers!Task : task.read_at \in Nat
  BY PeersClock DEF Peers!Task
<1>1. CASE Peers!Tick
  <2>1. clock' = clock + 1 /\ UNCHANGED <<peersIndex, peersLoop, peersReq>>
    BY <1>1 DEF Peers!Tick
  <2> QED
    BY <1>0, <1>i, <1>t, <2>1 DEF Reading, Peers!TypeOK
<1>2. CASE \E p \in PeerPairs : Peers!Annotate(p) \/ Peers!Revoke(p)
  <2>1. UNCHANGED <<clock, peersIndex, peersLoop, peersReq>>
    BY <1>2 DEF Peers!Annotate, Peers!Revoke
  <2> QED
    BY <1>i, <2>1 DEF Reading
<1>3. CASE Peers!Restart
  <2>1. peersIndex'.read_at = -1 /\ peersIndex' = Peers!NoIndex
    BY <1>3 DEF Peers!Restart, Peers!NoIndex, Peers!Never
  <2>2. peersLoop'.step = "asleep" /\ \A r \in Requests : peersReq'[r].step = "asleep"
    BY <1>3 DEF Peers!Restart, Peers!Asleep
  <2> QED
    BY <1>0, <1>3, <2>1, <2>2 DEF Peers!Restart, Reading
<1>4. CASE Peers!Loop
  <2>1. CASE Peers!LoopLock \/ Peers!LoopFails
    <3>1. peersLoop'.step # "read" /\ UNCHANGED <<clock, peersIndex, peersReq>>
      <4>1. CASE Peers!LoopLock
        BY <4>1 DEF Peers!LoopLock, Peers!Asleep
      <4>2. CASE Peers!LoopFails
        BY <4>2 DEF Peers!LoopFails, Peers!Asleep
      <4> QED
        BY <2>1, <4>1, <4>2
    <3> QED
      BY <1>i, <3>1 DEF Reading
  <2>2. CASE Peers!LoopRead
    <3>1. peersLoop'.read_at = clock /\ UNCHANGED <<clock, peersIndex, peersReq>>
      BY <2>2 DEF Peers!LoopRead, Peers!Query, Peers!TypeOK, Peers!Task
    <3> QED
      BY <1>0, <1>i, <3>1 DEF Reading
  <2>3. CASE Peers!LoopPublish
    <3>1. /\ peersLoop.step = "read" /\ peersLoop'.step = "asleep"
          /\ peersIndex'.read_at = peersLoop.read_at
          /\ UNCHANGED <<clock, peersReq>>
      BY <2>3 DEF Peers!LoopPublish, Peers!Publish, Peers!Asleep
    <3>2. \A s \in Requests : peersReq[s].step # "read"
      BY <1>0, <3>1 DEF PeersLocked
    <3> QED
      BY <3>1, <3>2 DEF Reading
  <2> QED
    BY <1>4, <2>1, <2>2, <2>3 DEF Peers!Loop
<1>5. ASSUME NEW r \in Requests, Peers!Resolve(r) \/ Peers!Load(r)
      PROVE  PeersOrdered' /\ Peers!Forward
  <2>1. /\ peersLoop' = peersLoop /\ clock' = clock
        /\ \A s \in Requests \ {r} : peersReq'[s] = peersReq[s]
    BY <1>5 DEF Peers!Resolve, Peers!Load, Peers!LoadLock, Peers!LoadRead, Peers!LoadPublish,
                Peers!LoadFails, Peers!TypeOK
  <2>2. CASE Peers!Resolve(r) \/ Peers!LoadLock(r) \/ Peers!LoadFails(r)
    <3>1. peersReq'[r].step # "read" /\ peersIndex' = peersIndex
      <4>1. CASE Peers!Resolve(r)
        BY <4>1 DEF Peers!Resolve, Peers!Answer, Peers!Done, Peers!Asleep, Peers!TypeOK
      <4>2. CASE Peers!LoadLock(r)
        BY <4>2, PeersLockStep DEF Peers!LoadLock, Peers!TypeOK
      <4>3. CASE Peers!LoadFails(r)
        BY <4>3 DEF Peers!LoadFails, Peers!Done, Peers!TypeOK
      <4> QED
        BY <2>2, <4>1, <4>2, <4>3
    <3> QED
      BY <1>i, <2>1, <3>1 DEF Reading
  <2>3. CASE Peers!LoadRead(r)
    <3>1. peersReq'[r].read_at = clock /\ peersIndex' = peersIndex
      BY <2>3 DEF Peers!LoadRead, Peers!Query, Peers!TypeOK, Peers!Task
    <3> QED
      BY <1>0, <1>i, <2>1, <3>1 DEF Reading
  <2>4. CASE Peers!LoadPublish(r)
    <3>1. /\ peersReq[r].step = "read" /\ peersReq'[r].step = "done"
          /\ peersIndex'.read_at = peersReq[r].read_at
      BY <2>4 DEF Peers!LoadPublish, Peers!Publish, Peers!Done, Peers!TypeOK
    <3>2. peersLoop.step # "read" /\ \A s \in Requests \ {r} : peersReq[s].step # "read"
      BY <1>0, <3>1 DEF PeersLocked
    <3> QED
      BY <2>1, <3>1, <3>2 DEF Reading
  <2> QED
    BY <1>5, <2>2, <2>3, <2>4 DEF Peers!Load
<1> QED
  BY <1>1, <1>2, <1>3, <1>4, <1>5 DEF Peers!Next

\* The pairs were annotated at a time, or since.
KnownSince(pairs, at) == \A p \in pairs : p \in peers \/ peersRevoked[p] >= at

\* A task that has not ended is within its limit, and what it was granted or
\* has read was annotated when it read it.
Aged(task, limit) ==
    /\ task.since <= clock
    /\ task.step \in {"wait", "query", "read"} => clock - task.since <= limit
    /\ task.step = "read" => task.since <= task.read_at /\ KnownSince(task.pairs, task.read_at)
    /\ task.step = "done" => KnownSince(task.pairs, task.since - (MaxStaleness + Peers!LoadTime))

PeersAged ==
    /\ Aged(peersLoop, QueryTime)
    /\ \A r \in Requests : Aged(peersReq[r], ColdTimeout)
    /\ peersIndex # Peers!NoIndex =>
          /\ peersIndex.loaded_at <= clock
          /\ peersIndex.loaded_at - peersIndex.read_at <= Peers!LoadTime
          /\ KnownSince(peersIndex.pairs, peersIndex.read_at)

LEMMA PeersAgedInit ==
    ASSUME Peers!ConstantsAssumption, Peers!Init
    PROVE  PeersAged
  BY DEF Peers!Init, Peers!Asleep, PeersAged, Aged

\* What was annotated since a time stays so, or is revoked later.
LEMMA KnownSinceNext ==
    ASSUME Peers!ConstantsAssumption, Peers!TypeOK, Peers!Next,
           NEW pairs \in SUBSET PeerPairs, NEW at \in Int, at <= clock, KnownSince(pairs, at)
    PROVE  KnownSince(pairs, at)'
<1>1. CASE UNCHANGED <<peers, peersRevoked>>
  BY <1>1 DEF KnownSince
<1>2. ASSUME NEW p \in PeerPairs, Peers!Annotate(p)
      PROVE  KnownSince(pairs, at)'
  BY <1>2 DEF Peers!Annotate, KnownSince
<1>3. ASSUME NEW p \in PeerPairs, Peers!Revoke(p)
      PROVE  KnownSince(pairs, at)'
  <2>1. peersRevoked'[p] = clock /\ \A q \in PeerPairs \ {p} : peersRevoked'[q] = peersRevoked[q]
    BY <1>3 DEF Peers!Revoke, Peers!TypeOK
  <2>2. peers' = peers \ {p}
    BY <1>3 DEF Peers!Revoke
  <2> QED
    BY <2>1, <2>2 DEF KnownSince
<1> QED
  BY <1>1, <1>2, <1>3 DEF Peers!Next, Peers!Tick, Peers!Restart, Peers!Loop, Peers!LoopLock,
     Peers!LoopRead, Peers!LoopPublish, Peers!LoopFails, Peers!Resolve, Peers!Load, Peers!LoadLock,
     Peers!LoadRead, Peers!LoadPublish, Peers!LoadFails

LEMMA PeersTimes ==
    ASSUME Peers!ConstantsAssumption, Peers!TypeOK
    PROVE  /\ clock \in Nat /\ MaxStaleness \in Nat /\ QueryTime \in Nat /\ ColdTimeout \in Nat
           /\ Peers!LoadTime \in Nat /\ QueryTime <= Peers!LoadTime /\ ColdTimeout <= Peers!LoadTime
           /\ \A task \in Peers!Task : task.since \in Nat /\ task.read_at \in Nat /\ task.pairs \in SUBSET PeerPairs
           /\ peersIndex # Peers!NoIndex =>
                 peersIndex.loaded_at \in Nat /\ peersIndex.read_at \in Nat /\ peersIndex.pairs \in SUBSET PeerPairs
<1>1. clock \in Nat /\ MaxStaleness \in Nat /\ QueryTime \in Nat /\ ColdTimeout \in Nat
  BY PeersClock DEF Peers!ConstantsAssumption, Peers!TypeOK
<1>2. Peers!LoadTime \in Nat /\ QueryTime <= Peers!LoadTime /\ ColdTimeout <= Peers!LoadTime
  BY <1>1 DEF Peers!LoadTime
<1>3. \A task \in Peers!Task : task.since \in Nat /\ task.read_at \in Nat /\ task.pairs \in SUBSET PeerPairs
  BY PeersClock DEF Peers!Task
<1>4. peersIndex # Peers!NoIndex =>
          peersIndex.loaded_at \in Nat /\ peersIndex.read_at \in Nat /\ peersIndex.pairs \in SUBSET PeerPairs
  BY PeersClock DEF Peers!TypeOK
<1> QED
  BY <1>1, <1>2, <1>3, <1>4

\* A task no step touches ages with the clock.
LEMMA AgedNext ==
    ASSUME Peers!ConstantsAssumption, Peers!TypeOK, Peers!Next,
           NEW task \in Peers!Task, NEW limit \in Nat, Aged(task, limit), Reading(task),
           clock' = clock \/ (clock' = clock + 1 /\ ~Peers!Overdue(task, limit))
    PROVE  Aged(task, limit)'
<1> DEFINE age == MaxStaleness + Peers!LoadTime
<1>1. clock \in Nat /\ task.since \in Nat /\ task.read_at \in Nat /\ age \in Nat /\ task.pairs \in SUBSET PeerPairs
  BY PeersTimes
<1>2. task.step = "read" => KnownSince(task.pairs, task.read_at)'
  BY <1>1, KnownSinceNext DEF Aged, Reading
<1>3. task.step = "done" => KnownSince(task.pairs, task.since - age)'
  <2>1. task.since - age \in Int /\ (task.since <= clock => task.since - age <= clock)
    BY <1>1
  <2> QED
    BY <1>1, <2>1, KnownSinceNext DEF Aged
<1>4. task.since <= clock' /\ (task.step \in {"wait", "query", "read"} => clock' - task.since <= limit)
  BY <1>1 DEF Aged, Peers!Overdue
<1> QED
  BY <1>2, <1>3, <1>4 DEF Aged

\* A task that starts, waits for the lock or is refused.
LEMMA NewTaskAged ==
    ASSUME Peers!ConstantsAssumption, Peers!TypeOK, NEW limit \in Nat
    PROVE  /\ Aged(Peers!Asleep, limit)
           /\ Aged(Peers!Done({}), limit)
           /\ \A step \in {"wait", "query"} : Aged([Peers!Asleep EXCEPT !.step = step, !.since = clock], limit)
  BY PeersTimes DEF Aged, Peers!Asleep, Peers!Done, KnownSince

\* An answer from an index that is not stale grants what was annotated when it
\* was read, which is a staleness and a load ago at most.
LEMMA AnswerAged ==
    ASSUME Peers!ConstantsAssumption, Peers!TypeOK, PeersAged, peersIndex # Peers!NoIndex, NEW limit \in Nat
    PROVE  Aged(Peers!Answer(peersIndex), limit)
<1>1. CASE Peers!Stale(peersIndex)
  BY <1>1, NewTaskAged DEF Peers!Answer
<1>2. CASE ~Peers!Stale(peersIndex)
  <2>1. clock - (MaxStaleness + Peers!LoadTime) <= peersIndex.read_at
    BY <1>2, PeersTimes DEF PeersAged, Peers!Stale
  <2>2. KnownSince(peersIndex.pairs, clock - (MaxStaleness + Peers!LoadTime))
    <3>1. \A p \in peersIndex.pairs : peersRevoked[p] \in Int
      BY PeersTimes, PeersClock DEF Peers!TypeOK, Peers!Never
    <3> QED
      BY <2>1, <3>1, PeersTimes DEF PeersAged, KnownSince
  <2> QED
    BY <1>2, <2>2, PeersTimes DEF Aged, Peers!Answer, Peers!Done
<1> QED
  BY <1>1, <1>2

\* What a task has read is annotated then.
LEMMA QueryAged ==
    ASSUME Peers!ConstantsAssumption, Peers!TypeOK, NEW task \in Peers!Task, NEW limit \in Nat,
           task.step = "query", Aged(task, limit)
    PROVE  Aged(Peers!Query(task), limit)
<1>1. /\ Peers!Query(task).step = "read" /\ Peers!Query(task).since = task.since
      /\ Peers!Query(task).read_at = clock /\ Peers!Query(task).pairs = peers
  BY DEF Peers!Query, Peers!Task
<1>2. KnownSince(peers, clock)
  BY DEF KnownSince
<1> QED
  BY <1>1, <1>2, PeersTimes DEF Aged

LEMMA PublishAged ==
    ASSUME Peers!ConstantsAssumption, Peers!TypeOK, NEW task \in Peers!Task, NEW limit \in Nat,
           task.step = "read", Aged(task, limit), Reading(task), limit <= Peers!LoadTime
    PROVE  /\ clock - task.read_at <= Peers!LoadTime
           /\ KnownSince(task.pairs, task.read_at)
           /\ Aged(Peers!Done(task.pairs), limit)
<1>1. clock - task.read_at <= Peers!LoadTime /\ KnownSince(task.pairs, task.read_at)
  BY PeersTimes DEF Aged, Reading
<1>2. KnownSince(task.pairs, clock - (MaxStaleness + Peers!LoadTime))
  <2>1. \A p \in task.pairs : peersRevoked[p] \in Int
    BY PeersTimes, PeersClock DEF Peers!TypeOK, Peers!Never
  <2>2. clock - (MaxStaleness + Peers!LoadTime) <= task.read_at
    BY <1>1, PeersTimes
  <2> QED
    BY <1>1, <2>1, <2>2, PeersTimes DEF KnownSince
<1> QED
  BY <1>1, <1>2, PeersTimes DEF Aged, Peers!Done

LEMMA PeersAgedNext ==
    ASSUME Peers!ConstantsAssumption, Peers!TypeOK, PeersLocked, PeersOrdered, PeersAged, Peers!Next
    PROVE  PeersAged'
<1> DEFINE IndexAged == peersIndex # Peers!NoIndex =>
              /\ peersIndex.loaded_at <= clock
              /\ peersIndex.loaded_at - peersIndex.read_at <= Peers!LoadTime
              /\ KnownSince(peersIndex.pairs, peersIndex.read_at)
           still == UNCHANGED <<clock, peers, peersRevoked>>
<1>0. /\ Aged(peersLoop, QueryTime) /\ Reading(peersLoop) /\ peersLoop \in Peers!Task
      /\ \A r \in Requests : Aged(peersReq[r], ColdTimeout) /\ Reading(peersReq[r]) /\ peersReq[r] \in Peers!Task
      /\ IndexAged
  BY DEF PeersAged, PeersOrdered, Peers!TypeOK
<1>s. ASSUME NEW task, NEW limit, Aged(task, limit), still
      PROVE  Aged(task, limit)'
  BY <1>s DEF Aged, KnownSince
<1>i. still /\ peersIndex' = peersIndex => IndexAged'
  BY <1>0 DEF KnownSince
<1>1. CASE \/ Peers!Tick
           \/ \E p \in PeerPairs : Peers!Annotate(p) \/ Peers!Revoke(p)
  <2>1. UNCHANGED <<peersIndex, peersLoop, peersReq>> /\ (clock' = clock \/ clock' = clock + 1)
    BY <1>1 DEF Peers!Tick, Peers!Annotate, Peers!Revoke
  <2>2. \/ clock' = clock
        \/ ~Peers!Overdue(peersLoop, QueryTime) /\ \A r \in Requests : ~Peers!Overdue(peersReq[r], ColdTimeout)
    <3>1. CASE Peers!Tick
      BY <3>1 DEF Peers!Tick
    <3>2. ASSUME NEW p \in PeerPairs, Peers!Annotate(p) \/ Peers!Revoke(p)
          PROVE  clock' = clock
      BY <3>2 DEF Peers!Annotate, Peers!Revoke
    <3> QED
      BY <1>1, <3>1, <3>2
  <2>3. Aged(peersLoop, QueryTime)'
    BY <1>0, <2>1, <2>2, AgedNext, PeersTimes DEF Aged, KnownSince
  <2>4. ASSUME NEW r \in Requests
        PROVE  Aged(peersReq[r], ColdTimeout)'
    BY <1>0, <2>1, <2>2, AgedNext, PeersTimes DEF Aged, KnownSince
  <2>5. IndexAged'
    <3>1. ASSUME peersIndex # Peers!NoIndex
          PROVE  \A p \in peersIndex.pairs : p \in peers' \/ peersRevoked'[p] >= peersIndex.read_at
      <4>1. /\ peersIndex.pairs \in SUBSET PeerPairs /\ peersIndex.read_at \in Int
            /\ peersIndex.read_at <= clock /\ KnownSince(peersIndex.pairs, peersIndex.read_at)
        BY <1>0, <3>1, PeersTimes DEF PeersOrdered
      <4> QED
        BY <4>1, KnownSinceNext DEF KnownSince
    <3> QED
      BY <1>0, <2>1, <3>1, PeersTimes DEF KnownSince
  <2> QED
    BY <2>3, <2>4, <2>5 DEF PeersAged
<1>2. CASE Peers!Restart
  <2>1. still /\ peersLoop' = Peers!Asleep /\ peersReq' = [r \in Requests |-> Peers!Asleep] /\ peersIndex' = Peers!NoIndex
    BY <1>2 DEF Peers!Restart
  <2>2. Aged(Peers!Asleep, QueryTime)' /\ Aged(Peers!Asleep, ColdTimeout)'
    BY <1>s, <2>1, NewTaskAged, PeersTimes
  <2> QED
    BY <2>1, <2>2 DEF PeersAged, Aged, KnownSince, Peers!Asleep
<1>3. CASE Peers!Loop
  <2>0. still /\ peersReq' = peersReq
    BY <1>3 DEF Peers!Loop, Peers!LoopLock, Peers!LoopRead, Peers!LoopPublish, Peers!LoopFails
  <2>1. \A r \in Requests : Aged(peersReq[r], ColdTimeout)'
    BY <1>0, <2>0 DEF Aged, KnownSince
  <2>2. /\ Aged(peersLoop', QueryTime)
        /\ \/ peersIndex' = peersIndex
           \/ /\ peersLoop.step = "read"
              /\ peersIndex' = [loaded_at |-> clock, read_at |-> peersLoop.read_at, pairs |-> peersLoop.pairs]
    BY <1>0, <1>3, NewTaskAged, QueryAged, PeersTimes
    DEF Peers!Loop, Peers!LoopLock, Peers!LoopRead, Peers!LoopPublish, Peers!LoopFails, Peers!Publish
  <2>3. IndexAged'
    BY <1>0, <1>i, <2>0, <2>2, PublishAged, PeersTimes DEF KnownSince
  <2> QED
    BY <2>0, <2>1, <2>2, <2>3 DEF PeersAged, Aged, KnownSince
<1>4. ASSUME NEW r \in Requests, Peers!Resolve(r) \/ Peers!Load(r)
      PROVE  PeersAged'
  <2>0. /\ still /\ peersLoop' = peersLoop
        /\ \A s \in Requests \ {r} : peersReq'[s] = peersReq[s]
    BY <1>4 DEF Peers!Resolve, Peers!Load, Peers!LoadLock, Peers!LoadRead, Peers!LoadPublish,
                Peers!LoadFails, Peers!TypeOK
  <2>1. /\ Aged(peersReq'[r], ColdTimeout)
        /\ \/ peersIndex' = peersIndex
           \/ /\ peersReq[r].step = "read"
              /\ peersIndex' = [loaded_at |-> clock, read_at |-> peersReq[r].read_at, pairs |-> peersReq[r].pairs]
    <3>1. CASE Peers!Resolve(r)
      BY <3>1, NewTaskAged, AnswerAged, PeersTimes DEF Peers!Resolve, Peers!TypeOK
    <3>2. CASE Peers!LoadLock(r)
      <4>1. Aged([peersReq[r] EXCEPT !.step = "query"], ColdTimeout)
        BY <1>0, <3>2 DEF Peers!LoadLock, Aged, Peers!Task
      <4> QED
        BY <3>2, <4>1, NewTaskAged, AnswerAged, PeersTimes DEF Peers!LoadLock, Peers!TypeOK
    <3>3. CASE Peers!LoadRead(r)
      BY <1>0, <3>3, QueryAged, PeersTimes DEF Peers!LoadRead, Peers!TypeOK
    <3>4. CASE Peers!LoadPublish(r)
      BY <1>0, <3>4, PublishAged, PeersTimes DEF Peers!LoadPublish, Peers!Publish, Peers!TypeOK
    <3>5. CASE Peers!LoadFails(r)
      BY <3>5, NewTaskAged, PeersTimes DEF Peers!LoadFails, Peers!TypeOK
    <3> QED
      BY <1>4, <3>1, <3>2, <3>3, <3>4, <3>5 DEF Peers!Load
  <2>2. \A s \in Requests : Aged(peersReq'[s], ColdTimeout)
    BY <1>0, <2>0, <2>1
  <2>3. IndexAged'
    BY <1>0, <1>i, <2>0, <2>1, PublishAged, PeersTimes DEF KnownSince
  <2> QED
    BY <1>0, <2>0, <2>2, <2>3 DEF PeersAged, Aged, KnownSince
<1> QED
  BY <1>1, <1>2, <1>3, <1>4 DEF Peers!Next

\* What a request is granted was annotated a staleness and a load before it
\* was answered, or since.
LEMMA PeersRevoked ==
    ASSUME Peers!ConstantsAssumption, Peers!TypeOK, PeersAged
    PROVE  Peers!RevokedInTime
<1>1. \A r \in Requests : \A p \in peersReq[r].pairs : peersRevoked[p] \in Int /\ peersReq[r].since \in Nat
  BY PeersTimes, PeersClock DEF Peers!TypeOK, Peers!Never
<1> QED
  BY <1>1, PeersTimes DEF Peers!RevokedInTime, PeersAged, Aged, KnownSince

PeersInv == Peers!TypeOK /\ PeersLocked /\ PeersOrdered /\ PeersAged

LEMMA PeersPreserved ==
    ASSUME Peers!ConstantsAssumption, PeersInv, Peers!Next \/ UNCHANGED <<clock, peersVars>>
    PROVE  PeersInv' /\ Peers!Forward
<1>1. ASSUME Peers!Next
      PROVE  PeersInv' /\ Peers!Forward
  BY <1>1, PeersType, PeersLockedNext, PeersOrderedNext, PeersAgedNext DEF PeersInv
<1>2. ASSUME UNCHANGED <<clock, peersVars>>
      PROVE  PeersInv' /\ Peers!Forward
  <2>1. PeersInv'
    BY <1>2 DEF PeersInv, peersVars, Peers!TypeOK, PeersLocked, PeersOrdered, Reading, PeersAged, Aged, KnownSince
  <2>2. peersIndex'.read_at = peersIndex.read_at
    BY <1>2 DEF peersVars
  <2>3. peersIndex # Peers!NoIndex => peersIndex.read_at \in Nat
    BY PeersTimes DEF PeersInv
  <2> QED
    BY <1>2, <2>1, <2>2, <2>3 DEF Peers!Forward, peersVars
<1> QED
  BY <1>1, <1>2

-----------------------------------------------------------------------------
(***************************************************************************)
(* The scores the lists filter by                                          *)
(***************************************************************************)
\* Who queries holds the lock.
ScoresLocked ==
    /\ query = [q \in Requests |-> query[q]]
    /\ scoresLock = "loop" <=> scoresLoop.step \in {"query", "read"}
    /\ \A q \in Requests : scoresLock = q <=> query[q].step \in {"query", "read"}

\* What has been read replaces no later reading.
Fetching(task) == task.step = "read" => task.got.read_at \in Nat /\ scores.read_at <= task.got.read_at

ScoresOrdered ==
    /\ clock \in Nat /\ scores.read_at \in Int /\ scores.read_at <= clock
    /\ Fetching(scoresLoop) /\ (scoresLoop.step = "read" => scoresLoop.got.read_at <= clock)
    /\ \A q \in Requests : Fetching(query[q]) /\ (query[q].step = "read" => query[q].got.read_at <= clock)

ScoresInv == ScoresLocked /\ ScoresOrdered

LEMMA ScoresInit ==
    ASSUME EffScores!ConstantsAssumption, EffScores!Init
    PROVE  ScoresInv
<1>1. /\ scoresLoop.step = "idle" /\ scores.read_at = -1 /\ clock = 0 /\ scoresLock = "no one"
      /\ query = [q \in Requests |-> EffScores!Idle] /\ \A q \in Requests : query[q].step = "idle"
  BY DEF EffScores!Init, EffScores!Idle, EffScores!Empty, EffScores!Never, EffScores!NoOne
<1>2. ScoresLocked
  BY <1>1 DEF ScoresLocked, EffScores!ConstantsAssumption
<1>3. -1 \in Int /\ -1 <= 0 /\ 0 \in Nat
  OBVIOUS
<1> QED
  BY <1>1, <1>2, <1>3 DEF ScoresInv, ScoresOrdered, Fetching

LEMMA ScoresClock ==
    ASSUME EffScores!ConstantsAssumption
    PROVE  0 \in EffScores!Times /\ \A t \in EffScores!Times : t \in Nat /\ (t < MaxTime["scores"] => t + 1 \in EffScores!Times)
<1>1. MaxTime["scores"] \in Nat
  BY DEF EffScores!ConstantsAssumption
<1> QED
  BY <1>1, BoundedClock DEF EffScores!Times

\* What a step of the loop or of a query does to the lock and to the scores.
LEMMA ScoresLoopStep ==
    ASSUME ScoresInv, EffScores!Loop
    PROVE  /\ UNCHANGED <<clock, query>>
           /\ \/ /\ scoresLock = "no one" /\ scoresLock' = "loop"
                 /\ scoresLoop'.step = "query" /\ scores' = scores
              \/ /\ scoresLoop.step = "query" /\ scoresLock' = scoresLock
                 /\ scoresLoop'.step = "read" /\ scoresLoop'.got.read_at = clock /\ scores' = scores
              \/ /\ scoresLoop.step \in {"query", "read"} /\ scoresLock' = "no one" /\ scoresLoop'.step = "idle"
                 /\ \/ scores' = scores
                    \/ scoresLoop.step = "read" /\ scores' = scoresLoop.got
<1> USE DEF EffScores!NoOne, EffScores!Idle
<1>1. CASE EffScores!LoopLock
  <2>1. scoresLoop.step = "idle" /\ scoresLoop' = [scoresLoop EXCEPT !.step = "query"]
    BY <1>1 DEF EffScores!LoopLock
  <2>2. scoresLoop'.step = "query"
    BY <2>1 DEF ScoresInv, ScoresLocked
  <2> QED
    BY <1>1, <2>2 DEF EffScores!LoopLock
<1>2. CASE EffScores!LoopRead
  BY <1>2 DEF EffScores!LoopRead, EffScores!Read
<1>3. CASE EffScores!LoopPublish
  BY <1>3 DEF EffScores!LoopPublish
<1>4. CASE EffScores!LoopFails
  BY <1>4 DEF EffScores!LoopFails
<1> QED
  BY <1>1, <1>2, <1>3, <1>4 DEF EffScores!Loop

LEMMA ScoresQueryStep ==
    ASSUME ScoresInv, NEW q \in Requests, EffScores!Ask(q) \/ EffScores!Load(q)
    PROVE  /\ UNCHANGED <<clock, scoresLoop>>
           /\ query' = [r \in Requests |-> query'[r]] /\ \A r \in Requests \ {q} : query'[r] = query[r]
           /\ \/ /\ query[q].step \notin {"query", "read"} /\ query'[q].step \in {"wait", "done"}
                 /\ scoresLock' = scoresLock /\ scores' = scores
              \/ /\ scoresLock = "no one" /\ scoresLock' = q
                 /\ query'[q].step = "query" /\ scores' = scores
              \/ /\ query[q].step = "query" /\ scoresLock' = scoresLock
                 /\ query'[q].step = "read" /\ query'[q].got.read_at = clock /\ scores' = scores
              \/ /\ query[q].step \in {"query", "read"} /\ scoresLock' = "no one" /\ query'[q].step = "done"
                 /\ \/ scores' = scores
                    \/ query[q].step = "read" /\ scores' = query[q].got
<1> USE DEF EffScores!NoOne, EffScores!Done
<1>0. DOMAIN query = Requests
  BY DEF ScoresInv, ScoresLocked
<1>1. ASSUME NEW t, query' = [query EXCEPT ![q] = t]
      PROVE  /\ query' = [r \in Requests |-> query'[r]]
             /\ \A r \in Requests \ {q} : query'[r] = query[r]
             /\ query'[q] = t
  BY <1>0, <1>1
<1>2. CASE EffScores!Ask(q)
  BY <1>1, <1>2 DEF EffScores!Ask
<1>3. CASE EffScores!LoadLock(q)
  <2>1. \/ /\ scoresLock' = q
           /\ query' = [query EXCEPT ![q] = [step |-> "query", got |-> EffScores!Empty]]
        \/ /\ scoresLock' = scoresLock
           /\ query' = [query EXCEPT ![q] = [step |-> "done", got |-> scores]]
    BY <1>3 DEF EffScores!LoadLock
  <2>2. /\ query' = [r \in Requests |-> query'[r]] /\ \A r \in Requests \ {q} : query'[r] = query[r]
        /\ \/ scoresLock' = q /\ query'[q].step = "query"
           \/ scoresLock' = scoresLock /\ query'[q].step = "done"
    <3>1. CASE scoresLock' = q /\ query' = [query EXCEPT ![q] = [step |-> "query", got |-> EffScores!Empty]]
      BY <1>1, <3>1
    <3>2. CASE scoresLock' = scoresLock /\ query' = [query EXCEPT ![q] = [step |-> "done", got |-> scores]]
      BY <1>1, <3>2
    <3> QED
      BY <2>1, <3>1, <3>2
  <2> QED
    BY <1>3, <2>2 DEF EffScores!LoadLock
<1>4. CASE EffScores!LoadRead(q)
  BY <1>1, <1>4 DEF EffScores!LoadRead, EffScores!Read
<1>5. CASE EffScores!LoadPublish(q)
  BY <1>1, <1>5 DEF EffScores!LoadPublish
<1>6. CASE EffScores!LoadFails(q)
  BY <1>1, <1>6 DEF EffScores!LoadFails
<1> QED
  BY <1>2, <1>3, <1>4, <1>5, <1>6 DEF EffScores!Load

LEMMA ScoresPreserved ==
    ASSUME EffScores!ConstantsAssumption, ScoresInv, EffScores!Next \/ UNCHANGED <<clock, scoresVars>>
    PROVE  ScoresInv' /\ EffScores!Forward
<1> USE DEF ScoresInv, ScoresLocked, ScoresOrdered, Fetching, EffScores!Forward
<1>0. "loop" \notin Requests /\ "no one" \notin Requests
  BY DEF EffScores!ConstantsAssumption
<1>1. CASE UNCHANGED <<clock, scoresVars>>
  BY <1>1 DEF scoresVars
<1>2. CASE EffScores!Tick
  <2>1. clock' = clock + 1 /\ UNCHANGED scoresVars
    BY <1>2 DEF EffScores!Tick, scoresVars
  <2> QED
    BY <2>1 DEF scoresVars
<1>3. ASSUME NEW i \in Images, NEW row \in EffScores!Row, EffScores!Scan(i, row)
      PROVE  ScoresInv' /\ EffScores!Forward
  BY <1>3 DEF EffScores!Scan
<1>4. CASE EffScores!Restart
  <2>1. /\ scores' = EffScores!Empty /\ scores'.read_at = -1 /\ scoresLock' = "no one" /\ clock' = clock
        /\ scoresLoop'.step = "idle" /\ query' = [q \in Requests |-> EffScores!Idle]
        /\ \A q \in Requests : query'[q].step = "idle"
    BY <1>4 DEF EffScores!Restart, EffScores!Empty, EffScores!Idle, EffScores!Never, EffScores!NoOne
  <2>2. -1 \in Int /\ -1 <= clock
    OBVIOUS
  <2>3. ScoresLocked'
    BY <1>0, <2>1
  <2> QED
    BY <2>1, <2>2, <2>3
<1>5. CASE EffScores!Loop
  <2>1. ScoresLocked'
    BY <1>0, <1>5, ScoresLoopStep
  <2>2. \A q \in Requests : scoresLoop.step = "read" => query[q].step # "read"
    BY <1>0
  <2>3. ScoresOrdered' /\ scores'.read_at >= scores.read_at
    <3>1. CASE /\ UNCHANGED <<clock, query, scores>>
               /\ scoresLoop'.step = "read" => scoresLoop'.got.read_at = clock
      BY <3>1
    <3>2. CASE /\ UNCHANGED <<clock, query>>
               /\ scoresLoop.step = "read" /\ scores' = scoresLoop.got /\ scoresLoop'.step = "idle"
      BY <2>2, <3>2
    <3> QED
      BY <1>5, <3>1, <3>2, ScoresLoopStep
  <2> QED
    BY <2>1, <2>3
<1>6. ASSUME NEW q \in Requests, EffScores!Ask(q) \/ EffScores!Load(q)
      PROVE  ScoresInv' /\ EffScores!Forward
  <2>1. ScoresLocked'
    BY <1>0, <1>6, ScoresQueryStep
  <2>2. query[q].step = "read" => scoresLoop.step # "read" /\ \A r \in Requests \ {q} : query[r].step # "read"
    BY <1>0
  <2>3. ScoresOrdered' /\ scores'.read_at >= scores.read_at
    <3>1. /\ UNCHANGED <<clock, scoresLoop>> /\ \A r \in Requests \ {q} : query'[r] = query[r]
      BY <1>6, ScoresQueryStep
    <3>2. CASE scores' = scores /\ (query'[q].step = "read" => query'[q].got.read_at = clock)
      BY <3>1, <3>2
    <3>3. CASE query[q].step = "read" /\ scores' = query[q].got /\ query'[q].step = "done"
      BY <2>2, <3>1, <3>3
    <3> QED
      BY <1>6, <3>2, <3>3, ScoresQueryStep
  <2> QED
    BY <2>1, <2>3
<1> QED
  BY <1>1, <1>2, <1>3, <1>4, <1>5, <1>6 DEF EffScores!Next

-----------------------------------------------------------------------------
(***************************************************************************)
(* The keys of the identity provider                                       *)
(***************************************************************************)
\* The keys were published at a time, or since.
PublishedSince(keys, at) == \A k \in keys : k \in published \/ retired[k] >= at

\* A fetch is within its limit; what it has read was published when it began,
\* and who is in was let in with a key as old as the cache and a fetch allow.
SignInAged(task) ==
    /\ task.step \in {"idle", "fetch", "read", "in"}
    /\ task.step # "idle" => task.key \in Keys /\ task.now \in Nat \cap Oidc!Times /\ task.now <= clock
    /\ task.step \in {"fetch", "read"} => clock - task.now <= FetchTime
    /\ task.step = "read" => task.keys \subseteq Keys /\ PublishedSince(task.keys, task.now)
    /\ task.step = "in" => PublishedSince({task.key}, task.now - (KeysTtl + FetchTime))

KeysInv ==
    /\ Oidc!TypeOK
    /\ signIn = [r \in Requests |-> signIn[r]]
    /\ \A r \in Requests : SignInAged(signIn[r])
    /\ jwks.fetched_at <= clock /\ PublishedSince(jwks.keys, jwks.fetched_at)

LEMMA KeysClock ==
    ASSUME Oidc!ConstantsAssumption
    PROVE  /\ 0 \in Oidc!Times /\ \A t \in Oidc!Times : t \in Nat /\ (t < MaxTime["keys"] => t + 1 \in Oidc!Times)
           /\ KeysTtl \in Nat /\ FetchTime \in Nat
<1>1. MaxTime["keys"] \in Nat /\ KeysTtl \in Nat /\ FetchTime \in Nat
  BY DEF Oidc!ConstantsAssumption
<1> QED
  BY <1>1, BoundedClock DEF Oidc!Times

LEMMA KeysInit ==
    ASSUME Oidc!ConstantsAssumption, Oidc!Init
    PROVE  KeysInv
<1>1. /\ signIn = [r \in Requests |-> Oidc!Idle] /\ \A r \in Requests : signIn[r].step = "idle"
      /\ jwks.fetched_at = -1 /\ jwks.keys = {} /\ clock = 0 /\ published \subseteq Keys
      /\ retired = [k \in Keys |-> -1]
  BY DEF Oidc!Init, Oidc!Idle, Oidc!NoCache, Oidc!Never
<1>2. -1 <= 0
  OBVIOUS
<1> QED
  BY <1>1, <1>2, KeysClock DEF KeysInv, Oidc!TypeOK, Oidc!Never, SignInAged, PublishedSince

\* What was published since a time stays so, or is withdrawn later.
LEMMA PublishedSinceNext ==
    ASSUME Oidc!ConstantsAssumption, Oidc!TypeOK,
           \/ UNCHANGED <<published, retired>>
           \/ \E k \in Keys : Oidc!Rotate(k),
           NEW keys \in SUBSET Keys, NEW at \in Int, at <= clock, PublishedSince(keys, at)
    PROVE  PublishedSince(keys, at)'
<1>1. CASE UNCHANGED <<published, retired>>
  BY <1>1 DEF PublishedSince
<1>2. ASSUME NEW k \in Keys, Oidc!Rotate(k)
      PROVE  PublishedSince(keys, at)'
  <2>1. /\ \A l \in Keys \ {k} : retired'[l] = retired[l] /\ (l \in published' <=> l \in published)
        /\ k \in published' \/ retired'[k] = clock
    BY <1>2 DEF Oidc!Rotate, Oidc!TypeOK
  <2> QED
    BY <2>1 DEF PublishedSince
<1> QED
  BY <1>1, <1>2

LEMMA SignInAgedNext ==
    ASSUME Oidc!ConstantsAssumption, Oidc!TypeOK, NEW task, SignInAged(task),
           \/ UNCHANGED <<published, retired>>
           \/ \E k \in Keys : Oidc!Rotate(k),
           \/ clock' = clock
           \/ clock' = clock + 1 /\ (task.step \in {"fetch", "read"} => clock - task.now < FetchTime)
    PROVE  SignInAged(task)'
<1>0. clock \in Nat
  BY KeysClock DEF Oidc!TypeOK
<1>1. task.step = "read" => PublishedSince(task.keys, task.now)'
  BY PublishedSinceNext DEF SignInAged
<1>2. task.step = "in" => PublishedSince({task.key}, task.now - (KeysTtl + FetchTime))'
  <2>1. ASSUME task.step = "in"
        PROVE  /\ {task.key} \in SUBSET Keys /\ task.now - (KeysTtl + FetchTime) \in Int
               /\ task.now - (KeysTtl + FetchTime) <= clock
    BY <1>0, <2>1, KeysClock DEF SignInAged
  <2> QED
    BY <2>1, PublishedSinceNext DEF SignInAged
<1>3. (task.step # "idle" => task.now <= clock') /\ (task.step \in {"fetch", "read"} => clock' - task.now <= FetchTime)
  BY <1>0, KeysClock DEF SignInAged
<1> QED
  BY <1>1, <1>2, <1>3 DEF SignInAged

\* What a request does, and what of the cache it replaces.
LEMMA SignInStep ==
    ASSUME Oidc!ConstantsAssumption, KeysInv, NEW r \in Requests,
           (\E k \in Keys : Oidc!SignIn(r, k)) \/ Oidc!Read(r) \/ Oidc!Store(r) \/ Oidc!Fail(r)
    PROVE  /\ UNCHANGED <<clock, published, retired>>
           /\ \E task : signIn' = [signIn EXCEPT ![r] = task] /\ SignInAged(task)
           /\ \/ jwks' = jwks
              \/ jwks' = [keys |-> signIn[r].keys, fetched_at |-> signIn[r].now] /\ signIn[r].step = "read"
<1>0. /\ clock \in Nat /\ clock \in Oidc!Times /\ jwks.fetched_at \in Int /\ jwks.keys \subseteq Keys
      /\ SignInAged(signIn[r]) /\ PublishedSince(jwks.keys, jwks.fetched_at) /\ published \subseteq Keys
      /\ KeysTtl \in Nat /\ FetchTime \in Nat /\ \A k \in Keys : retired[k] \in Int
  BY KeysClock DEF KeysInv, Oidc!TypeOK, Oidc!Never
<1>1. SignInAged(Oidc!Idle)
  BY DEF SignInAged, Oidc!Idle
<1>2. ASSUME NEW k \in Keys, NEW at \in Int, at >= clock - (KeysTtl + FetchTime), k \in published \/ retired[k] >= at
      PROVE  SignInAged(Oidc!In(k))
  BY <1>0, <1>2 DEF SignInAged, Oidc!In, PublishedSince
<1>3. ASSUME NEW k \in Keys, Oidc!SignIn(r, k)
      PROVE  \E task : signIn' = [signIn EXCEPT ![r] = task] /\ SignInAged(task)
  <2>1. CASE Oidc!CacheFresh /\ k \in jwks.keys
    <3>1. jwks.fetched_at >= clock - (KeysTtl + FetchTime)
      BY <1>0, <2>1 DEF Oidc!CacheFresh
    <3>2. SignInAged(Oidc!In(k))
      BY <1>0, <1>2, <2>1, <3>1 DEF PublishedSince
    <3> QED
      BY <1>3, <2>1, <3>2 DEF Oidc!SignIn
  <2>2. CASE ~(Oidc!CacheFresh /\ k \in jwks.keys)
    <3>1. SignInAged([step |-> "fetch", key |-> k, now |-> clock])
      BY <1>0 DEF SignInAged
    <3> QED
      BY <1>3, <2>2, <3>1 DEF Oidc!SignIn
  <2> QED
    BY <2>1, <2>2
<1>4. CASE Oidc!Read(r)
  <2>1. SignInAged([step |-> "read", key |-> signIn[r].key, now |-> signIn[r].now, keys |-> published])
    BY <1>0, <1>4 DEF SignInAged, Oidc!Read, PublishedSince
  <2> QED
    BY <1>4, <2>1 DEF Oidc!Read
<1>5. CASE Oidc!Store(r)
  <2>1. CASE signIn[r].key \in signIn[r].keys
    <3>1. /\ signIn[r].now \in Int /\ signIn[r].now >= clock - (KeysTtl + FetchTime) /\ signIn[r].key \in Keys
          /\ signIn[r].key \in published \/ retired[signIn[r].key] >= signIn[r].now
      BY <1>0, <1>5, <2>1 DEF SignInAged, Oidc!Store, PublishedSince
    <3>2. SignInAged(Oidc!In(signIn[r].key))
      BY <1>2, <3>1
    <3> QED
      BY <1>5, <2>1, <3>2 DEF Oidc!Store
  <2>2. CASE signIn[r].key \notin signIn[r].keys
    BY <1>1, <1>5, <2>2 DEF Oidc!Store
  <2> QED
    BY <1>5, <2>1, <2>2 DEF Oidc!Store
<1>6. CASE Oidc!Fail(r)
  BY <1>1, <1>6 DEF Oidc!Fail
<1>7. /\ UNCHANGED <<clock, published, retired>>
      /\ \/ jwks' = jwks
         \/ jwks' = [keys |-> signIn[r].keys, fetched_at |-> signIn[r].now] /\ signIn[r].step = "read"
  BY DEF Oidc!SignIn, Oidc!Read, Oidc!Store, Oidc!Fail
<1> QED
  BY <1>3, <1>4, <1>5, <1>6, <1>7

LEMMA KeysPreserved ==
    ASSUME Oidc!ConstantsAssumption, KeysInv, Oidc!Next \/ UNCHANGED <<clock, keysVars>>
    PROVE  KeysInv'
<1>0. clock \in Nat /\ jwks.fetched_at \in Int /\ jwks.keys \in SUBSET Keys /\ Oidc!TypeOK
      /\ \A r \in Requests : SignInAged(signIn[r])
  BY KeysClock DEF KeysInv, Oidc!TypeOK, Oidc!Never
<1>1. CASE UNCHANGED <<clock, keysVars>>
  BY <1>1 DEF keysVars, KeysInv, Oidc!TypeOK, SignInAged, PublishedSince
<1>2. CASE Oidc!Tick \/ \E k \in Keys : Oidc!Rotate(k)
  <2>1. /\ signIn' = signIn /\ jwks' = jwks /\ (clock' = clock \/ clock' = clock + 1)
        /\ UNCHANGED <<published, retired>> \/ \E k \in Keys : Oidc!Rotate(k)
    BY <1>2 DEF Oidc!Tick, Oidc!Rotate
  <2>2. ASSUME NEW r \in Requests
        PROVE  \/ clock' = clock
               \/ clock' = clock + 1 /\ (signIn[r].step \in {"fetch", "read"} => clock - signIn[r].now < FetchTime)
    <3>1. CASE Oidc!Tick
      BY <3>1 DEF Oidc!Tick
    <3>2. CASE \E k \in Keys : Oidc!Rotate(k)
      BY <3>2 DEF Oidc!Rotate
    <3> QED
      BY <1>2, <3>1, <3>2
  <2>3. Oidc!TypeOK'
    BY <1>0, <1>2, KeysClock DEF Oidc!Tick, Oidc!Rotate, Oidc!TypeOK, Oidc!Never
  <2>4. ASSUME NEW r \in Requests
        PROVE  SignInAged(signIn[r])'
    BY <1>0, <2>1, <2>2, SignInAgedNext DEF SignInAged, PublishedSince
  <2>5. \A k \in jwks.keys : k \in published' \/ retired'[k] >= jwks.fetched_at
    BY <1>0, <2>1, PublishedSinceNext DEF KeysInv, PublishedSince
  <2> QED
    BY <1>0, <2>1, <2>3, <2>4, <2>5 DEF KeysInv, PublishedSince
<1>3. ASSUME NEW r \in Requests,
             (\E k \in Keys : Oidc!SignIn(r, k)) \/ Oidc!Read(r) \/ Oidc!Store(r) \/ Oidc!Fail(r)
      PROVE  KeysInv'
  <2>1. PICK task : signIn' = [signIn EXCEPT ![r] = task] /\ SignInAged(task)
    BY <1>3, SignInStep
  <2>2. /\ UNCHANGED <<clock, published, retired>>
        /\ \/ jwks' = jwks
           \/ jwks' = [keys |-> signIn[r].keys, fetched_at |-> signIn[r].now] /\ signIn[r].step = "read"
    BY <1>3, SignInStep
  <2>3. /\ jwks'.keys \subseteq Keys /\ jwks'.fetched_at \in Oidc!Times \cup {-1} /\ jwks'.fetched_at <= clock
        /\ PublishedSince(jwks'.keys, jwks'.fetched_at)
    <3>1. CASE jwks' = jwks
      BY <1>0, <2>2, <3>1 DEF KeysInv, Oidc!TypeOK, Oidc!Never
    <3>2. CASE jwks' = [keys |-> signIn[r].keys, fetched_at |-> signIn[r].now] /\ signIn[r].step = "read"
      BY <1>0, <3>2 DEF SignInAged
    <3> QED
      BY <2>2, <3>1, <3>2
  <2>4. signIn' = [s \in Requests |-> signIn'[s]] /\ \A s \in Requests : SignInAged(signIn'[s])
    BY <1>0, <2>1 DEF KeysInv
  <2> QED
    BY <1>0, <2>2, <2>3, <2>4 DEF KeysInv, Oidc!TypeOK, Oidc!Never, SignInAged, PublishedSince
<1> QED
  BY <1>1, <1>2, <1>3 DEF Oidc!Next

LEMMA KeysRevoked ==
    ASSUME Oidc!ConstantsAssumption, KeysInv
    PROVE  Oidc!RevokedInTime
  BY KeysClock DEF KeysInv, Oidc!TypeOK, Oidc!Never, SignInAged, PublishedSince, Oidc!RevokedInTime

-----------------------------------------------------------------------------
\* Finite sets and their sizes are the same in the modules of the parts as here.
LEMMA SameFinite ==
    ASSUME NEW S
    PROVE  /\ (Viewing!IsFiniteSet(S) <=> IsFiniteSet(S)) /\ (Svgs!IsFiniteSet(S) <=> IsFiniteSet(S))
           /\ (EffScores!IsFiniteSet(S) <=> IsFiniteSet(S))
  BY DEF Viewing!IsFiniteSet, Svgs!IsFiniteSet, EffScores!IsFiniteSet, IsFiniteSet

LEMMA SameCardinality ==
    ASSUME NEW S
    PROVE  Viewing!Cardinality(S) = Cardinality(S) /\ Svgs!Cardinality(S) = Cardinality(S)
  BY DEF Viewing!Cardinality, Svgs!Cardinality, Cardinality

-----------------------------------------------------------------------------
(***************************************************************************)
(* Decisions of presence                                                   *)
(***************************************************************************)
\* What may be seen, or could be seen until less than ACCESS_CACHE_TTL before.
SeenAt(sight, at) == sight \in visible \/ at - hidden[sight] < AccessTtl

PresenceReqOK(task, u) ==
    /\ task.step \in {"idle", "check", "go", "listed"}
    /\ task.step # "idle" => task.entity \in Entities /\ task.now \in Nat /\ task.now <= clock
    /\ task.step \in {"go", "listed"} => SeenAt(<<u, task.entity>>, task.now)

DecisionOK(decision, sight) ==
    /\ decision.expires_at \in Nat /\ decision.expires_at <= clock + AccessTtl
    /\ decision.allowed => SeenAt(sight, decision.expires_at - 1)

PresenceInv ==
    /\ clock \in Nat
    /\ Viewing!Sights \ Moving \subseteq visible
    /\ hidden \in [Moving -> Int]
    /\ DOMAIN access \subseteq Viewing!Sights
    /\ \A sight \in DOMAIN access : DecisionOK(access[sight], sight)
    /\ presenceReq = [u \in Users |-> presenceReq[u]]
    /\ \A u \in Users : PresenceReqOK(presenceReq[u], u)
    /\ DOMAIN viewers \subseteq Entities /\ Cardinality(DOMAIN viewers) <= MaxBuckets

LEMMA PresenceInit ==
    ASSUME Viewing!ConstantsAssumption, Viewing!Init
    PROVE  PresenceInv
<1>1. /\ presenceReq = [u \in Users |-> Viewing!Idle] /\ \A u \in Users : presenceReq[u].step = "idle"
      /\ clock = 0 /\ visible = Viewing!Sights /\ hidden = [k \in Moving |-> -1]
      /\ DOMAIN access = {} /\ DOMAIN viewers = {}
  BY DEF Viewing!Init, Viewing!Idle, Viewing!Never
<1>2. Cardinality(DOMAIN viewers) <= MaxBuckets
  <2>1. MaxBuckets \in Nat
    BY DEF Viewing!ConstantsAssumption
  <2> QED
    BY <1>1, <2>1, FS_EmptySet
<1> QED
  BY <1>1, <1>2 DEF PresenceInv, PresenceReqOK, DecisionOK

\* A sight that is hidden now could be seen until now.
LEMMA SeenAtNext ==
    ASSUME PresenceInv, Viewing!ConstantsAssumption,
           \/ UNCHANGED <<visible, hidden>>
           \/ \E k \in Moving : Viewing!Hide(k) \/ Viewing!Show(k),
           NEW sight, NEW at \in Int, at < clock + AccessTtl, SeenAt(sight, at)
    PROVE  SeenAt(sight, at)'
<1>1. CASE UNCHANGED <<visible, hidden>>
  BY <1>1 DEF SeenAt
<1>2. ASSUME NEW k \in Moving, Viewing!Hide(k)
      PROVE  SeenAt(sight, at)'
  <2>1. AccessTtl \in Nat /\ clock \in Nat
    BY DEF PresenceInv, Viewing!ConstantsAssumption
  <2>2. visible' = visible \ {k} /\ hidden' = [hidden EXCEPT ![k] = clock] /\ hidden \in [Moving -> Int]
    BY <1>2 DEF Viewing!Hide, PresenceInv
  <2>3. CASE sight = k
    BY <2>1, <2>2, <2>3 DEF SeenAt
  <2>4. CASE sight # k
    <3>1. hidden'[sight] = hidden[sight] /\ (sight \in visible' <=> sight \in visible)
      BY <2>2, <2>4
    <3> QED
      BY <3>1 DEF SeenAt
  <2> QED
    BY <2>3, <2>4
<1>3. ASSUME NEW k \in Moving, Viewing!Show(k)
      PROVE  SeenAt(sight, at)'
  BY <1>3 DEF SeenAt, Viewing!Show
<1> QED
  BY <1>1, <1>2, <1>3

\* The cleaning drops entities and adds none.
LEMMA CleanedFewer ==
    ASSUME NEW store, NEW e, NEW now
    PROVE  DOMAIN Viewing!Cleaned(store, e, now) \subseteq DOMAIN store
  BY DEF Viewing!Cleaned, Viewing!Restrict

\* What a request does: its task and the decisions it keeps are in order, and
\* the viewers' entities grow by one where there is room.
LEMMA PresenceReqStep ==
    ASSUME Viewing!ConstantsAssumption, PresenceInv, NEW u \in Users,
           \/ \E e \in Entities, kind \in {"heartbeat", "viewers"} : Viewing!Begin(u, e, kind)
           \/ Viewing!Check(u) \/ Viewing!Heartbeat(u) \/ Viewing!GetViewers(u)
    PROVE  /\ UNCHANGED <<clock, visible, hidden>>
           /\ \E task : presenceReq' = [presenceReq EXCEPT ![u] = task] /\ PresenceReqOK(task, u)
           /\ DOMAIN access' \subseteq Viewing!Sights
           /\ \A sight \in DOMAIN access' : DecisionOK(access'[sight], sight)
           /\ \/ DOMAIN viewers' \subseteq DOMAIN viewers
              \/ \E e \in Entities : /\ DOMAIN viewers' \subseteq DOMAIN viewers \cup {e}
                                     /\ e \in DOMAIN viewers \/ Cardinality(DOMAIN viewers) < MaxBuckets
<1>0. /\ clock \in Nat /\ AccessTtl \in Nat \ {0} /\ PresenceReqOK(presenceReq[u], u)
      /\ DOMAIN access \subseteq Viewing!Sights
      /\ \A sight \in DOMAIN access : DecisionOK(access[sight], sight)
      /\ hidden \in [Moving -> Int] /\ Viewing!Sights \ Moving \subseteq visible
  BY DEF PresenceInv, Viewing!ConstantsAssumption
<1>1. PresenceReqOK(Viewing!Idle, u)
  BY DEF PresenceReqOK, Viewing!Idle
<1>2. ASSUME NEW e \in Entities, NEW kind \in {"heartbeat", "viewers"}, Viewing!Begin(u, e, kind)
      PROVE  /\ \E task : presenceReq' = [presenceReq EXCEPT ![u] = task] /\ PresenceReqOK(task, u)
             /\ DOMAIN access' \subseteq Viewing!Sights
             /\ \A sight \in DOMAIN access' : DecisionOK(access'[sight], sight)
             /\ DOMAIN viewers' \subseteq DOMAIN viewers
  <2> DEFINE cached == IF kind = "heartbeat" THEN Viewing!SweptAccess ELSE access
             decided == <<u, e>> \in DOMAIN cached /\ cached[<<u, e>>].expires_at > clock
  <2>1. /\ DOMAIN cached \subseteq DOMAIN access
        /\ \A sight \in DOMAIN cached : cached[sight] = access[sight]
    BY DEF Viewing!SweptAccess, Viewing!Restrict
  <2>2. \A sight \in DOMAIN cached : DecisionOK(cached[sight], sight)
    BY <1>0, <2>1
  <2>3. access' = cached /\ DOMAIN viewers' \subseteq DOMAIN viewers
    BY <1>2 DEF Viewing!Begin, Viewing!SweptViewers
  <2>4. CASE ~decided
    <3>1. PresenceReqOK([step |-> "check", kind |-> kind, entity |-> e, now |-> clock], u)
      BY <1>0 DEF PresenceReqOK
    <3>2. presenceReq' = [presenceReq EXCEPT ![u] = [step |-> "check", kind |-> kind, entity |-> e, now |-> clock]]
      BY <1>2, <2>4 DEF Viewing!Begin
    <3> QED
      BY <1>0, <2>1, <2>2, <2>3, <3>1, <3>2
  <2>5. CASE decided /\ cached[<<u, e>>].allowed
    <3>1. SeenAt(<<u, e>>, clock)
      <4>1. <<u, e>> \in visible \/ <<u, e>> \in Moving
        BY <1>0 DEF Viewing!Sights
      <4>2. DecisionOK(cached[<<u, e>>], <<u, e>>)
        BY <2>2, <2>5
      <4>3. cached[<<u, e>>].expires_at \in Nat /\ cached[<<u, e>>].expires_at > clock
            /\ SeenAt(<<u, e>>, cached[<<u, e>>].expires_at - 1)
        BY <4>2, <2>5 DEF DecisionOK
      <4>4. CASE <<u, e>> \in Moving
        <5>1. hidden[<<u, e>>] \in Int
          BY <1>0, <4>4
        <5> QED
          BY <1>0, <4>3, <5>1 DEF SeenAt
      <4> QED
        BY <4>1, <4>4 DEF SeenAt
    <3>2. PresenceReqOK([step |-> "go", kind |-> kind, entity |-> e, now |-> clock], u)
      BY <1>0, <3>1 DEF PresenceReqOK
    <3>3. presenceReq' = [presenceReq EXCEPT ![u] = [step |-> "go", kind |-> kind, entity |-> e, now |-> clock]]
      BY <1>2, <2>5 DEF Viewing!Begin
    <3> QED
      BY <1>0, <2>1, <2>2, <2>3, <3>2, <3>3
  <2>6. CASE decided /\ ~cached[<<u, e>>].allowed
    <3>1. presenceReq' = [presenceReq EXCEPT ![u] = Viewing!Idle]
      BY <1>2, <2>6 DEF Viewing!Begin
    <3> QED
      BY <1>0, <1>1, <2>1, <2>2, <2>3, <3>1
  <2> QED
    BY <2>4, <2>5, <2>6
<1>3. CASE Viewing!Check(u)
  <2> DEFINE k == <<u, presenceReq[u].entity>>
             decision == [allowed |-> k \in visible, expires_at |-> presenceReq[u].now + AccessTtl]
  <2>1. presenceReq[u].entity \in Entities /\ presenceReq[u].now \in Nat /\ presenceReq[u].now <= clock
    BY <1>0, <1>3 DEF PresenceReqOK, Viewing!Check
  <2>2. k \in Viewing!Sights /\ DecisionOK(decision, k)
    <3>1. k \in Viewing!Sights
      BY <2>1 DEF Viewing!Sights
    <3>2. decision.expires_at \in Nat /\ decision.expires_at <= clock + AccessTtl
      BY <1>0, <2>1
    <3>3. decision.allowed => SeenAt(k, decision.expires_at - 1)
      BY DEF SeenAt
    <3> QED
      BY <3>1, <3>2, <3>3 DEF DecisionOK
  <2>3. access' = Viewing!With(access, k, decision)
    BY <1>3 DEF Viewing!Check
  <2>4. DOMAIN access' \subseteq Viewing!Sights /\ \A sight \in DOMAIN access' : DecisionOK(access'[sight], sight)
    BY <1>0, <2>2, <2>3 DEF Viewing!With
  <2>5. PresenceReqOK([presenceReq[u] EXCEPT !.step = "go"], u) \/ k \notin visible
    BY <1>0, <1>3, <2>1 DEF PresenceReqOK, SeenAt, Viewing!Check
  <2>6. presenceReq' = [presenceReq EXCEPT ![u] = IF k \in visible THEN [@ EXCEPT !.step = "go"] ELSE Viewing!Idle]
        /\ UNCHANGED <<clock, visible, hidden, viewers>>
    BY <1>3 DEF Viewing!Check
  <2>7. CASE k \in visible
    BY <2>4, <2>5, <2>6, <2>7
  <2>8. CASE k \notin visible
    BY <1>1, <2>4, <2>6, <2>8
  <2> QED
    BY <2>7, <2>8
<1>4. CASE Viewing!Heartbeat(u)
  <2> DEFINE e == presenceReq[u].entity
             bucket == IF e \in DOMAIN viewers THEN viewers[e] ELSE <<>>
             more == Viewing!With(viewers, e, Viewing!With(bucket, u, presenceReq[u].now))
  <2>1. e \in Entities
    BY <1>0, <1>4 DEF PresenceReqOK, Viewing!Heartbeat
  <2>2. \/ viewers' = viewers
        \/ Viewing!Room(e) /\ viewers' = Viewing!Cleaned(more, e, presenceReq[u].now)
    <3> HIDE DEF e, bucket, more
    <3>1. viewers' = IF Viewing!Room(e) THEN Viewing!Cleaned(more, e, presenceReq[u].now) ELSE viewers
      BY <1>4 DEF Viewing!Heartbeat, e, bucket, more
    <3> QED
      BY <3>1
  <2>3. DOMAIN more \subseteq DOMAIN viewers \cup {e}
    BY DEF Viewing!With
  <2>4. DOMAIN Viewing!Cleaned(more, e, presenceReq[u].now) \subseteq DOMAIN more
    BY CleanedFewer
  <2>5. presenceReq' = [presenceReq EXCEPT ![u] = Viewing!Idle] /\ access' = access
    BY <1>4 DEF Viewing!Heartbeat
  <2>6. \/ DOMAIN viewers' \subseteq DOMAIN viewers
        \/ /\ DOMAIN viewers' \subseteq DOMAIN viewers \cup {e}
           /\ e \in DOMAIN viewers \/ Cardinality(DOMAIN viewers) < MaxBuckets
    <3> HIDE DEF e, more
    <3> QED
      BY <2>2, <2>3, <2>4, SameCardinality DEF Viewing!Room
  <2>7. UNCHANGED <<clock, visible, hidden>>
    BY <1>4 DEF Viewing!Heartbeat
  <2> QED
    BY <1>0, <1>1, <2>1, <2>5, <2>6, <2>7
<1>5. CASE Viewing!GetViewers(u)
  <2>1. DOMAIN viewers' \subseteq DOMAIN viewers /\ access' = access
    BY <1>5, CleanedFewer DEF Viewing!GetViewers
  <2> DEFINE task == [step |-> "listed", entity |-> presenceReq[u].entity, now |-> presenceReq[u].now]
  <2>2. PresenceReqOK(task, u)
    BY <1>0, <1>5 DEF PresenceReqOK, Viewing!GetViewers
  <2>3. presenceReq' = [presenceReq EXCEPT ![u] = task] /\ UNCHANGED <<clock, visible, hidden>>
    BY <1>5 DEF Viewing!GetViewers
  <2> HIDE DEF task
  <2> QED
    BY <1>0, <2>1, <2>2, <2>3
<1>6. UNCHANGED <<clock, visible, hidden>>
  BY DEF Viewing!Begin, Viewing!Check, Viewing!Heartbeat, Viewing!GetViewers
<1> QED
  BY <1>2, <1>3, <1>4, <1>5, <1>6

LEMMA PresencePreserved ==
    ASSUME Viewing!ConstantsAssumption, PresenceInv, Viewing!Next \/ UNCHANGED <<clock, presenceVars>>
    PROVE  PresenceInv'
<1>0. /\ clock \in Nat /\ AccessTtl \in Nat \ {0} /\ MaxBuckets \in Nat /\ IsFiniteSet(Entities)
      /\ \A u \in Users : PresenceReqOK(presenceReq[u], u)
      /\ \A sight \in DOMAIN access : DecisionOK(access[sight], sight)
  BY SameFinite DEF PresenceInv, Viewing!ConstantsAssumption
<1>1. CASE UNCHANGED <<clock, presenceVars>>
  BY <1>1 DEF presenceVars, PresenceInv, PresenceReqOK, DecisionOK, SeenAt
<1>2. CASE Viewing!Tick \/ \E k \in Moving : Viewing!Hide(k) \/ Viewing!Show(k)
  <2>1. /\ UNCHANGED <<viewers, access, presenceReq>> /\ (clock' = clock \/ clock' = clock + 1)
        /\ UNCHANGED <<visible, hidden>> \/ \E k \in Moving : Viewing!Hide(k) \/ Viewing!Show(k)
    BY <1>2 DEF Viewing!Tick, Viewing!Hide, Viewing!Show
  <2>2. Viewing!Sights \ Moving \subseteq visible' /\ hidden' \in [Moving -> Int]
    BY <1>0, <1>2 DEF PresenceInv, Viewing!Tick, Viewing!Hide, Viewing!Show
  <2>3. ASSUME NEW u \in Users
        PROVE  PresenceReqOK(presenceReq[u], u)'
    <3>1. presenceReq[u].step \in {"go", "listed"} => SeenAt(<<u, presenceReq[u].entity>>, presenceReq[u].now)'
      BY <1>0, <2>1, SeenAtNext DEF PresenceReqOK
    <3> QED
      BY <1>0, <2>1, <3>1 DEF PresenceReqOK, SeenAt
  <2>4. ASSUME NEW sight \in DOMAIN access
        PROVE  DecisionOK(access[sight], sight)'
    <3>1. access[sight].allowed => SeenAt(sight, access[sight].expires_at - 1)'
      BY <1>0, <2>1, SeenAtNext DEF DecisionOK
    <3> QED
      BY <1>0, <2>1, <3>1 DEF DecisionOK, SeenAt
  <2> QED
    BY <1>0, <2>1, <2>2, <2>3, <2>4 DEF PresenceInv
<1>3. ASSUME NEW u \in Users,
             \/ \E e \in Entities, kind \in {"heartbeat", "viewers"} : Viewing!Begin(u, e, kind)
             \/ Viewing!Check(u) \/ Viewing!Heartbeat(u) \/ Viewing!GetViewers(u)
      PROVE  PresenceInv'
  <2>1. PICK task : presenceReq' = [presenceReq EXCEPT ![u] = task] /\ PresenceReqOK(task, u)
    BY <1>3, PresenceReqStep
  <2>2. /\ UNCHANGED <<clock, visible, hidden>>
        /\ DOMAIN access' \subseteq Viewing!Sights
        /\ \A sight \in DOMAIN access' : DecisionOK(access'[sight], sight)
    BY <1>3, PresenceReqStep
  <2>3. DOMAIN viewers' \subseteq Entities /\ Cardinality(DOMAIN viewers') <= MaxBuckets
    <3>0. IsFiniteSet(DOMAIN viewers) /\ Cardinality(DOMAIN viewers) \in Nat
          /\ Cardinality(DOMAIN viewers) <= MaxBuckets /\ DOMAIN viewers \subseteq Entities
      BY <1>0, FS_Subset, FS_CardinalityType DEF PresenceInv
    <3>1. CASE DOMAIN viewers' \subseteq DOMAIN viewers
      <4>1. IsFiniteSet(DOMAIN viewers') /\ Cardinality(DOMAIN viewers') <= Cardinality(DOMAIN viewers)
        BY <3>0, <3>1, FS_Subset
      <4>2. Cardinality(DOMAIN viewers') \in Nat
        BY <4>1, FS_CardinalityType
      <4> QED
        BY <1>0, <3>0, <3>1, <4>1, <4>2
    <3>2. ASSUME NEW e \in Entities, DOMAIN viewers' \subseteq DOMAIN viewers \cup {e},
                 e \in DOMAIN viewers \/ Cardinality(DOMAIN viewers) < MaxBuckets
          PROVE  DOMAIN viewers' \subseteq Entities /\ Cardinality(DOMAIN viewers') <= MaxBuckets
      <4>1. /\ IsFiniteSet(DOMAIN viewers \cup {e}) /\ Cardinality(DOMAIN viewers \cup {e}) \in Nat
            /\ Cardinality(DOMAIN viewers \cup {e}) <= MaxBuckets
        <5>1. /\ IsFiniteSet(DOMAIN viewers \cup {e})
              /\ Cardinality(DOMAIN viewers \cup {e}) =
                     IF e \in DOMAIN viewers THEN Cardinality(DOMAIN viewers) ELSE Cardinality(DOMAIN viewers) + 1
          BY <3>0, FS_AddElement
        <5> QED
          BY <1>0, <3>0, <3>2, <5>1
      <4>2. IsFiniteSet(DOMAIN viewers') /\ Cardinality(DOMAIN viewers') <= Cardinality(DOMAIN viewers \cup {e})
        BY <3>2, <4>1, FS_Subset
      <4>3. Cardinality(DOMAIN viewers') \in Nat
        BY <4>2, FS_CardinalityType
      <4> QED
        BY <1>0, <3>0, <3>2, <4>1, <4>2, <4>3
    <3> QED
      BY <1>3, <3>1, <3>2, PresenceReqStep
  <2>4. presenceReq' = [v \in Users |-> presenceReq'[v]] /\ \A v \in Users : PresenceReqOK(presenceReq'[v], v)
    BY <1>0, <2>1 DEF PresenceInv
  <2> QED
    BY <1>0, <2>2, <2>3, <2>4 DEF PresenceInv, PresenceReqOK, DecisionOK, SeenAt
<1>4. CASE Viewing!Restart
  <2>1. /\ UNCHANGED <<clock, visible, hidden>> /\ DOMAIN access' = {} /\ DOMAIN viewers' = {}
        /\ presenceReq' = [u \in Users |-> Viewing!Idle] /\ \A u \in Users : presenceReq'[u].step = "idle"
    BY <1>4 DEF Viewing!Restart, Viewing!Idle
  <2>2. Cardinality(DOMAIN viewers') <= MaxBuckets
    BY <1>0, <2>1, FS_EmptySet
  <2> QED
    BY <1>0, <2>1, <2>2 DEF PresenceInv, PresenceReqOK, DecisionOK
<1> QED
  BY <1>1, <1>2, <1>3, <1>4 DEF Viewing!Next

LEMMA PresenceRevoked ==
    ASSUME PresenceInv
    PROVE  Viewing!RevokedInTime /\ Viewing!CapHolds
  BY SameCardinality DEF PresenceInv, PresenceReqOK, SeenAt, Viewing!RevokedInTime, Viewing!CapHolds

-----------------------------------------------------------------------------
(***************************************************************************)
(* Images of badges                                                        *)
(***************************************************************************)
\* A badge that is there, or was deleted no longer than a time before.
Lasts(t, at, time) == t \in DOMAIN badges \/ (t \in DOMAIN spent /\ at - spent[t] <= time)

ReaderOK(task) ==
    /\ task.step \in {"idle", "render", "shown"}
    /\ task.step = "render" => /\ task.token \in Tokens
                               /\ task.since \in Nat /\ task.since <= clock /\ clock - task.since <= RequestTime
                               /\ Lasts(task.token, task.since, 0)
    /\ task.step = "shown" => /\ task.at \in Nat /\ task.at <= clock
                              /\ Lasts(task.token, task.at, SvgTtl + RequestTime - 1)

ImageOK(t, image) == image.at \in Nat /\ image.at <= clock /\ Lasts(t, image.at, RequestTime)

\* A badge that has no scope of its own, and none by its two names, was made
\* by who sees everything.
BadgeOK(badge) ==
    /\ badge.namespace # AnyOf /\ badge.cluster # AnyOf =>
           Svgs!Matching(Pairs, badge.namespace, badge.cluster) \subseteq badge.allowed
    /\ badge.scope.stored => badge.scope.pairs \subseteq badge.allowed
    /\ ~badge.scope.stored /\ (badge.namespace = AnyOf \/ badge.cluster = AnyOf) => badge.allowed = Pairs
    /\ ~badge.scope.stored => badge.scope.pairs = {}

BadgesInv ==
    /\ clock \in Nat
    /\ deleting \subseteq DOMAIN badges /\ DOMAIN badges \cap DOMAIN spent = {}
    /\ \A t \in DOMAIN spent : spent[t] \in Nat
    /\ \A t \in DOMAIN badges : BadgeOK(badges[t])
    /\ DOMAIN svgs \subseteq Tokens /\ Cardinality(DOMAIN svgs) <= CacheSize
    /\ \A t \in DOMAIN svgs : ImageOK(t, svgs[t])
    /\ reader = [r \in Requests |-> reader[r]]
    /\ \A r \in Requests : ReaderOK(reader[r])

LEMMA BadgesConstants ==
    ASSUME Svgs!ConstantsAssumption
    PROVE  /\ IsFiniteSet(Tokens) /\ RequestTime \in Nat
           /\ SvgTtl \in Nat \ {0} /\ CacheSize \in Nat \ {0}
           /\ \A p, q \in Pairs : NamespaceOf[p] = NamespaceOf[q] /\ ClusterOf[p] = ClusterOf[q] => p = q
  BY SameFinite DEF Svgs!ConstantsAssumption

LEMMA BadgesInit ==
    ASSUME Svgs!ConstantsAssumption, Svgs!Init
    PROVE  BadgesInv
<1>1. /\ reader = [r \in Requests |-> Svgs!Idle] /\ \A r \in Requests : reader[r].step = "idle"
      /\ clock = 0 /\ DOMAIN badges = {} /\ deleting = {} /\ DOMAIN spent = {} /\ DOMAIN svgs = {}
  BY DEF Svgs!Init, Svgs!Idle
<1>2. Cardinality(DOMAIN svgs) <= CacheSize
  BY <1>1, FS_EmptySet, BadgesConstants
<1> QED
  BY <1>1, <1>2 DEF BadgesInv, ReaderOK

\* Two names, of a namespace and of a cluster, are those of one pair.
LEMMA OnePair ==
    ASSUME Svgs!ConstantsAssumption, NEW mine \in SUBSET Pairs, NEW namespace, NEW cluster,
           namespace # AnyOf, cluster # AnyOf, Svgs!Matching(mine, namespace, cluster) # {}
    PROVE  Svgs!Matching(Pairs, namespace, cluster) \subseteq mine
<1>1. PICK p \in mine : NamespaceOf[p] = namespace /\ ClusterOf[p] = cluster
  BY DEF Svgs!Matching
<1>2. \A q \in Svgs!Matching(Pairs, namespace, cluster) : q = p
  BY <1>1, BadgesConstants DEF Svgs!Matching
<1> QED
  BY <1>1, <1>2

LEMMA CreatedBadgeOK ==
    ASSUME Svgs!ConstantsAssumption, NEW t, NEW wildcard \in BOOLEAN, NEW mine \in SUBSET Pairs,
           NEW namespace, NEW cluster, Svgs!Create(t, wildcard, mine, namespace, cluster)
    PROVE  BadgeOK([namespace |-> namespace, cluster |-> cluster,
                    scope |-> Svgs!ScopeOf(wildcard, mine, namespace, cluster), allowed |-> mine])
<1> DEFINE scope == Svgs!ScopeOf(wildcard, mine, namespace, cluster)
<1>1. wildcard => mine = Pairs
  BY DEF Svgs!Create
<1>2. ASSUME namespace # AnyOf, cluster # AnyOf
      PROVE  Svgs!Matching(Pairs, namespace, cluster) \subseteq mine
  <2>1. CASE wildcard
    BY <1>1, <2>1 DEF Svgs!Matching
  <2>2. CASE ~wildcard
    <3>1. Svgs!Matching(mine, namespace, cluster) # {}
      BY <1>2, <2>2 DEF Svgs!Create
    <3> QED
      BY <1>2, <3>1, OnePair
  <2> QED
    BY <2>1, <2>2
<1>3. /\ scope.stored => scope.pairs \subseteq mine
      /\ ~scope.stored => scope.pairs = {}
      /\ ~scope.stored /\ (namespace = AnyOf \/ cluster = AnyOf) => wildcard
  BY DEF Svgs!ScopeOf, Svgs!Stored, Svgs!NoPairs, Svgs!Matching
<1> HIDE DEF scope
<1> QED
  BY <1>1, <1>2, <1>3 DEF BadgeOK, scope

\* The steps that create and delete badges, and those that do not.
BadgesMove ==
    \/ UNCHANGED <<badges, spent>>
    \/ \E t, wildcard, mine, namespace, cluster : Svgs!Create(t, wildcard, mine, namespace, cluster)
    \/ \E t : Svgs!DeleteCommit(t)

\* What is deleted now was there until now.
LEMMA LastsNext ==
    ASSUME BadgesInv, BadgesMove, NEW t, NEW at \in Nat, NEW time \in Nat, at <= clock, Lasts(t, at, time)
    PROVE  Lasts(t, at, time)'
<1>1. CASE UNCHANGED <<badges, spent>>
  BY <1>1 DEF Lasts
<1>2. ASSUME NEW s, NEW wildcard, NEW mine, NEW namespace, NEW cluster,
             Svgs!Create(s, wildcard, mine, namespace, cluster)
      PROVE  Lasts(t, at, time)'
  BY <1>2 DEF Lasts, Svgs!Create, Svgs!With
<1>3. ASSUME NEW s, Svgs!DeleteCommit(s)
      PROVE  Lasts(t, at, time)'
  <2>1. /\ DOMAIN badges' = DOMAIN badges \ {s} /\ spent' = Svgs!With(spent, s, clock) /\ clock \in Nat
        /\ s \in DOMAIN badges /\ s \notin DOMAIN spent
    BY <1>3 DEF Svgs!DeleteCommit, Svgs!Restrict, BadgesInv
  <2>2. DOMAIN spent' = DOMAIN spent \cup {s} /\ \A u \in DOMAIN spent' : spent'[u] = IF u = s THEN clock ELSE spent[u]
    BY <2>1 DEF Svgs!With
  <2>3. CASE t = s
    BY <2>1, <2>2, <2>3 DEF Lasts
  <2>4. CASE t # s
    <3>1. /\ t \in DOMAIN badges' <=> t \in DOMAIN badges
          /\ t \in DOMAIN spent => t \in DOMAIN spent' /\ spent'[t] = spent[t]
      BY <2>1, <2>2, <2>4
    <3> QED
      BY <3>1 DEF Lasts
  <2> QED
    BY <2>3, <2>4
<1> QED
  BY <1>1, <1>2, <1>3 DEF BadgesMove

LEMMA ImageNext ==
    ASSUME Svgs!ConstantsAssumption, BadgesInv, BadgesMove, clock' = clock \/ clock' = clock + 1,
           NEW t, NEW image, ImageOK(t, image)
    PROVE  ImageOK(t, image)'
<1>1. image.at \in Nat /\ image.at <= clock /\ Lasts(t, image.at, RequestTime)
  BY DEF ImageOK
<1>2. Lasts(t, image.at, RequestTime)'
  BY <1>1, LastsNext, BadgesConstants
<1> QED
  BY <1>1, <1>2 DEF ImageOK, BadgesInv

LEMMA ReaderNext ==
    ASSUME Svgs!ConstantsAssumption, BadgesInv, BadgesMove, NEW task, ReaderOK(task),
           \/ clock' = clock
           \/ clock' = clock + 1 /\ (task.step = "render" => clock - task.since < RequestTime)
    PROVE  ReaderOK(task)'
<1>0. clock \in Nat /\ RequestTime \in Nat /\ SvgTtl + RequestTime - 1 \in Nat
  BY BadgesConstants DEF BadgesInv
<1>1. CASE task.step = "render"
  <2>1. Lasts(task.token, task.since, 0)'
    BY <1>1, LastsNext DEF ReaderOK
  <2> QED
    BY <1>0, <1>1, <2>1 DEF ReaderOK
<1>2. CASE task.step = "shown"
  <2>1. Lasts(task.token, task.at, SvgTtl + RequestTime - 1)'
    BY <1>0, <1>2, LastsNext DEF ReaderOK
  <2> QED
    BY <1>0, <1>2, <2>1 DEF ReaderOK
<1>3. CASE task.step = "idle"
  BY <1>3 DEF ReaderOK
<1> QED
  BY <1>1, <1>2, <1>3 DEF ReaderOK

\* What is evicted makes room for one image.
LEMMA RoomForImage ==
    ASSUME Svgs!ConstantsAssumption, NEW kept, DOMAIN svgs \subseteq Tokens, Cardinality(DOMAIN svgs) <= CacheSize,
           kept \in IF Cardinality(DOMAIN svgs) >= CacheSize THEN Svgs!Evicted ELSE {DOMAIN svgs},
           NEW t
    PROVE  kept \subseteq DOMAIN svgs /\ Cardinality(kept \cup {t}) <= CacheSize
<1>1. IsFiniteSet(DOMAIN svgs) /\ Cardinality(DOMAIN svgs) \in Nat /\ CacheSize \in Nat \ {0}
  BY BadgesConstants, FS_Subset, FS_CardinalityType
<1>2. kept \subseteq DOMAIN svgs /\ Cardinality(kept) < CacheSize
  <2>1. CASE Cardinality(DOMAIN svgs) >= CacheSize
    <3>1. kept \in Svgs!Evict(CacheSize - 1)
      BY <2>1 DEF Svgs!Evicted
    <3>2. \/ kept = Svgs!Kept /\ Cardinality(kept) < CacheSize
          \/ kept \subseteq Svgs!Kept /\ Cardinality(kept) = CacheSize - 1
      <4>1. CASE Cardinality(Svgs!Kept) < CacheSize
        BY <3>1, <4>1, SameCardinality DEF Svgs!Evict
      <4>2. CASE ~(Cardinality(Svgs!Kept) < CacheSize)
        BY <3>1, <4>2, SameCardinality DEF Svgs!Evict
      <4> QED
        BY <4>1, <4>2
    <3>3. Svgs!Kept \subseteq DOMAIN svgs
      BY DEF Svgs!Kept
    <3> QED
      BY <1>1, <3>2, <3>3
  <2>2. CASE ~(Cardinality(DOMAIN svgs) >= CacheSize)
    BY <1>1, <2>2
  <2> QED
    BY <2>1, <2>2
<1>3. IsFiniteSet(kept) /\ Cardinality(kept) \in Nat
  BY <1>1, <1>2, FS_Subset, FS_CardinalityType
<1>4. Cardinality(kept \cup {t}) = IF t \in kept THEN Cardinality(kept) ELSE Cardinality(kept) + 1
  BY <1>3, FS_AddElement
<1> QED
  BY <1>1, <1>2, <1>3, <1>4

LEMMA ShownOK ==
    ASSUME clock \in Nat, NEW t, NEW pairs, Lasts(t, clock, SvgTtl + RequestTime - 1)
    PROVE  ReaderOK(Svgs!Shown(t, pairs))
  BY DEF ReaderOK, Svgs!Shown

LEMMA BadgesPreserved ==
    ASSUME Svgs!ConstantsAssumption, BadgesInv, Svgs!Next \/ UNCHANGED <<clock, badgesVars>>
    PROVE  BadgesInv'
<1>0. /\ clock \in Nat /\ RequestTime \in Nat /\ SvgTtl \in Nat \ {0} /\ CacheSize \in Nat \ {0} /\ IsFiniteSet(Tokens)
      /\ deleting \subseteq DOMAIN badges /\ DOMAIN badges \cap DOMAIN spent = {}
      /\ \A t \in DOMAIN spent : spent[t] \in Nat
      /\ \A t \in DOMAIN badges : BadgeOK(badges[t])
      /\ DOMAIN svgs \subseteq Tokens /\ Cardinality(DOMAIN svgs) <= CacheSize
      /\ \A t \in DOMAIN svgs : ImageOK(t, svgs[t])
      /\ reader = [r \in Requests |-> reader[r]] /\ \A r \in Requests : ReaderOK(reader[r])
  BY BadgesConstants DEF BadgesInv
<1>1. CASE UNCHANGED <<clock, badgesVars>>
  BY <1>1 DEF badgesVars, BadgesInv, BadgeOK, ReaderOK, ImageOK, Lasts
\* The steps that leave the images and the readers alone.
<1>2. ASSUME reader' = reader, svgs' = svgs, BadgesMove,
             \/ clock' = clock
             \/ clock' = clock + 1 /\ \A r \in Requests : reader[r].step = "render" => clock - reader[r].since < RequestTime
      PROVE  /\ clock' \in Nat
             /\ \A t \in DOMAIN svgs' : ImageOK(t, svgs[t])'
             /\ \A r \in Requests : ReaderOK(reader[r])'
  <2>1. ASSUME NEW t \in DOMAIN svgs, NEW image, image = svgs[t]
        PROVE  ImageOK(t, image)'
    BY <1>0, <1>2, <2>1, ImageNext
  <2>2. ASSUME NEW r \in Requests, NEW task, task = reader[r]
        PROVE  ReaderOK(task)'
    BY <1>0, <1>2, <2>2, ReaderNext
  <2> QED
    BY <1>0, <1>2, <2>1, <2>2 DEF ImageOK, ReaderOK, Lasts
<1>3. CASE Svgs!Tick
  <2>1. /\ UNCHANGED <<badges, deleting, spent, svgs, reader>> /\ clock' = clock + 1
        /\ \A r \in Requests : reader[r].step = "render" => clock - reader[r].since < RequestTime
    BY <1>3 DEF Svgs!Tick
  <2> QED
    BY <1>0, <1>2, <2>1 DEF BadgesInv, BadgesMove, BadgeOK
<1>4. ASSUME NEW t \in Tokens, NEW wildcard \in BOOLEAN, NEW mine \in SUBSET Pairs, NEW namespace, NEW cluster,
             Svgs!Create(t, wildcard, mine, namespace, cluster)
      PROVE  BadgesInv'
  <2> DEFINE badge == [namespace |-> namespace, cluster |-> cluster,
                       scope |-> Svgs!ScopeOf(wildcard, mine, namespace, cluster), allowed |-> mine]
  <2>1. /\ UNCHANGED <<clock, deleting, spent, svgs, reader>> /\ t \notin DOMAIN badges \cup DOMAIN spent
        /\ badges' = Svgs!With(badges, t, badge)
    BY <1>4 DEF Svgs!Create
  <2>2. BadgeOK(badge)
    BY <1>4, CreatedBadgeOK
  <2>3. DOMAIN badges' = DOMAIN badges \cup {t} /\ \A s \in DOMAIN badges' : badges'[s] = IF s = t THEN badge ELSE badges[s]
    BY <2>1 DEF Svgs!With
  <2> HIDE DEF badge
  <2>4. \A s \in DOMAIN badges' : BadgeOK(badges'[s])
    BY <1>0, <2>2, <2>3
  <2>5. BadgesMove
    BY <1>4 DEF BadgesMove
  <2> QED
    BY <1>0, <1>2, <2>1, <2>3, <2>4, <2>5 DEF BadgesInv, BadgeOK
<1>5. ASSUME NEW t \in Tokens, Svgs!Delete(t)
      PROVE  BadgesInv'
  <2>1. /\ UNCHANGED <<clock, badges, spent, reader>> /\ deleting' \subseteq DOMAIN badges
        /\ DOMAIN svgs' \subseteq DOMAIN svgs /\ \A s \in DOMAIN svgs' : svgs'[s] = svgs[s]
    BY <1>0, <1>5 DEF Svgs!Delete, Svgs!Restrict
  <2>2. Cardinality(DOMAIN svgs') <= CacheSize
    <3>1. IsFiniteSet(DOMAIN svgs)
      BY <1>0, FS_Subset
    <3>2. IsFiniteSet(DOMAIN svgs') /\ Cardinality(DOMAIN svgs') <= Cardinality(DOMAIN svgs)
      BY <2>1, <3>1, FS_Subset
    <3>3. Cardinality(DOMAIN svgs) \in Nat /\ Cardinality(DOMAIN svgs') \in Nat
      BY <3>1, <3>2, FS_CardinalityType
    <3> QED
      BY <1>0, <3>2, <3>3
  <2> QED
    BY <1>0, <2>1, <2>2 DEF BadgesInv, BadgeOK, ImageOK, ReaderOK, Lasts
<1>6. ASSUME NEW t \in Tokens, Svgs!DeleteCommit(t)
      PROVE  BadgesInv'
  <2>1. /\ UNCHANGED <<clock, svgs, reader>> /\ deleting' = deleting \ {t}
        /\ DOMAIN badges' = DOMAIN badges \ {t} /\ \A s \in DOMAIN badges' : badges'[s] = badges[s]
        /\ DOMAIN spent' = DOMAIN spent \cup {t} /\ \A s \in DOMAIN spent' : spent'[s] \in Nat
    BY <1>0, <1>6 DEF Svgs!DeleteCommit, Svgs!Restrict, Svgs!With
  <2>2. BadgesMove
    BY <1>6 DEF BadgesMove
  <2> QED
    BY <1>0, <1>2, <2>1, <2>2 DEF BadgesInv, BadgeOK
<1>7. ASSUME NEW r \in Requests, (\E t \in Tokens : Svgs!Ask(r, t)) \/ Svgs!Render(r)
      PROVE  BadgesInv'
  <2>0. UNCHANGED <<clock, badges, deleting, spent>>
    BY <1>7 DEF Svgs!Ask, Svgs!Render
  <2>1. ASSUME NEW t \in Tokens, Svgs!Ask(r, t)
        PROVE  svgs' = svgs /\ \E task : ReaderOK(task) /\ reader' = [reader EXCEPT ![r] = task]
    <3>1. svgs' = svgs
      BY <2>1 DEF Svgs!Ask
    <3>2. CASE t \in DOMAIN svgs /\ ~Svgs!Expired(t)
      <4>1. /\ svgs[t].at \in Nat /\ clock - svgs[t].at < SvgTtl
            /\ t \in DOMAIN badges \/ (t \in DOMAIN spent /\ spent[t] \in Nat /\ svgs[t].at - spent[t] <= RequestTime)
        BY <1>0, <3>2 DEF ImageOK, Lasts, Svgs!Expired
      <4>2. Lasts(t, clock, SvgTtl + RequestTime - 1)
        BY <1>0, <4>1 DEF Lasts
      <4>3. ReaderOK(Svgs!Shown(t, svgs[t].pairs))
        BY <1>0, <4>2, ShownOK
      <4> QED
        BY <2>1, <3>1, <3>2, <4>3 DEF Svgs!Ask
    <3>3. CASE ~(t \in DOMAIN svgs /\ ~Svgs!Expired(t)) /\ t \in DOMAIN badges
      <4>1. ReaderOK([step |-> "render", token |-> t, since |-> clock, pairs |-> Svgs!Counted(badges[t])])
        <5>1. Lasts(t, clock, 0) /\ clock - clock = 0
          BY <1>0, <3>3 DEF Lasts
        <5> QED
          BY <1>0, <5>1 DEF ReaderOK
      <4> QED
        BY <2>1, <3>1, <3>3, <4>1 DEF Svgs!Ask
    <3>4. CASE ~(t \in DOMAIN svgs /\ ~Svgs!Expired(t)) /\ t \notin DOMAIN badges
      <4>1. ReaderOK(Svgs!Idle)
        BY DEF ReaderOK, Svgs!Idle
      <4> QED
        BY <2>1, <3>1, <3>4, <4>1 DEF Svgs!Ask
    <3> QED
      BY <3>2, <3>3, <3>4
  <2>2. ASSUME Svgs!Render(r)
        PROVE  /\ \E task : ReaderOK(task) /\ reader' = [reader EXCEPT ![r] = task]
               /\ DOMAIN svgs' \subseteq Tokens /\ Cardinality(DOMAIN svgs') <= CacheSize
               /\ \A t \in DOMAIN svgs' : ImageOK(t, svgs'[t])
    <3> DEFINE t == reader[r].token
               pairs == reader[r].pairs
               room == IF Svgs!Cardinality(DOMAIN svgs) >= CacheSize THEN Svgs!Evicted ELSE {DOMAIN svgs}
    <3>1. /\ reader' = [reader EXCEPT ![r] = Svgs!Shown(t, pairs)] /\ reader[r].step = "render"
          /\ \/ svgs' = svgs
             \/ \E kept \in room : svgs' = Svgs!With(Svgs!Restrict(svgs, kept), t, [pairs |-> pairs, at |-> clock])
      BY <2>2 DEF Svgs!Render
    <3>2. t \in Tokens /\ Lasts(t, clock, RequestTime)
      <4>1. /\ t \in Tokens /\ reader[r].since \in Nat /\ clock - reader[r].since <= RequestTime
            /\ t \in DOMAIN badges \/ (t \in DOMAIN spent /\ spent[t] \in Nat /\ reader[r].since - spent[t] <= 0)
        BY <1>0, <3>1 DEF ReaderOK, Lasts
      <4> HIDE DEF t
      <4> QED
        BY <1>0, <4>1 DEF Lasts
    <3>3. ReaderOK(Svgs!Shown(t, pairs))
      <4> HIDE DEF t, pairs
      <4>1. Lasts(t, clock, SvgTtl + RequestTime - 1)
        BY <1>0, <3>2 DEF Lasts
      <4> QED
        BY <1>0, <4>1, ShownOK
    <3>4. ASSUME NEW kept \in room, svgs' = Svgs!With(Svgs!Restrict(svgs, kept), t, [pairs |-> pairs, at |-> clock])
          PROVE  /\ DOMAIN svgs' \subseteq Tokens /\ Cardinality(DOMAIN svgs') <= CacheSize
                 /\ \A s \in DOMAIN svgs' : ImageOK(s, svgs'[s])
      <4>1. kept \subseteq DOMAIN svgs /\ Cardinality(kept \cup {t}) <= CacheSize
        BY <1>0, <3>4, RoomForImage, SameCardinality
      <4> HIDE DEF t, pairs, room
      <4>2. DOMAIN svgs' = kept \cup {t} /\ \A s \in kept \ {t} : svgs'[s] = svgs[s]
        BY <3>4, <4>1 DEF Svgs!With, Svgs!Restrict
      <4>3. svgs'[t].at = clock
        BY <3>4 DEF Svgs!With
      <4> QED
        BY <1>0, <3>2, <4>1, <4>2, <4>3 DEF ImageOK
    <3> QED
      BY <1>0, <3>1, <3>3, <3>4
  <2>3. /\ \E task : ReaderOK(task) /\ reader' = [reader EXCEPT ![r] = task]
        /\ DOMAIN svgs' \subseteq Tokens /\ Cardinality(DOMAIN svgs') <= CacheSize
        /\ \A t \in DOMAIN svgs' : ImageOK(t, svgs'[t])
    BY <1>0, <1>7, <2>1, <2>2
  <2>4. reader' = [s \in Requests |-> reader'[s]] /\ \A s \in Requests : ReaderOK(reader'[s])
    BY <1>0, <2>3
  <2> QED
    BY <1>0, <2>0, <2>3, <2>4 DEF BadgesInv, BadgeOK, ReaderOK, ImageOK, Lasts
<1>8. CASE Svgs!Restart
  <2>1. /\ UNCHANGED <<clock, badges, spent>> /\ DOMAIN svgs' = {} /\ deleting' = {}
        /\ reader' = [r \in Requests |-> Svgs!Idle] /\ \A r \in Requests : reader'[r].step = "idle"
    BY <1>8 DEF Svgs!Restart, Svgs!Idle
  <2>2. Cardinality(DOMAIN svgs') <= CacheSize
    BY <1>0, <2>1, FS_EmptySet
  <2> QED
    BY <1>0, <2>1, <2>2 DEF BadgesInv, BadgeOK, ReaderOK
<1> QED
  BY <1>1, <1>3, <1>4, <1>5, <1>6, <1>7, <1>8 DEF Svgs!Next

LEMMA BadgesRevoked ==
    ASSUME Svgs!ConstantsAssumption, BadgesInv
    PROVE  Svgs!RevokedInTime /\ Svgs!CapHolds /\ Svgs!ScopeKept
<1>1. Svgs!RevokedInTime
  BY BadgesConstants DEF BadgesInv, ReaderOK, Lasts, Svgs!RevokedInTime
<1>2. Svgs!CapHolds
  BY SameCardinality DEF BadgesInv, Svgs!CapHolds
<1>3. ASSUME NEW t \in DOMAIN badges
      PROVE  Svgs!Counted(badges[t]) \subseteq badges[t].allowed
  BY <1>3 DEF BadgesInv, BadgeOK, Svgs!Counted, Svgs!Matching
<1>4. ASSUME NEW t \in DOMAIN badges, NEW mine \in SUBSET Pairs, Svgs!ListedTo(mine, badges[t])
      PROVE  Svgs!Counted(badges[t]) \subseteq mine
  <2>1. CASE badges[t].namespace # AnyOf /\ badges[t].cluster # AnyOf
    BY <1>4, <2>1, OnePair DEF Svgs!Counted, Svgs!ListedTo
  <2>2. CASE ~(badges[t].namespace # AnyOf /\ badges[t].cluster # AnyOf)
    BY <1>4, <2>2 DEF BadgesInv, BadgeOK, Svgs!Counted, Svgs!ListedTo
  <2> QED
    BY <2>1, <2>2
<1> QED
  BY <1>1, <1>2, <1>3, <1>4 DEF Svgs!ScopeKept

-----------------------------------------------------------------------------
(***************************************************************************)
(* What a spoke tells of a user                                            *)
(***************************************************************************)
\* The spoke of Account is that of Spoke, with lookups of another length.
LongestTtl == IF GroupTtl > UnresolvedTtl THEN GroupTtl ELSE UnresolvedTtl

DirectoryOK == clock \in Nat /\ members \subseteq Groups /\ changed \in [Groups -> Int]

\* What the groups were at some time since.
GroupsKnown(groups, since) == \A g \in Groups : (g \in groups <=> g \in members) \/ changed[g] >= since

TokenOK(time) ==
    /\ token.email \in BOOLEAN
    /\ token.groups \subseteq Groups
    /\ token.fetched_at # -1 =>
           /\ token.fetched_at \in Nat /\ token.fetched_at <= clock
           /\ token.ttl \in Nat /\ token.ttl <= LongestTtl
           /\ GroupsKnown(token.groups, token.fetched_at - time)

LookupOK(task, time) ==
    /\ task.step \in {"idle", "lookup", "answered", "ready"}
    /\ task.step \in {"lookup", "answered"} => task.since \in Nat /\ task.since <= clock /\ clock - task.since <= time
    /\ task.step = "answered" => task.groups \subseteq Groups /\ GroupsKnown(task.groups, task.since)
    /\ task.step = "ready" => /\ task.groups \subseteq Groups /\ task.email \in BOOLEAN
                              /\ GroupsKnown(task.groups, clock - (LongestTtl + time))

LEMMA GroupsKnownNext ==
    ASSUME DirectoryOK, UNCHANGED <<members, changed>> \/ \E g \in Groups : Spoke!Membership(g),
           NEW groups, NEW since \in Int, since <= clock, GroupsKnown(groups, since)
    PROVE  GroupsKnown(groups, since)'
<1>1. CASE UNCHANGED <<members, changed>>
  BY <1>1 DEF GroupsKnown
<1>2. ASSUME NEW g \in Groups, Spoke!Membership(g)
      PROVE  GroupsKnown(groups, since)'
  <2>1. /\ changed'[g] = clock
        /\ \A h \in Groups \ {g} : changed'[h] = changed[h] /\ (h \in members' <=> h \in members)
    BY <1>2 DEF DirectoryOK, Spoke!Membership
  <2> QED
    BY <2>1 DEF DirectoryOK, GroupsKnown
<1> QED
  BY <1>1, <1>2

LEMMA LookupNext ==
    ASSUME DirectoryOK, UNCHANGED <<members, changed>> \/ \E g \in Groups : Spoke!Membership(g),
           NEW time \in Nat, LongestTtl \in Nat, NEW task, LookupOK(task, time),
           \/ clock' = clock
           \/ /\ clock' = clock + 1 /\ task.step # "ready"
              /\ task.step \in {"lookup", "answered"} => clock - task.since < time
    PROVE  LookupOK(task, time)'
<1>0. clock \in Nat
  BY DEF DirectoryOK
<1>1. task.step = "answered" => GroupsKnown(task.groups, task.since)'
  BY GroupsKnownNext DEF LookupOK
<1>2. task.step = "ready" => GroupsKnown(task.groups, clock - (LongestTtl + time))'
  <2>1. ASSUME task.step = "ready", NEW since, since = clock - (LongestTtl + time)
        PROVE  GroupsKnown(task.groups, since)'
    BY <1>0, <2>1, GroupsKnownNext DEF LookupOK
  <2> QED
    BY <2>1 DEF GroupsKnown, LongestTtl
<1> QED
  BY <1>0, <1>1, <1>2 DEF LookupOK

LEMMA TokenNext ==
    ASSUME DirectoryOK, UNCHANGED <<members, changed>> \/ \E g \in Groups : Spoke!Membership(g),
           clock' = clock \/ clock' = clock + 1, token' = token, NEW time \in Nat, TokenOK(time)
    PROVE  TokenOK(time)'
<1>1. ASSUME NEW entry, entry = token, token.fetched_at # -1
      PROVE  GroupsKnown(entry.groups, entry.fetched_at - time)'
  <2>1. entry.fetched_at - time \in Int /\ entry.fetched_at - time <= clock
        /\ GroupsKnown(entry.groups, entry.fetched_at - time)
    BY <1>1 DEF TokenOK, DirectoryOK
  <2> QED
    BY <2>1, GroupsKnownNext
<1> QED
  BY <1>1 DEF TokenOK, DirectoryOK, GroupsKnown

\* What a request does in the spoke, and what entry it leaves.
LEMMA LookupStep ==
    ASSUME DirectoryOK, LongestTtl \in Nat, {GroupTtl, UnresolvedTtl} \subseteq Nat,
           NEW time \in Nat, TokenOK(time),
           NEW R, NEW r \in R, spoke = [s \in R |-> spoke[s]], LookupOK(spoke[r], time),
           Spoke!Arrive(r) \/ Spoke!Lookup(r) \/ Spoke!Forward(r)
    PROVE  /\ UNCHANGED <<clock, annotated, revoked, members, changed, cache, list>>
           /\ spoke' = [s \in R |-> spoke'[s]] /\ \A s \in R \ {r} : spoke'[s] = spoke[s]
           /\ LookupOK(spoke'[r], time) /\ TokenOK(time)'
<1>0. clock \in Nat
  BY DEF DirectoryOK
<1>1. CASE Spoke!Arrive(r)
  <2> DEFINE own == Spoke!NamespacesOf({User})
  <2>1. CASE Spoke!Cached
    <3>1. /\ token.fetched_at \in Nat /\ clock - token.fetched_at <= LongestTtl
          /\ GroupsKnown(token.groups, token.fetched_at - time)
      BY <1>0, <2>1 DEF Spoke!Cached, Spoke!Never, TokenOK
    <3>2. \A g \in Groups : changed[g] \in Int
      BY DEF DirectoryOK
    <3>3. GroupsKnown(token.groups, clock - (LongestTtl + time))
      BY <1>0, <3>1, <3>2 DEF GroupsKnown
    <3>4. LookupOK(Spoke!Ready(own, token.groups, token.email), time)
      BY <3>3 DEF LookupOK, TokenOK, Spoke!Ready
    <3>5. spoke' = [spoke EXCEPT ![r] = Spoke!Ready(own, token.groups, token.email)]
      BY <1>1, <2>1 DEF Spoke!Arrive
    <3>6. UNCHANGED <<clock, annotated, revoked, members, changed, cache, list, token>>
      BY <1>1 DEF Spoke!Arrive, Spoke!directory
    <3> HIDE DEF own
    <3> QED
      BY <3>4, <3>5, <3>6 DEF TokenOK, GroupsKnown
  <2>2. CASE ~Spoke!Cached
    <3>1. LookupOK([step |-> "lookup", since |-> clock, own |-> own], time)
      BY <1>0 DEF LookupOK
    <3>2. spoke' = [spoke EXCEPT ![r] = [step |-> "lookup", since |-> clock, own |-> own]]
      BY <1>1, <2>2 DEF Spoke!Arrive
    <3>3. UNCHANGED <<clock, annotated, revoked, members, changed, cache, list, token>>
      BY <1>1 DEF Spoke!Arrive, Spoke!directory
    <3> HIDE DEF own
    <3> QED
      BY <3>1, <3>2, <3>3 DEF TokenOK, GroupsKnown
  <2> QED
    BY <2>1, <2>2
<1>2. CASE Spoke!LookupAnswered(r)
  <2> DEFINE task == [step |-> "answered", since |-> spoke[r].since, own |-> spoke[r].own, groups |-> members]
  <2>1. LookupOK(task, time)
    BY <1>2 DEF LookupOK, DirectoryOK, GroupsKnown, Spoke!LookupAnswered
  <2>2. spoke' = [spoke EXCEPT ![r] = task]
    BY <1>2 DEF Spoke!LookupAnswered
  <2>3. UNCHANGED <<clock, annotated, revoked, members, changed, cache, list, token>>
    BY <1>2 DEF Spoke!LookupAnswered, Spoke!directory
  <2> HIDE DEF task
  <2> QED
    BY <2>1, <2>2, <2>3 DEF TokenOK, GroupsKnown
<1>3. CASE Spoke!LookupDone(r)
  <2>1. PICK email \in BOOLEAN :
            /\ token' = [groups |-> spoke[r].groups, email |-> email, fetched_at |-> clock,
                         ttl |-> IF email THEN GroupTtl ELSE UnresolvedTtl]
            /\ spoke' = [spoke EXCEPT ![r] = Spoke!Ready(spoke[r].own, spoke[r].groups, email)]
    BY <1>3 DEF Spoke!LookupDone
  <2>2. UNCHANGED <<clock, annotated, revoked, members, changed, cache, list>>
    BY <1>3 DEF Spoke!LookupDone, Spoke!directory
  <2>3. /\ spoke[r].since \in Nat /\ clock - spoke[r].since <= time /\ spoke[r].groups \subseteq Groups
        /\ GroupsKnown(spoke[r].groups, spoke[r].since)
    BY <1>3 DEF LookupOK, Spoke!LookupDone
  <2>4. \A g \in Groups : changed[g] \in Int
    BY DEF DirectoryOK
  <2>5. GroupsKnown(spoke[r].groups, clock - (LongestTtl + time)) /\ GroupsKnown(spoke[r].groups, clock - time)
    BY <1>0, <2>3, <2>4 DEF GroupsKnown
  <2>6. LookupOK(Spoke!Ready(spoke[r].own, spoke[r].groups, email), time)
    BY <2>3, <2>5 DEF LookupOK, Spoke!Ready
  <2>7. TokenOK(time)'
    <3>1. /\ token'.email \in BOOLEAN /\ token'.groups = spoke[r].groups /\ token'.fetched_at = clock
          /\ token'.ttl \in Nat /\ token'.ttl <= LongestTtl
      BY <2>1 DEF LongestTtl
    <3> QED
      BY <1>0, <2>2, <2>3, <2>5, <3>1 DEF TokenOK, GroupsKnown, LongestTtl
  <2> QED
    BY <2>1, <2>2, <2>6, <2>7
<1>4. CASE Spoke!LookupFails(r) \/ Spoke!Forward(r)
  <2>1. LookupOK(Spoke!Idle, time)
    BY DEF LookupOK, Spoke!Idle
  <2>2. spoke' = [spoke EXCEPT ![r] = Spoke!Idle]
        /\ UNCHANGED <<clock, annotated, revoked, members, changed, cache, list, token>>
    BY <1>4 DEF Spoke!LookupFails, Spoke!Forward, Spoke!directory
  <2> QED
    BY <2>1, <2>2 DEF TokenOK, GroupsKnown
<1> QED
  BY <1>1, <1>2, <1>3, <1>4 DEF Spoke!Lookup

\* What the annotations were at some time since.
PairsKnown(pairs, since) == \A a \in pairs : a \in annotated \/ revoked[a] >= since

ListOK(task) ==
    task = Spoke!NoList \/ (/\ task.step = "listed" /\ task.since \in Nat /\ task.since <= clock /\ clock - task.since <= ListTime
                            /\ task.pairs \subseteq Spoke!Grants /\ PairsKnown(task.pairs, task.since))

CacheOK ==
    /\ cache.pairs \subseteq Spoke!Grants
    /\ cache.fetched_at # -1 => /\ cache.fetched_at \in Nat /\ cache.fetched_at <= clock
                                /\ PairsKnown(cache.pairs, cache.fetched_at - ListTime)

OwnOK(task) ==
    /\ task.step \in {"lookup", "answered", "ready"} => task.own \subseteq Namespaces
    /\ task.step \in {"lookup", "answered"} => PairsKnown(task.own \X {User}, task.since - (MaxAge + ListTime))
    /\ task.step = "ready" => PairsKnown(task.own \X {User}, clock - (MaxAge + ListTime + LookupTime))

SpokeInv ==
    /\ DirectoryOK /\ TokenOK(LookupTime)
    /\ annotated \subseteq Spoke!Grants /\ revoked \in [Spoke!Grants -> Int]
    /\ ListOK(list) /\ CacheOK
    /\ spoke = [r \in Requests |-> spoke[r]]
    /\ \A r \in Requests : LookupOK(spoke[r], LookupTime) /\ OwnOK(spoke[r])

LEMMA SpokeConstants ==
    ASSUME Spoke!ConstantsAssumption
    PROVE  /\ MaxAge \in Nat /\ ListTime \in Nat /\ LookupTime \in Nat
           /\ {GroupTtl, UnresolvedTtl} \subseteq Nat /\ LongestTtl \in Nat
           /\ User \notin Groups
  BY DEF Spoke!ConstantsAssumption, LongestTtl

LEMMA SpokeInit ==
    ASSUME Spoke!ConstantsAssumption, Spoke!Init
    PROVE  SpokeInv
<1>1. /\ spoke = [r \in Requests |-> Spoke!Idle] /\ \A r \in Requests : spoke[r].step = "idle"
      /\ clock = 0 /\ members \subseteq Groups /\ changed = [g \in Groups |-> -1]
      /\ annotated \subseteq Spoke!Grants /\ revoked = [a \in Spoke!Grants |-> -1]
      /\ cache.pairs = {} /\ cache.fetched_at = -1 /\ list = Spoke!NoList
      /\ token.fetched_at = -1 /\ token.groups = {} /\ token.email = FALSE
  BY DEF Spoke!Init, Spoke!Idle, Spoke!Never, Spoke!Nothing, Spoke!NoEntry
<1>2. -1 \in Int
  OBVIOUS
<1> QED
  BY <1>1, <1>2 DEF SpokeInv, DirectoryOK, TokenOK, ListOK, CacheOK, LookupOK, OwnOK

LEMMA PairsKnownNext ==
    ASSUME SpokeInv, UNCHANGED <<annotated, revoked>> \/ \E a \in Spoke!Grants : Spoke!Annotation(a),
           NEW pairs \in SUBSET Spoke!Grants, NEW since \in Int, since <= clock, PairsKnown(pairs, since)
    PROVE  PairsKnown(pairs, since)'
<1>1. CASE UNCHANGED <<annotated, revoked>>
  BY <1>1 DEF PairsKnown
<1>2. ASSUME NEW a \in Spoke!Grants, Spoke!Annotation(a)
      PROVE  PairsKnown(pairs, since)'
  <2>1. /\ a \in annotated' \/ revoked'[a] = clock
        /\ \A b \in Spoke!Grants \ {a} : revoked'[b] = revoked[b] /\ (b \in annotated' <=> b \in annotated)
    BY <1>2 DEF SpokeInv, Spoke!Annotation
  <2> QED
    BY <2>1 DEF SpokeInv, DirectoryOK, PairsKnown
<1> QED
  BY <1>1, <1>2

\* What the cache says of some principals.
LEMMA NamespacesKnown ==
    ASSUME SpokeInv, Spoke!ConstantsAssumption, NEW principals, NEW n \in Spoke!NamespacesOf(principals)
    PROVE  n \in Namespaces /\ \E g \in principals : PairsKnown({<<n, g>>}, clock - (MaxAge + ListTime))
<1>1. PICK a \in cache.pairs : a[1] = n /\ a[2] \in principals
  BY DEF Spoke!NamespacesOf
<1>2. a = <<a[1], a[2]>> /\ a[1] \in Namespaces
  BY <1>1 DEF SpokeInv, CacheOK, Spoke!Grants
<1>3. /\ cache.fetched_at \in Nat /\ clock - cache.fetched_at <= MaxAge
      /\ a \in annotated \/ revoked[a] >= cache.fetched_at - ListTime
  BY <1>1 DEF SpokeInv, CacheOK, Spoke!NamespacesOf, Spoke!Usable, Spoke!Never, PairsKnown
<1>4. revoked[a] \in Int /\ clock \in Nat /\ MaxAge \in Nat /\ ListTime \in Nat
  BY <1>1, SpokeConstants DEF SpokeInv, CacheOK, DirectoryOK
<1>5. a \in annotated \/ revoked[a] >= clock - (MaxAge + ListTime)
  BY <1>3, <1>4
<1> QED
  BY <1>1, <1>2, <1>5 DEF PairsKnown

\* The namespaces of the user that a request carries.
LEMMA OwnNext ==
    ASSUME SpokeInv, Spoke!ConstantsAssumption,
           UNCHANGED <<annotated, revoked>> \/ \E a \in Spoke!Grants : Spoke!Annotation(a),
           NEW task, LookupOK(task, LookupTime), OwnOK(task),
           clock' = clock \/ (clock' = clock + 1 /\ task.step # "ready")
    PROVE  OwnOK(task)'
<1>0. clock \in Nat /\ MaxAge \in Nat /\ ListTime \in Nat /\ LookupTime \in Nat
  BY SpokeConstants DEF SpokeInv, DirectoryOK
<1>1. ASSUME NEW since \in Int, since <= clock, task.own \subseteq Namespaces, PairsKnown(task.own \X {User}, since)
      PROVE  PairsKnown(task.own \X {User}, since)'
  <2>1. task.own \X {User} \in SUBSET Spoke!Grants
    BY <1>1 DEF Spoke!Grants
  <2> QED
    BY <1>1, <2>1, PairsKnownNext
<1>2. CASE task.step \in {"lookup", "answered"}
  <2>1. PairsKnown(task.own \X {User}, task.since - (MaxAge + ListTime))'
    <3>1. task.since - (MaxAge + ListTime) \in Int /\ task.since - (MaxAge + ListTime) <= clock
      BY <1>0, <1>2 DEF LookupOK
    <3> QED
      BY <1>1, <1>2, <3>1 DEF OwnOK
  <2> QED
    BY <1>2, <2>1 DEF OwnOK
<1>3. CASE task.step = "ready"
  <2>1. ASSUME NEW since, since = clock - (MaxAge + ListTime + LookupTime)
        PROVE  PairsKnown(task.own \X {User}, since)'
    <3>1. since \in Int /\ since <= clock
      BY <1>0, <2>1
    <3> QED
      BY <1>1, <1>3, <2>1, <3>1 DEF OwnOK
  <2> QED
    BY <1>3, <2>1 DEF OwnOK, PairsKnown
<1>4. CASE task.step = "idle"
  BY <1>4 DEF OwnOK
<1> QED
  BY <1>2, <1>3, <1>4 DEF LookupOK

LEMMA OwnStep ==
    ASSUME SpokeInv, Spoke!ConstantsAssumption, NEW r \in Requests,
           Spoke!Arrive(r) \/ Spoke!Lookup(r) \/ Spoke!Forward(r)
    PROVE  OwnOK(spoke'[r])
<1>0. clock \in Nat /\ MaxAge \in Nat /\ ListTime \in Nat /\ LookupTime \in Nat /\ revoked \in [Spoke!Grants -> Int]
      /\ LookupOK(spoke[r], LookupTime) /\ OwnOK(spoke[r]) /\ spoke = [s \in Requests |-> spoke[s]]
  BY SpokeConstants DEF SpokeInv, DirectoryOK
<1>1. ASSUME NEW own \in SUBSET Namespaces, NEW since \in Int, PairsKnown(own \X {User}, since),
             NEW at \in Int, at <= since
      PROVE  PairsKnown(own \X {User}, at)
  <2>1. \A a \in own \X {User} : revoked[a] \in Int
    BY <1>0 DEF Spoke!Grants
  <2> QED
    BY <1>1, <2>1 DEF PairsKnown
<1>2. CASE Spoke!Arrive(r)
  <2> DEFINE own == Spoke!NamespacesOf({User})
  <2>1. own \subseteq Namespaces /\ PairsKnown(own \X {User}, clock - (MaxAge + ListTime))
    <3>1. ASSUME NEW n \in own
          PROVE  n \in Namespaces /\ (<<n, User>> \in annotated \/ revoked[<<n, User>>] >= clock - (MaxAge + ListTime))
      <4>0. n \in Spoke!NamespacesOf({User})
        OBVIOUS
      <4> HIDE DEF own
      <4>1. ASSUME NEW principals, principals = {User}
            PROVE  n \in Namespaces /\ \E g \in principals : PairsKnown({<<n, g>>}, clock - (MaxAge + ListTime))
        BY <4>0, <4>1, NamespacesKnown
      <4>2. n \in Namespaces /\ PairsKnown({<<n, User>>}, clock - (MaxAge + ListTime))
        BY <4>1, Zenon
      <4> QED
        BY <4>2 DEF PairsKnown
    <3> HIDE DEF own
    <3>2. \A a \in own \X {User} : \E n \in own : a = <<n, User>>
      OBVIOUS
    <3> QED
      BY <3>1, <3>2 DEF PairsKnown
  <2> HIDE DEF own
  <2>2. PairsKnown(own \X {User}, clock - (MaxAge + ListTime + LookupTime))
    <3>1. clock - (MaxAge + ListTime) \in Int /\ clock - (MaxAge + ListTime + LookupTime) \in Int
          /\ clock - (MaxAge + ListTime + LookupTime) <= clock - (MaxAge + ListTime)
      BY <1>0
    <3> QED
      BY <1>1, <2>1, <3>1
  <2>3. \/ spoke'[r] = Spoke!Ready(own, token.groups, token.email)
        \/ spoke'[r] = [step |-> "lookup", since |-> clock, own |-> own]
    BY <1>0, <1>2 DEF Spoke!Arrive, own
  <2>4. CASE spoke'[r] = Spoke!Ready(own, token.groups, token.email)
    BY <2>1, <2>2, <2>4 DEF OwnOK, Spoke!Ready
  <2>5. CASE spoke'[r] = [step |-> "lookup", since |-> clock, own |-> own]
    BY <2>1, <2>5 DEF OwnOK
  <2> QED
    BY <2>3, <2>4, <2>5
<1>3. CASE Spoke!LookupAnswered(r)
  <2>1. /\ spoke'[r].step = "answered" /\ spoke'[r].since = spoke[r].since /\ spoke'[r].own = spoke[r].own
        /\ spoke[r].step = "lookup"
    BY <1>0, <1>3 DEF Spoke!LookupAnswered
  <2> QED
    BY <1>0, <2>1 DEF OwnOK
<1>4. CASE Spoke!LookupDone(r)
  <2>1. spoke'[r].step = "ready" /\ spoke'[r].own = spoke[r].own /\ spoke[r].step = "answered"
    BY <1>0, <1>4 DEF Spoke!LookupDone, Spoke!Ready
  <2>2. spoke[r].own \subseteq Namespaces /\ PairsKnown(spoke[r].own \X {User}, spoke[r].since - (MaxAge + ListTime))
        /\ spoke[r].since \in Nat /\ clock - spoke[r].since <= LookupTime
    BY <1>0, <2>1 DEF OwnOK, LookupOK
  <2>3. PairsKnown(spoke[r].own \X {User}, clock - (MaxAge + ListTime + LookupTime))
    <3>1. spoke[r].since - (MaxAge + ListTime) \in Int /\ clock - (MaxAge + ListTime + LookupTime) \in Int
          /\ clock - (MaxAge + ListTime + LookupTime) <= spoke[r].since - (MaxAge + ListTime)
      BY <1>0, <2>2
    <3> QED
      BY <1>1, <2>2, <3>1
  <2> QED
    BY <2>1, <2>2, <2>3 DEF OwnOK
<1>5. CASE Spoke!LookupFails(r) \/ Spoke!Forward(r)
  <2>1. spoke'[r].step = "idle"
    BY <1>0, <1>5 DEF Spoke!LookupFails, Spoke!Forward, Spoke!Idle
  <2> QED
    BY <2>1 DEF OwnOK
<1> QED
  BY <1>2, <1>3, <1>4, <1>5 DEF Spoke!Lookup

LEMMA SpokePreserved ==
    ASSUME Spoke!ConstantsAssumption, SpokeInv, Spoke!Next \/ UNCHANGED <<clock, proxyVars>>
    PROVE  SpokeInv'
<1>0. /\ clock \in Nat /\ MaxAge \in Nat /\ ListTime \in Nat /\ LookupTime \in Nat
           /\ {GroupTtl, UnresolvedTtl} \subseteq Nat /\ LongestTtl \in Nat
      /\ DirectoryOK /\ TokenOK(LookupTime) /\ ListOK(list) /\ CacheOK
      /\ annotated \subseteq Spoke!Grants /\ revoked \in [Spoke!Grants -> Int]
      /\ spoke = [r \in Requests |-> spoke[r]]
      /\ \A r \in Requests : LookupOK(spoke[r], LookupTime) /\ OwnOK(spoke[r])
  BY SpokeConstants DEF SpokeInv, DirectoryOK
<1>1. CASE UNCHANGED <<clock, proxyVars>>
  BY <1>1 DEF proxyVars, SpokeInv, DirectoryOK, TokenOK, ListOK, CacheOK, LookupOK, OwnOK, GroupsKnown, PairsKnown
\* The steps of the cluster and of time.
<1>2. CASE Spoke!Tick \/ Spoke!Cluster
  <2>1. /\ UNCHANGED <<members, changed>> \/ \E g \in Groups : Spoke!Membership(g)
        /\ UNCHANGED <<annotated, revoked>> \/ \E a \in Spoke!Grants : Spoke!Annotation(a)
        /\ UNCHANGED <<cache, list, token, spoke>>
    BY <1>2 DEF Spoke!Tick, Spoke!Cluster, Spoke!Annotation, Spoke!Membership, Spoke!directory
  <2>2. \/ clock' = clock
        \/ /\ clock' = clock + 1 /\ (list # Spoke!NoList => clock - list.since < ListTime)
           /\ \A r \in Requests : /\ spoke[r].step # "ready"
                                  /\ spoke[r].step \in {"lookup", "answered"} => clock - spoke[r].since < LookupTime
    BY <1>2 DEF Spoke!Tick, Spoke!Cluster, Spoke!Annotation, Spoke!Membership
  <2>3. DirectoryOK' /\ annotated' \subseteq Spoke!Grants /\ revoked' \in [Spoke!Grants -> Int]
    <3>1. clock' \in Nat
      BY <1>0, <2>2
    <3>2. members' \subseteq Groups /\ changed' \in [Groups -> Int]
      BY <1>0, <2>1 DEF Spoke!Membership, DirectoryOK
    <3>3. annotated' \subseteq Spoke!Grants /\ revoked' \in [Spoke!Grants -> Int]
      BY <1>0, <2>1 DEF Spoke!Annotation
    <3> QED
      BY <3>1, <3>2, <3>3 DEF DirectoryOK
  <2>4. TokenOK(LookupTime)'
    BY <1>0, <2>1, <2>2, TokenNext
  <2>5. ASSUME NEW task, task = list
        PROVE  ListOK(task)'
    <3>1. CASE task = Spoke!NoList
      BY <3>1 DEF ListOK
    <3>2. CASE task # Spoke!NoList
      <4>1. /\ task.step = "listed" /\ task.since \in Nat /\ task.since <= clock /\ clock - task.since <= ListTime
            /\ task.pairs \subseteq Spoke!Grants /\ PairsKnown(task.pairs, task.since)
        BY <1>0, <2>5, <3>2 DEF ListOK
      <4>2. PairsKnown(task.pairs, task.since)'
        BY <2>1, <4>1, PairsKnownNext
      <4>3. task.since <= clock' /\ clock' - task.since <= ListTime
        BY <1>0, <2>2, <2>5, <3>2, <4>1
      <4> QED
        BY <4>1, <4>2, <4>3 DEF ListOK
    <3> QED
      BY <3>1, <3>2
  <2>6. CacheOK'
    <3>1. ASSUME NEW store, store = cache, store.fetched_at # -1
          PROVE  PairsKnown(store.pairs, store.fetched_at - ListTime)'
      <4>1. store.fetched_at - ListTime \in Int /\ store.fetched_at - ListTime <= clock
            /\ store.pairs \in SUBSET Spoke!Grants /\ PairsKnown(store.pairs, store.fetched_at - ListTime)
        BY <1>0, <3>1 DEF CacheOK
      <4> QED
        BY <2>1, <4>1, PairsKnownNext
    <3>2. cache.fetched_at # -1 => PairsKnown(cache.pairs, cache.fetched_at - ListTime)'
      BY <2>1, <3>1 DEF PairsKnown
    <3> QED
      BY <1>0, <2>1, <2>2, <3>2 DEF CacheOK
  <2>7. ASSUME NEW r \in Requests, NEW task, task = spoke[r]
        PROVE  LookupOK(task, LookupTime)' /\ OwnOK(task)'
    BY <1>0, <2>1, <2>2, <2>7, LookupNext, OwnNext
  <2>8. ListOK(list)' /\ \A r \in Requests : LookupOK(spoke[r], LookupTime)' /\ OwnOK(spoke[r])'
    BY <2>1, <2>5, <2>7 DEF ListOK, LookupOK, OwnOK, GroupsKnown, PairsKnown
  <2> QED
    BY <1>0, <2>1, <2>3, <2>4, <2>6, <2>8 DEF SpokeInv
<1>3. CASE Spoke!Refresh
  <2>0. UNCHANGED <<clock, annotated, revoked, members, changed, token, spoke>>
    BY <1>3 DEF Spoke!Refresh, Spoke!ListAnswered, Spoke!Update, Spoke!ListFails, Spoke!directory
  <2>1. ListOK(list') /\ (cache' = cache \/ (cache' = [pairs |-> list.pairs, fetched_at |-> clock] /\ list.step = "listed"))
    <3>1. CASE Spoke!ListAnswered
      BY <1>0, <3>1 DEF Spoke!ListAnswered, ListOK, PairsKnown
    <3>2. CASE Spoke!Update
      BY <1>0, <3>2 DEF Spoke!Update, ListOK
    <3>3. CASE Spoke!ListFails
      BY <1>0, <3>3 DEF Spoke!ListFails, ListOK
    <3> QED
      BY <1>3, <3>1, <3>2, <3>3 DEF Spoke!Refresh
  <2>2. CacheOK'
    <3>1. CASE cache' = cache
      BY <1>0, <2>0, <3>1 DEF CacheOK, PairsKnown
    <3>2. CASE cache' = [pairs |-> list.pairs, fetched_at |-> clock] /\ list.step = "listed"
      <4>1. /\ list.since \in Nat /\ clock - list.since <= ListTime
            /\ list.pairs \subseteq Spoke!Grants /\ PairsKnown(list.pairs, list.since)
        BY <1>0, <3>2 DEF ListOK, Spoke!NoList
      <4>2. \A a \in list.pairs : revoked[a] \in Int
        BY <1>0, <4>1
      <4>3. PairsKnown(list.pairs, clock - ListTime)
        BY <1>0, <4>1, <4>2 DEF PairsKnown
      <4> QED
        BY <1>0, <2>0, <3>2, <4>1, <4>3 DEF CacheOK, PairsKnown
    <3> QED
      BY <2>1, <3>1, <3>2
  <2> QED
    BY <1>0, <2>0, <2>1, <2>2 DEF SpokeInv, DirectoryOK, TokenOK, ListOK, LookupOK, OwnOK, GroupsKnown, PairsKnown
<1>4. ASSUME NEW r \in Requests, Spoke!Arrive(r) \/ Spoke!Lookup(r) \/ Spoke!Forward(r)
      PROVE  SpokeInv'
  <2>1. /\ UNCHANGED <<clock, annotated, revoked, members, changed, cache, list>>
        /\ spoke' = [s \in Requests |-> spoke'[s]] /\ \A s \in Requests \ {r} : spoke'[s] = spoke[s]
        /\ LookupOK(spoke'[r], LookupTime) /\ TokenOK(LookupTime)'
    BY <1>0, <1>4, LookupStep
  <2>2. OwnOK(spoke'[r])
    BY <1>4, OwnStep
  <2>3. \A s \in Requests : LookupOK(spoke'[s], LookupTime) /\ OwnOK(spoke'[s])
    BY <1>0, <2>1, <2>2
  <2> QED
    BY <1>0, <2>1, <2>3 DEF SpokeInv, DirectoryOK, ListOK, CacheOK, LookupOK, OwnOK, GroupsKnown, PairsKnown
<1> QED
  BY <1>1, <1>2, <1>3, <1>4 DEF Spoke!Next

LEMMA SpokeRevoked ==
    ASSUME Spoke!ConstantsAssumption, SpokeInv
    PROVE  Spoke!RevokedInTime
<1> SUFFICES ASSUME NEW r \in Requests, spoke[r].step = "ready", NEW n \in Spoke!Headers(r).namespaces
             PROVE  \/ Spoke!WasAnnotated(<<n, User>>, clock, Spoke!GrantAge)
                    \/ \E g \in spoke[r].groups : /\ Spoke!WasAnnotated(<<n, g>>, clock, Spoke!GrantAge)
                                                  /\ Spoke!WasMember(g, clock, Spoke!GroupAge)
  BY DEF Spoke!RevokedInTime
<1>0. /\ clock \in Nat /\ MaxAge \in Nat /\ ListTime \in Nat /\ LookupTime \in Nat /\ LongestTtl \in Nat
      /\ revoked \in [Spoke!Grants -> Int] /\ changed \in [Groups -> Int]
      /\ LookupOK(spoke[r], LookupTime) /\ OwnOK(spoke[r])
  BY SpokeConstants DEF SpokeInv, DirectoryOK
<1>1. n \in spoke[r].own \/ n \in Spoke!NamespacesOf(spoke[r].groups)
  BY DEF Spoke!Headers
<1>2. CASE n \in spoke[r].own
  <2>1. n \in Namespaces /\ (<<n, User>> \in annotated \/ revoked[<<n, User>>] >= clock - (MaxAge + ListTime + LookupTime))
    BY <1>0, <1>2 DEF OwnOK, PairsKnown
  <2>2. <<n, User>> \in Spoke!Grants
    BY <2>1 DEF Spoke!Grants
  <2>3. revoked[<<n, User>>] \in Int
    BY <1>0, <2>2
  <2> QED
    BY <1>0, <2>1, <2>3 DEF Spoke!WasAnnotated, Spoke!GrantAge
<1>3. CASE n \in Spoke!NamespacesOf(spoke[r].groups)
  <2>1. PICK g \in spoke[r].groups : PairsKnown({<<n, g>>}, clock - (MaxAge + ListTime))
    BY <1>3, NamespacesKnown
  <2>2. n \in Namespaces /\ g \in Groups /\ (g \in members \/ changed[g] >= clock - (LongestTtl + LookupTime))
    BY <1>0, <1>3, <2>1, NamespacesKnown DEF LookupOK, GroupsKnown
  <2>3. <<n, g>> \in Spoke!Grants
    BY <2>2 DEF Spoke!Grants
  <2>4. revoked[<<n, g>>] \in Int /\ changed[g] \in Int
    BY <1>0, <2>2, <2>3
  <2>5. Spoke!WasAnnotated(<<n, g>>, clock, Spoke!GrantAge)
    BY <1>0, <2>1, <2>4 DEF PairsKnown, Spoke!WasAnnotated, Spoke!GrantAge
  <2>6. Spoke!WasMember(g, clock, Spoke!GroupAge)
    <3>1. Spoke!GroupAge = LongestTtl + LookupTime
      BY DEF Spoke!GroupAge, LongestTtl
    <3> QED
      BY <1>0, <2>2, <2>4, <3>1 DEF Spoke!WasMember
  <2> QED
    BY <2>5, <2>6
<1> QED
  BY <1>1, <1>2, <1>3

-----------------------------------------------------------------------------
(***************************************************************************)
(* The account                                                             *)
(***************************************************************************)
\* Who has got past the account has found one, and writes what it has read.
HubTaskOK(task) ==
    /\ task.step \in Sessions!Steps \cup {"idle"}
    /\ task.step # "idle" =>
           /\ DOMAIN task = {"step", "since", "headers", "row", "saw"}
           /\ task.headers.sec \in BOOLEAN /\ task.headers.email \in BOOLEAN /\ task.row \in Sessions!Row \cup {NoRow}
    /\ task.step \in {"created", "loaded", "synced", "known", "snapshot"} => user \in Sessions!Row
    /\ task.step \in {"loaded", "known", "snapshot"} => task.row \in Sessions!Row

\* Where a request stands after a step, and what it has read and written.
HubMoves(old, new) ==
    \/ user' = user /\ new.step = "idle"
    \/ user' = user /\ new.step = "create" /\ new.row = NoRow
    \/ /\ old.step \in {"arrived", "created"} /\ new.step = "loaded"
       /\ user # NoRow /\ new.row = user /\ user' = user
    \/ /\ old.step = "create" /\ new.step = "created" /\ new.row = old.row
       /\ user = NoRow /\ user' = [sec |-> old.headers.sec, email |-> old.headers.email]
    \/ /\ old.step = "loaded" /\ new.row = old.row
       /\ LET wanted == Sessions!Adopted(old.row, old.headers)
          IN /\ user' = [f \in {"sec", "email"} |-> IF wanted[f] # old.row[f] THEN wanted[f] ELSE user[f]]
             /\ new.step = (IF wanted = old.row THEN "known" ELSE "synced")
    \/ old.step = "synced" /\ new.step = "known" /\ new.row = user /\ user' = user
    \/ old.step = "known" /\ new.step = "snapshot" /\ new.row = old.row /\ user' = user

HubInv ==
    /\ user \in Sessions!Row \cup {NoRow}
    /\ req = [r \in Requests |-> req[r]]
    /\ \A r \in Requests : HubTaskOK(req[r])

\* Both parts serve a request in the same way.
LEMMA SameServe ==
    ASSUME NEW r
    PROVE  Account!Hub!Serve(r) => Sessions!Serve(r)
  BY DEF Account!Hub!Serve, Account!Hub!Account, Account!Hub!Record, Account!Hub!Load, Account!Hub!Create,
         Account!Hub!Refreshed, Account!Hub!Sync, Account!Hub!Fail, Account!Hub!LoadSnapshot,
         Account!Hub!StoreSnapshot, Account!Hub!SnapshotFails, Account!Hub!Served, Account!Hub!Step,
         Account!Hub!Reads, Account!Hub!Adopted, Account!Hub!Fresh, Account!Hub!Written, Account!Hub!ScopeOf, Account!Hub!Idle,
         Sessions!Serve, Sessions!Account, Sessions!Record, Sessions!Load, Sessions!Create,
         Sessions!Refreshed, Sessions!Sync, Sessions!Fail, Sessions!LoadSnapshot,
         Sessions!StoreSnapshot, Sessions!SnapshotFails, Sessions!Served, Sessions!Step,
         Sessions!Reads, Sessions!Adopted, Sessions!Fresh, Sessions!Written, Sessions!ScopeOf, Sessions!Idle

\* What each step of a request does to it and to the row.
LEMMA HubServes ==
    ASSUME HubInv, NoRow \notin Sessions!Row, NEW r \in Requests, Sessions!Serve(r)
    PROVE  /\ clock' = clock
           /\ \E task :
                  /\ req' = [req EXCEPT ![r] = task] /\ HubMoves(req[r], task)
                  /\ task.step # "idle" =>
                         /\ DOMAIN task = {"step", "since", "headers", "row", "saw"}
                         /\ task.headers = req[r].headers /\ task.since = req[r].since /\ req[r].step # "idle"
<1>0. HubTaskOK(req[r]) /\ (user = NoRow \/ user \in Sessions!Row)
  BY DEF HubInv
<1>1. clock' = clock
  BY DEF Sessions!Serve
<1>2. CASE Sessions!Load(r) \/ Sessions!Refreshed(r)
  <2> DEFINE step == IF req[r].step = "synced" THEN "known"
                     ELSE IF req[r].step = "arrived" /\ user = NoRow THEN "create" ELSE "loaded"
             task == [req[r] EXCEPT !.step = step, !.row = user]
  <2>1. req' = [req EXCEPT ![r] = task] /\ user' = user /\ req[r].step \in {"arrived", "created", "synced"}
    BY <1>0, <1>2 DEF Sessions!Load, Sessions!Refreshed, Sessions!Reads
  <2>2. /\ DOMAIN task = {"step", "since", "headers", "row", "saw"}
        /\ task.step = step /\ task.since = req[r].since /\ task.headers = req[r].headers /\ task.row = user
    BY <1>0, <2>1 DEF HubTaskOK
  <2>3. req[r].step = "created" => user # NoRow
    BY <1>0 DEF HubTaskOK
  <2> HIDE DEF task
  <2> QED
    BY <1>1, <2>1, <2>2, <2>3 DEF HubMoves
<1>3. CASE Sessions!Create(r)
  <2> DEFINE task == [req[r] EXCEPT !.step = "created"]
  <2>1. /\ req' = [req EXCEPT ![r] = task] /\ req[r].step = "create"
        /\ user = NoRow /\ user' = [sec |-> req[r].headers.sec, email |-> req[r].headers.email]
    BY <1>3 DEF Sessions!Create, Sessions!Step
  <2>2. /\ DOMAIN task = {"step", "since", "headers", "row", "saw"}
        /\ task.step = "created" /\ task.since = req[r].since /\ task.headers = req[r].headers /\ task.row = req[r].row
    BY <1>0, <2>1 DEF HubTaskOK
  <2> HIDE DEF task
  <2> QED
    BY <1>1, <2>1, <2>2 DEF HubMoves
<1>4. CASE Sessions!Sync(r)
  <2> DEFINE wanted == Sessions!Adopted(req[r].row, req[r].headers)
             step == IF wanted = req[r].row THEN "known" ELSE "synced"
             task == [req[r] EXCEPT !.step = step]
  <2>1. /\ req' = [req EXCEPT ![r] = task] /\ req[r].step = "loaded"
        /\ user' = [f \in {"sec", "email"} |-> IF wanted[f] # req[r].row[f] THEN wanted[f] ELSE user[f]]
    BY <1>4 DEF Sessions!Sync, Sessions!Step
  <2>2. /\ DOMAIN task = {"step", "since", "headers", "row", "saw"}
        /\ task.step = step /\ task.since = req[r].since /\ task.headers = req[r].headers /\ task.row = req[r].row
    BY <1>0, <2>1 DEF HubTaskOK
  <2> HIDE DEF task
  <2> QED
    BY <1>1, <2>1, <2>2 DEF HubMoves
<1>5. CASE Sessions!LoadSnapshot(r) /\ ~Sessions!Served(r)
  <2> DEFINE task == [req[r] EXCEPT !.saw = snapshot, !.step = "snapshot"]
  <2>1. req' = [req EXCEPT ![r] = task] /\ req[r].step = "known" /\ user' = user
    BY <1>5 DEF Sessions!LoadSnapshot
  <2>2. /\ DOMAIN task = {"step", "since", "headers", "row", "saw"}
        /\ task.step = "snapshot" /\ task.since = req[r].since /\ task.headers = req[r].headers /\ task.row = req[r].row
    BY <1>0, <2>1 DEF HubTaskOK
  <2> HIDE DEF task
  <2> QED
    BY <1>1, <2>1, <2>2 DEF HubMoves
<1>6. CASE Sessions!Served(r) /\ user' = user
  <2>1. req' = [req EXCEPT ![r] = Sessions!Idle] /\ Sessions!Idle.step = "idle"
    BY <1>6 DEF Sessions!Served, Sessions!Idle
  <2> QED
    BY <1>1, <1>6, <2>1 DEF HubMoves
<1> QED
  BY <1>2, <1>3, <1>4, <1>5, <1>6 DEF Sessions!Serve, Sessions!Account, Sessions!Record, Sessions!Fail,
     Sessions!LoadSnapshot, Sessions!StoreSnapshot, Sessions!SnapshotFails

\* A row that a step writes is a row, and keeps the address.
LEMMA RowWritten ==
    ASSUME HubInv, NoRow \notin Sessions!Row, NEW r \in Requests, NEW task, HubMoves(req[r], task)
    PROVE  /\ user' \in Sessions!Row \cup {NoRow} /\ Sessions!AddressKept
           /\ user' # user => user'.sec = req[r].headers.sec \/ (user # NoRow /\ user'.sec = user.sec)
<1>0. HubTaskOK(req[r]) /\ user \in Sessions!Row \cup {NoRow}
  BY DEF HubInv
<1>1. CASE user' = user
  BY <1>0, <1>1 DEF Sessions!AddressKept
<1>2. CASE /\ req[r].step = "create" /\ user = NoRow
           /\ user' = [sec |-> req[r].headers.sec, email |-> req[r].headers.email]
  BY <1>0, <1>2 DEF HubTaskOK, Sessions!AddressKept, Sessions!Row
<1>3. CASE req[r].step = "loaded" /\ user' # user
  <2> DEFINE read == req[r].row
             wanted == Sessions!Adopted(read, req[r].headers)
  <2>1. user' = [f \in {"sec", "email"} |-> IF wanted[f] # read[f] THEN wanted[f] ELSE user[f]]
    BY <1>3 DEF HubMoves
  <2>2. /\ user \in Sessions!Row /\ read \in Sessions!Row
        /\ req[r].headers.sec \in BOOLEAN /\ req[r].headers.email \in BOOLEAN
    BY <1>0, <1>3 DEF HubTaskOK
  <2>3. wanted.sec = req[r].headers.sec /\ wanted.email = (read.email \/ req[r].headers.email)
    BY DEF Sessions!Adopted
  <2> HIDE DEF read, wanted
  <2>4. /\ user'.sec = (IF wanted.sec # read.sec THEN wanted.sec ELSE user.sec)
        /\ user'.email = (IF wanted.email # read.email THEN wanted.email ELSE user.email)
    BY <2>1
  <2>5. user' = [sec |-> user'.sec, email |-> user'.email]
    BY <2>1
  <2>6. user'.sec \in BOOLEAN /\ user'.email \in BOOLEAN
    BY <2>2, <2>3, <2>4 DEF Sessions!Row
  <2>7. user' \in Sessions!Row
    BY <2>5, <2>6 DEF Sessions!Row
  <2>8. user.email => user'.email
    BY <2>2, <2>3, <2>4 DEF Sessions!Row
  <2> QED
    BY <1>0, <2>2, <2>3, <2>4, <2>7, <2>8 DEF Sessions!AddressKept
<1> QED
  BY <1>1, <1>2, <1>3 DEF HubMoves

\* A request that arrives has headers of its own.
LEMMA HubPreserved ==
    ASSUME HubInv, NoRow \notin Sessions!Row,
           \/ UNCHANGED <<user, req>>
           \/ \E r \in Requests : Sessions!Serve(r)
           \/ \E r \in Requests : \E h : h.sec \in BOOLEAN /\ h.email \in BOOLEAN /\ Sessions!Arrive(r, h)
    PROVE  HubInv' /\ Sessions!AddressKept
<1>0. user \in Sessions!Row \cup {NoRow} /\ req = [r \in Requests |-> req[r]] /\ \A r \in Requests : HubTaskOK(req[r])
  BY DEF HubInv
<1>1. CASE UNCHANGED <<user, req>>
  BY <1>1 DEF HubInv, HubTaskOK, Sessions!AddressKept
<1>2. ASSUME NEW r \in Requests, Sessions!Serve(r)
      PROVE  HubInv' /\ Sessions!AddressKept
  <2>1. PICK task : /\ req' = [req EXCEPT ![r] = task] /\ HubMoves(req[r], task)
                    /\ task.step # "idle" =>
                           /\ DOMAIN task = {"step", "since", "headers", "row", "saw"}
                           /\ task.headers = req[r].headers /\ task.since = req[r].since /\ req[r].step # "idle"
    BY <1>2, HubServes
  <2>2. user' \in Sessions!Row \cup {NoRow} /\ Sessions!AddressKept
    BY <2>1, RowWritten
  <2>3. user \in Sessions!Row => user' \in Sessions!Row
    BY <2>2 DEF Sessions!AddressKept
  <2>4. HubTaskOK(task)'
    <3>1. CASE task.step = "idle"
      BY <3>1 DEF HubTaskOK
    <3>2. CASE task.step # "idle"
      <4>1. req[r].headers.sec \in BOOLEAN /\ req[r].headers.email \in BOOLEAN /\ req[r].row \in Sessions!Row \cup {NoRow}
        BY <1>0, <2>1, <3>2 DEF HubTaskOK
      <4>2. /\ task.step \in Sessions!Steps \cup {"idle"} /\ task.row \in Sessions!Row \cup {NoRow}
            /\ task.step \in {"loaded", "known", "snapshot"} => task.row \in Sessions!Row
        BY <1>0, <2>1, <3>2, <4>1 DEF HubMoves, HubTaskOK, Sessions!Steps
      <4>3. task.step \in {"created", "loaded", "synced", "known", "snapshot"} => user' \in Sessions!Row
        <5>1. CASE task.step = "created"
          BY <2>1, <2>2, <5>1, <4>1 DEF HubMoves, Sessions!Row
        <5>2. CASE task.step \in {"loaded", "synced", "known", "snapshot"}
          BY <1>0, <2>1, <2>3, <5>2 DEF HubMoves, HubTaskOK
        <5> QED
          BY <5>1, <5>2
      <4> QED
        BY <2>1, <3>2, <4>1, <4>2, <4>3 DEF HubTaskOK
    <3> QED
      BY <3>1, <3>2
  <2>5. \A s \in Requests \ {r} : HubTaskOK(req[s])'
    BY <1>0, <2>1, <2>3 DEF HubTaskOK
  <2> QED
    BY <1>0, <2>1, <2>2, <2>4, <2>5 DEF HubInv, HubTaskOK
<1>3. ASSUME NEW r \in Requests, NEW h, h.sec \in BOOLEAN, h.email \in BOOLEAN, Sessions!Arrive(r, h)
      PROVE  HubInv' /\ Sessions!AddressKept
  <2> DEFINE task == [step |-> "arrived", since |-> clock, headers |-> h, row |-> NoRow, saw |-> NoRow]
  <2>1. req' = [req EXCEPT ![r] = task] /\ user' = user
    BY <1>3 DEF Sessions!Arrive
  <2>2. HubTaskOK(task)
    BY <1>3 DEF HubTaskOK, Sessions!Steps
  <2> HIDE DEF task
  <2> QED
    BY <1>0, <2>1, <2>2 DEF HubInv, HubTaskOK, Sessions!AddressKept
<1> QED
  BY <1>1, <1>2, <1>3

LEMMA SessionsInit ==
    ASSUME Sessions!Init
    PROVE  HubInv
<1>1. /\ user = NoRow /\ req = [r \in Requests |-> Sessions!Idle] /\ \A r \in Requests : req[r].step = "idle"
  BY DEF Sessions!Init, Sessions!Idle
<1> QED
  BY <1>1 DEF HubInv, HubTaskOK

LEMMA SessionsPreserved ==
    ASSUME HubInv, NoRow \notin Sessions!Row, Sessions!Next \/ UNCHANGED <<clock, hubVars>>
    PROVE  HubInv' /\ Sessions!AddressKept
<1>1. CASE Sessions!Tick \/ UNCHANGED <<clock, hubVars>>
  BY <1>1, HubPreserved DEF Sessions!Tick, hubVars
<1>2. CASE Sessions!Sent
  <2>1. PICK r \in Requests, h \in Sessions!Headers : Sessions!Arrive(r, h)
    BY <1>2 DEF Sessions!Sent
  <2>2. h.sec \in BOOLEAN /\ h.email \in BOOLEAN
    BY DEF Sessions!Headers
  <2> QED
    BY <2>1, <2>2, HubPreserved
<1>3. CASE \E r \in Requests : Sessions!Serve(r)
  BY <1>3, HubPreserved
<1> QED
  BY <1>1, <1>2, <1>3 DEF Sessions!Next

-----------------------------------------------------------------------------
(***************************************************************************)
(* The role                                                                *)
(***************************************************************************)
\* A role that follows from what the groups were at some time since.
RoleKnown(sec, since) == (sec <=> SecTeamGroup \in members) \/ changed[SecTeamGroup] >= since

\* The groups of a request that was forwarded are as old as the spoke allows,
\* and a row is no older than that when the request is written or read it.
RoleOK(task) ==
    task.step # "idle" =>
        /\ task.since \in Nat /\ task.since <= clock /\ clock - task.since <= RequestTime
        /\ RoleKnown(task.headers.sec, task.since - LongestTtl)
        /\ task.step \in {"created", "synced"} => RoleKnown(user.sec, task.since - (LongestTtl + RequestTime))
        /\ task.step = "loaded" =>
               task.row.sec = user.sec \/ RoleKnown(user.sec, task.since - (LongestTtl + RequestTime))
        /\ task.step \in {"known", "snapshot"} => RoleKnown(task.row.sec, task.since - (LongestTtl + RequestTime))

AccountInv ==
    /\ DirectoryOK /\ TokenOK(0)
    /\ spoke = [p \in Lookups |-> spoke[p]] /\ \A p \in Lookups : LookupOK(spoke[p], 0)
    /\ HubInv
    /\ \A r \in Requests : RoleOK(req[r])

LEMMA RoleKnownNext ==
    ASSUME DirectoryOK, SecTeamGroup \in Groups,
           UNCHANGED <<members, changed>> \/ \E g \in Groups : Spoke!Membership(g),
           NEW sec, NEW since \in Int, since <= clock, RoleKnown(sec, since)
    PROVE  RoleKnown(sec, since)'
<1>1. CASE UNCHANGED <<members, changed>>
  BY <1>1 DEF RoleKnown
<1>2. ASSUME NEW g \in Groups, Spoke!Membership(g)
      PROVE  RoleKnown(sec, since)'
  <2>1. /\ changed'[g] = clock
        /\ \A h \in Groups \ {g} : changed'[h] = changed[h] /\ (h \in members' <=> h \in members)
    BY <1>2 DEF DirectoryOK, Spoke!Membership
  <2> QED
    BY <2>1 DEF DirectoryOK, RoleKnown
<1> QED
  BY <1>1, <1>2

LEMMA RoleKnownSince ==
    ASSUME DirectoryOK, SecTeamGroup \in Groups, NEW sec, NEW since \in Int, NEW at \in Int, at <= since, RoleKnown(sec, since)
    PROVE  RoleKnown(sec, at)
  BY DEF DirectoryOK, RoleKnown

LEMMA AccountConstants ==
    ASSUME Account!ConstantsAssumption
    PROVE  /\ {GroupTtl, UnresolvedTtl} \subseteq Nat /\ LongestTtl \in Nat /\ RequestTime \in Nat
           /\ SecTeamGroup \in Groups /\ NoRow \notin Sessions!Row
  BY DEF Account!ConstantsAssumption, Account!Inject!ConstantsAssumption, Account!Hub!ConstantsAssumption,
         Account!Hub!Row, Sessions!Row, LongestTtl

\* Of a spoke, what the account needs is the same as in Spoke.
LEMMA SameSpoke ==
    ASSUME NEW p
    PROVE  /\ Account!Inject!Membership(p) => Spoke!Membership(p)
           /\ Account!Inject!Arrive(p) => Spoke!Arrive(p)
           /\ Account!Inject!Lookup(p) => Spoke!Lookup(p)
           /\ Account!Inject!Forward(p) => Spoke!Forward(p)
  BY DEF Account!Inject!Membership, Account!Inject!Arrive, Account!Inject!Lookup, Account!Inject!LookupAnswered,
         Account!Inject!LookupDone, Account!Inject!LookupFails, Account!Inject!Forward, Account!Inject!NamespacesOf,
         Account!Inject!Usable, Account!Inject!Cached, Account!Inject!Ready, Account!Inject!Idle, Account!Inject!Never,
         Account!Inject!directory,
         Spoke!Membership, Spoke!Arrive, Spoke!Lookup, Spoke!LookupAnswered, Spoke!LookupDone, Spoke!LookupFails,
         Spoke!Forward, Spoke!NamespacesOf, Spoke!Usable, Spoke!Cached, Spoke!Ready, Spoke!Idle, Spoke!Never,
         Spoke!directory

LEMMA SameArrive ==
    ASSUME NEW r, NEW h
    PROVE  Account!Hub!Arrive(r, h) => Sessions!Arrive(r, h)
  BY DEF Account!Hub!Arrive, Account!Hub!Idle, Sessions!Arrive, Sessions!Idle

\* What a request writes and reads is no older than the spoke allows.
LEMMA RoleStep ==
    ASSUME Account!ConstantsAssumption, AccountInv, NEW r \in Requests, NEW task,
           HubMoves(req[r], task), req' = [req EXCEPT ![r] = task], UNCHANGED <<clock, members, changed>>,
           task.step # "idle" => task.headers = req[r].headers /\ task.since = req[r].since /\ req[r].step # "idle"
    PROVE  /\ \A s \in Requests : RoleOK(req[s])'
           /\ user' # NoRow /\ (user = NoRow \/ user.sec # user'.sec) => RoleKnown(user'.sec, clock - (LongestTtl + RequestTime))
<1>0. /\ clock \in Nat /\ LongestTtl \in Nat /\ RequestTime \in Nat /\ SecTeamGroup \in Groups /\ DirectoryOK
      /\ req = [s \in Requests |-> req[s]] /\ \A s \in Requests : RoleOK(req[s]) /\ HubTaskOK(req[s])
      /\ NoRow \notin Sessions!Row /\ HubInv
  BY AccountConstants DEF AccountInv, DirectoryOK, HubInv
<1>1. user' # user => user'.sec = req[r].headers.sec \/ (user # NoRow /\ user'.sec = user.sec)
  BY <1>0, RowWritten
<1>2. ASSUME user' # user, user'.sec = req[r].headers.sec
      PROVE  /\ RoleKnown(user'.sec, clock - (LongestTtl + RequestTime))
             /\ \A s \in Requests : req[s].step # "idle" => RoleKnown(user'.sec, req[s].since - (LongestTtl + RequestTime))
  <2>1. req[r].step # "idle"
    BY <1>2 DEF HubMoves
  <2>2. /\ req[r].since \in Nat /\ clock - req[r].since <= RequestTime
        /\ RoleKnown(user'.sec, req[r].since - LongestTtl)
    BY <1>0, <1>2, <2>1 DEF RoleOK
  <2>3. RoleKnown(user'.sec, clock - (LongestTtl + RequestTime))
    BY <1>0, <2>2, RoleKnownSince
  <2>4. ASSUME NEW s \in Requests, req[s].step # "idle"
        PROVE  RoleKnown(user'.sec, req[s].since - (LongestTtl + RequestTime))
    <3>1. req[s].since \in Nat /\ req[s].since <= clock
      BY <1>0, <2>4 DEF RoleOK
    <3> QED
      BY <1>0, <2>3, <3>1, RoleKnownSince
  <2> QED
    BY <2>3, <2>4
<1>3. ASSUME NEW s \in Requests \ {r}
      PROVE  RoleOK(req[s])'
  <2>1. req'[s] = req[s]
    BY <1>0
  <2>2. CASE user' = user \/ (user # NoRow /\ user'.sec = user.sec)
    BY <1>0, <2>1, <2>2 DEF RoleOK, RoleKnown
  <2>3. CASE user' # user /\ user'.sec = req[r].headers.sec
    <3>1. req[s].step # "idle" => RoleKnown(user'.sec, req[s].since - (LongestTtl + RequestTime))
      BY <1>2, <2>3
    <3> QED
      BY <1>0, <2>1, <3>1 DEF RoleOK, RoleKnown
  <2> QED
    BY <1>1, <2>2, <2>3
<1>4. RoleOK(req[r])'
  <2>1. req'[r] = task
    BY <1>0
  <2> SUFFICES ASSUME task.step # "idle"
               PROVE  RoleOK(task)'
    BY <2>1 DEF RoleOK
  <2>2. /\ task.since \in Nat /\ task.since <= clock /\ clock - task.since <= RequestTime
        /\ RoleKnown(task.headers.sec, task.since - LongestTtl)
        /\ task.headers = req[r].headers /\ task.since = req[r].since /\ req[r].step # "idle"
    BY <1>0 DEF RoleOK
  <2> DEFINE at == task.since - (LongestTtl + RequestTime)
  <2>3. RoleKnown(req[r].headers.sec, at)
    <3>1. /\ task.since - LongestTtl \in Int /\ at \in Int /\ at <= task.since - LongestTtl
      BY <1>0, <2>2
    <3> QED
      BY <1>0, <2>2, <3>1, RoleKnownSince
  <2>4. user' # user => RoleKnown(user'.sec, at) \/ (user # NoRow /\ user'.sec = user.sec)
    BY <1>1, <2>3
  <2>5. /\ task.step \in {"created", "synced"} => RoleKnown(user'.sec, at)
        /\ task.step = "loaded" => task.row.sec = user'.sec \/ RoleKnown(user'.sec, at)
        /\ task.step \in {"known", "snapshot"} => RoleKnown(task.row.sec, at)
    <3>1. CASE task.step = "create"
      BY <3>1
    <3>2. CASE task.step = "loaded" /\ task.row = user /\ user' = user
      BY <3>2
    <3>3. CASE task.step = "created" /\ user' = [sec |-> req[r].headers.sec, email |-> req[r].headers.email]
      BY <2>3, <3>3
    <3>4. CASE /\ req[r].step = "loaded" /\ task.row = req[r].row
               /\ LET wanted == Sessions!Adopted(req[r].row, req[r].headers)
                  IN /\ user' = [f \in {"sec", "email"} |-> IF wanted[f] # req[r].row[f] THEN wanted[f] ELSE user[f]]
                     /\ task.step = (IF wanted = req[r].row THEN "known" ELSE "synced")
      <4> DEFINE wanted == Sessions!Adopted(req[r].row, req[r].headers)
      <4>1. wanted.sec = req[r].headers.sec
        BY DEF Sessions!Adopted
      <4>2. user'.sec = IF wanted.sec # req[r].row.sec THEN wanted.sec ELSE user.sec
        BY <3>4
      <4>3. req[r].row.sec = user.sec \/ RoleKnown(user.sec, at)
        BY <1>0, <2>2, <3>4 DEF RoleOK
      <4>4. RoleKnown(user'.sec, at)
        <5> HIDE DEF at, wanted
        <5> QED
          BY <2>3, <4>1, <4>2, <4>3
      <4>5. task.step = "known" => RoleKnown(task.row.sec, at)
        <5>1. task.step = "known" => task.row = wanted
          BY <3>4
        <5> HIDE DEF at, wanted
        <5> QED
          BY <2>3, <4>1, <5>1
      <4>6. task.step \in {"known", "synced"}
        BY <3>4
      <4> HIDE DEF at, wanted
      <4> QED
        BY <4>4, <4>5, <4>6
    <3>5. CASE req[r].step = "synced" /\ task.step = "known" /\ task.row = user /\ user' = user
      BY <1>0, <2>2, <3>5 DEF RoleOK
    <3>6. CASE req[r].step = "known" /\ task.step = "snapshot" /\ task.row = req[r].row /\ user' = user
      BY <1>0, <2>2, <3>6 DEF RoleOK
    <3> QED
      BY <3>1, <3>2, <3>3, <3>4, <3>5, <3>6 DEF HubMoves
  <2> QED
    BY <1>0, <2>2, <2>5 DEF RoleOK, RoleKnown
<1>5. user' # NoRow /\ (user = NoRow \/ user.sec # user'.sec) => RoleKnown(user'.sec, clock - (LongestTtl + RequestTime))
  BY <1>1, <1>2
<1> QED
  BY <1>3, <1>4, <1>5

LEMMA AccountInit ==
    ASSUME Account!ConstantsAssumption, Account!Init
    PROVE  AccountInv
<1>1. /\ spoke = [p \in Lookups |-> Account!Inject!Idle] /\ \A p \in Lookups : spoke[p].step = "idle"
      /\ clock = 0 /\ members \subseteq Groups /\ changed = [g \in Groups |-> -1]
      /\ token.fetched_at = -1 /\ token.groups = {} /\ token.email = FALSE
      /\ user = NoRow /\ req = [r \in Requests |-> Account!Hub!Idle] /\ \A r \in Requests : req[r].step = "idle"
  BY DEF Account!Init, Account!Inject!Init, Account!Hub!Init, Account!Inject!Idle, Account!Hub!Idle,
         Account!Inject!Never, Account!Inject!NoEntry
<1>2. -1 \in Int
  OBVIOUS
<1> QED
  BY <1>1, <1>2 DEF AccountInv, DirectoryOK, TokenOK, LookupOK, HubInv, HubTaskOK, RoleOK

\* A task of the hub while the spoke, its directory or the clock moves.
LEMMA RoleOKNext ==
    ASSUME Account!ConstantsAssumption, DirectoryOK, NEW r \in Requests, RoleOK(req[r]), req'[r] = req[r], user' = user,
           UNCHANGED <<members, changed>> \/ \E g \in Groups : Spoke!Membership(g),
           clock' = clock \/ (clock' = clock + 1 /\ (req[r].step # "idle" => clock - req[r].since < RequestTime))
    PROVE  RoleOK(req[r])'
<1> SUFFICES ASSUME req[r].step # "idle"
             PROVE  RoleOK(req[r])'
  BY DEF RoleOK
<1>0. /\ clock \in Nat /\ LongestTtl \in Nat /\ RequestTime \in Nat /\ SecTeamGroup \in Groups
      /\ req[r].since \in Nat /\ req[r].since <= clock /\ clock - req[r].since <= RequestTime
  BY AccountConstants DEF DirectoryOK, RoleOK
<1>1. ASSUME NEW sec, NEW at \in Int, at <= clock, RoleKnown(sec, at)
      PROVE  RoleKnown(sec, at)'
  BY <1>0, <1>1, RoleKnownNext
<1>2. /\ req[r].since - LongestTtl \in Int /\ req[r].since - LongestTtl <= clock
      /\ req[r].since - (LongestTtl + RequestTime) \in Int /\ req[r].since - (LongestTtl + RequestTime) <= clock
  BY <1>0
<1>3. ASSUME NEW task, task = req[r], NEW sec, sec = user.sec
      PROVE  /\ RoleKnown(task.headers.sec, task.since - LongestTtl)'
             /\ task.step \in {"created", "synced"} => RoleKnown(sec, task.since - (LongestTtl + RequestTime))'
             /\ task.step = "loaded" => task.row.sec = sec \/ RoleKnown(sec, task.since - (LongestTtl + RequestTime))'
             /\ task.step \in {"known", "snapshot"} => RoleKnown(task.row.sec, task.since - (LongestTtl + RequestTime))'
  BY <1>1, <1>2, <1>3 DEF RoleOK
<1> QED
  BY <1>0, <1>3 DEF RoleOK, RoleKnown

LEMMA AccountPreserved ==
    ASSUME Account!ConstantsAssumption, AccountInv, Account!Next \/ UNCHANGED <<clock, proxyVars, hubVars>>
    PROVE  AccountInv' /\ Account!RoleFollows /\ Sessions!AddressKept
<1>0. /\ clock \in Nat /\ {GroupTtl, UnresolvedTtl} \subseteq Nat /\ LongestTtl \in Nat /\ RequestTime \in Nat
      /\ SecTeamGroup \in Groups /\ NoRow \notin Sessions!Row
      /\ DirectoryOK /\ TokenOK(0) /\ HubInv
      /\ spoke = [p \in Lookups |-> spoke[p]] /\ \A p \in Lookups : LookupOK(spoke[p], 0)
      /\ \A r \in Requests : RoleOK(req[r])
  BY AccountConstants DEF AccountInv, DirectoryOK
\* A step that leaves the row of the user alone does not change the role.
<1>1. ASSUME user' = user
      PROVE  Account!RoleFollows
  BY <1>1 DEF Account!RoleFollows
<1>2. CASE UNCHANGED <<clock, proxyVars, hubVars>>
  <2>1. AccountInv'
    BY <1>2 DEF proxyVars, hubVars, AccountInv, DirectoryOK, TokenOK, LookupOK, GroupsKnown, HubInv, HubTaskOK, RoleOK, RoleKnown
  <2> QED
    BY <1>1, <1>2, <2>1 DEF hubVars, Sessions!AddressKept
\* The steps of time, of the directory and of lookups.
<1>3. ASSUME \/ Account!Tick
             \/ \E g \in Groups : Account!Inject!Membership(g) /\ UNCHANGED <<user, snapshot, req>>
      PROVE  AccountInv' /\ UNCHANGED <<user, req>>
  <2>1. /\ UNCHANGED <<members, changed>> \/ \E g \in Groups : Spoke!Membership(g)
        /\ UNCHANGED <<token, spoke, user, req>>
    BY <1>3, SameSpoke DEF Account!Tick, Account!hub, Account!Inject!Tick, Account!Inject!directory, Account!Inject!Membership
  <2>2. \/ clock' = clock
        \/ /\ clock' = clock + 1
           /\ \A p \in Lookups : /\ spoke[p].step # "ready"
                                 /\ spoke[p].step \in {"lookup", "answered"} => clock - spoke[p].since < 0
           /\ \A r \in Requests : req[r].step # "idle" => clock - req[r].since < RequestTime
    BY <1>3 DEF Account!Tick, Account!Inject!Tick, Account!Hub!InTime, Account!Inject!Membership
  <2>3. DirectoryOK'
    <3>1. clock' \in Nat
      BY <1>0, <2>2
    <3>2. members' \subseteq Groups /\ changed' \in [Groups -> Int]
      BY <1>0, <2>1 DEF Spoke!Membership, DirectoryOK
    <3> QED
      BY <3>1, <3>2 DEF DirectoryOK
  <2>4. TokenOK(0)'
    BY <1>0, <2>1, <2>2, TokenNext
  <2>5. ASSUME NEW p \in Lookups, NEW task, task = spoke[p]
        PROVE  LookupOK(task, 0)'
    BY <1>0, <2>1, <2>2, <2>5, LookupNext
  <2>6. \A p \in Lookups : LookupOK(spoke[p], 0)'
    BY <2>1, <2>5 DEF LookupOK, GroupsKnown
  <2>7. HubInv'
    BY <1>0, <2>1, HubPreserved
  <2>8. \A r \in Requests : RoleOK(req[r])'
    BY <1>0, <2>1, <2>2, RoleOKNext
  <2> QED
    BY <1>0, <2>1, <2>3, <2>4, <2>6, <2>7, <2>8 DEF AccountInv
\* The steps of a request in the spoke: it may leave for the hub.
<1>4. ASSUME NEW p \in Lookups, Spoke!Arrive(p) \/ Spoke!Lookup(p) \/ Spoke!Forward(p)
      PROVE  /\ UNCHANGED <<clock, members, changed>> /\ DirectoryOK' /\ TokenOK(0)'
             /\ spoke' = [q \in Lookups |-> spoke'[q]] /\ \A q \in Lookups : LookupOK(spoke[q], 0)'
  <2>1. /\ UNCHANGED <<clock, annotated, revoked, members, changed, cache, list>>
        /\ spoke' = [q \in Lookups |-> spoke'[q]] /\ \A q \in Lookups \ {p} : spoke'[q] = spoke[q]
        /\ LookupOK(spoke'[p], 0) /\ TokenOK(0)'
    BY <1>0, <1>4, LookupStep
  <2>2. \A q \in Lookups : LookupOK(spoke'[q], 0)
    BY <1>0, <2>1
  <2> QED
    BY <1>0, <2>1, <2>2 DEF DirectoryOK, LookupOK, GroupsKnown
<1>5. ASSUME NEW p \in Lookups, Account!Inject!Arrive(p) \/ Account!Inject!Lookup(p), UNCHANGED <<user, snapshot, req>>
      PROVE  AccountInv'
  <2>1. Spoke!Arrive(p) \/ Spoke!Lookup(p)
    BY <1>5, SameSpoke
  <2>2. HubInv' /\ \A r \in Requests : RoleOK(req[r])'
    BY <1>0, <1>4, <1>5, <2>1, HubPreserved DEF RoleOK, RoleKnown
  <2> QED
    BY <1>0, <1>4, <2>1, <2>2 DEF AccountInv
<1>6. ASSUME NEW p \in Lookups, NEW r \in Requests, Account!Forwarded(p, r)
      PROVE  AccountInv' /\ user' = user
  <2> DEFINE h == Account!Believed(Account!Inject!Headers(p))
             task == [step |-> "arrived", since |-> clock, headers |-> h, row |-> NoRow, saw |-> NoRow]
  <2>1. Spoke!Forward(p) /\ spoke[p].step = "ready"
    BY <1>6, SameSpoke DEF Account!Forwarded, Account!Inject!Forward
  <2>2. /\ h.sec = (SecTeamGroup \in spoke[p].groups) /\ h.email = spoke[p].email
    BY DEF Account!Believed, Account!Inject!Headers
  <2>3. spoke[p].email \in BOOLEAN /\ GroupsKnown(spoke[p].groups, clock - LongestTtl)
    BY <1>0, <2>1 DEF LookupOK
  <2>4. RoleKnown(h.sec, clock - LongestTtl)
    BY <1>0, <2>2, <2>3 DEF GroupsKnown, RoleKnown
  <2>5. h.sec \in BOOLEAN /\ h.email \in BOOLEAN
    BY <2>2, <2>3
  <2>6. Sessions!Arrive(r, h)
    BY <1>6, SameArrive DEF Account!Forwarded
  <2> HIDE DEF h
  <2>7. HubInv' /\ user' = user /\ req' = [req EXCEPT ![r] = task]
    BY <1>0, <2>5, <2>6, HubPreserved DEF Sessions!Arrive
  <2>8. RoleOK(task)
    BY <1>0, <2>4 DEF RoleOK
  <2> HIDE DEF task
  <2>9. \A s \in Requests : RoleOK(req'[s])
    BY <1>0, <2>7, <2>8 DEF HubInv
  <2>10. \A s \in Requests : RoleOK(req[s])'
    BY <1>4, <2>1, <2>7, <2>9 DEF RoleOK, RoleKnown
  <2> QED
    BY <1>4, <2>1, <2>7, <2>10 DEF AccountInv
<1>7. ASSUME NEW r \in Requests, Account!Hub!Serve(r), UNCHANGED Account!proxy
      PROVE  AccountInv' /\ Account!RoleFollows /\ Sessions!AddressKept
  <2>1. Sessions!Serve(r) /\ UNCHANGED <<clock, members, changed, token, spoke>>
    BY <1>7, SameServe DEF Account!Hub!Serve, Account!proxy
  <2>2. PICK task : /\ req' = [req EXCEPT ![r] = task] /\ HubMoves(req[r], task)
                    /\ task.step # "idle" => task.headers = req[r].headers /\ task.since = req[r].since /\ req[r].step # "idle"
    BY <1>0, <2>1, HubServes
  <2>3. /\ \A s \in Requests : RoleOK(req[s])'
        /\ user' # NoRow /\ (user = NoRow \/ user.sec # user'.sec) => RoleKnown(user'.sec, clock - (LongestTtl + RequestTime))
    BY <2>1, <2>2, RoleStep
  <2>4. HubInv' /\ Sessions!AddressKept
    BY <1>0, <2>1, HubPreserved
  <2>5. AccountInv'
    BY <1>0, <2>1, <2>3, <2>4 DEF AccountInv, DirectoryOK, TokenOK, LookupOK, GroupsKnown
  <2>6. ASSUME user' # NoRow, user = NoRow \/ user.sec # user'.sec
        PROVE  Account!Was(user'.sec, Account!RoleAge)
    <3>1. Account!RoleAge = LongestTtl + RequestTime
      BY <1>0 DEF Account!RoleAge, Account!Inject!GroupAge, LongestTtl
    <3>2. changed[SecTeamGroup] \in Int /\ user'.sec \in BOOLEAN
      BY <1>0, <2>4, <2>6 DEF DirectoryOK, HubInv, Sessions!Row
    <3>3. RoleKnown(user'.sec, clock - (LongestTtl + RequestTime))
      BY <2>3, <2>6
    <3> QED
      BY <1>0, <3>1, <3>2, <3>3 DEF RoleKnown, Account!Was, Account!Inject!WasMember, Account!Inject!WasNotMember
  <2> QED
    BY <2>4, <2>5, <2>6 DEF Account!RoleFollows
<1> QED
  BY <1>1, <1>2, <1>3, <1>5, <1>6, <1>7
     DEF Account!Next, Account!SpokeStep, Account!HubStep, Account!hub, Sessions!AddressKept

LEMMA AccountRevoked ==
    ASSUME Account!ConstantsAssumption, AccountInv
    PROVE  Account!RevokedInTime
<1> SUFFICES ASSUME NEW r \in Requests, req[r].step \in {"known", "snapshot"}
             PROVE  Account!Was(req[r].row.sec, 2 * RequestTime + Account!Inject!GroupAge)
  BY DEF Account!RevokedInTime
<1>1. /\ clock \in Nat /\ LongestTtl \in Nat /\ RequestTime \in Nat /\ changed[SecTeamGroup] \in Int
      /\ req[r].since \in Nat /\ clock - req[r].since <= RequestTime
      /\ RoleKnown(req[r].row.sec, req[r].since - (LongestTtl + RequestTime)) /\ req[r].row.sec \in BOOLEAN
  BY AccountConstants DEF AccountInv, DirectoryOK, RoleOK, HubInv, HubTaskOK, Sessions!Row
<1>2. Account!Inject!GroupAge = LongestTtl
  BY <1>1 DEF Account!Inject!GroupAge, LongestTtl
<1> QED
  BY <1>1, <1>2 DEF RoleKnown, Account!Was, Account!Inject!WasMember, Account!Inject!WasNotMember

-----------------------------------------------------------------------------
(***************************************************************************)
(* The views.  What each of them shows is stated of the rows in the scope, *)
(* by what hides a CVE there; the views agree as they state the same.      *)
(***************************************************************************)
\* Of a CVE a pair has one remediation.
OneRemediation ==
    \A r, s \in remediations : r.cve = s.cve /\ r.pair = s.pair => r = s

ViewsInv == Views!TypeOK /\ OneRemediation

\* What a lookup for a user needs to know of the user.
Looks(v) == v.all \in BOOLEAN /\ v.pairs \subseteq ViewPairs

RowsOf(v, n) == Views!RowsIn(Views!Scope(v, n))

\* A set of numbers that is not empty has a least one: of the intervals below its
\* elements, one contains no other.
LEMMA LeastExists ==
    ASSUME NEW S \in SUBSET Nat, S # {}
    PROVE  \E x \in S : \A y \in S : x <= y
<1>1. PICK top \in S : TRUE
  OBVIOUS
<1> DEFINE Below(x) == 0 .. (x - 1)
           T == {Below(x) : x \in {y \in S : y <= top}}
<1>2. IsFiniteSet(0 .. top)
  BY FS_Interval
<1>3. T \in SUBSET FiniteSubsetsOf(0 .. top)
  <2> SUFFICES ASSUME NEW x \in S, x <= top PROVE Below(x) \in FiniteSubsetsOf(0 .. top)
    OBVIOUS
  <2>1. x \in Nat /\ top \in Nat
    OBVIOUS
  <2>2. IsFiniteSet(Below(x))
    BY <2>1, FS_Interval
  <2>3. Below(x) \subseteq 0 .. top
    BY <2>1
  <2> HIDE DEF Below
  <2> QED
    BY <2>2, <2>3 DEF FiniteSubsetsOf
<1>4. Below(top) \in T
  BY <1>1
<1>5. \E X \in T : \A Y \in T : ~(<<Y, X>> \in StrictSubsetOrdering(0 .. top))
  <2> HIDE DEF T
  <2> QED
    BY <1>2, <1>3, <1>4, FS_StrictSubsetOrderingWellFounded, WFMin
<1>6. PICK x \in S : x <= top /\ \A Y \in T : ~(<<Y, Below(x)>> \in StrictSubsetOrdering(0 .. top))
  BY <1>5
<1>7. ASSUME NEW y \in S, y < x PROVE FALSE
  <2>1. Below(y) \in T /\ Below(x) \in T
    BY <1>6, <1>7
  <2>2. y \in Below(x) /\ y \notin Below(y) /\ Below(y) \subseteq Below(x)
    BY <1>7
  <2> HIDE DEF T, Below
  <2> QED
    BY <1>3, <1>6, <2>1, <2>2 DEF StrictSubsetOrdering, FiniteSubsetsOf
<1> QED
  BY <1>7

LEMMA LeastNumber ==
    ASSUME NEW S \in SUBSET Nat, S # {}
    PROVE  Views!Least(S) \in S /\ \A y \in S : Views!Least(S) <= y
  BY LeastExists DEF Views!Least

\* The rows of a scope are the rows of any deployment in it that runs.
LEMMA RowFacts ==
    ASSUME Views!ConstantsAssumption, Views!TypeOK, NEW where
    PROVE  /\ \A r \in Views!RowsIn(where) :
                 /\ r.d \in Views!Live /\ PairOf[r.d] \in where /\ PairOf[r.d] \in ViewPairs
                 /\ PairOf[r.d] \in Views!list_namespaces
                 /\ r.f.cve \in Cves /\ r.f.fixable \in BOOLEAN
                 /\ r.f.seen \in Nat /\ r.f.since \in Nat \cup {None}
           /\ \A other : \A r \in Views!RowsIn(where) : PairOf[r.d] \in other => r \in Views!RowsIn(other)
<1>1. ASSUME NEW r \in Views!RowsIn(where)
      PROVE  \E d \in Views!Live : \E f \in Views!FindingsOf(running[d]) :
                PairOf[d] \in where /\ r = [d |-> d, f |-> f]
  BY <1>1 DEF Views!RowsIn
<1>2. ASSUME NEW d \in Views!Live, NEW f \in Views!FindingsOf(running[d])
      PROVE  /\ PairOf[d] \in ViewPairs /\ PairOf[d] \in Views!list_namespaces
             /\ f.cve \in Cves /\ f.fixable \in BOOLEAN
             /\ f.seen \in Nat /\ f.since \in Nat \cup {None}
  <2>1. d \in Deployments /\ running[d] \in Images
    BY DEF Views!Live, Views!TypeOK
  <2>2. f \in V2Rows[running[d]] \cup LegacyRows[running[d]]
    BY DEF Views!FindingsOf
  <2> QED
    BY <2>1, <2>2 DEF Views!ConstantsAssumption, Views!list_namespaces
<1>3. ASSUME NEW other, NEW r \in Views!RowsIn(where), PairOf[r.d] \in other
      PROVE  r \in Views!RowsIn(other)
  <2>1. PICK d \in Views!Live : \E f \in Views!FindingsOf(running[d]) : r = [d |-> d, f |-> f]
    BY <1>1
  <2> QED
    BY <1>3, <2>1 DEF Views!RowsIn
<1> QED
  BY <1>1, <1>2, <1>3

\* A user who sees everything has the same rows whether or not the view names
\* the namespaces.
LEMMA SameRows ==
    ASSUME Views!ConstantsAssumption, Views!TypeOK, NEW v, NEW n, Looks(v)
    PROVE  /\ Views!RowsIn(Views!Where(Views!ScopeOrNone(v, n))) = RowsOf(v, n)
           /\ Views!Scope(v, n) # None /\ Views!Scope(v, n) \subseteq ViewPairs
           /\ Views!RowsIn(ViewPairs) = Views!RowsIn(Views!list_namespaces)
           /\ v.all /\ ~Views!has_scope(n) => Views!Scope(v, n) = Views!list_namespaces
<1>1. Views!RowsIn(ViewPairs) = Views!RowsIn(Views!list_namespaces)
  <2>1. \A r \in Views!RowsIn(ViewPairs) : r \in Views!RowsIn(Views!list_namespaces)
    BY RowFacts
  <2>2. \A r \in Views!RowsIn(Views!list_namespaces) : r \in Views!RowsIn(ViewPairs)
    BY RowFacts
  <2> QED
    BY <2>1, <2>2
<1>2. Views!Scope(v, n) \subseteq ViewPairs
  BY DEF Views!Scope, Views!narrow_namespaces, Looks, Views!list_namespaces, Views!Live,
         Views!ConstantsAssumption
<1>3. Views!Scope(v, n) # None
  BY <1>2 DEF Views!ConstantsAssumption
<1>4. ASSUME v.all, ~Views!has_scope(n)
      PROVE  Views!Scope(v, n) = Views!list_namespaces
  BY <1>4 DEF Views!Scope, Views!has_scope, Views!narrow_namespaces
<1>5. Views!RowsIn(Views!Where(Views!ScopeOrNone(v, n))) = RowsOf(v, n)
  <2>1. CASE v.all /\ ~Views!has_scope(n)
    BY <1>1, <1>4, <2>1 DEF Views!Where, Views!ScopeOrNone, RowsOf
  <2>2. CASE ~(v.all /\ ~Views!has_scope(n))
    BY <1>3, <2>2 DEF Views!Where, Views!ScopeOrNone, RowsOf
  <2> QED
    BY <2>1, <2>2
<1> QED
  BY <1>1, <1>2, <1>3, <1>4, <1>5

-----------------------------------------------------------------------------
\* What hides a CVE of some rows: the rules for it, in the pairs it has there,
\* or those for a component it has there.
ByComponent(rs, c, s) ==
    \E r \in Views!RulesOf("component", s) :
        Views!matches_component_rule(r, Views!component_versions(Views!OfCve(rs, c)))
HiddenIn(rs, c, s) ==
    \/ Views!is_cve_suppressed_by_rules(c, s, Views!PairsOf(Views!OfCve(rs, c)))
    \/ ByComponent(rs, c, s)

LEMMA PairsOfRows ==
    ASSUME Views!ConstantsAssumption, Views!TypeOK, NEW where, NEW c
    PROVE  /\ Views!get_cve_namespace_cluster_map(c, where) = Views!PairsOf(Views!OfCve(Views!RowsIn(where), c))
           /\ Views!get_cve_namespace_cluster_map(c, where) \subseteq where \cap ViewPairs
  BY RowFacts DEF Views!get_cve_namespace_cluster_map, Views!PairsOf, Views!OfCve

\* Where no rule of a CVE names pairs it is enough to ask for which CVEs there
\* is a rule.
LEMMA RulesEverywhere ==
    ASSUME ~\E r \in rules : r.type = "cve" /\ r.where # All, NEW c, NEW s, NEW at
    PROVE  Views!is_cve_suppressed_by_rules(c, s, at) <=> c \in {r.of : r \in Views!RulesOf("cve", s)}
<1>1. \A r \in Views!RulesOf("cve", s) : r.where = All
  BY DEF Views!RulesOf
<1>2. UNION {r.where : r \in {x \in {y \in Views!RulesOf("cve", s) : y.of = c} : x.where # All}} = {}
  BY <1>1
<1> QED
  BY <1>1, <1>2 DEF Views!is_cve_suppressed_by_rules

\* Whatever namespaces a view passes, and whether or not it looks them up.
LEMMA SuppressionSets ==
    ASSUME Views!ConstantsAssumption, Views!TypeOK, NEW v, Looks(v), NEW ns, NEW cves, NEW s,
           (ns = None /\ v.all) \/ ns \in SUBSET ViewPairs
    PROVE  Views!compute_suppression_sets(v, cves, ns, s) =
               {c \in cves : HiddenIn(Views!RowsIn(Views!Where(ns)), c, s)}
<1> DEFINE map_ns == Views!NamespacesForLookup(v, ns)
           scoped == \E r \in rules : r.type = "cve" /\ r.where # All
           at(c) == Views!get_cve_namespace_cluster_map(c, Views!Where(map_ns)) \cap IF v.all THEN ViewPairs ELSE ns
           comps(c) == IF map_ns = None THEN {} ELSE Views!component_versions(Views!OfCve(Views!RowsIn(map_ns), c))
           own(c) == IF scoped THEN Views!is_cve_suppressed_by_rules(c, s, at(c))
                     ELSE c \in {r.of : r \in Views!RulesOf("cve", s)}
           has(c) == \E r \in Views!RulesOf("component", s) : Views!matches_component_rule(r, comps(c))
           rs == Views!RowsIn(Views!Where(ns))
<1>1. Views!compute_suppression_sets(v, cves, ns, s) = {c \in cves : own(c) \/ has(c)}
  BY DEF Views!compute_suppression_sets
<1>2. ns # None <=> ns \in SUBSET ViewPairs
  BY DEF Views!ConstantsAssumption
<1>3. Views!list_namespaces \in SUBSET ViewPairs /\ Views!list_namespaces # None
  BY DEF Views!list_namespaces, Views!Live, Views!ConstantsAssumption
<1>4. Views!RowsIn(Views!Where(map_ns)) = rs
  <2>1. CASE ns = None
    <3>1. map_ns = None \/ map_ns = Views!list_namespaces
      BY <2>1 DEF Views!NamespacesForLookup
    <3>2. Views!Where(map_ns) = ViewPairs \/ Views!Where(map_ns) = Views!list_namespaces
      BY <3>1, <1>3 DEF Views!Where
    <3>3. Views!Where(ns) = ViewPairs
      BY <2>1 DEF Views!Where
    <3> QED
      BY <3>2, <3>3, SameRows
  <2>2. CASE ns # None
    BY <2>2 DEF Views!NamespacesForLookup
  <2> QED
    BY <2>1, <2>2
<1>5. ASSUME NEW c
      PROVE  at(c) = Views!PairsOf(Views!OfCve(rs, c))
  <2>1. Views!get_cve_namespace_cluster_map(c, Views!Where(map_ns)) = Views!PairsOf(Views!OfCve(rs, c))
    BY <1>4, PairsOfRows
  <2>2. Views!get_cve_namespace_cluster_map(c, Views!Where(ns)) = Views!PairsOf(Views!OfCve(rs, c))
    BY PairsOfRows
  <2>3. Views!PairsOf(Views!OfCve(rs, c)) \subseteq Views!Where(ns) \cap ViewPairs
    BY <2>2, PairsOfRows
  <2>4. ~v.all => Views!Where(ns) = ns
    BY <1>2 DEF Views!Where
  <2> QED
    BY <2>1, <2>3, <2>4
<1>6. ASSUME NEW c
      PROVE  own(c) <=> Views!is_cve_suppressed_by_rules(c, s, Views!PairsOf(Views!OfCve(rs, c)))
  <2> HIDE DEF at, rs
  <2>1. CASE scoped
    BY <1>5, <2>1
  <2>2. CASE ~scoped
    BY <2>2, RulesEverywhere
  <2> QED
    BY <2>1, <2>2
<1>7. ASSUME NEW c
      PROVE  has(c) <=> ByComponent(rs, c, s)
  <2>1. CASE map_ns = None
    <3>1. ~Views!LookupNeeded
      BY <1>2, <1>3, <2>1 DEF Views!NamespacesForLookup
    <3>2. Views!RulesOf("component", s) = {}
      BY <3>1 DEF Views!LookupNeeded, Views!RulesOf
    <3> QED
      BY <3>2 DEF ByComponent
  <2>2. CASE map_ns # None
    <3>1. Views!Where(map_ns) = map_ns
      BY <2>2 DEF Views!Where
    <3>2. comps(c) = Views!component_versions(Views!OfCve(rs, c))
      BY <1>4, <2>2, <3>1
    <3> HIDE DEF comps, rs, map_ns
    <3> QED
      BY <3>2 DEF ByComponent
  <2> QED
    BY <2>1, <2>2
<1>8. \A c : own(c) \/ has(c) <=> HiddenIn(rs, c, s)
  BY <1>6, <1>7 DEF HiddenIn
<1> HIDE DEF own, has
<1> QED
  BY <1>1, <1>8

-----------------------------------------------------------------------------
\* The status of a CVE is one of the rows of the scope.
LEMMA SameStatus ==
    ASSUME NEW a, NEW b, NEW c, Views!RowsIn(a) = Views!RowsIn(b)
    PROVE  Views!compute_remediation_status(c, a) = Views!compute_remediation_status(c, b)
<1>1. Views!get_cve_namespace_cluster_map(c, a) = Views!get_cve_namespace_cluster_map(c, b)
  BY DEF Views!get_cve_namespace_cluster_map
<1> QED
  BY <1>1 DEF Views!compute_remediation_status

Always(v, opted_out, c) ==
    Views!PassesFloor(c, Views!resolve_view_thresholds(v, opted_out), Views!always_show)

\* What the list shows, of the rows in the scope.
ListOf(v, n, q) ==
    {c \in Views!CvesOf(RowsOf(v, n)) :
        /\ Always(v, q.opted_out, c)
        /\ q.suppressed \/ ~HiddenIn(RowsOf(v, n), c, "approved")
        /\ IF q.status # None THEN Views!compute_remediation_status(c, Views!Scope(v, n)) = q.status
           ELSE q.remediated \/ Views!compute_remediation_status(c, Views!Scope(v, n)) # "remediated"
        /\ Views!Passes(v, c, Views!OfCve(RowsOf(v, n), c), q)}

LEMMA ListShows ==
    ASSUME Views!ConstantsAssumption, Views!TypeOK, NEW v, Looks(v), NEW n, NEW q, q.deployment = None
    PROVE  Views!fetch_filtered_cves(v, n, q) = ListOf(v, n, q)
<1> DEFINE where == Views!Scope(v, n)
           cves == Views!get_cves(where, Views!resolve_view_thresholds(v, q.opted_out), Views!always_show)
           unshown == Views!compute_suppression_sets(v, cves, where, "approved")
           shows(c) == IF q.status # None THEN Views!compute_remediation_status(c, where) = q.status
                       ELSE q.remediated \/ Views!compute_remediation_status(c, where) # "remediated"
           passed(c) == Views!Passes(v, c, Views!OfCve(Views!RowsIn(where), c), q)
<1>1. Views!fetch_filtered_cves(v, n, q) =
          {c \in cves : (q.suppressed \/ c \notin unshown) /\ shows(c) /\ passed(c)}
  BY DEF Views!fetch_filtered_cves, Views!Shown
<1>2. where # None /\ where \in SUBSET ViewPairs
  BY SameRows
<1>3. Views!Where(where) = where
  BY <1>2 DEF Views!Where
<1>4. unshown = {c \in cves : HiddenIn(Views!RowsIn(where), c, "approved")}
  <2> HIDE DEF where, cves
  <2> QED
    BY <1>2, <1>3, SuppressionSets
<1>5. cves = {c \in Views!CvesOf(Views!RowsIn(where)) : Always(v, q.opted_out, c)}
  BY DEF Views!get_cves, Always
<1>6. ListOf(v, n, q) =
          {c \in Views!CvesOf(Views!RowsIn(where)) :
              /\ Always(v, q.opted_out, c)
              /\ q.suppressed \/ ~HiddenIn(Views!RowsIn(where), c, "approved")
              /\ shows(c) /\ passed(c)}
  BY DEF ListOf, RowsOf
<1> HIDE DEF where, cves, unshown, shows, passed
<1> QED
  BY <1>1, <1>4, <1>5, <1>6

\* What the cards and panels count is what the list shows with what was remediated.
LEMMA DashboardShows ==
    ASSUME Views!ConstantsAssumption, Views!TypeOK, NEW v, Looks(v), NEW n
    PROVE  /\ Views!FoundFor(v, n) = {c \in Views!CvesOf(RowsOf(v, n)) : Always(v, FALSE, c)}
           /\ Views!ExcludedFor(v, n) = {c \in Views!FoundFor(v, n) : HiddenIn(RowsOf(v, n), c, "approved")}
           /\ Views!FoundFor(v, n) \ Views!ExcludedFor(v, n) =
                  {c \in Views!CvesOf(RowsOf(v, n)) : Always(v, FALSE, c) /\ ~HiddenIn(RowsOf(v, n), c, "approved")}
<1>1. Views!RowsIn(Views!Where(Views!ScopeOrNone(v, n))) = RowsOf(v, n)
  BY SameRows
<1>2. Views!FoundFor(v, n) = {c \in Views!CvesOf(RowsOf(v, n)) : Always(v, FALSE, c)}
  BY <1>1 DEF Views!FoundFor, Views!get_cves, Always
<1>3. (Views!ScopeOrNone(v, n) = None /\ v.all) \/ Views!ScopeOrNone(v, n) \in SUBSET ViewPairs
  BY SameRows DEF Views!ScopeOrNone
<1>4. Views!ExcludedFor(v, n) = {c \in Views!FoundFor(v, n) : HiddenIn(RowsOf(v, n), c, "approved")}
  BY <1>1, <1>3, SuppressionSets DEF Views!ExcludedFor
<1> QED
  BY <1>2, <1>4

\* What the filters let pass that a card or a digest stands for.
LEMMA Filters ==
    ASSUME NEW v, NEW c, NEW rs, NEW q
    PROVE  /\ q.filters = {} => Views!Passes(v, c, rs, q)
           /\ q.filters = {"critical", "fixable"} =>
                  (Views!Passes(v, c, rs, q) <=> Severity[c] = 4 /\ Views!fixable(rs))
           /\ q.filters = {"overdue"} => (Views!Passes(v, c, rs, q) <=> Views!is_fix_overdue(rs))
           /\ q.filters = {"prioritized"} => (Views!Passes(v, c, rs, q) <=> c \in priorities)
  BY DEF Views!Passes

LEMMA EverythingOf ==
    ASSUME NEW fs
    PROVE  LET q == [Views!Everything EXCEPT !.filters = fs]
           IN  /\ q.suppressed = FALSE /\ q.remediated = TRUE /\ q.opted_out = FALSE
               /\ q.status = None /\ q.deployment = None /\ q.filters = fs
  BY DEF Views!Everything, Views!Query

\* CVEs grouped by the i-th component of the pairs they occur in.
GroupedBy(i, rs, shown) ==
    [k \in {x[i] : x \in Views!PairsOf(rs)} |-> {r.f.cve : r \in {x \in rs : PairOf[x.d][i] = k}} \cap shown]

LEMMA GroupsCount ==
    ASSUME NEW rs, NEW shown, shown \subseteq Views!CvesOf(rs), NEW i
    PROVE  Views!Counted(GroupedBy(i, rs, shown)) = shown
<1> DEFINE in(k) == {r.f.cve : r \in {x \in rs : PairOf[x.d][i] = k}} \cap shown
           names == {x[i] : x \in Views!PairsOf(rs)}
<1>1. \A c \in shown : \E r \in rs : r.f.cve = c
  BY DEF Views!CvesOf
<1>2. \A c \in shown : \E k \in names : c \in in(k)
  BY <1>1 DEF Views!PairsOf
<1>3. \A k : in(k) \subseteq shown
  OBVIOUS
<1> HIDE DEF in, names
<1>4. Views!Counted([k \in names |-> in(k)]) = UNION {in(k) : k \in names}
  BY DEF Views!Counted
<1>5. Views!Counted([k \in names |-> in(k)]) = shown
  BY <1>2, <1>3, <1>4
<1> QED
  BY <1>5 DEF GroupedBy, in, names

LEMMA CardsDo ==
    ASSUME Views!ConstantsAssumption, Views!TypeOK, NEW v, Looks(v), NEW n
    PROVE  Views!CardsAgree(v, n)
<1> DEFINE d == Views!cards(v, n)
           p == Views!panels(v, n)
           with(filters) == Views!fetch_filtered_cves(v, n, [Views!Everything EXCEPT !.filters = filters])
           where == Views!Where(Views!ScopeOrNone(v, n))
           rs == RowsOf(v, n)
           shown == {c \in Views!CvesOf(rs) : Always(v, FALSE, c) /\ ~HiddenIn(rs, c, "approved")}
<1>1. Views!RowsIn(where) = rs
  BY SameRows
<1>2. Views!FoundFor(v, n) \ Views!ExcludedFor(v, n) = shown
  BY DashboardShows
<1>3. d.cves = shown
  BY <1>2 DEF Views!cards
<1>4. d.fixable_critical = {c \in shown : Severity[c] = 4 /\ Views!fixable(Views!OfCve(rs, c))}
  BY <1>1, <1>2 DEF Views!cards
<1>5. d.fix_overdue = {c \in shown : Views!is_fix_overdue(Views!OfCve(rs, c))}
  BY <1>1, <1>2 DEF Views!cards
<1>6. d.in_remediation = {c \in shown : Views!compute_remediation_status(c, Views!Scope(v, n)) = "in_progress"}
  <2>1. d.in_remediation = {c \in shown : Views!compute_remediation_status(c, where) = "in_progress"}
    BY <1>2 DEF Views!cards
  <2>2. \A c : Views!compute_remediation_status(c, where) = Views!compute_remediation_status(c, Views!Scope(v, n))
    BY <1>1, SameStatus DEF RowsOf
  <2> HIDE DEF where, shown, d
  <2> QED
    BY <2>1, <2>2
<1>7. ASSUME NEW fs
      PROVE  with(fs) = {c \in shown : Views!Passes(v, c, Views!OfCve(rs, c), [Views!Everything EXCEPT !.filters = fs])}
  <2> DEFINE q == [Views!Everything EXCEPT !.filters = fs]
  <2>1. q.suppressed = FALSE /\ q.remediated = TRUE /\ q.opted_out = FALSE /\ q.status = None /\ q.deployment = None
    BY EverythingOf
  <2> HIDE DEF q
  <2>2. Views!fetch_filtered_cves(v, n, q) = ListOf(v, n, q)
    BY <2>1, ListShows
  <2>3. ListOf(v, n, q) = {c \in shown : Views!Passes(v, c, Views!OfCve(rs, c), q)}
    BY <2>1 DEF ListOf
  <2> QED
    BY <2>2, <2>3 DEF q
<1>8. /\ with({}) = shown
      /\ with({"critical", "fixable"}) = {c \in shown : Severity[c] = 4 /\ Views!fixable(Views!OfCve(rs, c))}
      /\ with({"overdue"}) = {c \in shown : Views!is_fix_overdue(Views!OfCve(rs, c))}
  <2> HIDE DEF with, shown, rs
  <2>1. \A fs : [Views!Everything EXCEPT !.filters = fs].filters = fs
    BY EverythingOf
  <2>2. with({}) = shown
    BY <1>7, <2>1, Filters
  <2>3. with({"critical", "fixable"}) = {c \in shown : Severity[c] = 4 /\ Views!fixable(Views!OfCve(rs, c))}
    <3> DEFINE q == [Views!Everything EXCEPT !.filters = {"critical", "fixable"}]
    <3>1. q.filters = {"critical", "fixable"}
      BY <2>1
    <3>2. with({"critical", "fixable"}) = {c \in shown : Views!Passes(v, c, Views!OfCve(rs, c), q)}
      BY <1>7
    <3> HIDE DEF q
    <3>3. \A c : Views!Passes(v, c, Views!OfCve(rs, c), q) <=> Severity[c] = 4 /\ Views!fixable(Views!OfCve(rs, c))
      BY <3>1, Filters
    <3> QED
      BY <3>2, <3>3
  <2>4. with({"overdue"}) = {c \in shown : Views!is_fix_overdue(Views!OfCve(rs, c))}
    <3> DEFINE q == [Views!Everything EXCEPT !.filters = {"overdue"}]
    <3>1. q.filters = {"overdue"}
      BY <2>1
    <3>2. with({"overdue"}) = {c \in shown : Views!Passes(v, c, Views!OfCve(rs, c), q)}
      BY <1>7
    <3> HIDE DEF q
    <3>3. \A c : Views!Passes(v, c, Views!OfCve(rs, c), q) <=> Views!is_fix_overdue(Views!OfCve(rs, c))
      BY <3>1, Filters
    <3> QED
      BY <3>2, <3>3
  <2> QED
    BY <2>2, <2>3, <2>4
<1>9. Views!fetch_filtered_cves(v, n, [Views!Query EXCEPT !.status = "in_progress"]) =
          {c \in shown : Views!compute_remediation_status(c, Views!Scope(v, n)) = "in_progress"}
  <2> DEFINE q == [Views!Query EXCEPT !.status = "in_progress"]
  <2>1. q.suppressed = FALSE /\ q.opted_out = FALSE /\ q.status = "in_progress" /\ q.deployment = None /\ q.filters = {}
    BY DEF Views!Query
  <2>2. q.status # None
    BY <2>1 DEF Views!ConstantsAssumption
  <2> HIDE DEF q
  <2>3. Views!fetch_filtered_cves(v, n, q) = ListOf(v, n, q)
    BY <2>1, ListShows
  <2>4. \A c : Views!Passes(v, c, Views!OfCve(rs, c), q)
    BY <2>1, Filters
  <2>5. ListOf(v, n, q) = {c \in shown : Views!compute_remediation_status(c, Views!Scope(v, n)) = "in_progress"}
    BY <2>1, <2>2, <2>4 DEF ListOf
  <2> QED
    BY <2>3, <2>5 DEF q
<1>10. Views!visible_cves(where, Views!resolve_view_thresholds(v, FALSE), Views!always_show, Views!ExcludedFor(v, n)) = shown
  BY <1>2 DEF Views!visible_cves, Views!FoundFor
<1>11. /\ p.severity = Views!get_severity_distribution(shown)
       /\ p.fixability = Views!get_fixability_breakdown(rs, shown)
       /\ p.per_namespace = Views!get_cves_per_namespace(rs, shown)
       /\ p.heatmap = Views!get_cluster_heatmap(rs, shown)
       /\ p.aging = Views!get_cve_aging(rs, shown, Now)
       /\ p.trend = Views!get_cve_trend(rs, shown, Now - 90)
  <2> HIDE DEF shown, rs
  <2> QED
    BY <1>1, <1>10 DEF Views!panels
<1>12. shown \subseteq Views!CvesOf(rs)
  OBVIOUS
<1> HIDE DEF d, p, with, shown, rs
<1>13. Views!Counted(p.severity) = shown
  BY <1>11 DEF Views!Counted, Views!get_severity_distribution
<1>14. Views!Counted(p.fixability) = shown
  <2> DEFINE fixed == {c \in shown : Views!fixable(Views!OfCve(rs, c))}
  <2>1. p.fixability = [fixable |-> fixed, unfixable |-> shown \ fixed]
    BY <1>11 DEF Views!get_fixability_breakdown
  <2>2. fixed \subseteq shown
    OBVIOUS
  <2> HIDE DEF fixed
  <2>3. p.fixability.fixable = fixed /\ p.fixability.unfixable = shown \ fixed /\ DOMAIN p.fixability = {"fixable", "unfixable"}
    BY <2>1
  <2> QED
    BY <2>2, <2>3 DEF Views!Counted
<1>15. Views!Counted(p.per_namespace) = shown
  <2>1. Views!get_cves_per_namespace(rs, shown) = GroupedBy(1, rs, shown)
    BY DEF Views!get_cves_per_namespace, GroupedBy
  <2> QED
    BY <1>11, <1>12, <2>1, GroupsCount
<1>16. Views!Counted(p.heatmap) = shown
  <2>1. Views!get_cluster_heatmap(rs, shown) = GroupedBy(2, rs, shown)
    BY DEF Views!get_cluster_heatmap, GroupedBy
  <2> QED
    BY <1>11, <1>12, <2>1, GroupsCount
<1>17. DOMAIN p.aging = shown /\ DOMAIN p.trend \subseteq shown
  BY <1>11 DEF Views!get_cve_aging, Views!get_cve_trend
<1> QED
  BY <1>3, <1>4, <1>5, <1>6, <1>8, <1>9, <1>13, <1>14, <1>15, <1>16, <1>17 DEF Views!CardsAgree, d, p, with

LEMMA OthersDo ==
    ASSUME Views!ConstantsAssumption, Views!TypeOK, NEW v, Looks(v), NEW n
    PROVE  Views!OthersAgree(v, n)
<1> DEFINE where == Views!Where(Views!ScopeOrNone(v, n))
           rs == RowsOf(v, n)
           thresholds == Views!resolve_view_thresholds(v, FALSE)
           found == {c \in Views!CvesOf(rs) : Always(v, FALSE, c)}
<1>1. Views!RowsIn(where) = rs
  BY SameRows
<1>2. Views!build_fix_rollup(v, n, Views!Query, None).cves \subseteq Views!fetch_filtered_cves(v, n, Views!Query)
  <2>1. Views!Query.deployment = None
    BY DEF Views!Query
  <2>2. Views!build_fix_rollup(v, n, Views!Query, None).cves =
            Views!CvesOf(Views!get_component_cve_rows(Views!fetch_filtered_cves(v, n, Views!Query), where, None, None))
    BY <2>1 DEF Views!build_fix_rollup
  <2> QED
    BY <2>2 DEF Views!CvesOf, Views!get_component_cve_rows
<1>3. Views!get_cves(where, thresholds, Views!always_show) = found
  BY <1>1 DEF Views!get_cves, Always
<1>4. Views!Counted(Views!list_cves_by_image(v, n)) = found
  <2> DEFINE of(j) == found \cap Views!CvesOf({r \in rs : running[r.d] = j})
             images == {j \in Views!ImagesOf(rs) : of(j) # {}}
  <2>1. \A j : Views!get_cves_for_image(j, where, thresholds, Views!always_show) = of(j)
    BY <1>1, <1>3 DEF Views!get_cves_for_image
  <2>2. Views!list_cves_by_image(v, n) = [j \in images |-> of(j)]
    <3>1. Views!list_cves_by_image(v, n) = Views!get_cves_grouped_by_image(where, thresholds, Views!always_show)
      BY DEF Views!list_cves_by_image, Views!ImageFloor
    <3>2. Views!get_cves_grouped_by_image(where, thresholds, Views!always_show) =
              [j \in {k \in Views!ImagesOf(Views!RowsIn(where)) :
                          Views!get_cves_for_image(k, where, thresholds, Views!always_show) # {}} |->
                  Views!get_cves_for_image(j, where, thresholds, Views!always_show)]
      BY DEF Views!get_cves_grouped_by_image
    <3> HIDE DEF where, thresholds, of
    <3>3. {k \in Views!ImagesOf(Views!RowsIn(where)) :
               Views!get_cves_for_image(k, where, thresholds, Views!always_show) # {}} = images
      BY <1>1, <2>1
    <3> HIDE DEF images
    <3> QED
      BY <2>1, <3>1, <3>2, <3>3
  <2>3. \A c \in found : \E j \in images : c \in of(j)
    BY DEF Views!ImagesOf, Views!CvesOf
  <2>4. \A j : of(j) \subseteq found
    OBVIOUS
  <2> HIDE DEF of, images, found
  <2>5. Views!Counted([j \in images |-> of(j)]) = UNION {of(j) : j \in images}
    BY DEF Views!Counted
  <2> QED
    BY <2>2, <2>3, <2>4, <2>5
<1>5. Views!fetch_filtered_cves(v, n, [Views!Everything EXCEPT !.suppressed = TRUE]) = found
  <2> DEFINE q == [Views!Everything EXCEPT !.suppressed = TRUE]
  <2>1. /\ q.suppressed = TRUE /\ q.remediated = TRUE /\ q.opted_out = FALSE
        /\ q.status = None /\ q.deployment = None /\ q.filters = {}
    BY DEF Views!Everything, Views!Query
  <2> HIDE DEF q
  <2>2. Views!fetch_filtered_cves(v, n, q) = ListOf(v, n, q)
    BY <2>1, ListShows
  <2>3. \A c : Views!Passes(v, c, Views!OfCve(rs, c), q)
    BY <2>1, Filters
  <2>4. ListOf(v, n, q) = found
    BY <2>1, <2>3 DEF ListOf
  <2> QED
    BY <2>2, <2>4 DEF q
<1> HIDE DEF found
<1> QED
  BY <1>2, <1>4, <1>5 DEF Views!OthersAgree

-----------------------------------------------------------------------------
\* A CVE is suppressed by rules of its own exactly if each of its rows is in a
\* location that one of them covers.
LEMMA CoveredEverywhere ==
    ASSUME NEW rs, NEW c, c \in Views!CvesOf(rs)
    PROVE  Views!is_cve_suppressed_by_rules(c, "approved", Views!PairsOf(Views!OfCve(rs, c)))
               <=> \A r \in Views!OfCve(rs, c) : Views!covered_by_rule(c, r.d)
<1> DEFINE at == Views!PairsOf(Views!OfCve(rs, c))
           mine == {x \in Views!RulesOf("cve", "approved") : x.of = c}
           scoped == UNION {x.where : x \in {y \in mine : y.where # All}}
<1>1. Views!is_cve_suppressed_by_rules(c, "approved", at) <=>
          (\E x \in mine : x.where = All) \/ (at # {} /\ at \subseteq scoped)
  BY DEF Views!is_cve_suppressed_by_rules
<1>2. \A d : Views!covered_by_rule(c, d) <=> (\E x \in mine : x.where = All) \/ PairOf[d] \in scoped
  <2> SUFFICES ASSUME NEW d
               PROVE  Views!covered_by_rule(c, d) <=> (\E x \in mine : x.where = All) \/ PairOf[d] \in scoped
    OBVIOUS
  <2>1. Views!covered_by_rule(c, d) <=> \E x \in mine : x.where = All \/ PairOf[d] \in x.where
    BY DEF Views!covered_by_rule
  <2>2. PairOf[d] \in scoped <=> \E x \in mine : x.where # All /\ PairOf[d] \in x.where
    OBVIOUS
  <2> HIDE DEF mine, scoped
  <2> QED
    BY <2>1, <2>2
<1>3. \E r \in rs : r \in Views!OfCve(rs, c)
  BY DEF Views!CvesOf, Views!OfCve
<1>4. at = {PairOf[r.d] : r \in Views!OfCve(rs, c)}
  BY DEF Views!PairsOf
<1> HIDE DEF at, mine, scoped
<1>5. at # {} /\ (at \subseteq scoped <=> \A r \in Views!OfCve(rs, c) : PairOf[r.d] \in scoped)
  BY <1>3, <1>4
<1> QED
  BY <1>1, <1>2, <1>5 DEF at

\* The remediations of a CVE in the pair of a deployment: what the page says.
StatusesAt(c, d) == {r.status : r \in {x \in remediations : x.cve = c /\ x.pair = PairOf[d]}}

\* A CVE counts as remediated exactly if in each of its rows it is.
LEMMA RemediatedEverywhere ==
    ASSUME Views!ConstantsAssumption, Views!TypeOK, OneRemediation, NEW where, NEW c,
           c \in Views!CvesOf(Views!RowsIn(where))
    PROVE  Views!compute_remediation_status(c, where) = "remediated"
               <=> \A r \in Views!OfCve(Views!RowsIn(where), c) : \E s \in StatusesAt(c, r.d) : s \in Views!Terminal
<1> DEFINE affected == Views!get_cve_namespace_cluster_map(c, where)
           mine == {r \in remediations : r.cve = c /\ r.pair \in affected}
           rs == Views!OfCve(Views!RowsIn(where), c)
<1>1. Views!compute_remediation_status(c, where) = "remediated" <=>
          (\A r \in mine : r.status \in Views!Terminal) /\ mine # {} /\ affected \subseteq {r.pair : r \in mine}
  <2>1. Views!compute_remediation_status(c, where) =
            IF \E r \in mine : r.status \notin Views!Terminal THEN "in_progress"
            ELSE IF mine # {} /\ affected \subseteq {r.pair : r \in mine} THEN "remediated"
            ELSE "unremediated"
    BY DEF Views!compute_remediation_status
  <2> HIDE DEF mine, affected
  <2> QED
    BY <2>1
<1>2. affected = {PairOf[r.d] : r \in rs}
  BY PairsOfRows DEF Views!PairsOf
<1>3. rs # {}
  BY DEF Views!CvesOf, Views!OfCve
<1>4. ASSUME NEW r \in rs, \A x \in mine : x.status \in Views!Terminal, affected \subseteq {x.pair : x \in mine}
      PROVE  \E s \in StatusesAt(c, r.d) : s \in Views!Terminal
  <2>1. PICK x \in mine : x.pair = PairOf[r.d]
    BY <1>2, <1>4
  <2> QED
    BY <1>4, <2>1 DEF StatusesAt
<1>5. ASSUME \A r \in rs : \E s \in StatusesAt(c, r.d) : s \in Views!Terminal
      PROVE  (\A x \in mine : x.status \in Views!Terminal) /\ mine # {} /\ affected \subseteq {x.pair : x \in mine}
  <2>1. ASSUME NEW r \in rs
        PROVE  \E x \in mine : x.pair = PairOf[r.d] /\ x.status \in Views!Terminal
    BY <1>2, <1>5, <2>1 DEF StatusesAt
  <2>2. ASSUME NEW x \in mine
        PROVE  x.status \in Views!Terminal
    <3>1. PICK r \in rs : x.pair = PairOf[r.d]
      BY <1>2, <2>2
    <3>2. PICK y \in mine : y.pair = PairOf[r.d] /\ y.status \in Views!Terminal
      BY <2>1
    <3>3. x = y
      BY <3>1, <3>2 DEF OneRemediation
    <3> QED
      BY <3>2, <3>3
  <2> HIDE DEF mine, affected, rs
  <2> QED
    BY <1>2, <1>3, <2>1, <2>2
<1> HIDE DEF mine, affected, rs
<1> QED
  BY <1>1, <1>3, <1>4, <1>5 DEF rs

\* A CVE is in the list exactly if it passes the floor, no component hides it and
\* some row of it is open and some row of it is not remediated.
Listed(v, n, c) ==
    /\ Always(v, FALSE, c)
    /\ ~ByComponent(RowsOf(v, n), c, "approved")
    /\ \E r \in Views!OfCve(RowsOf(v, n), c) : ~Views!covered_by_rule(c, r.d)
    /\ \E r \in Views!OfCve(RowsOf(v, n), c) : ~\E s \in StatusesAt(c, r.d) : s \in Views!Terminal

LEMMA ListedFor ==
    ASSUME Views!ConstantsAssumption, Views!TypeOK, OneRemediation, NEW v, Looks(v), NEW n, NEW c
    PROVE  c \in Views!fetch_filtered_cves(v, n, Views!Query) <=> Listed(v, n, c)
<1> DEFINE rs == RowsOf(v, n)
<1>1. /\ Views!Query.suppressed = FALSE /\ Views!Query.remediated = FALSE /\ Views!Query.opted_out = FALSE
      /\ Views!Query.status = None /\ Views!Query.deployment = None /\ Views!Query.filters = {}
  BY DEF Views!Query
<1>2. Views!fetch_filtered_cves(v, n, Views!Query) = ListOf(v, n, Views!Query)
  BY <1>1, ListShows
<1>3. Views!Passes(v, c, Views!OfCve(rs, c), Views!Query)
  BY <1>1, Filters
<1>4. c \in ListOf(v, n, Views!Query) <=>
          /\ c \in Views!CvesOf(rs) /\ Always(v, FALSE, c) /\ ~HiddenIn(rs, c, "approved")
          /\ Views!compute_remediation_status(c, Views!Scope(v, n)) # "remediated"
  BY <1>1, <1>3 DEF ListOf
<1>5. ASSUME c \in Views!CvesOf(rs)
      PROVE  /\ HiddenIn(rs, c, "approved") <=>
                    (\A r \in Views!OfCve(rs, c) : Views!covered_by_rule(c, r.d)) \/ ByComponent(rs, c, "approved")
             /\ Views!compute_remediation_status(c, Views!Scope(v, n)) = "remediated" <=>
                    \A r \in Views!OfCve(rs, c) : \E s \in StatusesAt(c, r.d) : s \in Views!Terminal
  <2>1. rs = Views!RowsIn(Views!Scope(v, n))
    BY DEF RowsOf
  <2> HIDE DEF rs
  <2> QED
    BY <1>5, <2>1, CoveredEverywhere, RemediatedEverywhere DEF HiddenIn
<1>6. (\E r \in Views!OfCve(rs, c) : ~Views!covered_by_rule(c, r.d)) => c \in Views!CvesOf(rs)
  BY DEF Views!OfCve, Views!CvesOf
<1> QED
  BY <1>2, <1>4, <1>5, <1>6 DEF Listed

LEMMA PageDoes ==
    ASSUME Views!ConstantsAssumption, Views!TypeOK, OneRemediation, NEW v, Looks(v), NEW n
    PROVE  Views!PageAgrees(v, n)
<1> DEFINE rs == RowsOf(v, n)
           listed == Views!fetch_filtered_cves(v, n, Views!Query)
           page(c) == Views!affected_deployments_list(v, c, n)
           open(c) == {d \in DOMAIN page(c) : ~page(c)[d].is_suppressed}
           unremediated(c) == {d \in DOMAIN page(c) : ~\E s \in page(c)[d].remediation_status : s \in Views!Terminal}
           byComponent(c) == \E r \in Views!RulesOf("component", "approved") :
               Views!matches_component_rule(r, Views!component_versions(Views!OfCve(Views!RowsIn(Views!Scope(v, n)), c)))
<1>1. ASSUME NEW c \in Cves
      PROVE  c \in listed <=> Always(v, FALSE, c) /\ ~byComponent(c) /\ open(c) # {} /\ unremediated(c) # {}
  <2>1. byComponent(c) <=> ByComponent(rs, c, "approved")
    BY DEF ByComponent, RowsOf
  <2>2. DOMAIN page(c) = {r.d : r \in Views!OfCve(rs, c)}
    BY DEF Views!affected_deployments_list, Views!get_affected_deployments, Views!affected_deployments, RowsOf
  <2>3. \A d \in DOMAIN page(c) :
            page(c)[d].is_suppressed = Views!covered_by_rule(c, d) /\ page(c)[d].remediation_status = StatusesAt(c, d)
    BY DEF Views!affected_deployments_list, StatusesAt
  <2> HIDE DEF page
  <2>4. open(c) # {} <=> \E r \in Views!OfCve(rs, c) : ~Views!covered_by_rule(c, r.d)
    BY <2>2, <2>3
  <2>5. unremediated(c) # {} <=> \E r \in Views!OfCve(rs, c) : ~\E s \in StatusesAt(c, r.d) : s \in Views!Terminal
    BY <2>2, <2>3
  <2>6. c \in listed <=> Listed(v, n, c)
    BY ListedFor
  <2> HIDE DEF open, unremediated, byComponent, listed
  <2> QED
    BY <2>1, <2>4, <2>5, <2>6 DEF Listed
<1> QED
  BY <1>1 DEF Views!PageAgrees, Always

\* What a pair in the scope has of a CVE is part of what the scope has of it.
LEMMA ListedOpen ==
    ASSUME Views!ConstantsAssumption, Views!TypeOK, OneRemediation, NEW v, Looks(v), NEW n
    PROVE  Views!ListedIsOpen(v, n)
<1> DEFINE where == Views!Scope(v, n)
           rs == Views!RowsIn(where)
<1> SUFFICES ASSUME NEW c \in Views!fetch_filtered_cves(v, n, Views!Query)
             PROVE  \E p \in Views!get_cve_namespace_cluster_map(c, where) : ~Views!is_location_suppressed(c, p)
  BY DEF Views!ListedIsOpen
<1>1. Listed(v, n, c)
  BY ListedFor
<1>2. PICK r \in Views!OfCve(rs, c) : ~Views!covered_by_rule(c, r.d)
  BY <1>1 DEF Listed, RowsOf
<1> DEFINE p == PairOf[r.d]
<1>3. p \in Views!get_cve_namespace_cluster_map(c, where) /\ p \in where
  BY PairsOfRows, <1>2 DEF Views!PairsOf
<1>4. Views!RowsIn({p}) \subseteq rs
  <2>1. \A x \in Views!RowsIn({p}) : PairOf[x.d] \in {p}
    BY RowFacts
  <2>2. \A x \in Views!RowsIn({p}) : PairOf[x.d] \in where => x \in Views!RowsIn(where)
    BY RowFacts
  <2> HIDE DEF where, p
  <2> QED
    BY <1>3, <2>1, <2>2
<1>5. Views!component_versions(Views!OfCve(Views!RowsIn({p}), c)) \subseteq Views!component_versions(Views!OfCve(rs, c))
  BY <1>4 DEF Views!component_versions, Views!OfCve
<1>6. ~\E x \in Views!RulesOf("component", "approved") :
          Views!matches_component_rule(x, Views!component_versions(Views!OfCve(Views!RowsIn({p}), c)))
  <2>1. ~\E x \in Views!RulesOf("component", "approved") :
            Views!matches_component_rule(x, Views!component_versions(Views!OfCve(rs, c)))
    BY <1>1 DEF Listed, ByComponent, RowsOf
  <2> HIDE DEF rs, p
  <2> QED
    BY <1>5, <2>1 DEF Views!matches_component_rule
<1>7. ~\E x \in Views!RulesOf("cve", "approved") : x.of = c /\ (x.where = All \/ p \in x.where)
  BY <1>2 DEF Views!covered_by_rule
<1>8. ~Views!is_location_suppressed(c, p)
  BY <1>6, <1>7 DEF Views!is_location_suppressed
<1> QED
  BY <1>3, <1>8

\* A floor of nothing lets every CVE pass.
LEMMA NoFloor ==
    ASSUME Views!ConstantsAssumption, NEW c \in Cves, NEW always
    PROVE  Views!PassesFloor(c, <<0, 0>>, always)
<1>1. Cvss[c] \in Nat /\ Epss[c] \in Nat
  BY DEF Views!ConstantsAssumption
<1> QED
  BY <1>1 DEF Views!PassesFloor, Views!MeetsFloor

LEMMA SnapshotDoes ==
    ASSUME Views!ConstantsAssumption, Views!TypeOK, \A v \in Viewers : Looks(v)
    PROVE  Views!SnapshotAgrees
<1> SUFFICES ASSUME NEW v \in Viewers, NEW n \in Narrowings, v.all, ~Views!has_scope(n)
             PROVE  Views!cards(v, n).cves = IF v.sec THEN Views!run_cve_snapshot.org_total
                                             ELSE Views!run_cve_snapshot.org_visible
  BY DEF Views!SnapshotAgrees
<1> DEFINE org == [all |-> TRUE, sec |-> TRUE, pairs |-> {}]
           rs == Views!RowsIn(ViewPairs)
           cves == Views!get_cves(ViewPairs, <<0, 0>>, {})
           excluded == Views!compute_suppression_sets(org, cves, None, "approved")
           left == {r \in rs : r.f.cve \notin excluded}
           kept == {c \in Views!CvesOf(rs) : ~HiddenIn(rs, c, "approved")}
<1>1. Looks(v) /\ Looks(org)
  BY DEF Looks
<1>2. RowsOf(v, n) = rs
  <2>1. Views!Scope(v, n) = Views!list_namespaces /\ Views!RowsIn(ViewPairs) = Views!RowsIn(Views!list_namespaces)
    BY <1>1, SameRows
  <2> QED
    BY <2>1 DEF RowsOf
<1>3. \A r \in rs : r.f.cve \in Cves
  BY RowFacts
<1>4. cves = Views!CvesOf(rs)
  BY <1>3, NoFloor DEF Views!get_cves, Views!CvesOf
<1>5. excluded = {c \in Views!CvesOf(rs) : HiddenIn(rs, c, "approved")}
  <2>1. Views!Where(None) = ViewPairs
    BY DEF Views!Where
  <2>2. org.all
    OBVIOUS
  <2> HIDE DEF org, cves
  <2> QED
    BY <1>1, <1>4, <2>1, <2>2, SuppressionSets
<1>6. Views!CvesOf(left) = kept
  <2> HIDE DEF excluded
  <2> QED
    BY <1>5 DEF Views!CvesOf
<1>7. /\ Views!run_cve_snapshot.org_total = Views!CvesOf(left)
      /\ Views!run_cve_snapshot.org_visible = {c \in Views!CvesOf(left) : Views!PassesFloor(c, floor, Views!always_show)}
  BY DEF Views!run_cve_snapshot, Views!get_snapshot_counts
<1>8. Views!cards(v, n).cves = {c \in kept : Always(v, FALSE, c)}
  <2>1. Views!cards(v, n).cves = Views!FoundFor(v, n) \ Views!ExcludedFor(v, n)
    BY DEF Views!cards
  <2>2. Views!FoundFor(v, n) \ Views!ExcludedFor(v, n) =
            {c \in Views!CvesOf(RowsOf(v, n)) : Always(v, FALSE, c) /\ ~HiddenIn(RowsOf(v, n), c, "approved")}
    BY <1>1, DashboardShows
  <2> HIDE DEF rs
  <2> QED
    BY <1>2, <2>1, <2>2
<1>9. CASE v.sec
  <2>1. \A c \in Cves : Always(v, FALSE, c)
    BY <1>9, NoFloor DEF Always, Views!resolve_view_thresholds
  <2>2. kept \subseteq Cves
    BY <1>3 DEF Views!CvesOf
  <2> QED
    BY <1>6, <1>7, <1>8, <1>9, <2>1, <2>2
<1>10. CASE ~v.sec
  <2>1. \A c : Always(v, FALSE, c) <=> Views!PassesFloor(c, floor, Views!always_show)
    BY <1>10 DEF Always, Views!resolve_view_thresholds
  <2> QED
    BY <1>6, <1>7, <1>8, <1>10, <2>1
<1> QED
  BY <1>9, <1>10

\* Who has the same key of the digest has the same list.
LEMMA SameKeySameList ==
    ASSUME Views!ConstantsAssumption, Views!TypeOK, NEW u \in Viewers, NEW v \in Viewers, Looks(u), Looks(v),
           Views!visibility_key(u) = Views!visibility_key(v)
    PROVE  /\ u.all = v.all
           /\ RowsOf(u, Views!Unscoped) = RowsOf(v, Views!Unscoped)
           /\ Views!Scope(u, Views!Unscoped) = Views!Scope(v, Views!Unscoped)
           /\ \A c : Always(u, FALSE, c) <=> Always(v, FALSE, c)
<1>1. u.all = v.all
  BY DEF Views!visibility_key, Looks
<1>2. u.sec = v.sec /\ (~u.all => u.pairs = v.pairs)
  <2>1. CASE u.all
    BY <1>1, <2>1 DEF Views!visibility_key
  <2>2. CASE ~u.all
    <3>1. ~u.sec /\ ~v.sec
      BY <1>1, <2>2 DEF Views!ConstantsAssumption
    <3>2. u.sec \in BOOLEAN /\ v.sec \in BOOLEAN
      BY DEF Views!ConstantsAssumption
    <3>3. u.pairs = v.pairs
      BY <1>1, <2>2 DEF Views!visibility_key
    <3> QED
      BY <3>1, <3>2, <3>3
  <2> QED
    BY <2>1, <2>2
<1>3. Views!Scope(u, Views!Unscoped) = Views!Scope(v, Views!Unscoped)
  BY <1>1, <1>2 DEF Views!Scope
<1>4. \A c : Always(u, FALSE, c) <=> Always(v, FALSE, c)
  BY <1>2 DEF Always, Views!resolve_view_thresholds
<1> QED
  BY <1>1, <1>3, <1>4 DEF RowsOf

LEMMA QueryOf ==
    ASSUME NEW fs
    PROVE  LET q == [Views!Query EXCEPT !.filters = fs]
           IN  /\ q.suppressed = FALSE /\ q.remediated = FALSE /\ q.opted_out = FALSE
               /\ q.status = None /\ q.deployment = None /\ q.filters = fs
  BY DEF Views!Query

LEMMA DigestDoes ==
    ASSUME Views!ConstantsAssumption, Views!TypeOK, \A v \in Viewers : Looks(v)
    PROVE  Views!DigestAgrees
<1> SUFFICES ASSUME NEW u \in Viewers, NEW v \in Viewers,
                    Views!visibility_key(u) = Views!visibility_key(v), u.all \/ u.pairs # {}
             PROVE  LET stats == Views!build_team_digest_stats(u, v)
                        with(filters) == Views!fetch_filtered_cves(u, Views!Unscoped, [Views!Query EXCEPT !.filters = filters])
                    IN  /\ stats.visible = with({}) /\ stats.prioritized = with({"prioritized"})
                        /\ stats.critical_fixable = with({"critical", "fixable"})
  BY DEF Views!DigestAgrees
<1> DEFINE n == Views!Unscoped
           rs == RowsOf(u, n)
           shown == ListOf(v, n, Views!Query)
           stats == Views!build_team_digest_stats(u, v)
           with(filters) == Views!fetch_filtered_cves(u, n, [Views!Query EXCEPT !.filters = filters])
<1>1. /\ u.all = v.all /\ RowsOf(v, n) = rs /\ Views!Scope(u, n) = Views!Scope(v, n)
      /\ \A c : Always(u, FALSE, c) <=> Always(v, FALSE, c)
  BY SameKeySameList
<1>2. /\ Views!Query.suppressed = FALSE /\ Views!Query.remediated = FALSE /\ Views!Query.opted_out = FALSE
      /\ Views!Query.status = None /\ Views!Query.deployment = None /\ Views!Query.filters = {}
  BY DEF Views!Query
<1>3. Views!fetch_filtered_cves(v, n, Views!Query) = shown
  BY <1>2, ListShows
<1>4. Views!RowsIn(IF v.all THEN ViewPairs ELSE v.pairs) = rs
  <2>1. ~Views!has_scope(n)
    BY DEF Views!has_scope, Views!Unscoped
  <2>2. CASE v.all
    BY <1>1, <2>1, <2>2, SameRows DEF RowsOf
  <2>3. CASE ~v.all
    <3>1. Views!Scope(v, n) = v.pairs
      BY <2>1, <2>3 DEF Views!Scope, Views!narrow_namespaces, Views!has_scope
    <3> QED
      BY <1>1, <2>3, <3>1 DEF RowsOf
  <2> QED
    BY <2>2, <2>3
<1>5. ASSUME NEW fs
      PROVE  with(fs) = {c \in shown : Views!Passes(u, c, Views!OfCve(rs, c), [Views!Query EXCEPT !.filters = fs])}
  <2> DEFINE q == [Views!Query EXCEPT !.filters = fs]
  <2>1. q.suppressed = FALSE /\ q.remediated = FALSE /\ q.opted_out = FALSE /\ q.status = None /\ q.deployment = None
    BY QueryOf
  <2> HIDE DEF q
  <2>2. Views!fetch_filtered_cves(u, n, q) = ListOf(u, n, q)
    BY <2>1, ListShows
  <2>3. \A c : Views!Passes(v, c, Views!OfCve(rs, c), Views!Query)
    BY <1>2, Filters
  <2> HIDE DEF n
  <2>4. ListOf(u, n, q) = {c \in shown : Views!Passes(u, c, Views!OfCve(rs, c), q)}
    BY <1>1, <1>2, <2>1, <2>3 DEF ListOf
  <2> QED
    BY <2>2, <2>4 DEF q
<1>6. /\ stats.visible = shown /\ stats.prioritized = shown \cap priorities
      /\ stats.critical_fixable = {c \in {x \in shown : Views!fixable(Views!OfCve(rs, x))} : Severity[c] = 4}
  <2> HIDE DEF shown, rs
  <2> QED
    BY <1>3, <1>4 DEF Views!build_team_digest_stats
<1> HIDE DEF with, shown, rs, stats
<1>7. with({}) = shown
  <2> DEFINE q == [Views!Query EXCEPT !.filters = {}]
  <2>1. q.filters = {}
    BY QueryOf
  <2>2. with({}) = {c \in shown : Views!Passes(u, c, Views!OfCve(rs, c), q)}
    BY <1>5
  <2> HIDE DEF q
  <2>3. \A c : Views!Passes(u, c, Views!OfCve(rs, c), q)
    BY <2>1, Filters
  <2> QED
    BY <2>2, <2>3
<1>8. with({"prioritized"}) = shown \cap priorities
  <2> DEFINE q == [Views!Query EXCEPT !.filters = {"prioritized"}]
  <2>1. q.filters = {"prioritized"}
    BY QueryOf
  <2>2. with({"prioritized"}) = {c \in shown : Views!Passes(u, c, Views!OfCve(rs, c), q)}
    BY <1>5
  <2> HIDE DEF q
  <2>3. \A c : Views!Passes(u, c, Views!OfCve(rs, c), q) <=> c \in priorities
    BY <2>1, Filters
  <2> QED
    BY <2>2, <2>3
<1>9. with({"critical", "fixable"}) = {c \in shown : Severity[c] = 4 /\ Views!fixable(Views!OfCve(rs, c))}
  <2> DEFINE q == [Views!Query EXCEPT !.filters = {"critical", "fixable"}]
  <2>1. q.filters = {"critical", "fixable"}
    BY QueryOf
  <2>2. with({"critical", "fixable"}) = {c \in shown : Views!Passes(u, c, Views!OfCve(rs, c), q)}
    BY <1>5
  <2> HIDE DEF q
  <2>3. \A c : Views!Passes(u, c, Views!OfCve(rs, c), q) <=> Severity[c] = 4 /\ Views!fixable(Views!OfCve(rs, c))
    BY <2>1, Filters
  <2> QED
    BY <2>2, <2>3
<1> QED
  BY <1>6, <1>7, <1>8, <1>9 DEF stats, with

-----------------------------------------------------------------------------
\* Of the rules that match a CVE one is the strictest: none asks for more
\* severity, and of those that ask for as much none asks for more EPSS.
LEMMA RuleChosen ==
    ASSUME Views!ConstantsAssumption, NEW c \in Cves, Views!pick_matching_rule(c) # None
    PROVE  Views!pick_matching_rule(c) \in EscalationRules
<1> DEFINE matching == {r \in EscalationRules : Views!rule_matches(r, c)}
           strictest(r) == \A s \in matching : s.sev < r.sev \/ (s.sev = r.sev /\ s.epss <= r.epss)
<1>1. matching # {} /\ Views!pick_matching_rule(c) = CHOOSE r \in matching : strictest(r)
  BY DEF Views!pick_matching_rule
<1>2. Severity[c] \in Nat /\ Epss[c] \in Nat
  BY DEF Views!ConstantsAssumption
<1>3. ASSUME NEW r \in matching
      PROVE  r.sev \in Nat /\ r.epss \in Nat /\ Severity[c] - r.sev \in Nat /\ Epss[c] - r.epss \in Nat
  <2>1. r.sev \in Nat /\ r.epss \in Nat
    BY DEF Views!ConstantsAssumption
  <2>2. Severity[c] >= r.sev /\ Epss[c] >= r.epss
    BY DEF Views!rule_matches
  <2> QED
    BY <1>2, <2>1, <2>2
<1> HIDE DEF matching
<1>4. PICK first \in matching : \A s \in matching : Severity[c] - first.sev <= Severity[c] - s.sev
  <2> DEFINE left == {Severity[c] - r.sev : r \in matching}
  <2>1. left \in SUBSET Nat /\ left # {}
    BY <1>1, <1>3
  <2> HIDE DEF left
  <2>2. \E x \in left : \A y \in left : x <= y
    BY <2>1, LeastExists
  <2> QED
    BY <2>2 DEF left
<1> DEFINE alike == {r \in matching : r.sev = first.sev}
<1>5. PICK best \in alike : \A s \in alike : Epss[c] - best.epss <= Epss[c] - s.epss
  <2> DEFINE left == {Epss[c] - r.epss : r \in alike}
  <2>1. left \in SUBSET Nat /\ left # {}
    BY <1>3, <1>4
  <2> HIDE DEF left
  <2>2. \E x \in left : \A y \in left : x <= y
    BY <2>1, LeastExists
  <2> QED
    BY <2>2 DEF left
<1>6. strictest(best)
  <2> SUFFICES ASSUME NEW s \in matching
               PROVE  s.sev < best.sev \/ (s.sev = best.sev /\ s.epss <= best.epss)
    OBVIOUS
  <2>1. s.sev <= first.sev /\ best.sev = first.sev
    BY <1>2, <1>3, <1>4, <1>5
  <2>2. s.sev = first.sev => s.epss <= best.epss
    BY <1>2, <1>3, <1>5
  <2> QED
    BY <1>3, <2>1, <2>2
<1>7. best \in matching
  OBVIOUS
<1> HIDE DEF strictest
<1>8. (CHOOSE r \in matching : strictest(r)) \in matching
  BY <1>6, <1>7
<1> QED
  BY <1>1, <1>8 DEF matching

-----------------------------------------------------------------------------
\* Rows that a deadline can be computed from.
Dated(rs) == rs # {} /\ \A r \in rs : r.f.seen \in Nat /\ r.f.since \in Nat \cup {None}

LEMMA SeenFirst ==
    ASSUME NEW rs, Dated(rs)
    PROVE  /\ Views!first_seen(rs) \in Nat
           /\ \E r \in rs : r.f.seen = Views!first_seen(rs)
           /\ \A r \in rs : Views!first_seen(rs) <= r.f.seen
<1> DEFINE days == {r.f.seen : r \in rs}
<1>1. days \in SUBSET Nat /\ days # {}
  BY DEF Dated
<1>2. Views!first_seen(rs) = Views!Least(days)
  BY DEF Views!first_seen
<1> HIDE DEF days
<1>3. Views!Least(days) \in days /\ \A y \in days : Views!Least(days) <= y
  BY <1>1, LeastNumber
<1> QED
  BY <1>1, <1>2, <1>3 DEF days

LEMMA FixFirst ==
    ASSUME Views!ConstantsAssumption, NEW rs, Dated(rs)
    PROVE  \/ Views!fix_available_since(rs) = None /\ \A r \in rs : r.f.since = None
           \/ /\ Views!fix_available_since(rs) \in Nat
              /\ \E r \in rs : r.f.since = Views!fix_available_since(rs)
              /\ \A r \in rs : r.f.since # None => Views!fix_available_since(rs) <= r.f.since
<1> DEFINE known == {r.f.since : r \in rs} \ {None}
<1>1. known \in SUBSET Nat
  BY DEF Dated
<1>2. Views!fix_available_since(rs) = IF known = {} THEN None ELSE Views!Least(known)
  BY DEF Views!fix_available_since
<1>3. \A r \in rs : r.f.since = None \/ r.f.since \in known
  OBVIOUS
<1>4. \A d \in known : \E r \in rs : r.f.since = d
  OBVIOUS
<1> HIDE DEF known
<1>5. CASE known = {}
  BY <1>2, <1>3, <1>5
<1>6. CASE known # {}
  <2>1. Views!Least(known) \in known /\ \A y \in known : Views!Least(known) <= y
    BY <1>1, <1>6, LeastNumber
  <2> QED
    BY <1>1, <1>2, <1>3, <1>4, <1>6, <2>1
<1> QED
  BY <1>5, <1>6

\* The days on which a level may fall due, of which the first counts.
Days(r, rs, l) ==
    {Views!first_seen(rs) + r.seen[l]}
    \cup (IF r.fix[l] # None /\ Views!fix_available_since(rs) # None
          THEN {Views!fix_available_since(rs) + r.fix[l]} ELSE {})
DueOn(r, rs, l) == Views!Least(Days(r, rs, l))

LEMMA RuleDays ==
    ASSUME Views!ConstantsAssumption, NEW r \in EscalationRules, NEW l \in Views!Levels
    PROVE  r.seen[l] \in Nat \ {0} /\ r.fix[l] \in (Nat \ {0}) \cup {None} /\ None \notin Nat
  BY DEF Views!ConstantsAssumption

LEMMA DueOnDay ==
    ASSUME Views!ConstantsAssumption, NEW r \in EscalationRules, NEW l \in Views!Levels, NEW rs, Dated(rs)
    PROVE  /\ Days(r, rs, l) \in SUBSET Nat
           /\ DueOn(r, rs, l) \in Days(r, rs, l)
           /\ \A d \in Days(r, rs, l) : DueOn(r, rs, l) <= d
<1>1. Days(r, rs, l) \in SUBSET Nat /\ Days(r, rs, l) # {}
  BY RuleDays, SeenFirst, FixFirst DEF Days
<1> QED
  BY <1>1, LeastNumber DEF DueOn

LEMMA DeadlinesOf ==
    ASSUME Views!ConstantsAssumption, NEW r \in EscalationRules, NEW rs, Dated(rs)
    PROVE  Views!level_deadlines(r, Views!first_seen(rs), Views!fix_available_since(rs)) =
               [l \in Views!Levels |-> DueOn(r, rs, l)]
<1> DEFINE seen == Views!first_seen(rs)
           since == Views!fix_available_since(rs)
           of(l) == (IF r.seen[l] # None /\ seen # None THEN {seen + r.seen[l]} ELSE {})
                    \cup (IF r.fix[l] # None /\ since # None THEN {since + r.fix[l]} ELSE {})
<1>1. seen \in Nat
  BY SeenFirst
<1>2. ASSUME NEW l \in Views!Levels
      PROVE  of(l) = Days(r, rs, l) /\ of(l) # {}
  <2>1. r.seen[l] # None /\ seen # None
    BY <1>1, RuleDays
  <2> QED
    BY <2>1 DEF Days
<1>3. Views!level_deadlines(r, seen, since) = [l \in {k \in Views!Levels : of(k) # {}} |-> Views!Least(of(l))]
  BY DEF Views!level_deadlines
<1> HIDE DEF of, seen, since
<1>4. {k \in Views!Levels : of(k) # {}} = Views!Levels
  BY <1>2
<1>5. Views!level_deadlines(r, seen, since) = [l \in Views!Levels |-> DueOn(r, rs, l)]
  BY <1>2, <1>3, <1>4 DEF DueOn
<1> QED
  BY <1>5 DEF seen, since

\* Some row alone makes a level fall due when it does: so does every part of the
\* rows that has it.
LEMMA OneRowDecides ==
    ASSUME Views!ConstantsAssumption, NEW r \in EscalationRules, NEW l \in Views!Levels, NEW rs, Dated(rs)
    PROVE  \E x \in rs : \A some \in SUBSET rs : x \in some => Dated(some) /\ DueOn(r, some, l) = DueOn(r, rs, l)
<1>1. ASSUME NEW some \in SUBSET rs, NEW x \in some
      PROVE  /\ Dated(some)
             /\ DueOn(r, rs, l) <= DueOn(r, some, l)
  <2>1. Dated(some)
    BY <1>1 DEF Dated
  <2>2. Views!first_seen(rs) <= Views!first_seen(some)
    BY <2>1, SeenFirst
  <2>3. Views!fix_available_since(some) # None =>
            Views!fix_available_since(rs) # None /\ Views!fix_available_since(rs) <= Views!fix_available_since(some)
    BY <2>1, FixFirst, RuleDays
  <2>4. \A d \in Days(r, some, l) : \E e \in Days(r, rs, l) : e <= d
    BY <2>1, <2>2, <2>3, SeenFirst, FixFirst, RuleDays DEF Days
  <2>5. DueOn(r, some, l) \in Days(r, some, l) /\ DueOn(r, some, l) \in Nat
    BY <2>1, DueOnDay
  <2>6. DueOn(r, rs, l) \in Nat /\ Days(r, rs, l) \subseteq Nat /\ \A e \in Days(r, rs, l) : DueOn(r, rs, l) <= e
    BY DueOnDay
  <2> QED
    BY <2>1, <2>4, <2>5, <2>6
<1>2. PICK x \in rs : \A some \in SUBSET rs : x \in some => DueOn(r, rs, l) \in Days(r, some, l)
  <2>1. DueOn(r, rs, l) \in Days(r, rs, l)
    BY DueOnDay
  <2>2. CASE DueOn(r, rs, l) = Views!first_seen(rs) + r.seen[l]
    <3>1. PICK x \in rs : x.f.seen = Views!first_seen(rs)
      BY SeenFirst
    <3>2. ASSUME NEW some \in SUBSET rs, x \in some
          PROVE  Views!first_seen(some) = Views!first_seen(rs)
      <4>1. Dated(some)
        BY <3>2 DEF Dated
      <4>2. Views!first_seen(some) <= x.f.seen /\ Views!first_seen(some) \in Nat
        BY <3>2, <4>1, SeenFirst
      <4>3. Views!first_seen(rs) <= Views!first_seen(some) /\ Views!first_seen(rs) \in Nat
        BY <4>1, SeenFirst
      <4> QED
        BY <3>1, <4>2, <4>3
    <3> QED
      BY <2>2, <3>2 DEF Days
  <2>3. CASE /\ r.fix[l] # None /\ Views!fix_available_since(rs) # None
             /\ DueOn(r, rs, l) = Views!fix_available_since(rs) + r.fix[l]
    <3>1. PICK x \in rs : x.f.since = Views!fix_available_since(rs)
      BY <2>3, FixFirst
    <3>2. ASSUME NEW some \in SUBSET rs, x \in some
          PROVE  Views!fix_available_since(some) = Views!fix_available_since(rs)
      <4>1. Dated(some)
        BY <3>2 DEF Dated
      <4>2. Views!fix_available_since(some) \in Nat /\ Views!fix_available_since(some) <= x.f.since
        BY <2>3, <3>1, <3>2, <4>1, FixFirst
      <4>3. Views!fix_available_since(rs) \in Nat /\ Views!fix_available_since(rs) <= Views!fix_available_since(some)
        BY <2>3, <4>1, <4>2, FixFirst, RuleDays
      <4> QED
        BY <3>1, <4>2, <4>3
    <3> QED
      BY <2>3, <3>2 DEF Days
  <2> QED
    BY <2>1, <2>2, <2>3 DEF Days
<1>3. ASSUME NEW some \in SUBSET rs, x \in some
      PROVE  Dated(some) /\ DueOn(r, some, l) = DueOn(r, rs, l)
  <2>1. Dated(some) /\ DueOn(r, rs, l) <= DueOn(r, some, l)
    BY <1>1, <1>3
  <2>2. DueOn(r, some, l) <= DueOn(r, rs, l)
    BY <1>2, <1>3, <2>1, DueOnDay
  <2>3. DueOn(r, some, l) \in Nat /\ DueOn(r, rs, l) \in Nat
    BY <2>1, DueOnDay
  <2> QED
    BY <2>1, <2>2, <2>3
<1> QED
  BY <1>3

\* Of a rule that ascends a higher level falls due later.
LEMMA LaterAbove ==
    ASSUME Views!ConstantsAssumption, NEW r \in EscalationRules, Views!Ascending(r), NEW rs, Dated(rs),
           NEW k \in Views!Levels, NEW l \in Views!Levels, k < l
    PROVE  DueOn(r, rs, k) < DueOn(r, rs, l)
<1>1. r.seen[k] < r.seen[l] /\ (r.fix[l] # None => r.fix[k] # None /\ r.fix[k] < r.fix[l])
  BY DEF Views!Ascending
<1>2. \A d \in Days(r, rs, l) : \E e \in Days(r, rs, k) : e < d
  BY <1>1, RuleDays, SeenFirst, FixFirst DEF Days
<1>3. /\ DueOn(r, rs, l) \in Days(r, rs, l) /\ Days(r, rs, l) \subseteq Nat
      /\ DueOn(r, rs, k) \in Days(r, rs, k) /\ Days(r, rs, k) \subseteq Nat
      /\ \A e \in Days(r, rs, k) : DueOn(r, rs, k) <= e
  BY DueOnDay
<1> QED
  BY <1>2, <1>3

\* What the preview goes through are CVEs where they occur.
LEMMA CandidateRows ==
    ASSUME Views!ConstantsAssumption, Views!TypeOK, NEW where,
           NEW x \in Views!escalation_candidate_rows(Views!Detailed(where))
    PROVE  /\ x \in Views!escalation_candidate_rows(Views!Detailed(Views!list_namespaces))
           /\ x[1] \in Cves /\ x = <<x[1], x[2]>>
           /\ \E r \in Views!RowsIn(where) : r.f.cve = x[1] /\ PairOf[r.d] = x[2]
<1> DEFINE always == priorities \cup Views!AcceptedWith({"requested"})
<1>1. \A w : Views!Detailed(w) =
                 {<<r.f.cve, PairOf[r.d]>> : r \in {y \in Views!RowsIn(w) : Views!PassesFloor(y.f.cve, floor, always)}}
  BY DEF Views!Detailed, Views!get_cves_by_namespace_detail
<1>2. x \in Views!Detailed(where) /\ x[1] \notin Views!AcceptedWith({"approved"}) /\ ~Views!is_location_suppressed(x[1], x[2])
  BY DEF Views!escalation_candidate_rows
<1> HIDE DEF always
<1>3. PICK r \in Views!RowsIn(where) : Views!PassesFloor(r.f.cve, floor, always) /\ x = <<r.f.cve, PairOf[r.d]>>
  BY <1>1, <1>2
<1>4. r \in Views!RowsIn(Views!list_namespaces) /\ r.f.cve \in Cves
  BY RowFacts
<1>5. x \in Views!Detailed(Views!list_namespaces)
  BY <1>1, <1>3, <1>4
<1>6. x \in Views!escalation_candidate_rows(Views!Detailed(Views!list_namespaces))
  BY <1>2, <1>5 DEF Views!escalation_candidate_rows
<1> QED
  BY <1>3, <1>4, <1>6

\* A level that is previewed fires as it says in one of the locations.
Fires(u, x) ==
    LET due == Views!DeadlinesAt(u[1], {x[2]})
    IN  /\ x[1] = u[1] /\ u[2] \in DOMAIN due /\ due[u[2]] = Now + u[3]
        /\ Views!Ascending(Views!pick_matching_rule(u[1])) => \A l \in DOMAIN due : l > u[2] => due[l] > Now + u[3]
        /\ ~\E e \in escalations : e.cve = u[1] /\ e.pair = x[2] /\ e.level = u[2]

LEMMA PreviewedFires ==
    ASSUME Views!ConstantsAssumption, Views!TypeOK, NEW ns, NEW u \in Views!compute_upcoming_escalations(ns)
    PROVE  \E x \in Views!escalation_candidate_rows(Views!Detailed(Views!list_namespaces)) : Fires(u, x)
<1> DEFINE where == IF ns = {} THEN Views!list_namespaces ELSE ns
           cands == Views!escalation_candidate_rows(Views!Detailed(where))
           at(c) == {x[2] : x \in {y \in cands : y[1] = c}}
           due(c) == Views!DeadlinesAt(c, at(c))
           near(c) == {<<c, l, due(c)[l] - Now>> : l \in {k \in DOMAIN due(c) :
                          due(c)[k] - Now \in 1..WarningDays /\ ~\E e \in escalations : e.cve = c /\ e.level = k}}
           dated == {c \in {x[1] : x \in cands} : Views!pick_matching_rule(c) # None}
<1>1. Views!compute_upcoming_escalations(ns) = UNION {{w \in near(c) : \A z \in near(c) : w[2] <= z[2]} : c \in dated}
  BY DEF Views!compute_upcoming_escalations
<1>2. PICK c \in dated : u \in near(c)
  <2> HIDE DEF near, dated
  <2> QED
    BY <1>1
<1>3. PICK l \in DOMAIN due(c) : /\ u = <<c, l, due(c)[l] - Now>>
                                 /\ ~\E e \in escalations : e.cve = c /\ e.level = l
  BY <1>2
<1> DEFINE rs == Views!OfCve(Views!RowsIn(at(c)), c)
           r == Views!pick_matching_rule(c)
<1> HIDE DEF near
<1>4. ASSUME NEW x \in cands
      PROVE  /\ x \in Views!escalation_candidate_rows(Views!Detailed(Views!list_namespaces))
             /\ x[1] \in Cves /\ x = <<x[1], x[2]>>
             /\ \E y \in Views!RowsIn(where) : y.f.cve = x[1] /\ PairOf[y.d] = x[2]
  <2> HIDE DEF where
  <2> QED
    BY <1>4, CandidateRows
<1> HIDE DEF cands
<1>5. c \in Cves /\ r \in EscalationRules
  <2>1. c \in Cves /\ r # None
    BY <1>4
  <2> QED
    BY <2>1, RuleChosen
<1>6. \A some \in SUBSET rs : some # {} => Dated(some)
  BY RowFacts DEF Dated, Views!OfCve
<1>7. Dated(rs)
  <2>1. PICK x \in cands : x[1] = c
    OBVIOUS
  <2>2. PICK y \in Views!RowsIn(where) : y.f.cve = x[1] /\ PairOf[y.d] = x[2]
    BY <1>4
  <2>3. x[2] \in at(c)
    BY <2>1
  <2>4. y \in Views!RowsIn(at(c))
    BY <2>2, <2>3, RowFacts
  <2>5. y \in rs
    BY <2>1, <2>2, <2>4 DEF Views!OfCve
  <2> HIDE DEF rs
  <2> QED
    BY <1>6, <2>5
<1>8. due(c) = [k \in Views!Levels |-> DueOn(r, rs, k)]
  <2>1. due(c) = Views!level_deadlines(r, Views!first_seen(rs), Views!fix_available_since(rs))
    BY DEF Views!DeadlinesAt
  <2> HIDE DEF due, rs, r
  <2> QED
    BY <1>5, <1>7, <2>1, DeadlinesOf
<1> HIDE DEF due
<1>9. l \in Views!Levels /\ due(c)[l] = DueOn(r, rs, l)
  BY <1>8
<1>10. PICK y \in rs : \A some \in SUBSET rs : y \in some => Dated(some) /\ DueOn(r, some, l) = DueOn(r, rs, l)
  <2> HIDE DEF rs, r
  <2> QED
    BY <1>5, <1>7, <1>9, OneRowDecides
<1> DEFINE p == PairOf[y.d]
           x == <<c, p>>
           some == Views!OfCve(Views!RowsIn({p}), c)
<1>11. p \in at(c)
  <2> HIDE DEF at
  <2> QED
    BY RowFacts DEF Views!OfCve
<1>12. x \in cands
  <2>1. PICK z \in cands : z[1] = c /\ z[2] = p
    BY <1>11
  <2>2. z = x
    BY <1>4, <2>1
  <2> QED
    BY <2>1, <2>2
<1>13. y \in some /\ some \subseteq rs
  <2> HIDE DEF at
  <2>1. y \in Views!RowsIn(at(c)) /\ y.f.cve = c
    BY DEF Views!OfCve
  <2>2. y \in some
    BY <2>1, RowFacts DEF Views!OfCve
  <2>3. ASSUME NEW z \in some
        PROVE  z \in rs
    <3>1. z \in Views!RowsIn({p}) /\ z.f.cve = c
      BY <2>3 DEF Views!OfCve
    <3>2. PairOf[z.d] = p
      BY <3>1, RowFacts
    <3>3. z \in Views!RowsIn(at(c))
      BY <1>11, <3>1, <3>2, RowFacts
    <3> QED
      BY <3>1, <3>3 DEF Views!OfCve
  <2> QED
    BY <2>2, <2>3
<1> HIDE DEF rs, r
<1>14. Dated(some) /\ DueOn(r, some, l) = DueOn(r, rs, l)
  BY <1>10, <1>13
<1>15. Views!DeadlinesAt(c, {p}) = [k \in Views!Levels |-> DueOn(r, some, k)]
  <2>1. Views!DeadlinesAt(c, {p}) = Views!level_deadlines(r, Views!first_seen(some), Views!fix_available_since(some))
    BY DEF Views!DeadlinesAt, r
  <2> HIDE DEF some
  <2> QED
    BY <1>5, <1>14, <2>1, DeadlinesOf
<1> HIDE DEF p, some
<1>16. u[1] = c /\ u[2] = l /\ Now + u[3] = DueOn(r, some, l)
  <2>1. DueOn(r, some, l) \in Nat /\ Now \in Nat
    BY <1>5, <1>9, <1>14, DueOnDay DEF Views!ConstantsAssumption
  <2> QED
    BY <1>3, <1>9, <1>14, <2>1
<1>17. ASSUME Views!Ascending(r), NEW k \in Views!Levels, k > l
       PROVE  DueOn(r, some, k) > DueOn(r, some, l)
  <2>1. l < k
    BY <1>9, <1>17 DEF Views!Levels
  <2>2. DueOn(r, some, k) \in Nat /\ DueOn(r, some, l) \in Nat
    BY <1>5, <1>9, <1>14, DueOnDay
  <2>3. DueOn(r, some, l) < DueOn(r, some, k)
    BY <1>5, <1>9, <1>14, <1>17, <2>1, LaterAbove
  <2> QED
    BY <2>2, <2>3
<1>18. Fires(u, x)
  <2>1. x[1] = c /\ x[2] = p
    OBVIOUS
  <2> DEFINE dues == Views!DeadlinesAt(u[1], {x[2]})
  <2>2. dues = [k \in Views!Levels |-> DueOn(r, some, k)]
    BY <1>15, <1>16, <2>1
  <2> HIDE DEF dues, x
  <2>3. u[2] \in DOMAIN dues /\ dues[u[2]] = Now + u[3]
    BY <1>9, <1>16, <2>2
  <2>4. Views!Ascending(Views!pick_matching_rule(u[1])) => \A k \in DOMAIN dues : k > u[2] => dues[k] > Now + u[3]
    BY <1>16, <1>17, <2>2 DEF r
  <2>5. ~\E e \in escalations : e.cve = u[1] /\ e.pair = x[2] /\ e.level = u[2]
    BY <1>3, <1>16
  <2> QED
    BY <1>16, <2>1, <2>3, <2>4, <2>5 DEF Fires, dues
<1> QED
  BY <1>4, <1>12, <1>18

LEMMA PreviewDoes ==
    ASSUME Views!ConstantsAssumption, Views!TypeOK, NEW v, NEW n
    PROVE  Views!PreviewFires(v, n)
<1> SUFFICES ASSUME NEW u \in Views!list_upcoming_escalations(v, n)
             PROVE  \E x \in Views!escalation_candidate_rows(Views!Detailed(Views!list_namespaces)) : Fires(u, x)
  BY DEF Views!PreviewFires, Fires
<1>1. \E ns : u \in Views!compute_upcoming_escalations(ns)
  BY DEF Views!list_upcoming_escalations
<1> QED
  BY <1>1, PreviewedFires

-----------------------------------------------------------------------------
\* In a state of the right types in which a pair has one remediation of a CVE,
\* the views agree.
LEMMA ViewsDo ==
    ASSUME Views!ConstantsAssumption, ViewsInv
    PROVE  Views!ViewsAgree
<1>1. \A v \in Viewers : Looks(v)
  BY DEF Views!ConstantsAssumption, Looks
<1> QED
  BY <1>1, CardsDo, OthersDo, PageDoes, ListedOpen, PreviewDoes, SnapshotDoes, DigestDoes
     DEF ViewsInv, Views!ViewsAgree

LEMMA ViewsInit ==
    ASSUME Views!ConstantsAssumption, Views!Init
    PROVE  ViewsInv
<1>1. MaxTime["views"] \in Nat
  BY DEF Views!ConstantsAssumption
<1>2. running \in [Deployments -> Images \cup {None}]
  BY DEF Views!Init
<1>3. changes \in 0 .. MaxTime["views"] /\ floor \in Floors
  BY <1>1 DEF Views!Init
<1> QED
  BY <1>2, <1>3 DEF ViewsInv, OneRemediation, Views!Init, Views!TypeOK

LEMMA ViewsPreserved ==
    ASSUME Views!ConstantsAssumption, ViewsInv, [Views!Next]_viewsVars
    PROVE  ViewsInv'
<1> USE DEF ViewsInv, OneRemediation, Views!TypeOK
<1>1. CASE UNCHANGED viewsVars
  BY <1>1 DEF viewsVars
<1>2. ASSUME Views!Change
      PROVE  changes' \in 0 .. MaxTime["views"]
  BY <1>2 DEF Views!Change, Views!ConstantsAssumption
<1>3. CASE Views!CentralChanges
  <2>1. running' \in [Deployments -> Images \cup {None}]
    BY <1>3 DEF Views!CentralChanges, Views!Deploy, Views!Rescan
  <2>2. rescanned' \subseteq Images
    BY <1>3 DEF Views!CentralChanges, Views!Deploy, Views!Rescan
  <2> QED
    BY <1>2, <1>3, <2>1, <2>2 DEF Views!CentralChanges, Views!RowsUnchanged
<1>4. ASSUME NEW x \in Candidates, Views!Decision(x)
      PROVE  ViewsInv'
  <2>1. rules' \subseteq Views!RulesAmong
    BY <1>4 DEF Views!Decision, Views!Toggled, Views!RulesAmong
  <2>2. acceptances' \subseteq Views!AcceptancesAmong
    BY <1>4 DEF Views!Decision, Views!Toggled, Views!AcceptancesAmong
  <2>3. escalations \subseteq escalations' /\ escalations' \subseteq Views!EscalationsAmong
    BY <1>4 DEF Views!Decision, Views!EscalationsAmong
  <2>4. remediations' \subseteq Views!RemediationsAmong
    BY <1>4 DEF Views!Decision, Views!Others, Views!RemediationsAmong
  <2>5. OneRemediation'
    BY <1>4 DEF Views!Decision, Views!Others
  <2> QED
    BY <1>2, <1>4, <2>1, <2>2, <2>3, <2>4, <2>5 DEF Views!Decision, Views!centralVars
<1>5. ASSUME NEW v \in Viewers, NEW c \in Cves, Views!create_priority(v, c) \/ Views!delete_priority(v, c)
      PROVE  ViewsInv'
  BY <1>2, <1>5 DEF Views!create_priority, Views!delete_priority, Views!RowsUnchanged, Views!centralVars
<1>6. ASSUME NEW v \in Viewers, NEW f \in Floors, Views!update_settings(v, f)
      PROVE  ViewsInv'
  BY <1>2, <1>6 DEF Views!update_settings, Views!RowsUnchanged, Views!centralVars
<1>7. ASSUME NEW e \in escalations, Views!delete_cve_comment(e)
      PROVE  ViewsInv'
  BY <1>2, <1>7 DEF Views!delete_cve_comment, Views!centralVars
<1>8. ASSUME NEW e \in escalations, NEW v \in Viewers, Views!add_current_escalation_comment(v, e)
      PROVE  ViewsInv'
  BY <1>2, <1>8 DEF Views!add_current_escalation_comment, Views!centralVars
<1> QED
  BY <1>1, <1>3, <1>4, <1>5, <1>6, <1>7, <1>8 DEF Views!Next

-----------------------------------------------------------------------------
(***************************************************************************)
(* Types                                                                   *)
(***************************************************************************)
\* The viewers of an entity: never none, each seen at some time.
BucketOK(bucket) ==
    /\ DOMAIN bucket \in (SUBSET Users) \ {{}}
    /\ bucket \in [DOMAIN bucket -> Viewing!Times]

PresenceTyped ==
    /\ clock \in Viewing!Times /\ swept \in Viewing!Times
    /\ visible \subseteq Viewing!Sights
    /\ hidden \in [Moving -> Viewing!Times \cup {-1}]
    /\ DOMAIN viewers \subseteq Entities
    /\ \A e \in DOMAIN viewers : BucketOK(viewers[e])
    /\ \A sight \in DOMAIN access : access[sight].allowed \in BOOLEAN
    /\ \A u \in Users : presenceReq[u].step # "idle" => presenceReq[u].now \in Viewing!Times

LEMMA PresenceClock ==
    ASSUME Viewing!ConstantsAssumption
    PROVE  0 \in Viewing!Times /\ \A t \in Viewing!Times : t \in Nat /\ (t < MaxTime["presence"] => t + 1 \in Viewing!Times)
<1>1. MaxTime["presence"] \in Nat
  BY DEF Viewing!ConstantsAssumption
<1> QED
  BY <1>1, BoundedClock DEF Viewing!Times

LEMMA PresenceTypedInit ==
    ASSUME Viewing!ConstantsAssumption, Viewing!Init
    PROVE  PresenceTyped
<1>1. /\ \A u \in Users : presenceReq[u].step = "idle"
      /\ clock = 0 /\ swept = 0 /\ visible = Viewing!Sights /\ hidden = [k \in Moving |-> -1]
      /\ DOMAIN access = {} /\ DOMAIN viewers = {}
  BY DEF Viewing!Init, Viewing!Idle, Viewing!Never
<1> QED
  BY <1>1, PresenceClock DEF PresenceTyped

\* Cleaning leaves a bucket with viewers, or none.
LEMMA CleanedTyped ==
    ASSUME NEW store, NEW e, NEW now,
           DOMAIN store \subseteq Entities, \A d \in DOMAIN store \ {e} : BucketOK(store[d]),
           e \in DOMAIN store =>
               DOMAIN store[e] \in SUBSET Users /\ \A u \in DOMAIN store[e] : store[e][u] \in Viewing!Times
    PROVE  /\ DOMAIN Viewing!Cleaned(store, e, now) \subseteq Entities
           /\ \A d \in DOMAIN Viewing!Cleaned(store, e, now) : BucketOK(Viewing!Cleaned(store, e, now)[d])
<1> DEFINE fresh == Viewing!Fresh(store[e], now)
           left == Viewing!Cleaned(store, e, now)
<1>1. DOMAIN fresh \subseteq DOMAIN store[e] /\ fresh = [u \in DOMAIN fresh |-> store[e][u]]
  BY DEF Viewing!Fresh, Viewing!Restrict
<1>2. CASE e \notin DOMAIN store
  BY <1>2 DEF Viewing!Cleaned
<1>3. CASE e \in DOMAIN store /\ DOMAIN fresh = {}
  <2>1. left = Viewing!Restrict(store, DOMAIN store \ {e})
    BY <1>3 DEF Viewing!Cleaned
  <2>2. DOMAIN left = DOMAIN store \ {e} /\ \A d \in DOMAIN left : left[d] = store[d]
    BY <2>1 DEF Viewing!Restrict
  <2> HIDE DEF left, fresh
  <2> QED
    BY <2>2 DEF left
<1>4. CASE e \in DOMAIN store /\ DOMAIN fresh # {}
  <2>1. left = [store EXCEPT ![e] = fresh]
    BY <1>4 DEF Viewing!Cleaned
  <2>2. DOMAIN left = DOMAIN store /\ left[e] = fresh /\ \A d \in DOMAIN left \ {e} : left[d] = store[d]
    BY <1>4, <2>1
  <2>3. BucketOK(fresh)
    <3> HIDE DEF fresh
    <3>1. fresh \in [DOMAIN fresh -> Viewing!Times]
      BY <1>1, <1>4
    <3> QED
      BY <1>1, <1>4, <3>1 DEF BucketOK
  <2> HIDE DEF left, fresh
  <2> QED
    BY <2>2, <2>3 DEF left
<1> QED
  BY <1>2, <1>3, <1>4

\* Sweeping does so for all entities.
LEMMA SweptTyped ==
    ASSUME PresenceTyped
    PROVE  /\ DOMAIN Viewing!SweptViewers \subseteq Entities
           /\ \A e \in DOMAIN Viewing!SweptViewers : BucketOK(Viewing!SweptViewers[e])
           /\ \A sight \in DOMAIN Viewing!SweptAccess : Viewing!SweptAccess[sight].allowed \in BOOLEAN
<1>1. /\ DOMAIN Viewing!SweptViewers \subseteq Entities
      /\ \A e \in DOMAIN Viewing!SweptViewers : BucketOK(Viewing!SweptViewers[e])
  <2>1. CASE ~Viewing!SweepDue
    BY <2>1 DEF Viewing!SweptViewers, PresenceTyped
  <2>2. CASE Viewing!SweepDue
    <3> DEFINE kept == {e \in DOMAIN viewers : DOMAIN Viewing!Fresh(viewers[e], clock) # {}}
    <3>1. Viewing!SweptViewers = [e \in kept |-> Viewing!Fresh(viewers[e], clock)]
      BY <2>2 DEF Viewing!SweptViewers
    <3>2. ASSUME NEW e \in kept
          PROVE  BucketOK(Viewing!Fresh(viewers[e], clock))
      BY DEF PresenceTyped, BucketOK, Viewing!Fresh, Viewing!Restrict
    <3> QED
      BY <3>1, <3>2 DEF PresenceTyped
  <2> QED
    BY <2>1, <2>2
<1>2. \A sight \in DOMAIN Viewing!SweptAccess : Viewing!SweptAccess[sight].allowed \in BOOLEAN
  BY DEF PresenceTyped, Viewing!SweptAccess, Viewing!Restrict
<1> QED
  BY <1>1, <1>2

LEMMA PresenceTypedNext ==
    ASSUME Viewing!ConstantsAssumption, PresenceInv, PresenceTyped, Viewing!Next \/ UNCHANGED <<clock, presenceVars>>
    PROVE  PresenceTyped'
<1>0. /\ \A u \in Users : presenceReq[u].step # "idle" => presenceReq[u].now \in Viewing!Times /\ presenceReq[u].entity \in Entities
      /\ presenceReq = [u \in Users |-> presenceReq[u]]
  BY DEF PresenceInv, PresenceReqOK, PresenceTyped
<1>1. CASE UNCHANGED <<clock, presenceVars>>
  BY <1>1 DEF presenceVars, PresenceTyped, BucketOK
<1>2. CASE Viewing!Tick \/ \E k \in Moving : Viewing!Hide(k) \/ Viewing!Show(k)
  <2>1. UNCHANGED <<viewers, access, presenceReq, swept>>
    BY <1>2 DEF Viewing!Tick, Viewing!Hide, Viewing!Show
  <2>2. clock' \in Viewing!Times /\ visible' \subseteq Viewing!Sights /\ hidden' \in [Moving -> Viewing!Times \cup {-1}]
    <3>1. Moving \subseteq Viewing!Sights
      BY DEF Viewing!ConstantsAssumption, Viewing!Sights
    <3> QED
      BY <1>2, <3>1, PresenceClock DEF PresenceTyped, Viewing!Tick, Viewing!Hide, Viewing!Show
  <2> QED
    BY <2>1, <2>2 DEF PresenceTyped, BucketOK
<1>3. ASSUME NEW u \in Users, NEW e \in Entities, NEW kind \in {"heartbeat", "viewers"}, Viewing!Begin(u, e, kind)
      PROVE  PresenceTyped'
  <2>1. PICK task : /\ presenceReq' = [presenceReq EXCEPT ![u] = task]
                    /\ task = Viewing!Idle \/ task.now = clock
    <3> DEFINE checking == [step |-> "check", kind |-> kind, entity |-> e, now |-> clock]
               going == [step |-> "go", kind |-> kind, entity |-> e, now |-> clock]
    <3>1. PICK task \in {checking, going, Viewing!Idle} : presenceReq' = [presenceReq EXCEPT ![u] = task]
      BY <1>3 DEF Viewing!Begin
    <3>2. task = Viewing!Idle \/ task.now = clock
      OBVIOUS
    <3> HIDE DEF checking, going
    <3> QED
      BY <3>1, <3>2
  <2>2. /\ UNCHANGED <<clock, visible, hidden>>
        /\ access' \in {access, Viewing!SweptAccess} /\ viewers' \in {viewers, Viewing!SweptViewers} /\ swept' \in {swept, clock}
    BY <1>3 DEF Viewing!Begin
  <2>3. \A v \in Users : presenceReq'[v].step # "idle" => presenceReq'[v].now \in Viewing!Times
    BY <1>0, <2>1 DEF Viewing!Idle, PresenceTyped
  <2>4. /\ DOMAIN viewers' \subseteq Entities /\ \A d \in DOMAIN viewers' : BucketOK(viewers'[d])
        /\ \A sight \in DOMAIN access' : access'[sight].allowed \in BOOLEAN
    BY <2>2, SweptTyped DEF PresenceTyped
  <2> QED
    BY <2>2, <2>3, <2>4 DEF PresenceTyped, BucketOK
<1>4. ASSUME NEW u \in Users, Viewing!Check(u)
      PROVE  PresenceTyped'
  <2> DEFINE k == <<u, presenceReq[u].entity>>
             decision == [allowed |-> k \in visible, expires_at |-> presenceReq[u].now + AccessTtl]
  <2>1. /\ UNCHANGED <<clock, visible, hidden, viewers, swept>> /\ access' = Viewing!With(access, k, decision)
        /\ presenceReq[u].step = "check"
        /\ presenceReq' = [presenceReq EXCEPT ![u] = IF k \in visible THEN [presenceReq[u] EXCEPT !.step = "go"] ELSE Viewing!Idle]
    BY <1>4 DEF Viewing!Check
  <2>2. \A sight \in DOMAIN access' : access'[sight].allowed \in BOOLEAN
    <3>1. decision.allowed \in BOOLEAN
      OBVIOUS
    <3> HIDE DEF decision
    <3> QED
      BY <2>1, <3>1 DEF PresenceTyped, Viewing!With
  <2>3. [presenceReq[u] EXCEPT !.step = "go"].now = presenceReq[u].now
    OBVIOUS
  <2>4. \A v \in Users : presenceReq'[v].step # "idle" => presenceReq'[v].now \in Viewing!Times
    BY <1>0, <2>1, <2>3 DEF Viewing!Idle
  <2> QED
    BY <2>1, <2>2, <2>4 DEF PresenceTyped, BucketOK
<1>5. ASSUME NEW u \in Users, Viewing!Heartbeat(u)
      PROVE  PresenceTyped'
  <2> DEFINE e == presenceReq[u].entity
             bucket == IF e \in DOMAIN viewers THEN viewers[e] ELSE <<>>
             seen == Viewing!With(bucket, u, presenceReq[u].now)
             store == Viewing!With(viewers, e, seen)
  <2>1. /\ UNCHANGED <<clock, visible, hidden, access, swept>> /\ presenceReq[u].step = "go"
        /\ presenceReq' = [presenceReq EXCEPT ![u] = Viewing!Idle]
        /\ viewers' \in {viewers, Viewing!Cleaned(store, e, presenceReq[u].now)}
    BY <1>5 DEF Viewing!Heartbeat
  <2>2. DOMAIN bucket \subseteq Users /\ \A v \in DOMAIN bucket : bucket[v] \in Viewing!Times
    BY DEF PresenceTyped, BucketOK
  <2>3. DOMAIN seen \subseteq Users /\ \A v \in DOMAIN seen : seen[v] \in Viewing!Times
    <3> HIDE DEF bucket
    <3> QED
      BY <1>0, <2>1, <2>2 DEF Viewing!With
  <2>4. /\ DOMAIN store \subseteq Entities /\ store[e] = seen
        /\ \A d \in DOMAIN store \ {e} : BucketOK(store[d])
    <3> HIDE DEF seen
    <3> QED
      BY <1>0, <2>1 DEF Viewing!With, PresenceTyped
  <2> HIDE DEF store, seen
  <2>5. DOMAIN viewers' \subseteq Entities /\ \A d \in DOMAIN viewers' : BucketOK(viewers'[d])
    BY <2>1, <2>3, <2>4, CleanedTyped DEF PresenceTyped
  <2>6. \A v \in Users : presenceReq'[v].step # "idle" => presenceReq'[v].now \in Viewing!Times
    BY <1>0, <2>1 DEF Viewing!Idle
  <2> QED
    BY <2>1, <2>5, <2>6 DEF PresenceTyped, BucketOK
<1>6. ASSUME NEW u \in Users, Viewing!GetViewers(u)
      PROVE  PresenceTyped'
  <2>1. /\ UNCHANGED <<clock, visible, hidden, access, swept>> /\ presenceReq[u].step = "go"
        /\ presenceReq' = [presenceReq EXCEPT ![u] =
               [step |-> "listed", entity |-> presenceReq[u].entity, now |-> presenceReq[u].now]]
        /\ viewers' = Viewing!Cleaned(viewers, presenceReq[u].entity, presenceReq[u].now)
    BY <1>6 DEF Viewing!GetViewers
  <2>2. DOMAIN viewers' \subseteq Entities /\ \A d \in DOMAIN viewers' : BucketOK(viewers'[d])
    BY <2>1, CleanedTyped DEF PresenceTyped, BucketOK
  <2>3. \A v \in Users : presenceReq'[v].step # "idle" => presenceReq'[v].now \in Viewing!Times
    BY <1>0, <2>1
  <2> QED
    BY <2>1, <2>2, <2>3 DEF PresenceTyped, BucketOK
<1>7. CASE Viewing!Restart
  <2>1. /\ UNCHANGED <<clock, visible, hidden>> /\ DOMAIN access' = {} /\ DOMAIN viewers' = {} /\ swept' = 0
        /\ \A u \in Users : presenceReq'[u].step = "idle"
    BY <1>7 DEF Viewing!Restart, Viewing!Idle
  <2> QED
    BY <2>1, PresenceClock DEF PresenceTyped
<1> QED
  BY <1>1, <1>2, <1>3, <1>4, <1>5, <1>6, <1>7 DEF Viewing!Next

LEMMA PresenceType ==
    ASSUME PresenceInv, PresenceTyped
    PROVE  Viewing!TypeOK
<1>1. \A e \in DOMAIN viewers : viewers[e] \in [DOMAIN viewers[e] -> Viewing!Times]
  BY DEF PresenceTyped, BucketOK
<1> QED
  BY <1>1 DEF PresenceInv, PresenceTyped, PresenceReqOK, DecisionOK, BucketOK, Viewing!TypeOK, Viewing!Never

-----------------------------------------------------------------------------
BadgesTyped ==
    /\ clock \in Svgs!Times
    /\ DOMAIN badges \subseteq Tokens /\ \A t \in DOMAIN badges : badges[t] \in Svgs!Badge
    /\ DOMAIN spent \subseteq Tokens /\ spent \in [DOMAIN spent -> Svgs!Times]
    /\ \A t \in DOMAIN svgs : svgs[t].pairs \subseteq Pairs /\ svgs[t].at \in Svgs!Times
    /\ \A r \in Requests : reader[r].step = "render" => reader[r].pairs \subseteq Pairs

LEMMA BadgesClock ==
    ASSUME Svgs!ConstantsAssumption
    PROVE  0 \in Svgs!Times /\ \A t \in Svgs!Times : t \in Nat /\ (t < MaxTime["badges"] => t + 1 \in Svgs!Times)
<1>1. MaxTime["badges"] \in Nat
  BY DEF Svgs!ConstantsAssumption
<1> QED
  BY <1>1, BoundedClock DEF Svgs!Times

LEMMA BadgesTypedInit ==
    ASSUME Svgs!ConstantsAssumption, Svgs!Init
    PROVE  BadgesTyped
<1>1. /\ \A r \in Requests : reader[r].step = "idle"
      /\ clock = 0 /\ DOMAIN badges = {} /\ spent = <<>> /\ DOMAIN svgs = {}
  BY DEF Svgs!Init, Svgs!Idle
<1> QED
  BY <1>1, BadgesClock DEF BadgesTyped

\* What a badge counts are pairs there are.
LEMMA CountedPairs ==
    ASSUME NEW badge \in Svgs!Badge
    PROVE  Svgs!Counted(badge) \subseteq Pairs
<1>1. badge.scope.pairs \subseteq Pairs
  BY DEF Svgs!Badge, Svgs!NoPairs, Svgs!Stored
<1> QED
  BY <1>1 DEF Svgs!Counted, Svgs!Matching

LEMMA CreatedBadgeTyped ==
    ASSUME NEW wildcard \in BOOLEAN, NEW mine \in SUBSET Pairs,
           NEW namespace \in Svgs!NamespaceNames \cup {AnyOf}, NEW cluster \in Svgs!Clusters \cup {AnyOf}
    PROVE  [namespace |-> namespace, cluster |-> cluster,
            scope |-> Svgs!ScopeOf(wildcard, mine, namespace, cluster), allowed |-> mine] \in Svgs!Badge
<1>1. Svgs!Matching(mine, namespace, cluster) \in SUBSET Pairs
  BY DEF Svgs!Matching
<1>2. Svgs!ScopeOf(wildcard, mine, namespace, cluster) \in {Svgs!NoPairs} \cup {Svgs!Stored(s) : s \in SUBSET Pairs}
  BY <1>1 DEF Svgs!ScopeOf
<1> QED
  BY <1>2 DEF Svgs!Badge

LEMMA BadgesTypedNext ==
    ASSUME Svgs!ConstantsAssumption, BadgesInv, BadgesTyped, Svgs!Next \/ UNCHANGED <<clock, badgesVars>>
    PROVE  BadgesTyped'
<1>0. DOMAIN svgs \subseteq Tokens /\ reader = [r \in Requests |-> reader[r]]
  BY DEF BadgesInv
<1>1. CASE UNCHANGED <<clock, badgesVars>>
  BY <1>1 DEF badgesVars, BadgesTyped
<1>2. CASE Svgs!Tick
  BY <1>2, BadgesClock DEF Svgs!Tick, BadgesTyped
<1>3. ASSUME NEW t \in Tokens, NEW wildcard \in BOOLEAN, NEW mine \in SUBSET Pairs,
             NEW namespace \in Svgs!NamespaceNames \cup {AnyOf}, NEW cluster \in Svgs!Clusters \cup {AnyOf},
             Svgs!Create(t, wildcard, mine, namespace, cluster)
      PROVE  BadgesTyped'
  <2> DEFINE badge == [namespace |-> namespace, cluster |-> cluster,
                       scope |-> Svgs!ScopeOf(wildcard, mine, namespace, cluster), allowed |-> mine]
  <2>1. UNCHANGED <<clock, spent, svgs, reader>> /\ badges' = Svgs!With(badges, t, badge)
    BY <1>3 DEF Svgs!Create
  <2>2. badge \in Svgs!Badge
    BY CreatedBadgeTyped
  <2>3. DOMAIN badges' = DOMAIN badges \cup {t} /\ \A s \in DOMAIN badges' : badges'[s] = IF s = t THEN badge ELSE badges[s]
    BY <2>1 DEF Svgs!With
  <2> HIDE DEF badge
  <2> QED
    BY <2>1, <2>2, <2>3 DEF BadgesTyped
<1>4. ASSUME NEW t \in Tokens, Svgs!Delete(t)
      PROVE  BadgesTyped'
  <2>1. UNCHANGED <<clock, badges, spent, reader>> /\ svgs' = Svgs!Restrict(svgs, DOMAIN svgs \ {t})
    BY <1>4 DEF Svgs!Delete
  <2> QED
    BY <2>1 DEF BadgesTyped, Svgs!Restrict
<1>5. ASSUME NEW t \in Tokens, Svgs!DeleteCommit(t)
      PROVE  BadgesTyped'
  <2>1. /\ UNCHANGED <<clock, svgs, reader>> /\ badges' = Svgs!Restrict(badges, DOMAIN badges \ {t})
        /\ spent' = [s \in DOMAIN spent \cup {t} |-> IF s = t THEN clock ELSE spent[s]]
    BY <1>5 DEF Svgs!DeleteCommit, Svgs!With
  <2>2. DOMAIN badges' \subseteq Tokens /\ \A s \in DOMAIN badges' : badges'[s] \in Svgs!Badge
    BY <2>1 DEF BadgesTyped, Svgs!Restrict
  <2>3. DOMAIN spent' \subseteq Tokens /\ spent' \in [DOMAIN spent' -> Svgs!Times]
    BY <2>1 DEF BadgesTyped
  <2> QED
    BY <2>1, <2>2, <2>3 DEF BadgesTyped
<1>6. ASSUME NEW r \in Requests, NEW t \in Tokens, Svgs!Ask(r, t)
      PROVE  BadgesTyped'
  <2>1. PICK task : /\ reader' = [reader EXCEPT ![r] = task]
                    /\ task.step = "render" => task.pairs \subseteq Pairs
    <3>1. CASE t \in DOMAIN svgs /\ ~Svgs!Expired(t)
      <4> DEFINE task == Svgs!Shown(t, svgs[t].pairs)
      <4>1. reader' = [reader EXCEPT ![r] = task]
        BY <1>6, <3>1 DEF Svgs!Ask
      <4>2. task.step # "render"
        BY DEF Svgs!Shown
      <4> HIDE DEF task
      <4> QED
        BY <4>1, <4>2
    <3>2. CASE ~(t \in DOMAIN svgs /\ ~Svgs!Expired(t)) /\ t \in DOMAIN badges
      <4> DEFINE task == [step |-> "render", token |-> t, since |-> clock, pairs |-> Svgs!Counted(badges[t])]
      <4>1. reader' = [reader EXCEPT ![r] = task]
        BY <1>6, <3>2 DEF Svgs!Ask
      <4>2. task.pairs \subseteq Pairs
        BY <3>2, CountedPairs DEF BadgesTyped
      <4> QED
        BY <4>1, <4>2
    <3>3. CASE ~(t \in DOMAIN svgs /\ ~Svgs!Expired(t)) /\ t \notin DOMAIN badges
      <4>1. reader' = [reader EXCEPT ![r] = Svgs!Idle]
        BY <1>6, <3>3 DEF Svgs!Ask
      <4>2. Svgs!Idle.step # "render"
        BY DEF Svgs!Idle
      <4> QED
        BY <4>1, <4>2
    <3> QED
      BY <3>1, <3>2, <3>3
  <2>2. \A s \in Requests : reader'[s].step = "render" => reader'[s].pairs \subseteq Pairs
    BY <1>0, <2>1 DEF BadgesTyped
  <2> QED
    BY <1>6, <2>2 DEF Svgs!Ask, BadgesTyped
<1>7. ASSUME NEW r \in Requests, Svgs!Render(r)
      PROVE  BadgesTyped'
  <2> DEFINE image == [pairs |-> reader[r].pairs, at |-> clock]
  <2>1. /\ UNCHANGED <<clock, badges, spent>> /\ reader[r].step = "render"
        /\ svgs' = svgs \/ \E s \in SUBSET DOMAIN svgs : svgs' = Svgs!With(Svgs!Restrict(svgs, s), reader[r].token, image)
        /\ reader' = [reader EXCEPT ![r] = Svgs!Shown(reader[r].token, reader[r].pairs)]
    BY <1>7 DEF Svgs!Render, Svgs!Evicted, Svgs!Evict, Svgs!Kept
  <2>2. image.pairs \subseteq Pairs /\ image.at \in Svgs!Times
    BY <2>1 DEF BadgesTyped
  <2> HIDE DEF image
  <2>3. \A t \in DOMAIN svgs' : svgs'[t].pairs \subseteq Pairs /\ svgs'[t].at \in Svgs!Times
    <3>1. ASSUME NEW s \in SUBSET DOMAIN svgs, svgs' = Svgs!With(Svgs!Restrict(svgs, s), reader[r].token, image),
                 NEW t \in DOMAIN svgs'
          PROVE  svgs'[t] = image \/ (t \in DOMAIN svgs /\ svgs'[t] = svgs[t])
      BY <3>1 DEF Svgs!With, Svgs!Restrict
    <3> QED
      BY <2>1, <2>2, <3>1 DEF BadgesTyped
  <2>4. \A s \in Requests : reader'[s].step = "render" => reader'[s].pairs \subseteq Pairs
    BY <1>0, <2>1 DEF Svgs!Shown, BadgesTyped
  <2> QED
    BY <2>1, <2>3, <2>4 DEF BadgesTyped
<1>8. CASE Svgs!Restart
  BY <1>8 DEF Svgs!Restart, Svgs!Idle, BadgesTyped
<1> QED
  BY <1>1, <1>2, <1>3, <1>4, <1>5, <1>6, <1>7, <1>8 DEF Svgs!Next

LEMMA BadgesType ==
    ASSUME BadgesInv, BadgesTyped
    PROVE  Svgs!TypeOK
  BY DEF BadgesInv, BadgesTyped, ReaderOK, Svgs!TypeOK

-----------------------------------------------------------------------------
GotOK(task) == task.step = "read" => task.got.read_at \in EffScores!Times /\ task.got.score \in Scores \cup {-1}

ScoresTyped ==
    /\ clock \in EffScores!Times
    /\ rows \in [Images -> EffScores!Row \cup {EffScores!NotScanned}]
    /\ scores.read_at \in EffScores!Times \cup {-1} /\ scores.score \in Scores \cup {-1}
    /\ scoresFailed \in EffScores!Times \cup {-1}
    /\ scoresLock \in Requests \cup {"no one", "loop"}
    /\ scoresLoop.step \in {"idle", "query", "read"} /\ GotOK(scoresLoop)
    /\ \A q \in Requests : query[q].step \in {"idle", "wait", "query", "read", "done"} /\ GotOK(query[q])

\* A finite set of numbers has a greatest one: the numbers above it are fewest.
LEMMA GreatestExists ==
    ASSUME NEW S \in SUBSET Nat, S # {}, IsFiniteSet(S)
    PROVE  \E x \in S : \A y \in S : x >= y
<1> DEFINE Above(x) == {y \in S : y > x}
           T == {Above(x) : x \in S}
<1>1. T \in SUBSET FiniteSubsetsOf(S) /\ T # {}
  <2>1. ASSUME NEW x \in S PROVE Above(x) \in FiniteSubsetsOf(S)
    <3>1. IsFiniteSet(Above(x))
      BY FS_Subset
    <3> HIDE DEF Above
    <3>2. Above(x) \subseteq S
      BY DEF Above
    <3> QED
      BY <3>1, <3>2 DEF FiniteSubsetsOf
  <2> HIDE DEF Above
  <2> QED
    BY <2>1
<1>2. \E X \in T : \A Y \in T : ~(<<Y, X>> \in StrictSubsetOrdering(S))
  <2> HIDE DEF T
  <2> QED
    BY <1>1, FS_StrictSubsetOrderingWellFounded, WFMin
<1>3. PICK x \in S : \A Y \in T : ~(<<Y, Above(x)>> \in StrictSubsetOrdering(S))
  BY <1>2
<1>4. ASSUME NEW y \in S, y > x PROVE FALSE
  <2>1. Above(y) \in T /\ Above(x) \in T
    BY <1>3, <1>4
  <2>2. y \in Above(x) /\ y \notin Above(y) /\ Above(y) \subseteq Above(x)
    <3>1. ~(y > y) /\ \A z \in S : z > y => z > x
      BY <1>4
    <3>2. y \in Above(x)
      BY <1>4
    <3>3. y \notin Above(y)
      BY <3>1
    <3>4. Above(y) \subseteq Above(x)
      BY <3>1
    <3> QED
      BY <3>2, <3>3, <3>4
  <2> HIDE DEF T, Above
  <2> QED
    BY <1>1, <1>3, <2>1, <2>2 DEF StrictSubsetOrdering, FiniteSubsetsOf
<1> QED
  BY <1>4

\* The largest of some known scores is one of them.
LEMMA LargestScore ==
    ASSUME NEW S \in SUBSET Scores, Scores \subseteq Nat, S # {}, IsFiniteSet(S)
    PROVE  EffScores!Max(S) \in S
<1>1. \E x \in S : \A y \in S : x >= y
  BY GreatestExists
<1> QED
  BY <1>1 DEF EffScores!Max

\* What is read off the rows that are known is a finite set.
LEMMA KnownFinite ==
    ASSUME IsFiniteSet(Images), NEW f, NEW S, \A x \in S : \E i \in Images : x = f[i]
    PROVE  IsFiniteSet(S)
<1> DEFINE J == {i \in Images : f[i] \in S}
           g == [i \in J |-> f[i]]
<1>1. IsFiniteSet(J)
  BY FS_Subset
<1>2. g \in Surjection(J, S)
  BY DEF Surjection
<1> HIDE DEF J, g
<1> QED
  BY <1>1, <1>2, FS_Surjection

LEMMA ScoreRead ==
    ASSUME EffScores!ConstantsAssumption, rows \in [Images -> EffScores!Row \cup {EffScores!NotScanned}]
    PROVE  EffScores!EffectiveScore \in Scores \cup {-1}
<1>0. IsFiniteSet(Images) /\ Scores \subseteq Nat /\ MaxTime["scores"] \in Nat
  BY SameFinite DEF EffScores!ConstantsAssumption
<1>1. ASSUME NEW row \in EffScores!Known
      PROVE  /\ row.score \in Scores /\ row.scanned \in 0 .. MaxTime["scores"]
             /\ \E i \in Images : row = rows[i]
  <2>1. row \in EffScores!Row
    BY DEF EffScores!Known
  <2> QED
    BY <2>1 DEF EffScores!Row, EffScores!Times, EffScores!Known
<1>2. ASSUME NEW feed \in EffScores!RatedBy
      PROVE  EffScores!FeedScore(feed) \in Scores
  <2> DEFINE fresh == {known \in EffScores!Known : known.feed = feed /\ EffScores!Freshest(known)}
             S == {row.score : row \in fresh}
  <2>1. \E row \in EffScores!Known : row.feed = feed /\ EffScores!Freshest(row)
    <3>1. PICK some \in EffScores!Known : some.feed = feed
      BY DEF EffScores!RatedBy
    <3> DEFINE alike == {row \in EffScores!Known : row.feed = feed /\ row.component = some.component}
               ages == {MaxTime["scores"] - row.scanned : row \in alike}
    <3>2. ages \in SUBSET Nat
      BY <1>0, <1>1
    <3>3. ages # {}
      BY <3>1
    <3>4. \E age \in ages : \A other \in ages : age <= other
      <4> HIDE DEF ages
      <4> QED
        BY <3>2, <3>3, LeastExists
    <3>5. PICK row \in alike : \A other \in alike : MaxTime["scores"] - row.scanned <= MaxTime["scores"] - other.scanned
      BY <3>4
    <3>6. ASSUME NEW other \in EffScores!Known, other.feed = row.feed, other.component = row.component
          PROVE  other.scanned <= row.scanned
      BY <1>0, <1>1, <3>5, <3>6
    <3> QED
      BY <3>5, <3>6 DEF EffScores!Freshest
  <2>2. S # {} /\ S \in SUBSET Scores
    BY <1>1, <2>1
  <2>3. IsFiniteSet(S)
    <3> DEFINE f == [i \in Images |-> rows[i].score]
    <3>1. \A x \in S : \E i \in Images : x = f[i]
      BY <1>1
    <3> HIDE DEF S, f
    <3> QED
      BY <1>0, <3>1, KnownFinite
  <2>4. EffScores!FeedScore(feed) = EffScores!Max(S)
    BY DEF EffScores!FeedScore
  <2> HIDE DEF S
  <2> QED
    BY <1>0, <2>2, <2>3, <2>4, LargestScore
<1>3. ASSUME EffScores!RatedBy # {}
      PROVE  EffScores!EffectiveScore \in Scores
  <2> DEFINE S == {EffScores!FeedScore(feed) : feed \in EffScores!RatedBy}
  <2>1. S # {} /\ S \in SUBSET Scores
    BY <1>2, <1>3
  <2>2. IsFiniteSet(S)
    <3> DEFINE f == [i \in Images |-> EffScores!FeedScore(rows[i].feed)]
    <3>1. \A x \in S : \E i \in Images : x = f[i]
      BY <1>1 DEF EffScores!RatedBy
    <3> HIDE DEF S, f
    <3> QED
      BY <1>0, <3>1, KnownFinite
  <2>3. EffScores!EffectiveScore = EffScores!Max(S)
    BY <1>3 DEF EffScores!EffectiveScore
  <2> HIDE DEF S
  <2> QED
    BY <1>0, <2>1, <2>2, <2>3, LargestScore
<1> QED
  BY <1>3 DEF EffScores!EffectiveScore, EffScores!Raw

LEMMA ScoresTypedInit ==
    ASSUME EffScores!ConstantsAssumption, EffScores!Init
    PROVE  ScoresTyped
<1>1. /\ scoresLoop.step = "idle" /\ scores.read_at = -1 /\ scores.score = -1 /\ clock = 0 /\ scoresLock = "no one"
      /\ scoresFailed = -1 /\ rows = [i \in Images |-> EffScores!NotScanned] /\ \A q \in Requests : query[q].step = "idle"
  BY DEF EffScores!Init, EffScores!Idle, EffScores!Empty, EffScores!Never, EffScores!NoOne, EffScores!Raw
<1> QED
  BY <1>1, ScoresClock DEF ScoresTyped, GotOK

LEMMA ScoresTypedNext ==
    ASSUME EffScores!ConstantsAssumption, ScoresInv, ScoresTyped, EffScores!Next \/ UNCHANGED <<clock, scoresVars>>
    PROVE  ScoresTyped'
<1> USE DEF EffScores!NoOne, EffScores!Never
<1>0. query = [q \in Requests |-> query[q]]
  BY DEF ScoresInv, ScoresLocked
<1>1. CASE UNCHANGED <<clock, scoresVars>>
  BY <1>1 DEF scoresVars, ScoresTyped, GotOK
<1>2. CASE EffScores!Tick
  BY <1>2, ScoresClock DEF EffScores!Tick, ScoresTyped, GotOK
<1>3. ASSUME NEW i \in Images, NEW row \in EffScores!Row, EffScores!Scan(i, row)
      PROVE  ScoresTyped'
  BY <1>3 DEF EffScores!Scan, ScoresTyped, GotOK
\* Nothing has been loaded, or what some task has read.
<1>4. ASSUME UNCHANGED <<clock, rows>>,
             scoresFailed' \in {scoresFailed, clock, -1},
             scores' \in {scores, EffScores!Empty} \/ \E t : GotOK(t) /\ t.step = "read" /\ scores' = t.got
      PROVE  /\ clock' \in EffScores!Times /\ rows' \in [Images -> EffScores!Row \cup {EffScores!NotScanned}]
             /\ scores'.read_at \in EffScores!Times \cup {-1} /\ scores'.score \in Scores \cup {-1}
             /\ scoresFailed' \in EffScores!Times \cup {-1}
  <2>1. scores'.read_at \in EffScores!Times \cup {-1} /\ scores'.score \in Scores \cup {-1}
    <3>1. EffScores!Empty.read_at = -1 /\ EffScores!Empty.score = -1
      BY DEF EffScores!Empty, EffScores!Raw
    <3>2. CASE scores' = scores
      BY <3>2 DEF ScoresTyped
    <3>3. CASE scores' = EffScores!Empty
      BY <3>1, <3>3
    <3>4. ASSUME NEW t, GotOK(t), t.step = "read", scores' = t.got
          PROVE  scores'.read_at \in EffScores!Times \cup {-1} /\ scores'.score \in Scores \cup {-1}
      BY <3>4 DEF GotOK
    <3> QED
      BY <1>4, <3>2, <3>3, <3>4
  <2> QED
    BY <1>4, <2>1 DEF ScoresTyped
<1>5. EffScores!Read.step = "read" /\ GotOK(EffScores!Read)
  <2>1. EffScores!EffectiveScore \in Scores \cup {-1}
    BY ScoreRead DEF ScoresTyped
  <2> QED
    BY <2>1 DEF EffScores!Read, GotOK, ScoresTyped
<1>6. CASE EffScores!Restart
  <2>1. \A q \in Requests : query'[q].step = "idle"
    BY <1>6 DEF EffScores!Restart, EffScores!Idle
  <2> QED
    BY <1>4, <1>6, <2>1 DEF EffScores!Restart, EffScores!Idle, ScoresTyped, GotOK
<1>7. CASE EffScores!Loop
  <2>1. /\ scoresLoop'.step \in {"idle", "query"} \/ scoresLoop' = EffScores!Read
        /\ UNCHANGED query /\ scoresLock' \in {scoresLock, "no one", "loop"}
    <3>1. CASE EffScores!LoopLock
      <4>1. scoresLoop'.step = "query"
        BY <1>7, <3>1, ScoresLoopStep DEF EffScores!LoopLock
      <4> QED
        BY <3>1, <4>1 DEF EffScores!LoopLock
    <3>2. CASE EffScores!LoopRead
      BY <3>2 DEF EffScores!LoopRead
    <3>3. CASE EffScores!LoopPublish \/ EffScores!LoopFails
      <4>1. EffScores!Idle.step = "idle"
        BY DEF EffScores!Idle
      <4>2. scoresLoop' = EffScores!Idle /\ UNCHANGED query /\ scoresLock' = "no one"
        BY <3>3 DEF EffScores!LoopPublish, EffScores!LoopFails
      <4> QED
        BY <4>1, <4>2
    <3> QED
      BY <1>7, <3>1, <3>2, <3>3 DEF EffScores!Loop
  <2>2. /\ UNCHANGED <<clock, rows>> /\ scoresFailed' \in {scoresFailed, clock, -1}
        /\ scores' \in {scores, EffScores!Empty} \/ \E t : GotOK(t) /\ t.step = "read" /\ scores' = t.got
    BY <1>7 DEF EffScores!Loop, EffScores!LoopLock, EffScores!LoopRead, EffScores!LoopPublish, EffScores!LoopFails, ScoresTyped
  <2>3. scoresLoop'.step \in {"idle", "query", "read"} /\ GotOK(scoresLoop')
    BY <1>5, <2>1 DEF GotOK
  <2> QED
    BY <1>4, <2>1, <2>2, <2>3 DEF ScoresTyped, GotOK
<1>8. ASSUME NEW q \in Requests, EffScores!Ask(q) \/ EffScores!Load(q)
      PROVE  ScoresTyped'
  <2>1. PICK task : /\ query' = [query EXCEPT ![q] = task]
                    /\ task.step \in {"wait", "query", "done"} \/ task = EffScores!Read
    <3>1. /\ \A got : EffScores!Done(got).step = "done"
          /\ [step |-> "wait", got |-> EffScores!Empty].step = "wait"
          /\ [step |-> "query", got |-> EffScores!Empty].step = "query"
      BY DEF EffScores!Done
    <3>2. CASE EffScores!LoadRead(q)
      BY <3>2 DEF EffScores!LoadRead
    <3>3. CASE EffScores!Ask(q)
      BY <3>1, <3>3 DEF EffScores!Ask
    <3>4. CASE EffScores!LoadLock(q)
      BY <3>1, <3>4 DEF EffScores!LoadLock
    <3>5. CASE EffScores!LoadPublish(q) \/ EffScores!LoadFails(q)
      BY <3>1, <3>5 DEF EffScores!LoadPublish, EffScores!LoadFails
    <3> QED
      BY <1>8, <3>2, <3>3, <3>4, <3>5 DEF EffScores!Load
  <2>2. /\ UNCHANGED <<clock, rows, scoresLoop>> /\ scoresFailed' \in {scoresFailed, clock, -1}
        /\ scores' \in {scores, EffScores!Empty} \/ \E t : GotOK(t) /\ t.step = "read" /\ scores' = t.got
        /\ scoresLock' \in {scoresLock, "no one", q}
    BY <1>8 DEF EffScores!Load, EffScores!Ask, EffScores!LoadLock, EffScores!LoadRead, EffScores!LoadPublish,
       EffScores!LoadFails, ScoresTyped
  <2>3. \A r \in Requests : query'[r].step \in {"idle", "wait", "query", "read", "done"} /\ GotOK(query'[r])
    <3>1. task.step \in {"idle", "wait", "query", "read", "done"} /\ GotOK(task)
      BY <1>5, <2>1 DEF GotOK
    <3> QED
      BY <1>0, <2>1, <3>1 DEF ScoresTyped
  <2> QED
    BY <1>4, <2>2, <2>3 DEF ScoresTyped, GotOK
<1> QED
  BY <1>1, <1>2, <1>3, <1>6, <1>7, <1>8 DEF EffScores!Next

LEMMA ScoresType ==
    ASSUME ScoresTyped
    PROVE  EffScores!TypeOK
  BY DEF ScoresTyped, EffScores!TypeOK, EffScores!Never, EffScores!NoOne, EffScores!Raw

-----------------------------------------------------------------------------
\* The times a spoke keeps are times of the clock.
DatesTyped(times) ==
    /\ clock \in times
    /\ revoked \in [Spoke!Grants -> times \cup {-1}] /\ changed \in [Groups -> times \cup {-1}]
    /\ cache.fetched_at \in times \cup {-1} /\ token.fetched_at \in times \cup {-1}

LEMMA DatesNext ==
    ASSUME NEW times, DatesTyped(times), clock' \in times,
           UNCHANGED revoked \/ \E a \in Spoke!Grants : Spoke!Annotation(a),
           UNCHANGED changed \/ \E g \in Groups : Spoke!Membership(g),
           cache' = cache \/ cache'.fetched_at = clock, token' = token \/ token'.fetched_at = clock
    PROVE  DatesTyped(times)'
<1>1. revoked' \in [Spoke!Grants -> times \cup {-1}]
  BY DEF DatesTyped, Spoke!Annotation
<1>2. changed' \in [Groups -> times \cup {-1}]
  BY DEF DatesTyped, Spoke!Membership
<1> QED
  BY <1>1, <1>2 DEF DatesTyped

LEMMA SpokeClock ==
    ASSUME Spoke!ConstantsAssumption
    PROVE  0 \in Spoke!Times /\ \A t \in Spoke!Times : t \in Nat /\ (t < MaxTime["spoke"] => t + 1 \in Spoke!Times)
<1>1. MaxTime["spoke"] \in Nat
  BY DEF Spoke!ConstantsAssumption
<1> QED
  BY <1>1, BoundedClock DEF Spoke!Times

LEMMA SpokeTypedInit ==
    ASSUME Spoke!ConstantsAssumption, Spoke!Init
    PROVE  DatesTyped(Spoke!Times)
  BY SpokeClock DEF DatesTyped, Spoke!Init, Spoke!Never, Spoke!Nothing, Spoke!NoEntry

\* What a request in the spoke leaves in the cache of tokens.
LEMMA TokenDated ==
    ASSUME NEW r, Spoke!Arrive(r) \/ Spoke!Lookup(r) \/ Spoke!Forward(r)
    PROVE  UNCHANGED <<clock, revoked, changed, cache>> /\ (token' = token \/ token'.fetched_at = clock)
<1>1. CASE Spoke!LookupDone(r)
  BY <1>1 DEF Spoke!LookupDone, Spoke!directory
<1> QED
  BY <1>1 DEF Spoke!Arrive, Spoke!Lookup, Spoke!Forward, Spoke!LookupAnswered, Spoke!LookupFails, Spoke!directory

LEMMA SpokeTypedNext ==
    ASSUME Spoke!ConstantsAssumption, DatesTyped(Spoke!Times), Spoke!Next \/ UNCHANGED <<clock, proxyVars>>
    PROVE  DatesTyped(Spoke!Times)'
<1>1. CASE UNCHANGED <<clock, proxyVars>>
  BY <1>1 DEF proxyVars, DatesTyped
<1>2. CASE Spoke!Tick
  <2>1. clock' \in Spoke!Times
    BY <1>2, SpokeClock DEF Spoke!Tick, DatesTyped
  <2> QED
    BY <1>2, <2>1, DatesNext DEF Spoke!Tick, Spoke!directory
<1>3. CASE Spoke!Cluster
  <2>1. UNCHANGED <<clock, cache, token>>
        /\ (UNCHANGED revoked \/ \E a \in Spoke!Grants : Spoke!Annotation(a))
        /\ (UNCHANGED changed \/ \E g \in Groups : Spoke!Membership(g))
    BY <1>3 DEF Spoke!Cluster, Spoke!Annotation, Spoke!Membership
  <2>2. clock' \in Spoke!Times
    BY <2>1 DEF DatesTyped
  <2> QED
    BY <2>1, <2>2, DatesNext
<1>4. CASE Spoke!Refresh
  <2>1. UNCHANGED <<clock, revoked, changed, token>> /\ (cache' = cache \/ cache'.fetched_at = clock)
    BY <1>4 DEF Spoke!Refresh, Spoke!ListAnswered, Spoke!Update, Spoke!ListFails, Spoke!directory
  <2>2. clock' \in Spoke!Times
    BY <2>1 DEF DatesTyped
  <2> QED
    BY <2>1, <2>2, DatesNext
<1>5. ASSUME NEW r \in Requests, Spoke!Arrive(r) \/ Spoke!Lookup(r) \/ Spoke!Forward(r)
      PROVE  DatesTyped(Spoke!Times)'
  <2>1. clock' \in Spoke!Times
    BY <1>5, TokenDated DEF DatesTyped
  <2> QED
    BY <1>5, <2>1, TokenDated, DatesNext
<1> QED
  BY <1>1, <1>2, <1>3, <1>4, <1>5 DEF Spoke!Next

LEMMA SpokeType ==
    ASSUME SpokeInv, DatesTyped(Spoke!Times)
    PROVE  Spoke!TypeOK
  BY DEF SpokeInv, DirectoryOK, TokenOK, ListOK, CacheOK, LookupOK, DatesTyped, Spoke!TypeOK, Spoke!Never, Spoke!NoList

-----------------------------------------------------------------------------
\* The snapshot is dated, and so is the one that a request has seen.
SnapshotDated == snapshot.seen \in Nat /\ snapshot.seen <= clock

HubTaskTyped(task) ==
    /\ task.step = "idle" => task = Account!Hub!Idle
    /\ task.step # "idle" => task.headers \in Account!Hub!Headers /\ (task.saw # NoRow => SnapshotDated)

AccountTyped ==
    /\ DatesTyped(Account!Inject!Times)
    /\ annotated \subseteq Spoke!Grants /\ cache.pairs \subseteq Spoke!Grants
    /\ list.step \in {"asleep", "listed"}
    /\ \A p \in Lookups : spoke[p].step \in {"lookup", "answered", "ready"} => spoke[p].own \subseteq Namespaces
    /\ snapshot # NoRow => SnapshotDated
    /\ \A r \in Requests : HubTaskTyped(req[r])

LEMMA AccountClock ==
    ASSUME Account!ConstantsAssumption
    PROVE  /\ 0 \in Account!Inject!Times
           /\ \A t \in Account!Inject!Times : t \in Nat /\ (t < MaxTime["account"] => t + 1 \in Account!Inject!Times)
<1>1. MaxTime["account"] \in Nat
  BY DEF Account!ConstantsAssumption, Account!Inject!ConstantsAssumption
<1> QED
  BY <1>1, BoundedClock DEF Account!Inject!Times

LEMMA AccountTypedInit ==
    ASSUME Account!ConstantsAssumption, Account!Init
    PROVE  AccountTyped
<1>1. /\ \A p \in Lookups : spoke[p].step = "idle"
      /\ clock = 0 /\ changed = [g \in Groups |-> -1] /\ revoked = [a \in Account!Inject!Grants |-> -1]
      /\ annotated \subseteq Account!Inject!Grants /\ cache.pairs = {} /\ cache.fetched_at = -1 /\ list.step = "asleep"
      /\ token.fetched_at = -1 /\ snapshot = NoRow
      /\ \A r \in Requests : req[r] = Account!Hub!Idle
  BY DEF Account!Init, Account!Inject!Init, Account!Hub!Init, Account!Inject!Idle,
         Account!Inject!Never, Account!Inject!NoEntry, Account!Inject!Nothing, Account!Inject!NoList
<1>2. Account!Inject!Grants = Spoke!Grants
  BY DEF Account!Inject!Grants, Spoke!Grants
<1>3. DatesTyped(Account!Inject!Times)
  BY <1>1, <1>2, AccountClock DEF DatesTyped
<1> QED
  BY <1>1, <1>2, <1>3 DEF AccountTyped, HubTaskTyped, Account!Hub!Idle

\* The namespaces a spoke knows are those of its cluster.
LEMMA KnownNamespaces ==
    ASSUME AccountTyped, NEW principals
    PROVE  Spoke!NamespacesOf(principals) \subseteq Namespaces /\ Account!Inject!NamespacesOf(principals) \subseteq Namespaces
<1>1. \A a \in cache.pairs : a[1] \in Namespaces
  BY DEF AccountTyped, Spoke!Grants
<1> QED
  BY <1>1 DEF Spoke!NamespacesOf, Account!Inject!NamespacesOf

\* What a spoke forwards is what the hub takes.
LEMMA HeadersTyped ==
    ASSUME AccountTyped, NEW p \in Lookups, LookupOK(spoke[p], 0), spoke[p].step = "ready"
    PROVE  Account!Believed(Account!Inject!Headers(p)) \in Account!Hub!Headers
<1> DEFINE h == Account!Believed(Account!Inject!Headers(p))
           all == spoke[p].groups \cap WildcardGroups # {}
           spaces == IF all THEN {} ELSE spoke[p].own \cup Account!Inject!NamespacesOf(spoke[p].groups)
<1>1. h = [sec |-> SecTeamGroup \in spoke[p].groups, email |-> spoke[p].email, all |-> all, namespaces |-> spaces]
  BY DEF Account!Believed, Account!Inject!Headers
<1>2. spoke[p].email \in BOOLEAN /\ spoke[p].own \subseteq Namespaces
  BY DEF LookupOK, AccountTyped
<1>3. spaces \in SUBSET Namespaces /\ (all => spaces = {}) /\ all \in BOOLEAN
  BY <1>2, KnownNamespaces
<1> HIDE DEF all, spaces
<1> QED
  BY <1>1, <1>2, <1>3 DEF Account!Hub!Headers

\* A step of a request in the spoke.
LEMMA OwnTyped ==
    ASSUME AccountTyped, spoke = [q \in Lookups |-> spoke[q]], NEW p \in Lookups,
           Spoke!Arrive(p) \/ Spoke!Lookup(p) \/ Spoke!Forward(p)
    PROVE  \A q \in Lookups : spoke'[q].step \in {"lookup", "answered", "ready"} => spoke'[q].own \subseteq Namespaces
<1>1. PICK task : /\ spoke' = [spoke EXCEPT ![p] = task]
                  /\ task.step \in {"lookup", "answered", "ready"} => task.own \subseteq Namespaces
  <2>1. CASE Spoke!Arrive(p)
    <3> DEFINE own == Spoke!NamespacesOf({User})
               ready == Spoke!Ready(own, token.groups, token.email)
               asking == [step |-> "lookup", since |-> clock, own |-> own]
    <3>1. \E task \in {ready, asking} : spoke' = [spoke EXCEPT ![p] = task]
      BY <2>1 DEF Spoke!Arrive
    <3>2. ready.own = own /\ asking.own = own /\ own \subseteq Namespaces
      BY KnownNamespaces DEF Spoke!Ready
    <3> HIDE DEF own, ready, asking
    <3> QED
      BY <3>1, <3>2
  <2>2. CASE Spoke!LookupAnswered(p)
    <3> DEFINE task == [step |-> "answered", since |-> spoke[p].since, own |-> spoke[p].own, groups |-> members]
    <3>1. spoke' = [spoke EXCEPT ![p] = task] /\ spoke[p].step = "lookup"
      BY <2>2 DEF Spoke!LookupAnswered
    <3>2. task.own = spoke[p].own
      OBVIOUS
    <3> HIDE DEF task
    <3> QED
      BY <3>1, <3>2 DEF AccountTyped
  <2>3. CASE Spoke!LookupDone(p)
    <3>1. PICK email \in BOOLEAN : spoke' = [spoke EXCEPT ![p] = Spoke!Ready(spoke[p].own, spoke[p].groups, email)]
      BY <2>3 DEF Spoke!LookupDone
    <3>2. Spoke!Ready(spoke[p].own, spoke[p].groups, email).own = spoke[p].own /\ spoke[p].step = "answered"
      BY <2>3 DEF Spoke!Ready, Spoke!LookupDone
    <3> QED
      BY <3>1, <3>2 DEF AccountTyped
  <2>4. CASE Spoke!LookupFails(p) \/ Spoke!Forward(p)
    <3>1. spoke' = [spoke EXCEPT ![p] = Spoke!Idle] /\ Spoke!Idle.step = "idle"
      BY <2>4 DEF Spoke!LookupFails, Spoke!Forward, Spoke!Idle
    <3> QED
      BY <3>1
  <2> QED
    BY <2>1, <2>2, <2>3, <2>4 DEF Spoke!Lookup
<1> QED
  BY <1>1 DEF AccountTyped

\* A step of a request in the hub.
LEMMA HubServesTyped ==
    ASSUME HubInv, clock \in Nat, AccountTyped, NEW r \in Requests, Account!Hub!Serve(r)
    PROVE  (snapshot' # NoRow => SnapshotDated') /\ \A s \in Requests : HubTaskTyped(req[s])'
<1>0. /\ \A s \in Requests : HubTaskOK(req[s]) /\ HubTaskTyped(req[s])
      /\ req = [s \in Requests |-> req[s]] /\ (snapshot # NoRow => SnapshotDated) /\ clock' = clock
  BY DEF HubInv, AccountTyped, Account!Hub!Serve
<1>1. CASE Account!Hub!StoreSnapshot(r)
  <2>1. snapshot' = Account!Hub!Written(req[r].saw, req[r].headers) /\ req' = [req EXCEPT ![r] = Account!Hub!Idle]
        /\ req[r].step = "snapshot"
    BY <1>1 DEF Account!Hub!StoreSnapshot, Account!Hub!Served
  <2>2. snapshot'.seen = clock \/ (req[r].saw # NoRow /\ snapshot'.seen = snapshot.seen)
    <3> DEFINE wanted == [hash |-> Account!Hub!ScopeOf(req[r].headers), all |-> req[r].headers.all,
                          namespaces |-> req[r].headers.namespaces, seen |-> clock]
    <3>1. wanted.seen = clock /\ "seen" \in DOMAIN wanted
      OBVIOUS
    <3>2. snapshot' = IF req[r].saw = NoRow THEN wanted
                      ELSE [f \in DOMAIN wanted |-> IF wanted[f] # req[r].saw[f] THEN wanted[f] ELSE snapshot[f]]
      BY <2>1 DEF Account!Hub!Written
    <3> HIDE DEF wanted
    <3> QED
      BY <3>1, <3>2
  <2>3. SnapshotDated'
    BY <1>0, <2>1, <2>2 DEF HubTaskTyped, SnapshotDated
  <2> QED
    BY <1>0, <2>1, <2>3 DEF HubTaskTyped, Account!Hub!Idle
<1>2. CASE ~Account!Hub!StoreSnapshot(r)
  <2>1. snapshot' = snapshot
    BY <1>2 DEF Account!Hub!Serve, Account!Hub!Account, Account!Hub!Record, Account!Hub!Load, Account!Hub!Create,
       Account!Hub!Refreshed, Account!Hub!Sync, Account!Hub!Fail, Account!Hub!LoadSnapshot, Account!Hub!SnapshotFails
  <2>2. PICK task :
            /\ req' = [req EXCEPT ![r] = task]
            /\ \/ task = Account!Hub!Idle
               \/ /\ task.step # "idle" /\ req[r].step # "idle" /\ task.headers = req[r].headers
                  /\ task.saw \in {req[r].saw, snapshot}
    <3>1. CASE Account!Hub!Served(r)
      BY <3>1 DEF Account!Hub!Served
    <3>2. CASE Account!Hub!Load(r) \/ Account!Hub!Refreshed(r)
      <4> DEFINE step == IF req[r].step = "synced" THEN "known"
                         ELSE IF req[r].step = "arrived" /\ user = NoRow THEN "create" ELSE "loaded"
                 task == [req[r] EXCEPT !.step = step, !.row = user]
      <4>1. req' = [req EXCEPT ![r] = task] /\ req[r].step \in {"arrived", "created", "synced"}
        BY <1>0, <3>2 DEF Account!Hub!Load, Account!Hub!Refreshed, Account!Hub!Reads
      <4>2. task.step = step /\ task.headers = req[r].headers /\ task.saw = req[r].saw /\ step # "idle"
        BY <1>0, <4>1 DEF HubTaskOK
      <4> HIDE DEF task
      <4> QED
        BY <4>1, <4>2
    <3>3. CASE Account!Hub!Create(r)
      <4> DEFINE task == [req[r] EXCEPT !.step = "created"]
      <4>1. req' = [req EXCEPT ![r] = task] /\ req[r].step = "create"
        BY <3>3 DEF Account!Hub!Create, Account!Hub!Step
      <4>2. task.step = "created" /\ task.headers = req[r].headers /\ task.saw = req[r].saw
        BY <1>0, <4>1 DEF HubTaskOK
      <4> HIDE DEF task
      <4> QED
        BY <4>1, <4>2
    <3>4. CASE Account!Hub!Sync(r)
      <4> DEFINE step == IF Account!Hub!Adopted(req[r].row, req[r].headers) = req[r].row THEN "known" ELSE "synced"
                 task == [req[r] EXCEPT !.step = step]
      <4>1. req' = [req EXCEPT ![r] = task] /\ req[r].step = "loaded"
        BY <3>4 DEF Account!Hub!Sync, Account!Hub!Step
      <4>2. task.step = step /\ task.headers = req[r].headers /\ task.saw = req[r].saw /\ step # "idle"
        BY <1>0, <4>1 DEF HubTaskOK
      <4> HIDE DEF task
      <4> QED
        BY <4>1, <4>2
    <3>5. CASE Account!Hub!LoadSnapshot(r) /\ ~Account!Hub!Served(r)
      <4> DEFINE task == [req[r] EXCEPT !.saw = snapshot, !.step = "snapshot"]
      <4>1. req' = [req EXCEPT ![r] = task] /\ req[r].step = "known"
        BY <3>5 DEF Account!Hub!LoadSnapshot
      <4>2. task.step = "snapshot" /\ task.headers = req[r].headers /\ task.saw = snapshot
        BY <1>0, <4>1 DEF HubTaskOK
      <4> HIDE DEF task
      <4> QED
        BY <4>1, <4>2
    <3> QED
      BY <1>2, <3>1, <3>2, <3>3, <3>4, <3>5 DEF Account!Hub!Serve, Account!Hub!Account, Account!Hub!Record,
         Account!Hub!Fail, Account!Hub!LoadSnapshot, Account!Hub!SnapshotFails
  <2>3. HubTaskTyped(task)
    BY <1>0, <2>2 DEF HubTaskTyped, Account!Hub!Idle
  <2>4. \A s \in Requests : HubTaskTyped(req'[s])
    BY <1>0, <2>2, <2>3
  <2> QED
    BY <1>0, <2>1, <2>4 DEF HubTaskTyped, SnapshotDated
<1> QED
  BY <1>1, <1>2

LEMMA AccountTypedNext ==
    ASSUME Account!ConstantsAssumption, AccountInv, AccountTyped, Account!Next \/ UNCHANGED <<clock, proxyVars, hubVars>>
    PROVE  AccountTyped'
<1>0. /\ clock \in Nat /\ DatesTyped(Account!Inject!Times) /\ HubInv
      /\ spoke = [p \in Lookups |-> spoke[p]] /\ \A p \in Lookups : LookupOK(spoke[p], 0)
  BY DEF AccountInv, DirectoryOK, AccountTyped
<1>1. CASE UNCHANGED <<clock, proxyVars, hubVars>>
  BY <1>1 DEF proxyVars, hubVars, AccountTyped, DatesTyped, HubTaskTyped, SnapshotDated
<1>2. CASE Account!Tick
  <2>1. UNCHANGED <<annotated, revoked, members, changed, cache, list, token, spoke, user, snapshot, req>>
        /\ clock < MaxTime["account"] /\ clock' = clock + 1
    BY <1>2 DEF Account!Tick, Account!hub, Account!Inject!Tick, Account!Inject!directory
  <2>2. clock' \in Account!Inject!Times
    BY <1>0, <2>1, AccountClock DEF DatesTyped
  <2>3. DatesTyped(Account!Inject!Times)'
    BY <1>0, <2>1, <2>2, DatesNext
  <2>4. SnapshotDated => SnapshotDated'
    BY <1>0, <2>1 DEF SnapshotDated
  <2> QED
    BY <2>1, <2>3, <2>4 DEF AccountTyped, HubTaskTyped
<1>3. ASSUME NEW g \in Groups, Account!Inject!Membership(g), UNCHANGED <<user, snapshot, req>>
      PROVE  AccountTyped'
  <2>1. Spoke!Membership(g) /\ UNCHANGED <<clock, annotated, revoked, cache, list, token, spoke>>
    BY <1>3, SameSpoke DEF Account!Inject!Membership
  <2>2. DatesTyped(Account!Inject!Times)'
    <3>1. clock' \in Account!Inject!Times
      BY <1>0, <2>1 DEF DatesTyped
    <3> QED
      BY <1>0, <2>1, <3>1, DatesNext
  <2> QED
    BY <1>3, <2>1, <2>2 DEF AccountTyped, HubTaskTyped, SnapshotDated
<1>4. ASSUME NEW p \in Lookups, Spoke!Arrive(p) \/ Spoke!Lookup(p) \/ Spoke!Forward(p)
      PROVE  /\ UNCHANGED <<clock, annotated, cache, list>> /\ DatesTyped(Account!Inject!Times)'
             /\ \A q \in Lookups : spoke'[q].step \in {"lookup", "answered", "ready"} => spoke'[q].own \subseteq Namespaces
  <2>1. UNCHANGED <<annotated, list>>
    BY <1>4 DEF Spoke!Arrive, Spoke!Lookup, Spoke!LookupAnswered, Spoke!LookupDone, Spoke!LookupFails,
       Spoke!Forward, Spoke!directory
  <2>2. UNCHANGED <<clock, revoked, changed, cache>> /\ (token' = token \/ token'.fetched_at = clock)
    BY <1>4, TokenDated
  <2>3. clock' \in Account!Inject!Times
    BY <1>0, <2>2 DEF DatesTyped
  <2>4. DatesTyped(Account!Inject!Times)'
    BY <1>0, <2>2, <2>3, DatesNext
  <2> QED
    BY <1>0, <1>4, <2>1, <2>2, <2>4, OwnTyped
<1>5. ASSUME NEW p \in Lookups, Account!Inject!Arrive(p) \/ Account!Inject!Lookup(p), UNCHANGED <<user, snapshot, req>>
      PROVE  AccountTyped'
  <2>1. Spoke!Arrive(p) \/ Spoke!Lookup(p)
    BY <1>5, SameSpoke
  <2> QED
    BY <1>4, <1>5, <2>1 DEF AccountTyped, HubTaskTyped, SnapshotDated
<1>6. ASSUME NEW p \in Lookups, NEW r \in Requests, Account!Forwarded(p, r)
      PROVE  AccountTyped'
  <2> DEFINE h == Account!Believed(Account!Inject!Headers(p))
             task == [step |-> "arrived", since |-> clock, headers |-> h, row |-> NoRow, saw |-> NoRow]
  <2>1. Spoke!Forward(p) /\ spoke[p].step = "ready"
    BY <1>6, SameSpoke DEF Account!Forwarded, Account!Inject!Forward
  <2>2. req' = [req EXCEPT ![r] = task] /\ snapshot' = snapshot
    BY <1>6 DEF Account!Forwarded, Account!Hub!Arrive
  <2>3. h \in Account!Hub!Headers
    BY <1>0, <2>1, HeadersTyped
  <2> HIDE DEF h
  <2>4. HubTaskTyped(task)
    BY <2>3 DEF HubTaskTyped
  <2> HIDE DEF task
  <2>5. \A s \in Requests : HubTaskTyped(req'[s])
    BY <1>0, <2>2, <2>4 DEF HubInv, AccountTyped
  <2> QED
    BY <1>4, <2>1, <2>2, <2>5 DEF AccountTyped, HubTaskTyped, SnapshotDated
<1>7. ASSUME NEW r \in Requests, Account!Hub!Serve(r), UNCHANGED Account!proxy
      PROVE  AccountTyped'
  <2>1. UNCHANGED <<annotated, revoked, members, changed, cache, list, token, spoke>> /\ clock' = clock
    BY <1>7 DEF Account!proxy, Account!Hub!Serve
  <2>2. (snapshot' # NoRow => SnapshotDated') /\ \A s \in Requests : HubTaskTyped(req[s])'
    BY <1>0, <1>7, HubServesTyped
  <2> QED
    BY <2>1, <2>2 DEF AccountTyped, DatesTyped
<1> QED
  BY <1>1, <1>2, <1>3, <1>5, <1>6, <1>7 DEF Account!Next, Account!SpokeStep, Account!HubStep, Account!hub

LEMMA AccountType ==
    ASSUME AccountInv, AccountTyped
    PROVE  Account!TypeOK
<1>1. Account!Inject!Grants = Spoke!Grants
  BY DEF Account!Inject!Grants, Spoke!Grants
<1>2. Account!Inject!TypeOK
  <2>1. \A p \in Lookups : /\ spoke[p].step \in {"idle", "lookup", "answered", "ready"}
                           /\ spoke[p].step = "ready" => spoke[p].groups \subseteq Groups /\ spoke[p].email \in BOOLEAN
    BY DEF AccountInv, LookupOK
  <2> QED
    BY <1>1, <2>1 DEF AccountInv, AccountTyped, DatesTyped, DirectoryOK, TokenOK, Account!Inject!TypeOK, Account!Inject!Never
<1>3. Account!Hub!TypeOK
  BY DEF AccountInv, HubInv, HubTaskOK, AccountTyped, HubTaskTyped, SnapshotDated, Account!Hub!TypeOK,
         Account!Hub!Row, Account!Hub!Steps, Sessions!Row, Sessions!Steps
<1> QED
  BY <1>2, <1>3 DEF Account!TypeOK

-----------------------------------------------------------------------------
(***************************************************************************)
(* All parts                                                               *)
(***************************************************************************)
\* What each part keeps while it is the one that runs.
Inv ==
    /\ part = "spoke" => SpokeInv
    /\ part = "account" => AccountInv
    /\ part = "sessions" => HubInv
    /\ part = "peers" => PeersInv
    /\ part = "scores" => ScoresInv
    /\ part = "presence" => PresenceInv
    /\ part = "badges" => BadgesInv
    /\ part = "keys" => KeysInv
    /\ part = "views" => ViewsInv

\* What the steps of the parts keep to.
Steps ==
    /\ part = "account" => Account!RoleFollows
    /\ part \in {"account", "sessions"} => Sessions!AddressKept
    /\ part = "peers" => Peers!Forward
    /\ part = "scores" => EffScores!Forward

LEMMA InvInit == Init => Inv
<1> SUFFICES ASSUME Init PROVE Inv
  OBVIOUS
<1>1. /\ part = "spoke" => Spoke!Init
      /\ part = "account" => Account!Init
      /\ part = "sessions" => Sessions!Init
      /\ part = "peers" => Peers!Init
      /\ part = "scores" => EffScores!Init
      /\ part = "presence" => Viewing!Init
      /\ part = "badges" => Svgs!Init
      /\ part = "keys" => Oidc!Init
      /\ part = "views" => Views!Init
  BY DEF Init
<1>2. part = "peers" => PeersInv
  BY <1>1, ConstantsAssumption, PeersInit, PeersAgedInit DEF PeersInv, ConstantsAssumption
<1> QED
  BY <1>1, <1>2, ConstantsAssumption, SpokeInit, AccountInit, SessionsInit, ScoresInit, PresenceInit, BadgesInit, KeysInit,
     ViewsInit
     DEF Inv, ConstantsAssumption

LEMMA InvNext == Inv /\ [Next]_vars => Inv' /\ (Steps \/ UNCHANGED vars)
<1> SUFFICES ASSUME Inv, [Next]_vars PROVE Inv' /\ (Steps \/ UNCHANGED vars)
  OBVIOUS
<1> USE ConstantsAssumption DEF ConstantsAssumption
<1>0. NoRow \notin Sessions!Row
  BY AccountConstants
<1>1. CASE UNCHANGED vars
  <2>1. /\ part' = part /\ UNCHANGED <<clock, proxyVars>> /\ UNCHANGED <<clock, hubVars>> /\ UNCHANGED <<clock, peersVars>>
        /\ UNCHANGED <<clock, scoresVars>> /\ UNCHANGED <<clock, presenceVars>> /\ UNCHANGED <<clock, badgesVars>>
        /\ UNCHANGED <<clock, keysVars>> /\ UNCHANGED <<clock, proxyVars, hubVars>> /\ UNCHANGED viewsVars
    BY <1>1 DEF vars, copyVars
  <2> QED
    BY <1>0, <1>1, <2>1, SpokePreserved, AccountPreserved, SessionsPreserved, PeersPreserved, ScoresPreserved,
       PresencePreserved, BadgesPreserved, KeysPreserved, ViewsPreserved DEF Inv
<1>2. CASE SpokeStep
  BY <1>2, SpokePreserved DEF SpokeStep, Inv, Steps
<1>3. CASE AccountStep
  BY <1>3, AccountPreserved DEF AccountStep, Inv, Steps
<1>4. CASE SessionsStep
  BY <1>0, <1>4, SessionsPreserved DEF SessionsStep, Inv, Steps
<1>5. CASE PeersStep
  BY <1>5, PeersPreserved DEF PeersStep, Inv, Steps
<1>6. CASE ScoresStep
  BY <1>6, ScoresPreserved DEF ScoresStep, Inv, Steps
<1>7. CASE PresenceStep
  BY <1>7, PresencePreserved DEF PresenceStep, Inv, Steps
<1>8. CASE BadgesStep
  BY <1>8, BadgesPreserved DEF BadgesStep, Inv, Steps
<1>9. CASE KeysStep
  BY <1>9, KeysPreserved DEF KeysStep, Inv, Steps
<1>10. CASE ViewsStep
  BY <1>10, ViewsPreserved DEF ViewsStep, Inv, Steps
<1> QED
  BY <1>1, <1>2, <1>3, <1>4, <1>5, <1>6, <1>7, <1>8, <1>9, <1>10 DEF Next

LEMMA Invariance == Spec => []Inv
  BY InvInit, InvNext, PTL DEF Spec

\* What the state of the part that runs is made of.
Typed ==
    /\ part \in Parts
    /\ part = "spoke" => DatesTyped(Spoke!Times)
    /\ part = "account" => AccountTyped
    /\ part = "scores" => ScoresTyped
    /\ part = "presence" => PresenceTyped
    /\ part = "badges" => BadgesTyped

LEMMA TypedInit == Init => Typed
<1> SUFFICES ASSUME Init PROVE Typed
  OBVIOUS
<1>1. /\ part = "spoke" => Spoke!Init
      /\ part = "account" => Account!Init
      /\ part = "scores" => EffScores!Init
      /\ part = "presence" => Viewing!Init
      /\ part = "badges" => Svgs!Init
      /\ part \in Parts
  BY DEF Init
<1> QED
  BY <1>1, ConstantsAssumption, SpokeTypedInit, AccountTypedInit, ScoresTypedInit, PresenceTypedInit, BadgesTypedInit
     DEF Typed, ConstantsAssumption

LEMMA TypedNext == Inv /\ Typed /\ [Next]_vars => Typed'
<1> SUFFICES ASSUME Inv, Typed, [Next]_vars PROVE Typed'
  OBVIOUS
<1> USE ConstantsAssumption DEF ConstantsAssumption
<1>1. part' = part
  BY DEF Next, vars, SpokeStep, AccountStep, SessionsStep, PeersStep, ScoresStep, PresenceStep, BadgesStep, KeysStep, ViewsStep
<1>2. /\ part = "spoke" => Spoke!Next \/ UNCHANGED <<clock, proxyVars>>
      /\ part = "account" => Account!Next \/ UNCHANGED <<clock, proxyVars, hubVars>>
      /\ part = "scores" => EffScores!Next \/ UNCHANGED <<clock, scoresVars>>
      /\ part = "presence" => Viewing!Next \/ UNCHANGED <<clock, presenceVars>>
      /\ part = "badges" => Svgs!Next \/ UNCHANGED <<clock, badgesVars>>
  BY DEF Next, vars, copyVars, SpokeStep, AccountStep, SessionsStep, PeersStep, ScoresStep, PresenceStep, BadgesStep,
         KeysStep, ViewsStep
<1> QED
  BY <1>1, <1>2, SpokeTypedNext, AccountTypedNext, ScoresTypedNext, PresenceTypedNext, BadgesTypedNext DEF Inv, Typed

\* Every part keeps to its types: the columns of the stored rows, the entries
\* of the caches and what the requests in flight carry (the stores of Access).
THEOREM TypesHold == Spec => []TypeOK
<1>1. Inv /\ Typed => TypeOK
  BY SpokeType, AccountType, ScoresType, PresenceType, BadgesType
     DEF Inv, Typed, TypeOK, PeersInv, KeysInv, ViewsInv
<1>2. Spec => []Typed
  BY Invariance, TypedInit, TypedNext, PTL DEF Spec
<1> QED
  BY <1>1, <1>2, Invariance, PTL

\* Whatever is slow, fails or overlaps, what was taken away stops counting in
\* the time the caches and calls promise (RevokedInTime of each part).
THEOREM RevocationBounded == Spec => []RevokedInTime
<1>1. Inv => RevokedInTime
  <2> USE ConstantsAssumption DEF ConstantsAssumption
  <2> QED
    BY SpokeRevoked, AccountRevoked, PeersRevoked, PresenceRevoked, BadgesRevoked, KeysRevoked
       DEF Inv, PeersInv, RevokedInTime
<1> QED
  BY <1>1, Invariance, PTL

\* The viewers and the images of badges that a process keeps respect their
\* limits (MAX_BUCKETS, _SVG_CACHE_MAX_SIZE).
THEOREM CapsRespected == Spec => []CapsHold
<1>1. Inv => CapsHold
  BY ConstantsAssumption, PresenceRevoked, BadgesRevoked DEF ConstantsAssumption, Inv, CapsHold
<1> QED
  BY <1>1, Invariance, PTL

\* A badge counts nothing its creator could not see and is listed to nobody
\* who cannot see what it counts (create_badge, _user_can_see_badge).
THEOREM ScopeOfBadges == Spec => []ScopeKept
<1>1. Inv => ScopeKept
  BY ConstantsAssumption, BadgesRevoked DEF ConstantsAssumption, Inv, ScopeKept
<1> QED
  BY <1>1, Invariance, PTL

\* The list, the dashboard, the fixes, the images, the page of a CVE, the
\* preview of escalations, the snapshot of the day and the digest agree on what
\* there is, in the scope of every user (the routers cves, dashboard, images and
\* escalations and the services they share).
THEOREM ViewsAlwaysAgree == Spec => []ViewsAgree
<1>1. Inv => ViewsAgree
  BY ConstantsAssumption, ViewsDo DEF ConstantsAssumption, Inv, ViewsAgree
<1> QED
  BY <1>1, Invariance, PTL

\* A load of annotations or scores that read the database earlier does not
\* replace one that read later (the locks of namespace_access.py and of
\* effective_scores.py).
THEOREM LoadsMoveForward == Spec => MovesForward
<1> DEFINE Step == /\ part = "peers" => Peers!Forward
                   /\ part = "scores" => EffScores!Forward
<1>1. Inv /\ [Next]_vars => [Step]_vars
  BY InvNext DEF Steps
<1>2. Spec => [][Step]_vars
  <2> HIDE DEF Step
  <2> QED
    BY <1>1, Invariance, PTL DEF Spec
<1> QED
  BY <1>2 DEF MovesForward

\* The stored role follows the directory in bounded time and no address is
\* given up (_sync_user_fields, the groups of the auth header injector).
THEOREM AccountFollows == Spec => AccountFollowsDirectory
<1> DEFINE Step == /\ part = "account" => Account!RoleFollows
                   /\ part \in {"account", "sessions"} => Sessions!AddressKept
<1>1. Inv /\ [Next]_vars => [Step]_vars
  BY InvNext DEF Steps
<1>2. Spec => [][Step]_vars
  <2> HIDE DEF Step
  <2> QED
    BY <1>1, Invariance, PTL DEF Spec
<1> QED
  BY <1>2 DEF AccountFollowsDirectory

=============================================================================
