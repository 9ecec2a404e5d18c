---------------------------- MODULE DbPoolProofs ----------------------------
(***************************************************************************)
(* Proofs about DbPool for every set of requests, every size of the pool   *)
(* and every number of failing statements.  IInv says which clients, which *)
(* transaction and which lock go with each place a request can be at.      *)
(***************************************************************************)
EXTENDS DbPool, FiniteSetTheorems, TLAPS

Idle == {"new", "queued", "ok", "failed"}

\* The clients a request holds are fixed by where it is.
HeldAt ==
  \A r \in Request :
    held[r] = IF pc[r] \in Idle THEN 0
              ELSE IF r \in Ring /\ pc[r] = "asked" THEN 2 ELSE 1

PlainAt == \A r \in Plain : pc[r] \in {"new", "queued", "asked", "ok", "failed"}

\* So is its transaction ...
TxAt ==
  \A r \in Request :
    /\ pc[r] \in {"new", "queued", "begin"} => tx[r] = "none"
    /\ r \in Plain => tx[r] = "none"
    /\ pc[r] = "failed" => tx[r] \notin Open
    /\ pc[r] = "commit" => tx[r] = "open" \/ r \in caught
    /\ pc[r] \in {"live", "lock", "nested", "write"} => tx[r] = "open"
    /\ r \in Ring /\ pc[r] = "asked" => tx[r] = "open"
    /\ r \in Ring /\ pc[r] \in {"release", "ok"} =>
         /\ tx[r] \in {"committed", "undone"}
         /\ tx[r] = "committed" \/ r \in caught

\* ... and the lock.
LockAt ==
  \A r \in Request :
    lock = r => r \in Ring /\ pc[r] \notin Idle \cup {"begin", "lock", "release"}

IInv == TypeOK /\ HeldAt /\ PlainAt /\ TxAt /\ LockAt /\ InUse <= MaxClients

-----------------------------------------------------------------------------
LEMMA InitInv == Init => IInv
<1> SUFFICES ASSUME Init PROVE IInv
  OBVIOUS
<1>1. TypeOK /\ HeldAt /\ PlainAt /\ TxAt /\ LockAt
  BY PoolAssumption DEF Init, TypeOK, HeldAt, PlainAt, TxAt, LockAt, Idle, Step,
                        Waiting, Ended, Open, Request
<1>2. {r \in Request : held[r] >= 1} = {} /\ {r \in Request : held[r] = 2} = {}
  BY DEF Init
<1>3. InUse = 0
  BY <1>2, FS_EmptySet DEF InUse
<1> QED
  BY <1>1, <1>3, PoolAssumption DEF IInv

\* The queue stays a sequence whoever joins or leaves it.
LEMMA QueueStays ==
  ASSUME TypeOK, NEW r \in Request
  PROVE  /\ Append(queue, r) \in Seq(Request)
         /\ queue # << >> => Tail(queue) \in Seq(Request)
         /\ LeaveQueue(r) => queue' \in Seq(Request)
<1>1. queue \in Seq(Request)
  BY DEF TypeOK
<1>2. Append(queue, r) \in Seq(Request) /\ (queue # << >> => Tail(queue) \in Seq(Request))
  BY <1>1
<1>3. ASSUME LeaveQueue(r) PROVE queue' \in Seq(Request)
  <2>1. PICK i \in DOMAIN queue :
          queue' = SubSeq(queue, 1, i - 1) \o SubSeq(queue, i + 1, Len(queue))
    BY <1>3 DEF LeaveQueue
  <2>2. SubSeq(queue, 1, i - 1) \in Seq(Request)
    BY <1>1, <2>1
  <2>3. SubSeq(queue, i + 1, Len(queue)) \in Seq(Request)
    BY <1>1, <2>1
  <2> QED
    BY <2>1, <2>2, <2>3
<1> QED
  BY <1>2, <1>3

\* No step but a grant takes a client, and a grant takes one when the pool
\* is not full: the count of clients stays within the limit.
LEMMA Freeing ==
  ASSUME TypeOK, InUse <= MaxClients, NEW r \in Request,
         NEW n \in {held[r], held[r] - 1}, held' = [held EXCEPT ![r] = n]
  PROVE  InUse' <= MaxClients
<1> DEFINE One == {q \in Request : held[q] >= 1}
           Two == {q \in Request : held[q] = 2}
           OneN == {q \in Request : held'[q] >= 1}
           TwoN == {q \in Request : held'[q] = 2}
<1>1. OneN \subseteq One /\ TwoN \subseteq Two
  BY DEF TypeOK
<1>2. IsFiniteSet(One) /\ IsFiniteSet(Two)
  BY PoolAssumption, FS_Subset
<1>3. /\ Cardinality(OneN) <= Cardinality(One) /\ Cardinality(TwoN) <= Cardinality(Two)
      /\ Cardinality(OneN) \in Nat /\ Cardinality(TwoN) \in Nat
      /\ Cardinality(One) \in Nat /\ Cardinality(Two) \in Nat
  BY <1>1, <1>2, FS_Subset, FS_CardinalityType
<1>4. InUse = Cardinality(One) + Cardinality(Two) /\ InUse' = Cardinality(OneN) + Cardinality(TwoN)
  BY DEF InUse
<1> HIDE DEF One, Two, OneN, TwoN
<1> QED
  BY <1>3, <1>4, PoolAssumption

LEMMA Granting ==
  ASSUME TypeOK, ~Full, NEW r \in Request, held[r] \in {0, 1},
         held' = [held EXCEPT ![r] = @ + 1]
  PROVE  InUse' <= MaxClients
<1> DEFINE One == {q \in Request : held[q] >= 1}
           Two == {q \in Request : held[q] = 2}
           OneN == {q \in Request : held'[q] >= 1}
           TwoN == {q \in Request : held'[q] = 2}
<1>1. \/ OneN = One \cup {r} /\ TwoN = Two
      \/ OneN = One /\ TwoN = Two \cup {r}
  <2>1. CASE held[r] = 0
    BY <2>1 DEF TypeOK
  <2>2. CASE held[r] = 1
    BY <2>2 DEF TypeOK
  <2> QED
    BY <2>1, <2>2
<1>2. IsFiniteSet(One) /\ IsFiniteSet(Two)
  BY PoolAssumption, FS_Subset
<1>3. /\ Cardinality(One \cup {r}) <= Cardinality(One) + 1
      /\ Cardinality(Two \cup {r}) <= Cardinality(Two) + 1
      /\ Cardinality(One \cup {r}) \in Nat /\ Cardinality(Two \cup {r}) \in Nat
      /\ Cardinality(One) \in Nat /\ Cardinality(Two) \in Nat
  <2> HIDE DEF One, Two
  <2>1. /\ Cardinality(One) \in Nat /\ Cardinality(Two) \in Nat
        /\ One \cup {r} = One \/ Cardinality(One \cup {r}) = Cardinality(One) + 1
        /\ Two \cup {r} = Two \/ Cardinality(Two \cup {r}) = Cardinality(Two) + 1
    <3>1. Cardinality(One) \in Nat /\ Cardinality(Two) \in Nat
      BY <1>2, FS_CardinalityType
    <3>2. One \cup {r} = One \/ Cardinality(One \cup {r}) = Cardinality(One) + 1
      BY <1>2, FS_AddElement
    <3>3. Two \cup {r} = Two \/ Cardinality(Two \cup {r}) = Cardinality(Two) + 1
      BY <1>2, FS_AddElement
    <3> QED
      BY <3>1, <3>2, <3>3
  <2> QED
    BY <2>1
<1>4. InUse = Cardinality(One) + Cardinality(Two) /\ InUse' = Cardinality(OneN) + Cardinality(TwoN)
  BY DEF InUse
<1>5. InUse < MaxClients
  <2> HIDE DEF One, Two
  <2> QED
    BY <1>3, <1>4, PoolAssumption DEF Full
<1> HIDE DEF One, Two, OneN, TwoN
<1>6. CASE OneN = One \cup {r} /\ TwoN = Two
  BY <1>6, <1>3, <1>4, <1>5, PoolAssumption
<1>7. CASE OneN = One /\ TwoN = Two \cup {r}
  BY <1>7, <1>3, <1>4, <1>5, PoolAssumption
<1> QED
  BY <1>1, <1>6, <1>7

-----------------------------------------------------------------------------
USE PoolAssumption DEF Request

LEMMA StepInv ==
  ASSUME IInv, NEW r \in Request, Serve(r) \/ TimeOut(r) PROVE IInv'
<1> USE DEF Go, SetTx, Fault, Unlock, Idle, Open
<1>0. TypeOK /\ HeldAt /\ PlainAt /\ TxAt /\ LockAt /\ InUse <= MaxClients
  BY DEF IInv
<1>1. TypeOK'
  <2> USE <1>0, QueueStays DEF TypeOK
  <2>1. CASE Ask(r)
    BY <2>1 DEF Ask, Step, Waiting, Ended
  <2>2. CASE Grant(r)
    <3>1. held[r] \in {0, 1}
      BY <2>2 DEF Grant, HeldAt
    <3> QED
      BY <2>2, <3>1 DEF Grant, Step, Waiting, Ended
  <2>3. CASE QueryEnds(r)
    <3>1. held[r] \in {1, 2}
      BY <2>3 DEF QueryEnds, HeldAt
    <3> QED
      BY <2>3, <3>1 DEF QueryEnds, Step, Waiting, Ended
  <2>4. CASE Begin(r)
    BY <2>4 DEF Begin, Step, Waiting, Ended
  <2>5. CASE TakeLock(r)
    BY <2>5 DEF TakeLock, Step, Waiting, Ended
  <2>6. CASE Occupied(r)
    BY <2>6 DEF Occupied, Step, Waiting, Ended
  <2>7. CASE Write(r)
    BY <2>7 DEF Write, Step, Waiting, Ended
  <2>8. CASE Commit(r)
    BY <2>8 DEF Commit, Step, Waiting, Ended
  <2>9. CASE Rollback(r)
    <3>1. held[r] = 1
      BY <2>9 DEF Rollback, HeldAt
    <3> QED
      BY <2>9, <3>1 DEF Rollback, Step, Waiting, Ended
  <2>10. CASE Release(r)
    <3>1. held[r] = 1
      BY <2>10 DEF Release, HeldAt
    <3> QED
      BY <2>10, <3>1 DEF Release, Step, Waiting, Ended
  <2>11. CASE TimeOut(r)
    BY <2>11 DEF TimeOut, Step, Waiting, Ended
  <2> QED
    BY <2>1, <2>2, <2>3, <2>4, <2>5, <2>6, <2>7, <2>8, <2>9, <2>10, <2>11 DEF Serve
<1>2. HeldAt' /\ PlainAt'
  <2>1. CASE Ask(r) \/ Grant(r) \/ TimeOut(r)
    BY <2>1, <1>0 DEF Ask, Grant, TimeOut, HeldAt, PlainAt, TypeOK
  <2>2. CASE QueryEnds(r)
    BY <2>2, <1>0 DEF QueryEnds, HeldAt, PlainAt, TypeOK
  <2>3. CASE Begin(r) \/ TakeLock(r) \/ Occupied(r) \/ Write(r)
    BY <2>3, <1>0 DEF Begin, TakeLock, Occupied, Write, HeldAt, PlainAt, TypeOK
  <2>4. CASE Commit(r) \/ Rollback(r) \/ Release(r)
    BY <2>4, <1>0 DEF Commit, Rollback, Release, HeldAt, PlainAt, TypeOK
  <2> QED
    BY <2>1, <2>2, <2>3, <2>4 DEF Serve
<1>3. TxAt'
  <2>1. CASE Ask(r) \/ Grant(r) \/ TimeOut(r)
    BY <2>1, <1>0 DEF Ask, Grant, TimeOut, TxAt, TypeOK
  <2>2. CASE QueryEnds(r)
    BY <2>2, <1>0 DEF QueryEnds, TxAt, PlainAt, TypeOK
  <2>3. CASE Begin(r) \/ TakeLock(r) \/ Occupied(r)
    BY <2>3, <1>0 DEF Begin, TakeLock, Occupied, TxAt, PlainAt, TypeOK
  <2>4. CASE Write(r)
    BY <2>4, <1>0 DEF Write, TxAt, PlainAt, TypeOK
  <2>5. CASE Commit(r) \/ Rollback(r) \/ Release(r)
    BY <2>5, <1>0 DEF Commit, Rollback, Release, TxAt, PlainAt, TypeOK
  <2> QED
    BY <2>1, <2>2, <2>3, <2>4, <2>5 DEF Serve
<1>4. LockAt'
  <2> USE <1>0 DEF LockAt, PlainAt, TypeOK
  <2>1. CASE Ask(r)
    BY <2>1 DEF Ask
  <2>2. CASE Grant(r)
    BY <2>2 DEF Grant
  <2>3. CASE QueryEnds(r)
    BY <2>3 DEF QueryEnds
  <2>4. CASE TimeOut(r)
    BY <2>4 DEF TimeOut
  <2>5. CASE Begin(r) \/ TakeLock(r) \/ Occupied(r) \/ Write(r)
    BY <2>5 DEF Begin, TakeLock, Occupied, Write
  <2>6. CASE Commit(r) \/ Rollback(r) \/ Release(r)
    BY <2>6 DEF Commit, Rollback, Release
  <2> QED
    BY <2>1, <2>2, <2>3, <2>4, <2>5, <2>6 DEF Serve
<1>5. (InUse <= MaxClients)'
  <2>1. CASE Grant(r)
    <3>1. held[r] \in {0, 1}
      BY <2>1, <1>0 DEF Grant, HeldAt
    <3> QED
      BY <2>1, <3>1, <1>0, Granting DEF Grant
  <2>2. CASE UNCHANGED held
    BY <2>2, <1>0 DEF InUse
  <2>3. CASE QueryEnds(r) \/ Rollback(r) \/ Release(r)
    BY <2>3, <1>0, Freeing DEF QueryEnds, Rollback, Release
  <2> QED
    BY <2>1, <2>2, <2>3 DEF Serve, Ask, Begin, TakeLock, Occupied, Write,
                            Commit, TimeOut
<1> QED
  BY <1>1, <1>2, <1>3, <1>4, <1>5 DEF IInv

LEMMA Inductive == IInv /\ [Next]_vars => IInv'
<1> SUFFICES ASSUME IInv, [Next]_vars PROVE IInv'
  OBVIOUS
<1>1. CASE Next
  BY <1>1, StepInv DEF Next
<1>2. CASE UNCHANGED vars
  BY <1>2 DEF IInv, vars, TypeOK, HeldAt, PlainAt, TxAt, LockAt, InUse
<1> QED
  BY <1>1, <1>2

LEMMA Reachable == Spec => []IInv
  BY InitInv, Inductive, PTL DEF Spec

-----------------------------------------------------------------------------
\* Every reachable state of the pool and its requests is well typed: no
\* client is given back twice.
THEOREM TypeCorrect == Spec => []TypeOK
<1>1. IInv => TypeOK
  BY DEF IInv
<1> QED
  BY <1>1, Reachable, PTL

\* withTransaction never leaves a connection in the pool with a transaction
\* still open on it or with a lock, wherever a statement fails.
THEOREM ConnectionsClean == Spec => []ReleasedClean
<1>1. IInv => ReleasedClean
  BY DEF IInv, HeldAt, TxAt, LockAt, ReleasedClean, Idle, Open
<1> QED
  BY <1>1, Reachable, PTL

\* The pool keeps its limit, and every client comes back, for every number
\* of requests that ask for a second client inside their transaction.
THEOREM ClientsReturn == Spec => []NoClientLost
<1>1. IInv => NoClientLost
  BY DEF IInv, HeldAt, NoClientLost, Idle, Ended
<1> QED
  BY <1>1, Reachable, PTL

\* Success is reported for a committed transaction only, unless the failure
\* of one of its statements was caught.
THEOREM SuccessMeansCommit == Spec => []SuccessIsCommitted
<1>1. IInv => SuccessIsCommitted
  BY DEF IInv, TxAt, SuccessIsCommitted
<1> QED
  BY <1>1, Reachable, PTL

=============================================================================
