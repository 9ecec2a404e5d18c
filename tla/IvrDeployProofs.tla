--------------------------- MODULE IvrDeployProofs ---------------------------
(***************************************************************************)
(* IvrDeploy implements Dialplan, for any number of requests, changes and  *)
(* faults.  The inductive invariant says that the lock excludes: no        *)
(* request is in its queue twice and only its head is past "queued", so    *)
(* that what the holder has read is newer than the file it replaces.       *)
(***************************************************************************)
EXTENDS IvrDeploy, TLAPS

Queued(r) == \E i \in 1..Len(queue) : queue[i] = r

Types ==
  /\ revision \in Nat /\ faults \in Nat /\ faults <= MaxFaults
  /\ pc \in [Request -> Steps]
  /\ want \in [Request -> Nat] /\ snap \in [Request -> Nat]
  /\ queue \in Seq(Request)
  /\ tmp \in Nat /\ disk \in Nat /\ loaded \in Nat /\ recorded \in Nat
  /\ refused \subseteq Request

LockExcludes ==
  /\ \A i, j \in 1..Len(queue) : queue[i] = queue[j] => i = j
  /\ \A i \in 2..Len(queue) : pc[queue[i]] = "queued"
  /\ \A r \in Request : pc[r] \in Locked <=> Queued(r)

Ordered ==
  /\ revision # 0 /\ loaded <= disk /\ disk <= revision /\ recorded <= disk /\ tmp <= revision
  /\ \A r \in Request : want[r] <= revision /\ snap[r] <= revision

Reached(r) ==
  /\ pc[r] = "new" <=> want[r] = 0
  /\ pc[r] \in {"read", "wrote"} => want[r] <= snap[r] /\ disk <= snap[r]
  /\ pc[r] = "wrote" => tmp = snap[r]
  /\ pc[r] \in {"renamed", "reloaded", "offline", "verified"} => want[r] <= disk
  /\ pc[r] \in {"reloaded", "verified"} => want[r] <= loaded \/ r \in refused

IInv == Types /\ LockExcludes /\ Ordered /\ \A r \in Request : Reached(r)

USE IvrDeployAssumption

LEMMA StepNames ==
  /\ Locked \subseteq Steps /\ Ended \subseteq Steps
  /\ {"new", "fetched", "reloaded", "offline", "verified", "failing"} \subseteq Steps
  /\ Locked = {"queued", "read", "wrote", "renamed"}
BY DEF Steps, Locked, Ended

\* The queue and the step of one request change together.
LEMMA HeadHolds ==
  ASSUME IInv, NEW r \in Request, Holds(r)
  PROVE  /\ Len(queue) \in Nat \ {0} /\ queue[1] = r
         /\ \A q \in Request : pc[q] \in {"read", "wrote", "renamed"} => q = r
<1>1. Len(queue) \in Nat \ {0} /\ queue[1] = r
  BY DEF IInv, Types, Holds
<1>2. ASSUME NEW q \in Request, pc[q] \in {"read", "wrote", "renamed"} PROVE q = r
  <2>1. PICK i \in 1..Len(queue) : queue[i] = q
    BY <1>2 DEF IInv, LockExcludes, Locked, Queued
  <2>2. i \notin 2..Len(queue)
    BY <1>2, <2>1 DEF IInv, LockExcludes
  <2> QED
    BY <1>1, <2>1, <2>2
<1> QED
  BY <1>1, <1>2

LEMMA InitHolds == Init => IInv
<1> SUFFICES ASSUME Init PROVE IInv
  OBVIOUS
<1>1. Types
  BY StepNames DEF Init, Types
<1>2. LockExcludes
  BY DEF Init, LockExcludes, Queued, Locked
<1>3. Ordered
  BY DEF Init, Ordered
<1>4. \A r \in Request : Reached(r)
  BY DEF Init, Reached
<1> QED
  BY <1>1, <1>2, <1>3, <1>4 DEF IInv

-----------------------------------------------------------------------------
(* The lock. *)

\* A move between steps that both are, or both are not, under the lock.
LEMMA LockKept ==
  ASSUME IInv, NEW r \in Request, NEW to \in Steps, UNCHANGED queue,
         pc' = [pc EXCEPT ![r] = to],
         pc[r] \in Locked <=> to \in Locked,
         pc[r] \in Locked => Holds(r)
  PROVE  LockExcludes'
<1> USE DEF IInv, Types
<1>0. Len(queue) \in Nat /\ \A i \in 2..Len(queue) : i \in 1..Len(queue) /\ queue[i] \in Request
  OBVIOUS
<1>1. ASSUME NEW i \in 2..Len(queue) PROVE queue[i] \in Request /\ queue[i] # r
  <2>1. ASSUME queue[i] = r PROVE FALSE
    <3>1. Queued(r)
      BY <1>0, <2>1 DEF Queued
    <3>2. Holds(r)
      BY <3>1 DEF LockExcludes
    <3>3. queue[1] = r /\ 1 \in 1..Len(queue)
      BY <3>2, HeadHolds
    <3> QED
      BY <1>0, <2>1, <3>3 DEF LockExcludes
  <2> QED
    BY <1>0, <2>1
<1>2. \A i \in 2..Len(queue) : pc'[queue[i]] = "queued"
  BY <1>1 DEF LockExcludes
<1> QED
  BY <1>2 DEF LockExcludes, Queued

LEMMA LockEntered ==
  ASSUME IInv, NEW r \in Request, pc[r] = "fetched",
         pc' = [pc EXCEPT ![r] = "queued"], queue' = Append(queue, r)
  PROVE  LockExcludes'
<1> USE DEF IInv, Types
<1>1. ~Queued(r)
  BY DEF LockExcludes, Locked
<1>2. /\ Len(queue') = Len(queue) + 1 /\ queue'[Len(queue) + 1] = r
      /\ \A i \in 1..Len(queue) : queue'[i] = queue[i] /\ queue[i] # r
                                  /\ queue[i] \in Request
  BY <1>1 DEF Queued
<1>3. \A i, j \in 1..Len(queue') : queue'[i] = queue'[j] => i = j
  BY <1>2 DEF LockExcludes
<1>4. \A i \in 2..Len(queue') : pc'[queue'[i]] = "queued"
  BY <1>2 DEF LockExcludes
<1>5. \A q \in Request : Queued(q)' <=> Queued(q) \/ q = r
  BY <1>2 DEF Queued
<1> QED
  BY <1>3, <1>4, <1>5 DEF LockExcludes, Locked

LEMMA LockLeft ==
  ASSUME IInv, NEW r \in Request, NEW to \in Steps \ Locked, Holds(r),
         pc' = [pc EXCEPT ![r] = to], queue' = Tail(queue)
  PROVE  queue' \in Seq(Request) /\ LockExcludes'
<1> USE DEF IInv, Types
<1>1. /\ queue' \in Seq(Request) /\ Len(queue') = Len(queue) - 1
      /\ \A i \in 1..Len(queue') : queue'[i] = queue[i + 1]
      /\ Len(queue) \in Nat \ {0} /\ queue[1] = r
  BY DEF Holds
<1>2. \A i \in 2..Len(queue) : queue[i] # r /\ queue[i] \in Request
  BY <1>1 DEF LockExcludes
<1>3. \A i, j \in 1..Len(queue') : queue'[i] = queue'[j] => i = j
  BY <1>1 DEF LockExcludes
<1>4. \A i \in 2..Len(queue') : pc'[queue'[i]] = "queued"
  <2> SUFFICES ASSUME NEW i \in 2..Len(queue') PROVE pc'[queue'[i]] = "queued"
    OBVIOUS
  <2>1. i + 1 \in 2..Len(queue) /\ queue'[i] = queue[i + 1]
    BY <1>1
  <2> QED
    BY <1>2, <2>1 DEF LockExcludes
<1>5. ASSUME NEW q \in Request PROVE Queued(q)' <=> Queued(q) /\ q # r
  <2>1. Queued(q)' => Queued(q) /\ q # r
    <3>1. ASSUME NEW i \in 1..Len(queue'), queue'[i] = q PROVE Queued(q) /\ q # r
      <4>1. i + 1 \in 2..Len(queue) /\ queue[i + 1] = q
        BY <1>1, <3>1
      <4> QED
        BY <1>2, <4>1 DEF Queued
    <3> QED
      BY <3>1 DEF Queued
  <2>2. Queued(q) /\ q # r => Queued(q)'
    <3>1. ASSUME NEW i \in 1..Len(queue), queue[i] = q, q # r PROVE Queued(q)'
      <4>1. i - 1 \in 1..Len(queue') /\ queue'[i - 1] = q
        BY <1>1, <3>1
      <4> QED
        BY <4>1 DEF Queued
    <3> QED
      BY <3>1 DEF Queued
  <2> QED
    BY <2>1, <2>2
<1> QED
  BY <1>1, <1>3, <1>4, <1>5 DEF LockExcludes

-----------------------------------------------------------------------------
(* The steps. *)

LEMMA StepHolds == IInv /\ [Next]_vars => IInv'
<1> SUFFICES ASSUME IInv, [Next]_vars PROVE IInv'
  OBVIOUS
<1> USE StepNames DEF IInv, Types, Ordered, Reached, Fault, Moves, requests, files
<1>1. ASSUME NEW r \in Request, Fetch(r) PROVE IInv'
  <2>1. LockExcludes'
    BY <1>1, LockKept DEF Fetch
  <2> QED
    BY <1>1, <2>1 DEF Fetch
<1>2. ASSUME NEW r \in Request, Prepare(r) PROVE IInv'
  <2>1. CASE Moves(r, "fetched", "queued") /\ queue' = Append(queue, r) /\ UNCHANGED faults
    <3>1. LockExcludes'
      BY <2>1, LockEntered
    <3> QED
      BY <1>2, <2>1, <3>1 DEF Prepare
  <2>2. CASE r \in Flow /\ Moves(r, "fetched", "failing") /\ Fault /\ UNCHANGED queue
    <3>1. LockExcludes'
      BY <2>2, LockKept
    <3> QED
      BY <1>2, <2>2, <3>1 DEF Prepare
  <2>3. CASE Moves(r, "fetched", "nothing") /\ UNCHANGED <<queue, faults>>
    <3>1. LockExcludes'
      BY <2>3, LockKept DEF Ended
    <3> QED
      BY <1>2, <2>3, <3>1 DEF Prepare, Ended
  <2> QED
    BY <1>2, <2>1, <2>2, <2>3 DEF Prepare
<1>3. ASSUME NEW r \in Request, ReadBindings(r) PROVE IInv'
  <2>1. LockExcludes'
    BY <1>3, LockKept DEF ReadBindings
  <2> QED
    BY <1>3, <2>1 DEF ReadBindings
<1>4. ASSUME NEW r \in Request, WriteTmp(r) PROVE IInv'
  <2>1. LockExcludes'
    BY <1>4, LockKept DEF WriteTmp
  <2> QED
    BY <1>4, <2>1, HeadHolds DEF WriteTmp
<1>5. ASSUME NEW r \in Request, Rename(r) PROVE IInv'
  <2>1. LockExcludes'
    BY <1>5, LockKept DEF Rename
  <2>2. disk <= disk' /\ disk' = snap[r]
    BY <1>5 DEF Rename
  <2>3. \A q \in Request : pc[q] \in {"read", "wrote", "renamed"} => q = r
    BY <1>5, HeadHolds DEF Rename
  <2> QED
    BY <1>5, <2>1, <2>2, <2>3 DEF Rename
<1>6. ASSUME NEW r \in Request, FailLocked(r) PROVE IInv'
  <2>1. queue' \in Seq(Request) /\ LockExcludes'
    BY <1>6, LockLeft DEF FailLocked
  <2> QED
    BY <1>6, <2>1 DEF FailLocked
<1>7. ASSUME NEW r \in Request, Reload(r) PROVE IInv'
  <2>1. queue' \in Seq(Request) /\ LockExcludes'
    BY <1>7, LockLeft DEF Reload
  <2>2. loaded <= loaded' /\ loaded' <= disk /\ loaded' \in Nat
    BY <1>7 DEF Reload
  <2>3. Types'
    <3>1. pc' \in [Request -> Steps]
      BY <1>7 DEF Reload
    <3>2. faults' \in Nat /\ faults' <= MaxFaults /\ refused' \subseteq Request
      BY <1>7 DEF Reload
    <3> QED
      BY <1>7, <2>1, <2>2, <3>1, <3>2 DEF Reload
  <2>4. \A q \in Request : Reached(q)'
    <3>1. CASE Moves(r, "renamed", "reloaded") /\ loaded' = disk /\ UNCHANGED refused
      BY <1>7, <2>2, <3>1 DEF Reload
    <3>3. CASE Moves(r, "renamed", "reloaded") /\ refused' = refused \cup {r}
               /\ UNCHANGED loaded
      BY <1>7, <2>2, <3>3 DEF Reload
    <3>2. CASE Moves(r, "renamed", "offline")
      BY <1>7, <2>2, <3>2 DEF Reload
    <3> QED
      BY <1>7, <3>1, <3>2, <3>3 DEF Reload
  <2> QED
    BY <1>7, <2>1, <2>2, <2>3, <2>4 DEF Reload
<1>8. ASSUME NEW r \in Request, Verify(r) PROVE IInv'
  <2>1. LockExcludes'
    BY <1>8, LockKept DEF Verify
  <2>2. pc' \in [Request -> Steps] /\ faults' \in Nat /\ faults' <= MaxFaults
    <3>1. pc' \in [Request -> Steps]
      BY <1>8 DEF Verify
    <3>2. faults' = faults \/ (faults' = faults + 1 /\ faults < MaxFaults)
      BY <1>8 DEF Verify
    <3> QED
      BY <3>1, <3>2
  <2>3. \A q \in Request : Reached(q)'
    BY <1>8 DEF Verify, Ended
  <2> QED
    BY <1>8, <2>1, <2>2, <2>3 DEF Verify
<1>9. ASSUME NEW r \in Request, Record(r) PROVE IInv'
  <2>1. LockExcludes'
    BY <1>9, LockKept DEF Record, Ended
  <2>2. pc' \in [Request -> Steps] /\ faults' \in Nat /\ faults' <= MaxFaults
    BY <1>9 DEF Record, Ended
  <2>3. \A q \in Request : Reached(q)'
    BY <1>9 DEF Record, Ended
  <2> QED
    BY <1>9, <2>1, <2>2, <2>3 DEF Record
<1>10. ASSUME NEW r \in Request, RecordFails(r) PROVE IInv'
  <2>1. LockExcludes'
    BY <1>10, LockKept DEF RecordFails
  <2>2. pc' \in [Request -> Steps] /\ faults' \in Nat /\ faults' <= MaxFaults
    <3>1. pc' \in [Request -> Steps]
      BY <1>10 DEF RecordFails
    <3>2. faults' = faults \/ (faults' = faults + 1 /\ faults < MaxFaults)
      BY <1>10 DEF RecordFails
    <3> QED
      BY <3>1, <3>2
  <2>3. \A q \in Request : Reached(q)'
    BY <1>10 DEF RecordFails, Ended
  <2> QED
    BY <1>10, <2>1, <2>2, <2>3 DEF RecordFails
<1>11. ASSUME NEW r \in Request, Fail(r) PROVE IInv'
  <2>1. LockExcludes'
    BY <1>11, LockKept DEF Fail, Ended
  <2> QED
    BY <1>11, <2>1 DEF Fail, Ended
<1>12. ASSUME NEW r \in Request, Report(r) PROVE IInv'
  <2>1. LockExcludes'
    BY <1>12, LockKept DEF Report, Ended
  <2>2. pc' \in [Request -> Steps] /\ faults' \in Nat /\ faults' <= MaxFaults
    BY <1>12 DEF Report, Ended
  <2>3. \A q \in Request : Reached(q)'
    BY <1>12 DEF Report, Ended
  <2> QED
    BY <1>12, <2>1, <2>2, <2>3 DEF Report
<1>13. CASE Change
  <2>1. LockExcludes'
    BY <1>13 DEF Change, LockExcludes, Queued
  <2> QED
    BY <1>13, <2>1 DEF Change
<1>14. CASE LoadsElsewhere
  <2>1. LockExcludes'
    BY <1>14 DEF LoadsElsewhere, LockExcludes, Queued
  <2> QED
    BY <1>14, <2>1 DEF LoadsElsewhere
<1>15. CASE Restart
  <2>1. \A r \in Request : pc'[r] \in Ended \cup {"new"} /\ pc'[r] \in Steps
                           /\ (pc'[r] # "lost" => pc'[r] = pc[r])
    BY <1>15 DEF Restart, Ended
  <2>2. LockExcludes'
    BY <1>15, <2>1 DEF Restart, LockExcludes, Queued, Ended
  <2> QED
    BY <1>15, <2>1, <2>2 DEF Restart, Ended
<1>16. CASE UNCHANGED vars
  <2>1. LockExcludes'
    BY <1>16 DEF vars, LockExcludes, Queued
  <2> QED
    BY <1>16, <2>1 DEF vars
<1> QED
  BY <1>1, <1>2, <1>3, <1>4, <1>5, <1>6, <1>7, <1>8, <1>9, <1>10, <1>11, <1>12,
     <1>13, <1>14, <1>15, <1>16 DEF Next, Step

LEMMA Inductive == Spec => []IInv
BY InitHolds, StepHolds, PTL DEF Spec

-----------------------------------------------------------------------------
(* The results. *)

\* Whatever order deployments end and record in, the version a flow shows as
\* deployed is in the dialplan file, or a newer one is.
THEOREM RecordedVersions == Spec => []RecordedIsOnDisk
<1>1. IInv => RecordedIsOnDisk
  BY DEF IInv, Ordered, RecordedIsOnDisk
<1> QED
  BY Inductive, <1>1, PTL

\* The steps of IvrDeploy, seen as steps of Dialplan.
LEMMA AnswerKept ==
  ASSUME IInv, NEW r \in Request, NEW to \in Steps,
         pc' = [pc EXCEPT ![r] = to],
         pc[r] \notin Ended /\ to \notin Ended
  PROVE  UNCHANGED [q \in Request |-> Answer(q)]
<1>1. \A q \in Request : Answer(q)' = Answer(q)
  <2> SUFFICES ASSUME NEW q \in Request PROVE Answer(q)' = Answer(q)
    OBVIOUS
  <2>1. CASE q = r
    BY <2>1 DEF IInv, Types, Answer, Ended
  <2>2. CASE q # r
    <3>1. pc'[q] = pc[q]
      BY <2>2 DEF IInv, Types
    <3> QED
      BY <3>1 DEF Answer
  <2> QED
    BY <2>1, <2>2
<1> QED
  BY <1>1

LEMMA AnswersFail ==
  ASSUME IInv, NEW R \in SUBSET Request,
         \A q \in R : pc[q] \notin Ended /\ pc'[q] \in {"failed", "lost"},
         \A q \in Request \ R : pc'[q] = pc[q],
         UNCHANGED <<revision, disk, loaded, want, refused>>
  PROVE  D!Next
<1>1. \A q \in R : Answer(q) = "none" /\ Answer(q)' = "failed"
  BY DEF Answer, Ended
<1>2. \A q \in Request \ R : Answer(q)' = Answer(q)
  BY DEF Answer
<1>3. D!Fail(R)
  BY <1>1, <1>2 DEF D!Fail
<1> QED
  BY <1>3 DEF D!Next

LEMMA OneFails ==
  ASSUME IInv, NEW r \in Request, pc[r] = "failing", pc' = [pc EXCEPT ![r] = "failed"],
         UNCHANGED <<revision, disk, loaded, want, refused>>
  PROVE  D!Next
<1>1. pc[r] \notin Ended /\ pc'[r] = "failed" /\ \A q \in Request \ {r} : pc'[q] = pc[q]
  BY DEF IInv, Types, Ended
<1>2. {r} \in SUBSET Request
  OBVIOUS
<1>3. /\ \A q \in {r} : pc[q] \notin Ended /\ pc'[q] \in {"failed", "lost"}
      /\ \A q \in Request \ {r} : pc'[q] = pc[q]
  BY <1>1
<1> QED
  BY <1>2, <1>3, AnswersFail

\* A request that has asked gets one of the answers that are not failures.
LEMMA AnswerGiven ==
  ASSUME IInv, NEW r \in Request, pc[r] \notin Ended \cup {"new"},
         NEW a \in {"ok", "warned", "nothing"},
         pc' = [pc EXCEPT ![r] = a],
         UNCHANGED <<revision, disk, loaded, want, refused>>
  PROVE  D!Answers(r, a)
<1>1. want[r] # 0
  BY DEF IInv, Types, Reached
<1>2. Answer(r) = "none" /\ Answer(r)' = a
  BY DEF IInv, Types, Answer, Ended
<1>3. \A q \in Request \ {r} : Answer(q)' = Answer(q)
  <2>1. \A q \in Request \ {r} : pc'[q] = pc[q]
    BY DEF IInv, Types
  <2> QED
    BY <2>1 DEF Answer
<1> QED
  BY <1>1, <1>2, <1>3 DEF D!Answers

LEMMA InitRefines == Init => D!Init
BY DEF Init, D!Init, Answer, Ended

LEMMA StepRefines == IInv /\ [Next]_vars => [D!Next]_D!vars
<1> SUFFICES ASSUME IInv, [Next]_vars PROVE [D!Next]_D!vars
  OBVIOUS
<1> USE StepNames DEF Moves, files, requests
<1> DEFINE answers == [q \in Request |-> Answer(q)]
<1>0. UNCHANGED <<revision, disk, loaded, want, refused, answers>> => UNCHANGED D!vars
  BY DEF D!vars
<1>1. ASSUME NEW r \in Request, Fetch(r) PROVE D!Next
  <2>1. UNCHANGED answers
    BY <1>1, AnswerKept DEF Fetch, Ended
  <2>2. want[r] = 0
    BY <1>1 DEF Fetch, IInv, Reached
  <2>3. D!Ask(r)
    BY <1>1, <2>1, <2>2 DEF D!Ask, Fetch
  <2> QED
    BY <2>3 DEF D!Next
<1>2. ASSUME NEW r \in Request,
             ReadBindings(r) \/ WriteTmp(r) \/ FailLocked(r) \/ Verify(r) \/ RecordFails(r)
      PROVE UNCHANGED D!vars
  <2>1. UNCHANGED <<revision, disk, loaded, want, refused>>
    BY <1>2 DEF ReadBindings, WriteTmp, FailLocked, Verify, RecordFails
  <2>2. UNCHANGED answers
    BY <1>2, AnswerKept DEF ReadBindings, WriteTmp, FailLocked, Verify, RecordFails, Ended
  <2> QED
    BY <1>0, <2>1, <2>2
<1>3. ASSUME NEW r \in Request, Prepare(r) PROVE [D!Next]_D!vars
  <2>1. UNCHANGED <<revision, disk, loaded, want, refused>> /\ pc[r] = "fetched"
    BY <1>3 DEF Prepare
  <2>2. CASE pc' = [pc EXCEPT ![r] = "queued"] \/ pc' = [pc EXCEPT ![r] = "failing"]
    <3>1. UNCHANGED answers
      BY <2>1, <2>2, AnswerKept DEF Ended
    <3> QED
      BY <1>0, <2>1, <3>1
  <2>3. CASE r \in All /\ pc' = [pc EXCEPT ![r] = "nothing"]
    <3>1. D!Answers(r, "nothing")
      BY <2>1, <2>3, AnswerGiven DEF Ended
    <3>2. D!Skip(r)
      BY <2>3, <3>1 DEF D!Skip
    <3> QED
      BY <3>2 DEF D!Next
  <2> QED
    BY <1>3, <2>2, <2>3 DEF Prepare
<1>4. ASSUME NEW r \in Request, Rename(r) PROVE D!Next
  <2>1. UNCHANGED answers
    BY <1>4, AnswerKept DEF Rename, Ended
  <2>2. disk' \in disk..revision
    BY <1>4 DEF Rename, IInv, Types, Ordered, Reached
  <2>3. D!Write
    BY <1>4, <2>1, <2>2 DEF D!Write, Rename
  <2> QED
    BY <2>3 DEF D!Next
<1>5. ASSUME NEW r \in Request, Reload(r) PROVE D!Next
  <2>1. UNCHANGED answers
    BY <1>5, AnswerKept DEF Reload, Ended
  <2>2. CASE UNCHANGED refused
    <3>1. loaded' \in loaded..disk
      BY <1>5, <2>2 DEF Reload, IInv, Types, Ordered
    <3>2. D!Load
      BY <1>5, <2>1, <2>2, <3>1 DEF D!Load, Reload
    <3> QED
      BY <3>2 DEF D!Next
  <2>3. CASE refused' = refused \cup {r} /\ UNCHANGED loaded
    <3>1. Answer(r) = "none"
      BY <1>5 DEF Reload, Answer
    <3>2. D!RefuseLoad(r)
      BY <1>5, <2>1, <2>3, <3>1 DEF D!RefuseLoad, Reload
    <3> QED
      BY <3>2 DEF D!Next
  <2> QED
    BY <1>5, <2>2, <2>3 DEF Reload
<1>6. ASSUME NEW r \in Request, Record(r) \/ Report(r) PROVE D!Next
  <2>1. UNCHANGED <<revision, disk, loaded, want, refused>>
    BY <1>6 DEF Record, Report
  <2>2. CASE pc[r] \in {"reloaded", "verified"} /\ pc' = [pc EXCEPT ![r] = "ok"]
    <3>1. D!Answers(r, "ok")
      BY <2>1, <2>2, AnswerGiven DEF Ended
    <3>2. want[r] <= disk /\ (want[r] <= loaded \/ r \in refused)
      BY <2>2 DEF IInv, Reached
    <3>3. D!Accept(r)
      BY <3>1, <3>2 DEF D!Accept
    <3> QED
      BY <3>3 DEF D!Next
  <2>3. CASE pc[r] = "offline" /\ pc' = [pc EXCEPT ![r] = "warned"]
    <3>1. D!Answers(r, "warned")
      BY <2>1, <2>3, AnswerGiven DEF Ended
    <3>2. D!Warn(r)
      BY <2>3, <3>1 DEF D!Warn, IInv, Reached
    <3> QED
      BY <3>2 DEF D!Next
  <2> QED
    BY <1>6, <2>2, <2>3 DEF Record, Report
<1>7. ASSUME NEW r \in Request, Fail(r) PROVE D!Next
  BY <1>7, OneFails DEF Fail
<1>8. CASE Change
  <2>1. UNCHANGED answers
    BY <1>8 DEF Change, Answer
  <2> QED
    BY <1>8, <2>1 DEF Change, D!Change, D!Next
<1>9. CASE LoadsElsewhere
  <2>1. UNCHANGED answers
    BY <1>9 DEF LoadsElsewhere, Answer
  <2>2. loaded' \in loaded..disk
    BY <1>9 DEF LoadsElsewhere, IInv, Types, Ordered
  <2> QED
    BY <1>9, <2>1, <2>2 DEF LoadsElsewhere, D!Load, D!Next
<1>10. CASE Restart
  <2> DEFINE R == {q \in Request : pc[q] \notin Ended \cup {"new"}}
  <2>1. \A q \in R : pc[q] \notin Ended /\ pc'[q] \in {"failed", "lost"}
    BY <1>10 DEF Restart, Ended
  <2>2. \A q \in Request \ R : pc'[q] = pc[q]
    BY <1>10 DEF Restart
  <2>3. UNCHANGED <<revision, disk, loaded, want, refused>>
    BY <1>10 DEF Restart
  <2> HIDE DEF R
  <2>4. R \in SUBSET Request
    BY DEF R
  <2> QED
    BY <2>1, <2>2, <2>3, <2>4, AnswersFail
<1>11. CASE UNCHANGED vars
  BY <1>11 DEF vars, D!vars, Answer
<1> QED
  BY <1>1, <1>2, <1>3, <1>4, <1>5, <1>6, <1>7, <1>8, <1>9, <1>10, <1>11 DEF Next, Step

\* The engine implements Dialplan: neither the file nor FreeSWITCH goes back to
\* an older dialplan, success means that what was asked for is in the file, and
\* loaded unless FreeSWITCH answered the reload without loading.
THEOREM Implementation == Spec => ImplementsDialplan
BY InitRefines, StepRefines, Inductive, PTL DEF Spec, ImplementsDialplan, D!Spec

\* Every variable keeps its type, and the lock's queue holds exactly the
\* requests that are under the lock or wait for it.
THEOREM TypeCorrect == Spec => []TypeOK
<1>1. IInv => TypeOK
  <2> SUFFICES ASSUME IInv PROVE TypeOK
    OBVIOUS
  <2>1. DOMAIN queue = 1..Len(queue)
    BY DEF IInv, Types
  <2>2. \A r \in Request : pc[r] \in Locked <=> \E i \in DOMAIN queue : queue[i] = r
    BY <2>1 DEF IInv, LockExcludes, Queued
  <2>3. want \in [Request -> 0..revision] /\ snap \in [Request -> 0..revision]
    BY DEF IInv, Types, Ordered
  <2> QED
    BY <2>2, <2>3 DEF IInv, Types, Ordered, TypeOK
<1> QED
  BY Inductive, <1>1, PTL
=============================================================================
