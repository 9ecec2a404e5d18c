-------------------------- MODULE ParticipantsProofs --------------------------
(***************************************************************************)
(* Participants for any number of legs and of lost events.  A recorded      *)
(* answer is never shown as an invitation or a missed call: calls are made  *)
(* only once the responder has been invited, so that a task that records    *)
(* the answer always finds the responder's row.  A participant has no more  *)
(* rows than legs, since each leg inserts once.  An open row is accounted    *)
(* for: a task that opens one belongs to a leg that is there, will be        *)
(* closed, or has ended unseen or too early, and a leave closes every row.   *)
(***************************************************************************)
EXTENDS Participants, FiniteSetTheorems, SequenceTheorems, TLAPS

\* A leg that is in a task has been called, and so the responder invited.
InvitedFirst == (\E l \in Leg : join[l] # "none" \/ leg[l] # "new") => responder # "none"

IInv ==
  /\ incident \in {"ACTIVE", "COMPLETED"}
  /\ responder \in Status \cup {"none"}
  /\ leg \in [Leg -> {"new", "in", "left", "gone"}]
  /\ join \in [Leg -> {"none", "begun", "resolved", "looked",
                       "inserted", "reopened", "done"}]
  /\ hangup \in [Leg -> Cause \cup {"none", "done"}]
  /\ answered \in BOOLEAN
  /\ InvitedFirst
  /\ AnsweredNotMissed

LEMMA StatusNames ==
  /\ {"INVITED", "JOINED", "REJOINED", "MISSED"} \subseteq Status
  /\ \A c \in Cause : CauseStatus[c] \in Status
                      /\ CauseStatus[c] \notin {"none", "INVITED", "MISSED"}
BY DEF Status, Cause, CauseStatus

LEMMA InitHolds == Init => IInv
BY DEF Init, IInv, InvitedFirst, AnsweredNotMissed

LEMMA StepHolds == IInv /\ [Next]_vars => IInv'
<1> SUFFICES ASSUME IInv, [Next]_vars PROVE IInv'
  OBVIOUS
<1> USE DEF IInv, InvitedFirst, AnsweredNotMissed
<1>1. ASSUME NEW l \in Leg, Joins(l) PROVE IInv'
  BY <1>1 DEF Joins, Moves, Task, Fault, history
<1>2. ASSUME NEW l \in Leg, Leaves(l) PROVE IInv'
  BY <1>2 DEF Leaves, Moves
<1>3. ASSUME NEW l \in Leg, Hangs(l) PROVE IInv'
  BY <1>3 DEF Hangs, Moves, history
<1>4. ASSUME NEW l \in Leg, Seed(l) PROVE IInv'
  BY <1>4 DEF Seed, tasks, history
<1>5. ASSUME NEW l \in Leg, Resolve(l) PROVE IInv'
  BY <1>5 DEF Resolve, Task, history
<1>6. ASSUME NEW l \in Leg, Look(l) PROVE IInv'
  BY <1>6 DEF Look, Task, history, calls
<1>7. ASSUME NEW l \in Leg, Reopen(l) PROVE IInv'
  BY <1>7 DEF Reopen, Task, calls
<1>8. ASSUME NEW l \in Leg, Insert(l) PROVE IInv'
  BY <1>8 DEF Insert, Task, calls
<1>9. ASSUME NEW l \in Leg, Respond(l) PROVE IInv'
  BY <1>9, StatusNames DEF Respond, Task, calls
<1>10. ASSUME NEW l \in Leg, Leave(l) PROVE IInv'
  BY <1>10 DEF Leave, calls
<1>11. ASSUME NEW l \in Leg, Hangup(l) PROVE IInv'
  BY <1>11, StatusNames DEF Hangup, history, calls
<1>12. CASE Invite
  BY <1>12, StatusNames DEF Invite, history, calls, tasks
<1>13. CASE Complete
  BY <1>13, StatusNames DEF Complete, calls, tasks
<1>14. CASE UNCHANGED vars
  BY <1>14 DEF vars, history, calls, tasks
<1> QED
  BY <1>1, <1>2, <1>3, <1>4, <1>5, <1>6, <1>7, <1>8, <1>9, <1>10, <1>11,
     <1>12, <1>13, <1>14 DEF Next, Tracks

\* Whatever the order of joins, hangups, waves and the completion, a responder
\* whose answer has been recorded is not shown as invited or missed.
THEOREM AnswersStand == Spec => []AnsweredNotMissed
<1>1. IInv => AnsweredNotMissed
  BY DEF IInv
<1> QED
  BY InitHolds, StepHolds, <1>1, PTL DEF Spec

-----------------------------------------------------------------------------
(* The rows. *)

\* Legs whose task has inserted a row, or ended.
Recorded == {l \in Leg : join[l] \in {"inserted", "done"}}

\* Each leg inserts one row at most, and a task finds one of those there are.
RowsInv ==
  /\ rows \in Seq({"open", "closed"})
  /\ Len(rows) <= Cardinality(Recorded)
  /\ found \in [Leg -> 0..Len(rows)]

LEMMA RecordedFinite ==
  ASSUME NEW S \in SUBSET Leg
  PROVE  IsFiniteSet(S) /\ Cardinality(S) \in Nat /\ Cardinality(S) <= Cardinality(Leg)
<1>1. IsFiniteSet(Leg)
  BY ParticipantsAssumption DEF ParticipantsAssumption
<1> QED
  BY <1>1, FS_Subset, FS_CardinalityType

\* A task that ends, or inserts, is one more.
LEMMA OneMore ==
  ASSUME NEW S \in SUBSET Leg, NEW T \in SUBSET Leg
  PROVE  /\ S \subseteq T => Cardinality(S) <= Cardinality(T)
         /\ \A l \in Leg \ S : S \cup {l} \subseteq T => Cardinality(S) + 1 <= Cardinality(T)
<1>1. IsFiniteSet(S) /\ IsFiniteSet(T)
  BY RecordedFinite
<1>2. S \subseteq T => Cardinality(S) <= Cardinality(T)
  BY <1>1, FS_Subset
<1>3. ASSUME NEW l \in Leg \ S, S \cup {l} \subseteq T
      PROVE  Cardinality(S) + 1 <= Cardinality(T)
  <2>1. Cardinality(S \cup {l}) = Cardinality(S) + 1
    BY <1>1, FS_AddElement
  <2>2. Cardinality(S \cup {l}) <= Cardinality(T)
    BY <1>1, <1>3, FS_Subset
  <2> QED
    BY <2>1, <2>2
<1> QED
  BY <1>2, <1>3

\* Most steps keep the number of rows, and no task that was done is undone.
LEMMA RowsStay ==
  ASSUME RowsInv, rows' \in Seq({"open", "closed"}), Len(rows') = Len(rows),
         found' \in [Leg -> 0..Len(rows)], Recorded \subseteq Recorded'
  PROVE  RowsInv'
<1>1. Recorded \in SUBSET Leg /\ Recorded' \in SUBSET Leg
  BY DEF Recorded
<1>2. Cardinality(Recorded) <= Cardinality(Recorded')
  BY <1>1, OneMore, Zenon
<1>3. Cardinality(Recorded) \in Nat /\ Cardinality(Recorded') \in Nat
  BY <1>1, RecordedFinite, Zenon
<1>4. Len(rows) \in Nat
  BY DEF RowsInv
<1> QED
  BY <1>2, <1>3, <1>4 DEF RowsInv

LEMMA RowsStep == IInv /\ RowsInv /\ [Next]_vars => RowsInv'
<1> SUFFICES ASSUME IInv, RowsInv, [Next]_vars PROVE RowsInv'
  OBVIOUS
<1>0. /\ join \in [Leg -> {"none", "begun", "resolved", "looked",
                           "inserted", "reopened", "done"}]
      /\ rows \in Seq({"open", "closed"}) /\ Len(rows) \in Nat
      /\ found \in [Leg -> 0..Len(rows)]
  BY DEF IInv, RowsInv
<1>1. ASSUME UNCHANGED <<rows, found>>,
             \A l \in Leg : join'[l] # join[l] =>
                 join[l] \notin {"inserted", "done"} \/ join'[l] = "done"
      PROVE  RowsInv'
  <2>1. Recorded \subseteq Recorded'
    BY <1>1 DEF Recorded
  <2> QED
    BY <1>0, <1>1, <2>1, RowsStay
<1>2. ASSUME NEW l \in Leg, Joins(l) \/ Seed(l) \/ Resolve(l) \/ Respond(l) PROVE RowsInv'
  BY <1>0, <1>1, <1>2 DEF Joins, Seed, Resolve, Respond, Task, tasks
<1>3. ASSUME NEW l \in Leg, Leaves(l) \/ Hangs(l) \/ Hangup(l) PROVE RowsInv'
  BY <1>0, <1>1, <1>3 DEF Leaves, Hangs, Hangup
<1>4. ASSUME NEW l \in Leg, Look(l) PROVE RowsInv'
  <2>1. /\ UNCHANGED rows /\ found' = [found EXCEPT ![l] = Len(rows)]
        /\ join[l] = "resolved"
        /\ join' = [join EXCEPT ![l] = "done"] \/ join' = [join EXCEPT ![l] = "looked"]
    BY <1>4 DEF Look, Task
  <2>2. Recorded \subseteq Recorded'
    BY <1>0, <2>1 DEF Recorded
  <2>3. found' \in [Leg -> 0..Len(rows)]
    BY <1>0, <2>1
  <2> QED
    BY <1>0, <2>1, <2>2, <2>3, RowsStay
<1>5. ASSUME NEW l \in Leg, Reopen(l) PROVE RowsInv'
  <2>1. /\ rows' = [rows EXCEPT ![found[l]] = "open"] /\ UNCHANGED found
        /\ join[l] = "looked" /\ join' = [join EXCEPT ![l] = "reopened"]
    BY <1>5 DEF Reopen, Task
  <2>2. Recorded \subseteq Recorded'
    BY <1>0, <2>1 DEF Recorded
  <2>3. rows' \in Seq({"open", "closed"}) /\ Len(rows') = Len(rows)
    <3>1. found[l] \in 1..Len(rows)
      BY <1>0, <1>5 DEF Reopen
    <3> QED
      BY <1>0, <2>1, <3>1, ExceptSeq
  <2> QED
    BY <1>0, <2>1, <2>2, <2>3, RowsStay
<1>6. ASSUME NEW l \in Leg, Insert(l) PROVE RowsInv'
  <2>1. /\ rows' = Append(rows, "open") /\ UNCHANGED found
        /\ join[l] = "looked" /\ join' = [join EXCEPT ![l] = "inserted"]
    BY <1>6 DEF Insert, Task
  <2>2. l \in Leg \ Recorded /\ Recorded \cup {l} \subseteq Recorded'
    BY <1>0, <2>1 DEF Recorded
  <2>3. Cardinality(Recorded) + 1 <= Cardinality(Recorded')
        /\ Cardinality(Recorded) \in Nat /\ Cardinality(Recorded') \in Nat
    <3>1. Recorded \in SUBSET Leg /\ Recorded' \in SUBSET Leg
      BY DEF Recorded
    <3> QED
      BY <2>2, <3>1, OneMore, RecordedFinite
  <2>4. rows' \in Seq({"open", "closed"}) /\ Len(rows') = Len(rows) + 1
    BY <1>0, <2>1
  <2>5. found' \in [Leg -> 0..Len(rows')]
    BY <1>0, <2>1, <2>4
  <2> QED
    BY <1>0, <2>3, <2>4, <2>5 DEF RowsInv
<1>7. ASSUME NEW l \in Leg, Leave(l) PROVE RowsInv'
  <2>1. rows' \in Seq({"open", "closed"}) /\ Len(rows') = Len(rows)
    BY <1>0, <1>7 DEF Leave, AllClosed
  <2> QED
    BY <1>0, <1>7, <2>1, RowsStay DEF Leave, Recorded
<1>8. CASE Complete
  <2>1. rows' \in Seq({"open", "closed"}) /\ Len(rows') = Len(rows)
    BY <1>0, <1>8 DEF Complete, AllClosed
  <2> QED
    BY <1>0, <1>8, <2>1, RowsStay DEF Complete, tasks, Recorded
<1>9. CASE Invite \/ UNCHANGED vars
  BY <1>1, <1>9 DEF Invite, tasks, vars
<1> QED
  BY <1>2, <1>3, <1>4, <1>5, <1>6, <1>7, <1>8, <1>9 DEF Next, Tracks

\* The other variables.
RestTyped ==
  /\ registered \in SUBSET Leg /\ channel \in SUBSET Leg
  /\ leave \in [Leg -> {"none", "begun", "done"}]
  /\ lost \in SUBSET Leg /\ late \in SUBSET Leg
  /\ faults \in 0..MaxFaults

LEMMA RestStep == RestTyped /\ [Next]_vars => RestTyped'
<1> SUFFICES ASSUME RestTyped, [Next]_vars PROVE RestTyped'
  OBVIOUS
<1> USE DEF RestTyped
<1>1. Fault => faults' \in 0..MaxFaults
  BY ParticipantsAssumption DEF Fault, ParticipantsAssumption
<1>2. AllClosed => lost' = {} /\ late' = {}
  BY DEF AllClosed
<1>3. ASSUME NEW l \in Leg, Joins(l) \/ Leaves(l) \/ Hangs(l) \/ Seed(l) PROVE RestTyped'
  BY <1>1, <1>3 DEF Joins, Leaves, Hangs, Seed, tasks, history
<1>4. ASSUME NEW l \in Leg, Tracks(l) PROVE RestTyped'
  BY <1>2, <1>4 DEF Tracks, Resolve, Look, Reopen, Insert, Opened, Respond, Leave,
              Hangup, calls, history
<1>5. CASE Invite \/ Complete \/ UNCHANGED vars
  BY <1>2, <1>5 DEF Invite, Complete, vars, calls, tasks, history
<1> QED
  BY <1>3, <1>4, <1>5 DEF Next

LEMMA InitRows == Init => RowsInv /\ RestTyped
<1> SUFFICES ASSUME Init PROVE RowsInv /\ RestTyped
  OBVIOUS
<1>1. rows \in Seq({"open", "closed"}) /\ Len(rows) = 0
  BY EmptySeq DEF Init
<1>2. Recorded \in SUBSET Leg
  BY DEF Recorded
<1>3. RowsInv
  BY <1>1, <1>2, RecordedFinite DEF Init, RowsInv
<1>4. RestTyped
  <2>1. 0 \in 0..MaxFaults
    BY ParticipantsAssumption DEF ParticipantsAssumption
  <2> QED
    BY <2>1 DEF Init, RestTyped
<1> QED
  BY <1>3, <1>4

\* Every reachable state is well typed; in particular the participant has at
\* most one row for each leg, and a task found one of the rows there are.
THEOREM TypeCorrect == Spec => []TypeOK
<1>1. IInv /\ RowsInv /\ RestTyped => TypeOK
  <2> SUFFICES ASSUME IInv, RowsInv, RestTyped PROVE TypeOK
    OBVIOUS
  <2>1. Len(rows) <= Cardinality(Leg)
    <3>1. Recorded \in SUBSET Leg
      BY DEF Recorded
    <3> QED
      BY <3>1, RecordedFinite, ParticipantsAssumption, FS_CardinalityType
         DEF RowsInv, ParticipantsAssumption
  <2> QED
    BY <2>1 DEF IInv, RowsInv, RestTyped, TypeOK
<1> QED
  BY InitHolds, StepHolds, InitRows, RowsStep, RestStep, <1>1, PTL DEF Spec

-----------------------------------------------------------------------------
(* Who an open row stands for.                                               *)

AnyOpen == \E i \in DOMAIN rows : rows[i] = "open"
Held ==
  \/ late # {} \/ lost # {}
  \/ \E l \in Leg : leg[l] = "in" \/ leave[l] = "begun"

\* A task that opens a row accounts for it.
LEMMA OpenedHeld ==
  ASSUME NEW l \in Leg, Opened(l), UNCHANGED <<leg, leave, lost>>
  PROVE  Held'
BY DEF Opened, Held

LEMMA HeldStep ==
  IInv /\ RowsInv /\ RestTyped /\ RowsFollowCalls /\ [Next]_vars => RowsFollowCalls'
<1> SUFFICES ASSUME IInv, RowsInv, RestTyped, RowsFollowCalls, [Next]_vars, AnyOpen'
             PROVE  Held'
  BY DEF RowsFollowCalls, AnyOpen, Held
<1>0. /\ leg \in [Leg -> {"new", "in", "left", "gone"}]
      /\ leave \in [Leg -> {"none", "begun", "done"}]
      /\ AnyOpen => Held
  BY DEF IInv, RestTyped, RowsFollowCalls, AnyOpen, Held
<1>1. AllClosed => ~AnyOpen'
  BY DEF AllClosed, AnyOpen
<1>2. ASSUME UNCHANGED <<rows, leg, leave, lost, late>> PROVE Held'
  BY <1>0, <1>2 DEF AnyOpen, Held
<1>3. ASSUME NEW l \in Leg, Joins(l) PROVE Held'
  BY <1>0, <1>3 DEF Joins, Moves, Held
<1>4. ASSUME NEW l \in Leg, Leaves(l) PROVE Held'
  BY <1>0, <1>4 DEF Leaves, Moves, Held
<1>5. ASSUME NEW l \in Leg, Hangs(l) PROVE Held'
  BY <1>0, <1>5 DEF Hangs, Moves, history, AnyOpen, Held
<1>6. ASSUME NEW l \in Leg, Seed(l) \/ Resolve(l) \/ Look(l) \/ Respond(l) \/ Hangup(l)
      PROVE  Held'
  BY <1>2, <1>6 DEF Seed, Resolve, Look, Respond, Hangup, calls, tasks, history
<1>7. ASSUME NEW l \in Leg, Reopen(l) \/ Insert(l) PROVE Held'
  BY <1>7, OpenedHeld DEF Reopen, Insert, calls
<1>8. ASSUME NEW l \in Leg, Leave(l) PROVE Held'
  BY <1>1, <1>8 DEF Leave
<1>9. CASE Complete
  BY <1>1, <1>9 DEF Complete
<1>10. CASE Invite \/ UNCHANGED vars
  BY <1>2, <1>10 DEF Invite, vars, calls, tasks, history
<1> QED
  BY <1>3, <1>4, <1>5, <1>6, <1>7, <1>8, <1>9, <1>10 DEF Next, Tracks

\* Whichever tasks overlap, an open row of the participant has a leg in the room,
\* or one whose end is unrecorded or lost, or one whose join was recorded after
\* its end; no other order of the legs' tasks leaves a row open.
THEOREM RowsAreOfCalls == Spec => []RowsFollowCalls
<1>1. Init => RowsFollowCalls
  BY DEF Init, RowsFollowCalls
<1> QED
  BY InitHolds, StepHolds, InitRows, RowsStep, RestStep, HeldStep, <1>1, PTL DEF Spec

=============================================================================
