------------------------------ MODULE ErsProofs ------------------------------
(***************************************************************************)
(* Proofs about ErsIncident and ErsRing for every number of callers, either *)
(* graph and any number of faults: the type invariant; what the queue keeps *)
(* true while polls, completions, cancels and sweeps write it; and that the *)
(* calls with their ring loops are calls of ErsIncident, so that what is    *)
(* proved of those holds of them.                                           *)
(***************************************************************************)
EXTENDS ErsRing, FiniteSetTheorems, TLAPS

\* A call that has neither been given an incident nor put in the queue has no
\* record of its own yet.
Early == {"out", "routed", "creating", "queueing"}
Unrecorded ==
  \A c \in Caller :
    call[c].pc \in Early =>
      row[c].status = "none" /\ incident[c].status = "none"

\* A poll that has decided to promote a caller still finds him at the head of
\* the queue, if it finds him in the queue.
PromoterAtHead ==
  \A c \in Caller :
    call[c].pc = "promoting" /\ row[c].status = "QUEUED" => c \in Heads

\* The types, with what they rest on.
TypeInv == TypeOK /\ Unrecorded

LEMMA ConstantsTyped ==
  /\ N \in Nat /\ N > 0 /\ MaxFaults \in Nat
  /\ NoCaller \notin Caller /\ "primary" \in Tier
  /\ IsFiniteSet(Caller)
<1>1. IsFiniteSet(Caller) /\ Caller # {}
  BY IncidentAssumption DEF IncidentAssumption
<1>2. N \in Nat /\ N # 0
  BY <1>1, FS_CardinalityType, FS_EmptySet DEF N
<1> QED
  BY <1>1, <1>2, IncidentAssumption DEF IncidentAssumption

\* A record created now is dated within the bound: its call has none yet.
LEMMA NowBounded ==
  ASSUME NEW c \in Caller, incident[c].status = "none"
  PROVE  Now \in 0..N
<1> DEFINE S == {d \in Caller : incident[d].status # "none"}
<1>1. S \subseteq Caller \ {c}
  OBVIOUS
<1>2. IsFiniteSet(Caller \ {c}) /\ Cardinality(Caller \ {c}) = N - 1
  BY ConstantsTyped, FS_RemoveElement DEF N
<1>3. Cardinality(S) \in Nat /\ Cardinality(S) <= N - 1
  <2>1. IsFiniteSet(S) /\ Cardinality(S) <= Cardinality(Caller \ {c})
    BY <1>1, <1>2, FS_Subset
  <2> QED
    BY <2>1, <1>2, FS_CardinalityType
<1> QED
  BY <1>3, ConstantsTyped DEF Now

\* An incident that is there is completed, and stays one of its tier.
Completes(c) ==
  /\ incident[c].status # "none" /\ incident'[c].status = "COMPLETED"
  /\ incident'[c].tier = incident[c].tier

\* What completeIncidentCore does to each record: it closes one incident, and
\* hands the tier to the head of the queue.
LEMMA CoreEffect ==
  ASSUME TypeOK, NEW u \in Caller \cup {NoCaller}, CompleteIncidentCore(u)
  PROVE  /\ incident' \in [Caller -> Incident]
         /\ row' \in [Caller -> Row]
         /\ \A c \in Caller :
              \/ /\ row'[c] = row[c]
                 /\ \/ incident'[c] = incident[c]
                    \/ Completes(c)
              \/ /\ c \in Heads
                 /\ row'[c] = [row[c] EXCEPT !.status = "DEQUEUED"]
                 /\ incident'[c].status = "ACTIVE"
<1>0. /\ incident \in [Caller -> Incident] /\ row \in [Caller -> Row]
      /\ Heads \subseteq Caller
  BY DEF TypeOK, Heads, Queued
<1>1. CASE UNCHANGED <<incident, row>>
  BY <1>0, <1>1
<1> DEFINE closed == [incident EXCEPT ![u].status = "COMPLETED"]
<1>2. CASE ~UNCHANGED <<incident, row>>
  <2>1. u \in Caller /\ incident[u].status # "none"
    BY <1>2 DEF CompleteIncidentCore
  <2>2. closed \in [Caller -> Incident]
    BY <1>0, <2>1 DEF Incident, IncidentStatus
  <2>3. \A c \in Caller : \/ closed[c] = incident[c]
                         \/ /\ closed[c].status = "COMPLETED"
                            /\ closed[c].tier = incident[c].tier
    BY <1>0, <2>1 DEF Incident
  <2>4. \A c \in Caller : closed[c] # incident[c] => c = u
    BY <1>0, <2>1
  <2>5. CASE incident' = closed /\ UNCHANGED row
    BY <2>1, <2>2, <2>3, <2>4, <2>5, <1>0 DEF Completes
  <2>6. ASSUME NEW h \in Heads,
               row' = [row EXCEPT ![h].status = "DEQUEUED"],
               incident' = [closed EXCEPT ![h].status = "ACTIVE",
                                          ![h].tier = incident[u].tier]
        PROVE  /\ incident' \in [Caller -> Incident]
               /\ row' \in [Caller -> Row]
               /\ \A c \in Caller :
                    \/ /\ row'[c] = row[c]
                       /\ \/ incident'[c] = incident[c]
                          \/ Completes(c)
                    \/ /\ c \in Heads
                       /\ row'[c] = [row[c] EXCEPT !.status = "DEQUEUED"]
                       /\ incident'[c].status = "ACTIVE"
    <3>1. h \in Caller /\ incident[u].tier \in Tier
      BY <1>0, <2>1 DEF Incident
    <3>2. row' \in [Caller -> Row]
      BY <1>0, <2>6, <3>1 DEF Row, RowStatus
    <3> HIDE DEF closed
    <3>3. incident' \in [Caller -> Incident]
      BY <2>2, <2>6, <3>1 DEF Incident, IncidentStatus
    <3>4. /\ incident'[h].status = "ACTIVE"
          /\ row'[h] = [row[h] EXCEPT !.status = "DEQUEUED"]
      BY <1>0, <2>2, <2>6, <3>1 DEF Incident, Row
    <3>5. \A c \in Caller \ {h} : incident'[c] = closed[c] /\ row'[c] = row[c]
      BY <1>0, <2>2, <2>6, <3>1
    <3> QED
      BY <2>1, <2>3, <2>4, <2>6, <3>2, <3>3, <3>4, <3>5 DEF Completes
  <2> QED
    BY <1>2, <2>5, <2>6 DEF CompleteIncidentCore
<1> QED
  BY <1>1, <1>2

-----------------------------------------------------------------------------
LEMMA InitTyped == Init => TypeInv
<1> SUFFICES ASSUME Init PROVE TypeInv
  OBVIOUS
<1>1. NewCall \in Call /\ NewRow \in Row /\ NewIncident \in Incident
  BY ConstantsTyped DEF NewCall, Call, Pc, NewRow, Row, RowStatus,
                        NewIncident, Incident, IncidentStatus
<1>2. NoRecon \in Recon /\ 0 \in 0..MaxFaults
  BY ConstantsTyped DEF NoRecon, Recon
<1>3. \A c \in Caller : row[c].status = "none" /\ incident[c].status = "none"
  BY DEF Init, NewRow, NewIncident
<1>4. Queued = {}
  BY <1>3 DEF Queued
<1> QED
  BY <1>1, <1>2, <1>3, <1>4 DEF Init, TypeInv, TypeOK, Unrecorded

\* A step that gives a call a state no earlier than the one it had, and writes
\* no record, keeps the invariant.
LEMMA CallMoves ==
  ASSUME TypeInv, NEW c \in Caller, NEW r \in Call, SetCall(c, r),
         r.pc \in Early => call[c].pc \in Early,
         UNCHANGED <<incident, row, recon, sweep, node, link, faults, others>>,
         destroyed' \in [Tier -> BOOLEAN]
  PROVE  TypeInv'
<1>1. call' \in [Caller -> Call]
  BY DEF TypeInv, TypeOK, SetCall
<1>2. \A d \in Caller : call'[d].pc \in Early => call[d].pc \in Early
  BY DEF TypeInv, TypeOK, SetCall
<1>3. Queued' = Queued
  BY DEF Queued
<1>4. TypeOK'
  BY <1>1, <1>3 DEF TypeInv, TypeOK
<1>5. Unrecorded'
  BY <1>2 DEF TypeInv, Unrecorded
<1> QED
  BY <1>4, <1>5 DEF TypeInv

\* Most steps change the place of a call only.
LEMMA CallGoes ==
  ASSUME TypeInv, NEW c \in Caller, NEW pc \in Pc \ Early, Go(c, pc),
         UNCHANGED <<incident, row, recon, sweep, node, link, faults, others>>,
         destroyed' \in [Tier -> BOOLEAN]
  PROVE  TypeInv'
<1> DEFINE r == [call[c] EXCEPT !.pc = pc]
<1>1. call[c] \in Call
  BY DEF TypeInv, TypeOK
<1>2. r \in Call /\ r.pc = pc
  BY <1>1 DEF Call
<1>3. SetCall(c, r)
  BY DEF Go
<1> HIDE DEF r
<1> QED
  BY <1>2, <1>3, CallMoves

\* A completion, by whomever, keeps what the invariant says of the records.
LEMMA CoreKeeps ==
  ASSUME TypeInv, NEW u \in Caller \cup {NoCaller}, CompleteIncidentCore(u)
  PROVE  /\ incident' \in [Caller -> Incident]
         /\ row' \in [Caller -> Row]
         /\ \A c \in Queued' : row'[c].position > 0
         /\ \A c \in Caller : call[c].pc \in Early =>
              row'[c].status = "none" /\ incident'[c].status = "none"
<1> USE DEF TypeInv
<1>1. \A c \in Queued' : c \in Queued /\ row'[c] = row[c]
  <2> SUFFICES ASSUME NEW c \in Caller, row'[c].status = "QUEUED"
               PROVE  row[c].status = "QUEUED" /\ row'[c] = row[c]
    BY DEF Queued
  <2>1. row[c] \in Row
    BY DEF TypeOK
  <2> QED
    BY <2>1, CoreEffect DEF Row
<1>2. ASSUME NEW c \in Caller, call[c].pc \in Early
      PROVE  row'[c].status = "none" /\ incident'[c].status = "none"
  BY <1>2, CoreEffect DEF Completes, Unrecorded, Heads, Queued
<1> QED
  BY <1>1, <1>2, CoreEffect DEF TypeOK

LEMMA RingAllTyped ==
  ASSUME TypeInv, NEW c \in Caller, Dial(c) \/ RingAllStep(c)
  PROVE  TypeInv'
<1> USE DEF switch, jobs, health
<1>0. call[c] \in Call /\ destroyed \in [Tier -> BOOLEAN]
  BY DEF TypeInv, TypeOK
<1>1. CASE Dial(c)
  <2>1. [call[c] EXCEPT !.pc = "routed"] \in Call
        /\ [call[c] EXCEPT !.pc = "queueing"] \in Call
        /\ \A t \in Tier : [call[c] EXCEPT !.pc = "routed", !.tier = t] \in Call
    BY <1>0 DEF Call, Pc
  <2>2. call[c].pc \in Early /\ FirstFree \subseteq Tier
    BY <1>1, ConstantsTyped DEF Dial, Early, FirstFree, Free
  <2>3. \E r \in Call : SetCall(c, r)
    BY <1>1, <2>1, <2>2 DEF Dial, Go
  <2> QED
    BY <1>0, <1>1, <2>2, <2>3, CallMoves DEF Dial
<1>2. CASE RingAllCheck(c)
  <2>1. [call[c] EXCEPT !.pc = "creating"] \in Call
    BY <1>0 DEF Call, Pc
  <2> QED
    BY <1>0, <1>2, <2>1, CallMoves DEF RingAllCheck, Go, Early
<1>3. CASE RingAllCreate(c)
  <2> DEFINE i == [status |-> "ACTIVE", tier |-> call[c].tier, started |-> Now]
             r == [call[c] EXCEPT !.pc = "bridging", !.uuid = c]
  <2>1. row[c].status = "none" /\ incident[c].status = "none"
    BY <1>3 DEF RingAllCreate, TypeInv, Unrecorded, Early
  <2>2. i \in Incident /\ r \in Call /\ r.pc = "bridging"
    BY <1>0, <2>1, NowBounded DEF Incident, IncidentStatus, Call, Pc
  <2>3. /\ incident' = [incident EXCEPT ![c] = i] /\ call' = [call EXCEPT ![c] = r]
        /\ UNCHANGED <<row, others, destroyed, recon, sweep, node, link, faults>>
    BY <1>3 DEF RingAllCreate, SetCall
  <2> HIDE DEF i, r
  <2>4. incident' \in [Caller -> Incident] /\ call' \in [Caller -> Call]
    BY <2>2, <2>3 DEF TypeInv, TypeOK
  <2>5. Queued' = Queued
    BY <2>3 DEF Queued
  <2>6. TypeOK'
    BY <2>3, <2>4, <2>5 DEF TypeInv, TypeOK
  <2>7. Unrecorded'
    <3> SUFFICES ASSUME NEW d \in Caller, call'[d].pc \in Early
                 PROVE  row'[d].status = "none" /\ incident'[d].status = "none"
      BY DEF Unrecorded
    <3>1. d # c
      BY <2>2, <2>3 DEF TypeInv, TypeOK, Early
    <3> QED
      BY <2>3, <3>1 DEF TypeInv, TypeOK, Unrecorded
  <2> QED
    BY <2>6, <2>7 DEF TypeInv
<1>4. CASE RequestFails(c)
  <2>1. Ended \in Call /\ Ended.pc \notin Early
    BY ConstantsTyped DEF Ended, NewCall, Call, Pc, Early
  <2> QED
    BY <1>0, <1>4, <2>1, CallMoves DEF RequestFails
<1>5. ASSUME NEW u \in Caller \cup {NoCaller}, RingAllRejoin(c, u)
      PROVE  TypeInv'
  <2>1. [call[c] EXCEPT !.pc = "bridging", !.uuid = u] \in Call
    BY <1>0 DEF Call, Pc
  <2> QED
    BY <1>0, <1>5, <2>1, CallMoves DEF RingAllRejoin, Early
<1> QED
  BY <1>1, <1>2, <1>3, <1>4, <1>5 DEF RingAllStep

LEMMA EnqueueTyped ==
  ASSUME TypeInv, NEW S \in SUBSET Caller, NEW p \in 0..N, Enqueue(S, p)
  PROVE  TypeInv'
<1> USE DEF switch, jobs, health
<1> DEFINE q == [status |-> "QUEUED", position |-> p]
           i == [status |-> "QUEUED", tier |-> "primary", started |-> Now]
<1>1. \A c \in S : row[c].status = "none" /\ incident[c].status = "none"
  BY DEF Enqueue, TypeInv, Unrecorded, Early
<1>2. p > 0
  <2>0. \/ p = 1
        \/ \E d \in Queued : row[d].position + 1 = p
    BY Zenon DEF Enqueue
  <2>1. CASE p = 1
    BY <2>1
  <2>2. CASE \E d \in Queued : row[d].position + 1 = p
    <3>1. PICK d \in Queued : row[d].position + 1 = p
      BY <2>2
    <3>2. row[d].position > 0 /\ row[d].position \in 0..N
      BY <3>1 DEF TypeInv, TypeOK, Queued, Row
    <3> QED
      BY <3>1, <3>2, ConstantsTyped
  <2> QED
    BY <2>0, <2>1, <2>2
<1>3. S # {} => Now \in 0..N
  BY <1>1, NowBounded
<1>4. S # {} /\ q \in Row /\ i \in Incident
  BY <1>3, ConstantsTyped DEF Enqueue, Row, RowStatus, Incident, IncidentStatus
<1>5. /\ row' = [c \in Caller |-> IF c \in S THEN q ELSE row[c]]
      /\ incident' = [c \in Caller |-> IF c \in S THEN i ELSE incident[c]]
      /\ UNCHANGED <<others, destroyed, recon, sweep, node, link, faults>>
  BY DEF Enqueue
<1>6. q.status = "QUEUED" /\ q.position = p
  OBVIOUS
<1> HIDE DEF q, i
<1>7. row' \in [Caller -> Row] /\ incident' \in [Caller -> Incident]
  BY <1>4, <1>5 DEF TypeInv, TypeOK
<1>8. \A c \in S : [call[c] EXCEPT !.pc = "waiting", !.uuid = c] \in Call
  <2> SUFFICES ASSUME NEW c \in S
               PROVE  [call[c] EXCEPT !.pc = "waiting", !.uuid = c] \in Call
    OBVIOUS
  <2>1. call[c] \in Call
    BY DEF TypeInv, TypeOK
  <2> QED
    BY <2>1 DEF Call, Pc
<1>9. call' \in [Caller -> Call]
  BY <1>8 DEF Enqueue, TypeInv, TypeOK
<1>10. \A c \in Queued' : row'[c].position > 0
  BY <1>2, <1>5, <1>6 DEF Queued, TypeInv, TypeOK
<1>11. \A c \in S : call'[c].pc = "waiting"
  BY DEF Enqueue, TypeInv, TypeOK, Call
<1>12. Unrecorded'
  <2> SUFFICES ASSUME NEW c \in Caller, call'[c].pc \in Early
               PROVE  row'[c].status = "none" /\ incident'[c].status = "none"
    BY DEF Unrecorded
  <2>1. c \notin S
    BY <1>11 DEF Early
  <2>2. call'[c] = call[c] /\ row'[c] = row[c] /\ incident'[c] = incident[c]
    BY <2>1 DEF Enqueue
  <2> QED
    BY <2>2 DEF TypeInv, Unrecorded
<1> QED
  BY <1>5, <1>7, <1>9, <1>10, <1>12 DEF TypeInv, TypeOK

LEMMA PollTyped ==
  ASSUME TypeInv, NEW c \in Caller, PollStep(c) \/ GiveUp(c)
  PROVE  TypeInv'
<1> USE DEF switch, jobs, health
<1>0. /\ call[c] \in Call /\ row[c] \in Row /\ incident[c] \in Incident
      /\ destroyed \in [Tier -> BOOLEAN]
  BY DEF TypeInv, TypeOK
<1>1. Ended \in Call /\ Ended.pc \notin Early
  BY ConstantsTyped DEF Ended, NewCall, Call, Pc, Early
<1>2. CASE PollReady(c)
  <2> DEFINE r == [call[c] EXCEPT !.pc = "bridging", !.tier = incident[c].tier]
  <2>1. r \in Call /\ r.pc = "bridging"
    BY <1>0 DEF Call, Pc, Incident
  <2>2. /\ SetCall(c, r)
        /\ UNCHANGED <<incident, row, others, destroyed, recon, sweep, node, link, faults>>
    BY <1>2 DEF PollReady
  <2> HIDE DEF r
  <2> QED
    BY <1>0, <2>1, <2>2, CallMoves DEF Early
<1>3. CASE PollCancelled(c) \/ GiveUp(c)
  BY <1>0, <1>1, <1>3, CallMoves DEF PollCancelled, GiveUp
<1>4. CASE PollSeesFree(c)
  <2>1. PICK t \in FirstFree :
          SetCall(c, [call[c] EXCEPT !.pc = "promoting", !.tier = t])
    BY <1>4 DEF PollSeesFree
  <2>2. t \in Tier
    BY <2>1, ConstantsTyped DEF FirstFree, Free
  <2> DEFINE r == [call[c] EXCEPT !.pc = "promoting", !.tier = t]
  <2>3. r \in Call /\ r.pc = "promoting"
    BY <1>0, <2>2 DEF Call, Pc
  <2>4. /\ SetCall(c, r)
        /\ UNCHANGED <<incident, row, others, destroyed, recon, sweep, node, link, faults>>
    BY <1>4, <2>1 DEF PollSeesFree
  <2> HIDE DEF r
  <2> QED
    BY <1>0, <2>3, <2>4, CallMoves DEF Early
<1>5. CASE PollPromote(c)
  <2>1. \A pc \in {"bridging", "waiting"} : [call[c] EXCEPT !.pc = pc] \in Call
    BY <1>0 DEF Call, Pc
  <2>2. CASE row[c].status # "QUEUED"
    BY <1>0, <1>5, <2>2, CallGoes DEF PollPromote, Early, Pc
  <2>3. CASE row[c].status = "QUEUED"
    <3>1. /\ row' = [row EXCEPT ![c].status = "DEQUEUED"]
          /\ incident' = [incident EXCEPT ![c].status = "ACTIVE",
                                          ![c].tier = call[c].tier]
          /\ call' = [call EXCEPT ![c] = [call[c] EXCEPT !.pc = "bridging"]]
          /\ UNCHANGED <<others, destroyed, recon, sweep, node, link, faults>>
      BY <1>5, <2>3 DEF PollPromote, Go, SetCall
    <3>2. call[c].tier \in Tier
      BY <1>0 DEF Call
    <3>3. row' \in [Caller -> Row]
      BY <1>0, <3>1 DEF TypeInv, TypeOK, Row, RowStatus
    <3>4. incident' \in [Caller -> Incident]
      BY <1>0, <3>1, <3>2 DEF TypeInv, TypeOK, Incident, IncidentStatus
    <3>5. call' \in [Caller -> Call] /\ call'[c].pc = "bridging"
      BY <1>0, <2>1, <3>1 DEF TypeInv, TypeOK, Call
    <3>6. \A d \in Caller \ {c} :
            row'[d] = row[d] /\ incident'[d] = incident[d] /\ call'[d] = call[d]
      BY <3>1 DEF TypeInv, TypeOK
    <3>7. row'[c].status = "DEQUEUED"
      BY <1>0, <3>1 DEF TypeInv, TypeOK, Row
    <3>8. \A d \in Queued' : row'[d].position > 0
      BY <3>6, <3>7 DEF Queued, TypeInv, TypeOK
    <3>9. Unrecorded'
      BY <3>5, <3>6 DEF Unrecorded, TypeInv, Early
    <3> QED
      BY <3>1, <3>3, <3>4, <3>5, <3>8, <3>9 DEF TypeInv, TypeOK
  <2> QED
    BY <2>2, <2>3
<1> QED
  BY <1>2, <1>3, <1>4, <1>5 DEF PollStep

LEMMA EmptiedTyped ==
  ASSUME TypeOK, NEW t \in Tier, NEW m, Emptied(t, m)
  PROVE  destroyed' \in [Tier -> BOOLEAN]
  BY DEF TypeOK, Emptied

LEMMA RoomTyped ==
  ASSUME TypeInv, NEW c \in Caller, RoomStep(c)
  PROVE  TypeInv'
<1> USE DEF switch, jobs, health
<1>0. /\ call[c] \in Call /\ destroyed \in [Tier -> BOOLEAN]
      /\ call[c].tier \in Tier /\ call[c].uuid \in Caller \cup {NoCaller}
  BY DEF TypeInv, TypeOK, Call
<1>2. CASE Join(c)
  BY <1>0, <1>2, CallGoes DEF Join, Early, Pc
<1>3. CASE HangUpEarly(c)
  BY <1>0, <1>3, CallGoes DEF HangUpEarly, Early, Pc
<1>4. CASE Leave(c)
  <2>1. destroyed' \in [Tier -> BOOLEAN]
    BY <1>0, <1>4, EmptiedTyped DEF Leave, TypeInv
  <2>2. Go(c, "left")
    BY <1>4 DEF Leave
  <2>3. UNCHANGED <<incident, row, others, recon, sweep, node, link, faults>>
    BY <1>4 DEF Leave
  <2> QED
    BY <2>1, <2>2, <2>3, CallGoes DEF Early, Pc
<1>5. CASE Complete(c)
  <2>1. Ended \in Call /\ Ended.pc \notin Early
    BY ConstantsTyped DEF Ended, NewCall, Call, Pc, Early
  <2>2. CASE UNCHANGED <<incident, row>>
    BY <1>0, <1>5, <2>1, <2>2, CallMoves DEF Complete
  <2>3. CASE CompleteIncidentCore(call[c].uuid)
    <3>1. call' = [call EXCEPT ![c] = Ended]
      BY <1>5 DEF Complete, SetCall
    <3>2. call' \in [Caller -> Call]
      BY <2>1, <3>1 DEF TypeInv, TypeOK
    <3>3. \A d \in Caller : call'[d].pc \in Early => call[d].pc \in Early
      BY <2>1, <3>1 DEF TypeInv, TypeOK
    <3>4. UNCHANGED <<others, destroyed, recon, sweep, node, link, faults>>
      BY <1>5 DEF Complete
    <3> QED
      BY <1>0, <2>3, <3>2, <3>3, <3>4, CoreKeeps DEF TypeInv, TypeOK, Unrecorded
  <2> QED
    BY <1>5, <2>2, <2>3 DEF Complete
<1> QED
  BY <1>2, <1>3, <1>4, <1>5 DEF RoomStep

LEMMA OthersTyped ==
  ASSUME TypeInv, NEW t \in Tier, OthersJoin(t) \/ OthersLeave(t)
  PROVE  TypeInv'
<1> USE DEF switch, jobs, health
<1>1. /\ others' \in [Tier -> BOOLEAN]
      /\ UNCHANGED <<call, incident, row, recon, sweep, node, link, faults>>
  BY DEF OthersJoin, OthersLeave, TypeInv, TypeOK
<1>2. destroyed' \in [Tier -> BOOLEAN]
  BY EmptiedTyped DEF OthersJoin, OthersLeave, TypeInv, TypeOK
<1>3. Queued' = Queued
  BY <1>1 DEF Queued
<1> QED
  BY <1>1, <1>2, <1>3 DEF TypeInv, TypeOK, Unrecorded

\* A completion by one of the two reconciliations.
LEMMA JobCompletes ==
  ASSUME TypeInv, NEW u \in Caller, CompleteIncidentCore(u),
         recon' \in [Tier -> Recon], sweep' \in Caller \cup {NoCaller},
         UNCHANGED <<call, others, destroyed, node, link, faults>>
  PROVE  TypeInv'
  BY CoreKeeps DEF TypeInv, TypeOK, Unrecorded

LEMMA ReconcileTyped ==
  ASSUME TypeInv, NEW t \in Tier, ReconcileStep(t)
  PROVE  TypeInv'
<1> USE DEF switch, jobs, health
<1>0. recon \in [Tier -> Recon] /\ recon[t].todo \in SUBSET Caller
      /\ recon[t].pc \in {"idle", "first", "second"}
  BY DEF TypeInv, TypeOK, Recon
<1>1. ASSUME NEW pc \in {"idle", "first", "second"}, NEW todo \in SUBSET Caller,
             SetRecon(t, pc, todo)
      PROVE  recon' \in [Tier -> Recon]
  BY <1>0, <1>1 DEF SetRecon, Recon
<1>2. ActiveIn(t) \in SUBSET Caller
  BY DEF ActiveIn
<1>3. CASE ReconcileRead(t) \/ ReconcileAgain(t)
  <2>1. recon' \in [Tier -> Recon]
    BY <1>0, <1>1, <1>2, <1>3 DEF ReconcileRead, ReconcileAgain
  <2>2. destroyed' \in [Tier -> BOOLEAN]
    BY <1>3 DEF ReconcileRead, ReconcileAgain, TypeInv, TypeOK
  <2>3. UNCHANGED <<call, incident, row, others, sweep, node, link, faults>>
    BY <1>3 DEF ReconcileRead, ReconcileAgain
  <2>4. Queued' = Queued
    BY <2>3 DEF Queued
  <2> QED
    BY <2>1, <2>2, <2>3, <2>4 DEF TypeInv, TypeOK, Unrecorded
<1>4. ASSUME NEW c \in Caller, ReconcileComplete(t, c) PROVE TypeInv'
  <2>1. recon' \in [Tier -> Recon]
    BY <1>0, <1>1, <1>4 DEF ReconcileComplete
  <2>2. sweep' \in Caller \cup {NoCaller}
    BY <1>4 DEF ReconcileComplete, TypeInv, TypeOK
  <2> QED
    BY <1>4, <2>1, <2>2, JobCompletes DEF ReconcileComplete
<1> QED
  BY <1>3, <1>4 DEF ReconcileStep

LEMMA SweepTyped ==
  ASSUME TypeInv, SweepStep
  PROVE  TypeInv'
<1> USE DEF switch, jobs, health
<1>1. CASE SweepComplete
  <2>1. sweep \in Caller /\ sweep' = NoCaller /\ recon' \in [Tier -> Recon]
    BY <1>1 DEF SweepComplete, TypeInv, TypeOK
  <2> QED
    BY <1>1, <2>1, JobCompletes DEF SweepComplete
<1>2. ASSUME NEW c \in Caller, SweepCount(c) PROVE TypeInv'
  <2>1. /\ sweep' \in Caller \cup {NoCaller}
        /\ UNCHANGED <<call, incident, row, others, destroyed, recon, node, link, faults>>
    BY <1>2 DEF SweepCount
  <2>2. Queued' = Queued
    BY <2>1 DEF Queued
  <2> QED
    BY <2>1, <2>2 DEF TypeInv, TypeOK, Unrecorded
<1> QED
  BY <1>1, <1>2 DEF SweepStep

\* A step that takes a row out of the queue, and no call anywhere.
LEMMA RowLeaves ==
  ASSUME TypeInv, NEW c \in Caller, row[c].status = "QUEUED",
         NEW st \in RowStatus \ {"QUEUED"}, row' = [row EXCEPT ![c].status = st]
  PROVE  /\ row' \in [Caller -> Row]
         /\ row'[c].status = st
         /\ \A d \in Caller \ {c} : row'[d] = row[d]
         /\ \A d \in Queued' : d \in Queued /\ row'[d] = row[d]
<1>1. row \in [Caller -> Row] /\ row[c] \in Row
  BY DEF TypeInv, TypeOK
<1>2. row' \in [Caller -> Row]
  BY <1>1 DEF Row
<1>3. row'[c].status = st
  BY <1>1 DEF Row
<1>4. \A d \in Caller \ {c} : row'[d] = row[d]
  BY <1>1
<1> QED
  BY <1>2, <1>3, <1>4 DEF Queued

LEMMA RowTyped ==
  ASSUME TypeInv, NEW c \in Caller, RowStep(c) \/ OperatorCancel(c)
  PROVE  TypeInv'
<1> USE DEF switch, jobs, health
<1>1. CASE SweepExpire(c)
  <2>1. /\ row[c].status = "QUEUED" /\ row' = [row EXCEPT ![c].status = "EXPIRED"]
        /\ UNCHANGED <<call, incident, others, destroyed, recon, sweep, node, link, faults>>
    BY <1>1 DEF SweepExpire
  <2>2. "EXPIRED" \in RowStatus \ {"QUEUED"}
    BY DEF RowStatus
  <2>3. call[c].pc \notin Early
    BY <2>1 DEF TypeInv, Unrecorded
  <2>4. Unrecorded'
    BY <2>1, <2>2, <2>3, RowLeaves DEF TypeInv, Unrecorded
  <2> QED
    BY <2>1, <2>2, <2>4, RowLeaves DEF TypeInv, TypeOK
<1>2. CASE SweepOrphan(c)
  <2>1. /\ recon' \in [Tier -> Recon] /\ sweep' \in Caller \cup {NoCaller}
    BY <1>2 DEF SweepOrphan, TypeInv, TypeOK
  <2> QED
    BY <1>2, <2>1, JobCompletes DEF SweepOrphan
<1>3. CASE OperatorCancel(c)
  <2>1. /\ incident[c].status = "QUEUED"
        /\ incident' = [incident EXCEPT ![c].status = "CANCELLED"]
        /\ UNCHANGED <<call, others, destroyed, recon, sweep, node, link, faults>>
    BY <1>3 DEF OperatorCancel
  <2>2. call[c].pc \notin Early
    BY <2>1 DEF TypeInv, Unrecorded
  <2>3. incident' \in [Caller -> Incident]
    BY <2>1 DEF TypeInv, TypeOK, Incident, IncidentStatus
  <2>4. \A d \in Caller \ {c} : incident'[d] = incident[d]
    BY <2>1 DEF TypeInv, TypeOK
  <2>5. CASE row[c].status = "QUEUED"
    <3>1. row' = [row EXCEPT ![c].status = "CANCELLED"]
      BY <1>3, <2>5 DEF OperatorCancel
    <3>2. "CANCELLED" \in RowStatus \ {"QUEUED"}
      BY DEF RowStatus
    <3>3. Unrecorded'
      BY <2>1, <2>2, <2>4, <2>5, <3>1, <3>2, RowLeaves DEF TypeInv, Unrecorded
    <3> QED
      BY <2>1, <2>3, <2>5, <3>1, <3>2, <3>3, RowLeaves DEF TypeInv, TypeOK
  <2>6. CASE row[c].status # "QUEUED"
    <3>1. row' = row
      BY <1>3, <2>6 DEF OperatorCancel
    <3>2. Queued' = Queued
      BY <3>1 DEF Queued
    <3> QED
      BY <2>1, <2>2, <2>3, <2>4, <3>1, <3>2 DEF TypeInv, TypeOK, Unrecorded
  <2> QED
    BY <2>5, <2>6
<1> QED
  BY <1>1, <1>2, <1>3 DEF RowStep

HealthStep == Crash \/ Restart \/ LinkDrops \/ LinkReturns

\* A crash writes no record, and sets no call back.
LEMMA HealthTyped ==
  ASSUME TypeInv, HealthStep
  PROVE  TypeInv'
<1> USE DEF switch, jobs, health
<1>1. UNCHANGED <<incident, row, others>> /\ Queued' = Queued
  BY DEF HealthStep, Crash, Restart, LinkDrops, LinkReturns, Queued
<1>2. /\ node' \in {"up", "down"} /\ link' \in {"up", "down"}
      /\ faults' \in 0..MaxFaults
  BY ConstantsTyped
     DEF HealthStep, Crash, Restart, LinkDrops, LinkReturns, TypeInv, TypeOK
<1>3. /\ recon' \in [Tier -> Recon] /\ destroyed' \in [Tier -> BOOLEAN]
      /\ sweep' \in Caller \cup {NoCaller}
  <2>1. NoRecon \in Recon
    BY DEF NoRecon, Recon
  <2> QED
    BY <2>1 DEF HealthStep, Crash, Restart, LinkDrops, LinkReturns, TypeInv, TypeOK
<1>4. \A c \in Caller :
        call'[c] \in Call /\ (call'[c].pc \in Early => call[c].pc \in Early)
  <2>1. CASE Crash
    <3> SUFFICES ASSUME NEW c \in Caller
                 PROVE  call'[c] \in Call
                        /\ (call'[c].pc \in Early => call[c].pc \in Early)
      OBVIOUS
    <3>1. call[c] \in Call
      BY DEF TypeInv, TypeOK
    <3>2. Ended \in Call /\ Ended.pc = "done"
      BY ConstantsTyped DEF Ended, NewCall, Call, Pc
    <3>3. /\ [call[c] EXCEPT !.pc = "waiting"] \in Call
          /\ [call[c] EXCEPT !.pc = "waiting"].pc = "waiting"
      BY <3>1 DEF Call, Pc
    <3>4. \/ call'[c] = Ended
          \/ call'[c] = [call[c] EXCEPT !.pc = "waiting"]
          \/ call'[c] = call[c]
      BY <2>1, Zenon DEF Crash
    <3> QED
      BY <3>1, <3>2, <3>3, <3>4 DEF Early
  <2>2. CASE ~Crash
    BY <2>2 DEF HealthStep, Restart, LinkDrops, LinkReturns, TypeInv, TypeOK
  <2> QED
    BY <2>1, <2>2
<1>5. call' \in [Caller -> Call]
  <2>1. \E f : call' = [c \in Caller |-> f[c]]
    BY DEF HealthStep, Crash, Restart, LinkDrops, LinkReturns, TypeInv, TypeOK
  <2> QED
    BY <1>4, <2>1
<1> QED
  BY <1>1, <1>2, <1>3, <1>4, <1>5 DEF TypeInv, TypeOK, Unrecorded

-----------------------------------------------------------------------------
LEMMA TypeInvStep == TypeInv /\ [Next]_vars => TypeInv'
<1> SUFFICES ASSUME TypeInv, [Next]_vars PROVE TypeInv'
  OBVIOUS
<1>1. ASSUME NEW c \in Caller, \/ Dial(c) \/ RingAllStep(c) \/ PollStep(c)
                               \/ GiveUp(c) \/ RoomStep(c) \/ RowStep(c)
                               \/ OperatorCancel(c)
      PROVE  TypeInv'
  BY <1>1, RingAllTyped, PollTyped, RoomTyped, RowTyped
<1>2. ASSUME NEW S \in SUBSET Caller, NEW p \in 0..N, Enqueue(S, p)
      PROVE  TypeInv'
  BY <1>2, EnqueueTyped
<1>3. ASSUME NEW t \in Tier, OthersJoin(t) \/ OthersLeave(t) \/ ReconcileStep(t)
      PROVE  TypeInv'
  BY <1>3, OthersTyped, ReconcileTyped
<1>4. CASE SweepStep
  BY <1>4, SweepTyped
<1>5. CASE HealthStep
  BY <1>5, HealthTyped
<1>6. CASE UNCHANGED vars
  BY <1>6 DEF vars, TypeInv, TypeOK, Unrecorded, Queued
<1> QED
  BY <1>1, <1>2, <1>3, <1>4, <1>5, <1>6 DEF Next, HealthStep

\* Every variable holds a value of its column or field in every state of the
\* calls of a configuration: ersRingAll, ersOverflowEnqueue, ersOverflowPoll,
\* completeIncidentCore and the sweeps, whatever their order.
THEOREM TypeCorrect == Spec => []TypeOK
<1>1. TypeInv => TypeOK
  BY DEF TypeInv
<1> QED
  BY InitTyped, TypeInvStep, <1>1, PTL DEF Spec

-----------------------------------------------------------------------------
(* What one step does to the two records of a caller. *)

Kept(c) == row'[c] = row[c] /\ incident'[c] = incident[c]

Closed(c) == row'[c] = row[c] /\ Completes(c)

Created(c) ==
  /\ row'[c] = row[c] /\ row[c].status = "none"
  /\ incident[c].status = "none" /\ incident'[c].status = "ACTIVE"

Queues(c) ==
  /\ call[c].pc = "queueing"
  /\ row[c].status = "none" /\ row'[c].status = "QUEUED"
  /\ \A d \in Queued : row[d].position <= row'[c].position
  /\ incident[c].status = "none" /\ incident'[c].status = "QUEUED"

Promoted(c) ==
  /\ row[c].status = "QUEUED"
  /\ row'[c].status = "DEQUEUED" /\ incident'[c].status = "ACTIVE"
  /\ c \in Heads \/ call[c].pc = "promoting"

Expires(c) ==
  /\ row[c].status = "QUEUED" /\ row'[c].status = "EXPIRED"
  /\ incident'[c] = incident[c]

Cancels(c) ==
  /\ incident[c].status = "QUEUED" /\ incident'[c].status = "CANCELLED"
  /\ incident'[c].tier = incident[c].tier
  /\ IF row[c].status = "QUEUED" THEN row'[c].status = "CANCELLED"
     ELSE row'[c] = row[c]

RecordStep(c) ==
  \/ Kept(c) \/ Closed(c) \/ Created(c) \/ Queues(c) \/ Promoted(c)
  \/ Expires(c) \/ Cancels(c)

LEMMA CoreRecords ==
  ASSUME TypeInv, NEW u \in Caller \cup {NoCaller}, CompleteIncidentCore(u),
         NEW c \in Caller
  PROVE  RecordStep(c)
<1>1. row[c] \in Row
  BY DEF TypeInv, TypeOK
<1>2. CASE row'[c] = row[c]
           /\ \/ incident'[c] = incident[c]
              \/ Completes(c)
  BY <1>2 DEF RecordStep, Kept, Closed
<1>3. CASE /\ c \in Heads
           /\ row'[c] = [row[c] EXCEPT !.status = "DEQUEUED"]
           /\ incident'[c].status = "ACTIVE"
  <2>1. row[c].status = "QUEUED"
    BY <1>3 DEF Heads, Queued
  <2>2. row'[c].status = "DEQUEUED"
    BY <1>1, <1>3 DEF Row
  <2> QED
    BY <1>3, <2>1, <2>2 DEF RecordStep, Promoted
<1> QED
  BY <1>2, <1>3, CoreEffect DEF TypeInv

\* Every step, by whichever handler, does one of these to a caller's records.
LEMMA RecordSteps ==
  ASSUME TypeInv, [Next]_vars, NEW c \in Caller
  PROVE  RecordStep(c)
<1> USE DEF switch, jobs, health
<1>0. row \in [Caller -> Row] /\ incident \in [Caller -> Incident]
  BY DEF TypeInv, TypeOK
<1>1. CASE UNCHANGED <<incident, row>>
  BY <1>1 DEF RecordStep, Kept
<1>2. ASSUME NEW u \in Caller \cup {NoCaller}, CompleteIncidentCore(u)
      PROVE  RecordStep(c)
  BY <1>2, CoreRecords
<1>3. ASSUME NEW d \in Caller, RingAllCreate(d) PROVE RecordStep(c)
  <2>1. UNCHANGED row /\ row[d].status = "none" /\ incident[d].status = "none"
    BY <1>3 DEF RingAllCreate, TypeInv, Unrecorded, Early
  <2>2. CASE c # d
    BY <1>0, <1>3, <2>1, <2>2 DEF RingAllCreate, RecordStep, Kept
  <2>3. CASE c = d
    BY <1>0, <1>3, <2>1, <2>3 DEF RingAllCreate, RecordStep, Created
  <2> QED
    BY <2>2, <2>3
<1>4. ASSUME NEW S \in SUBSET Caller, NEW p \in 0..N, Enqueue(S, p)
      PROVE  RecordStep(c)
  <2>1. CASE c \notin S
    <3>1. row'[c] = row[c] /\ incident'[c] = incident[c]
      BY <1>4, <2>1 DEF Enqueue
    <3> QED
      BY <3>1 DEF RecordStep, Kept
  <2>2. CASE c \in S
    <3>1. /\ row[c].status = "none" /\ incident[c].status = "none"
          /\ call[c].pc = "queueing"
      BY <1>4, <2>2 DEF Enqueue, TypeInv, Unrecorded, Early
    <3>2. /\ row'[c].status = "QUEUED" /\ row'[c].position = p
          /\ incident'[c].status = "QUEUED"
      BY <1>4, <2>2 DEF Enqueue
    <3>3. Queued = {} \/ \A d \in Queued : row[d].position < p
      BY <1>4, Zenon DEF Enqueue
    <3>4. \A d \in Queued : row[d].position <= p
      BY <1>0, <3>3, ConstantsTyped DEF Queued, Row
    <3> QED
      BY <3>1, <3>2, <3>4 DEF RecordStep, Queues
  <2> QED
    BY <2>1, <2>2
<1>5. ASSUME NEW d \in Caller, PollPromote(d), row[d].status = "QUEUED"
      PROVE  RecordStep(c)
  <2>1. /\ row' = [row EXCEPT ![d].status = "DEQUEUED"]
        /\ incident' = [incident EXCEPT ![d].status = "ACTIVE",
                                        ![d].tier = call[d].tier]
        /\ call[d].pc = "promoting"
    BY <1>5 DEF PollPromote
  <2>2. CASE c # d
    BY <1>0, <2>1, <2>2 DEF RecordStep, Kept
  <2>3. CASE c = d
    <3>1. row'[c].status = "DEQUEUED" /\ incident'[c].status = "ACTIVE"
      BY <1>0, <2>1, <2>3 DEF Row, Incident
    <3> QED
      BY <1>5, <2>1, <2>3, <3>1 DEF RecordStep, Promoted
  <2> QED
    BY <2>2, <2>3
<1>6. ASSUME NEW d \in Caller, SweepExpire(d) PROVE RecordStep(c)
  <2>1. /\ row[d].status = "QUEUED" /\ UNCHANGED incident
        /\ row' = [row EXCEPT ![d].status = "EXPIRED"]
    BY <1>6 DEF SweepExpire
  <2>2. row'[d].status = "EXPIRED" /\ (c # d => row'[c] = row[c])
    BY <1>0, <2>1 DEF Row
  <2> QED
    BY <2>1, <2>2 DEF RecordStep, Kept, Expires
<1>7. ASSUME NEW d \in Caller, OperatorCancel(d) PROVE RecordStep(c)
  <2>1. /\ incident[d].status = "QUEUED"
        /\ incident' = [incident EXCEPT ![d].status = "CANCELLED"]
        /\ row' = IF row[d].status = "QUEUED"
                  THEN [row EXCEPT ![d].status = "CANCELLED"] ELSE row
    BY <1>7 DEF OperatorCancel
  <2>2. /\ incident'[d].status = "CANCELLED"
        /\ IF row[d].status = "QUEUED" THEN row'[d].status = "CANCELLED"
           ELSE row'[d] = row[d]
        /\ c # d => row'[c] = row[c] /\ incident'[c] = incident[c]
    BY <1>0, <2>1 DEF Row, Incident
  <2> QED
    BY <2>1, <2>2 DEF RecordStep, Kept, Cancels
<1>8. ASSUME NEW d \in Caller, Complete(d) PROVE RecordStep(c)
  <2>1. call[d].uuid \in Caller \cup {NoCaller}
    BY DEF TypeInv, TypeOK, Call
  <2> QED
    BY <1>1, <1>2, <1>8, <2>1 DEF Complete
<1>9. ASSUME NEW d \in Caller, PollPromote(d), row[d].status # "QUEUED"
      PROVE  UNCHANGED <<incident, row>>
  BY <1>9 DEF PollPromote
<1>10. CASE SweepStep
  <2>1. ASSUME SweepComplete PROVE RecordStep(c)
    BY <1>2, <2>1 DEF SweepComplete, TypeInv, TypeOK
  <2>2. ASSUME NEW d \in Caller, SweepCount(d) PROVE RecordStep(c)
    BY <1>1, <2>2 DEF SweepCount
  <2> QED
    BY <1>10, <2>1, <2>2 DEF SweepStep
<1>11. ASSUME NEW t \in Tier, OthersJoin(t) \/ OthersLeave(t) \/ ReconcileStep(t)
       PROVE  RecordStep(c)
  <2>1. CASE OthersJoin(t) \/ OthersLeave(t) \/ ReconcileRead(t) \/ ReconcileAgain(t)
    BY <1>1, <2>1 DEF OthersJoin, OthersLeave, ReconcileRead, ReconcileAgain
  <2>2. ASSUME NEW d \in Caller, ReconcileComplete(t, d) PROVE RecordStep(c)
    BY <1>2, <2>2 DEF ReconcileComplete
  <2> QED
    BY <1>11, <2>1, <2>2 DEF ReconcileStep
<1>12. CASE HealthStep
  BY <1>1, <1>12 DEF HealthStep, Crash, Restart, LinkDrops, LinkReturns
<1>13. ASSUME NEW d \in Caller,
              \/ Dial(d) \/ RingAllStep(d) \/ PollStep(d) \/ GiveUp(d)
              \/ RoomStep(d) \/ RowStep(d) \/ OperatorCancel(d)
       PROVE  RecordStep(c)
  <2>1. CASE Dial(d) \/ GiveUp(d)
    BY <1>1, <2>1 DEF Dial, GiveUp
  <2>2. CASE RingAllStep(d)
    BY <1>1, <1>3, <2>2 DEF RingAllStep, RingAllCheck, RequestFails, RingAllRejoin
  <2>3. CASE PollStep(d)
    BY <1>1, <1>5, <1>9, <2>3 DEF PollStep, PollReady, PollCancelled, PollSeesFree
  <2>4. CASE RoomStep(d)
    BY <1>1, <1>8, <2>4 DEF RoomStep, Join, HangUpEarly, Leave
  <2>5. CASE RowStep(d) \/ OperatorCancel(d)
    BY <1>2, <1>6, <1>7, <2>5 DEF RowStep, SweepOrphan
  <2> QED
    BY <1>13, <2>1, <2>2, <2>3, <2>4, <2>5
<1> QED
  BY <1>1, <1>4, <1>10, <1>11, <1>12, <1>13 DEF Next, HealthStep, vars

-----------------------------------------------------------------------------
\* Whatever the order of polls, completions, cancels and sweeps, a queue row and
\* its incident agree: nobody who was promoted or cancelled stays in the queue.
THEOREM RecordsAgree == Spec => []QueueMatchesIncident
<1>1. Init => QueueMatchesIncident
  BY DEF Init, QueueMatchesIncident, NewRow, NewIncident
<1>2. TypeInv /\ QueueMatchesIncident /\ [Next]_vars => QueueMatchesIncident'
  <2> SUFFICES ASSUME TypeInv, QueueMatchesIncident, [Next]_vars, NEW c \in Caller
               PROVE  QueueMatchesIncident!(c)'
    BY DEF QueueMatchesIncident
  <2>1. RecordStep(c)
    BY RecordSteps
  <2>2. QueueMatchesIncident!(c)
    BY DEF QueueMatchesIncident
  <2> QED
    BY <2>1, <2>2 DEF RecordStep, Kept, Closed, Completes, Created, Queues,
                      Promoted, Expires, Cancels
<1> QED
  BY InitTyped, TypeInvStep, <1>1, <1>2, PTL DEF Spec

\* A queue row leaves the queue once, for good.
THEOREM RowsSettle == Spec => RowSettled
<1>1. TypeInv /\ [Next]_vars =>
        [\A c \in Caller : row[c].status \in {"DEQUEUED", "CANCELLED", "EXPIRED"} =>
           row'[c] = row[c]]_vars
  <2> SUFFICES ASSUME TypeInv, [Next]_vars, NEW c \in Caller,
                      row[c].status \in {"DEQUEUED", "CANCELLED", "EXPIRED"}
               PROVE  row'[c] = row[c]
    OBVIOUS
  <2> QED
    BY RecordSteps DEF RecordStep, Kept, Closed, Created, Queues, Promoted,
                       Expires, Cancels
<1> QED
  BY InitTyped, TypeInvStep, <1>1, PTL DEF Spec, RowSettled

-----------------------------------------------------------------------------
\* Only a poll that has just seen its caller at the head of the queue begins a
\* promotion.
LEMMA PromotionBegins ==
  ASSUME TypeInv, [Next]_vars, NEW c \in Caller, call'[c].pc = "promoting"
  PROVE  call[c].pc = "promoting" \/ (c \in Heads /\ row' = row)
<1> USE DEF switch, jobs, health
<1>0. /\ call \in [Caller -> Call] /\ Ended.pc = "done"
  BY DEF TypeInv, TypeOK, Ended, NewCall
<1>1. CASE call'[c] = call[c]
  BY <1>1
<1>2. ASSUME NEW d \in Caller, NEW r, SetCall(d, r), r.pc # "promoting"
      PROVE  call'[c] = call[c]
  BY <1>0, <1>2 DEF SetCall
<1>3. ASSUME NEW d \in Caller, NEW pc, Go(d, pc), pc # "promoting"
      PROVE  call'[c] = call[c]
  <2> DEFINE r == [call[d] EXCEPT !.pc = pc]
  <2>1. r.pc = pc
    BY <1>0 DEF Call
  <2>2. SetCall(d, r)
    BY <1>3 DEF Go
  <2> HIDE DEF r
  <2> QED
    BY <1>2, <1>3, <2>1, <2>2
<1>4. ASSUME NEW d \in Caller, Dial(d) \/ RingAllStep(d) PROVE call'[c] = call[c]
  <2>0. call[d] \in Call
    BY <1>0
  <2>1. CASE Dial(d)
    <3>1. ASSUME NEW t \in Tier
          PROVE  [call[d] EXCEPT !.pc = "routed", !.tier = t].pc = "routed"
      BY <2>0 DEF Call
    <3>2. FirstFree \subseteq Tier
      BY ConstantsTyped DEF FirstFree, Free
    <3>3. \/ Go(d, "routed") \/ Go(d, "queueing")
          \/ \E t \in Tier : SetCall(d, [call[d] EXCEPT !.pc = "routed", !.tier = t])
      BY <2>1, <3>2 DEF Dial
    <3> QED
      BY <1>2, <1>3, <3>1, <3>3
  <2>2. CASE RingAllCheck(d)
    BY <1>3, <2>2 DEF RingAllCheck
  <2>3. ASSUME NEW u, SetCall(d, [call[d] EXCEPT !.pc = "bridging", !.uuid = u])
        PROVE  call'[c] = call[c]
    <3>1. [call[d] EXCEPT !.pc = "bridging", !.uuid = u].pc = "bridging"
      BY <2>0 DEF Call
    <3> QED
      BY <1>2, <2>3, <3>1
  <2>4. CASE RequestFails(d)
    BY <1>0, <1>2, <2>4 DEF RequestFails
  <2> QED
    BY <1>4, <2>1, <2>2, <2>3, <2>4 DEF RingAllStep, RingAllCreate, RingAllRejoin
<1>5. ASSUME NEW S \in SUBSET Caller, NEW p \in 0..N, Enqueue(S, p)
      PROVE  call'[c] = call[c]
  <2>1. c \notin S
    BY <1>0, <1>5 DEF Enqueue, Call
  <2> QED
    BY <1>5, <2>1, <1>0 DEF Enqueue
<1>6. ASSUME NEW d \in Caller, PollStep(d) \/ GiveUp(d)
      PROVE  call'[c] = call[c] \/ (c \in Heads /\ row' = row)
  <2>0. call[d] \in Call
    BY <1>0
  <2>1. CASE PollReady(d)
    <3>1. [call[d] EXCEPT !.pc = "bridging", !.tier = incident[d].tier].pc = "bridging"
      BY <2>0 DEF Call
    <3> QED
      BY <1>2, <2>1, <3>1 DEF PollReady
  <2>2. CASE PollCancelled(d) \/ GiveUp(d)
    BY <1>0, <1>2, <2>2 DEF PollCancelled, GiveUp
  <2>3. CASE PollSeesFree(d)
    BY <1>0, <2>3 DEF PollSeesFree, SetCall
  <2>4. CASE PollPromote(d)
    <3>1. Go(d, "bridging") \/ Go(d, "waiting")
      BY <2>4, Zenon DEF PollPromote
    <3> QED
      BY <1>3, <3>1
  <2> QED
    BY <1>6, <2>1, <2>2, <2>3, <2>4 DEF PollStep
<1>7. ASSUME NEW d \in Caller, RoomStep(d) PROVE call'[c] = call[c]
  <2>1. CASE Join(d) \/ HangUpEarly(d) \/ Leave(d)
    BY <1>3, <2>1 DEF Join, HangUpEarly, Leave
  <2>2. CASE Complete(d)
    BY <1>0, <1>2, <2>2 DEF Complete
  <2> QED
    BY <1>7, <2>1, <2>2 DEF RoomStep
<1>8. ASSUME NEW d \in Caller, RowStep(d) \/ OperatorCancel(d) PROVE call' = call
  BY <1>8 DEF RowStep, SweepExpire, SweepOrphan, OperatorCancel
<1>9. ASSUME NEW t \in Tier, OthersJoin(t) \/ OthersLeave(t) \/ ReconcileStep(t)
      PROVE  call' = call
  BY <1>9 DEF OthersJoin, OthersLeave, ReconcileStep, ReconcileRead,
              ReconcileAgain, ReconcileComplete
<1>10. CASE SweepStep
  BY <1>1, <1>10 DEF SweepStep, SweepComplete, SweepCount
<1>11. CASE HealthStep
  <2>1. CASE Crash
    <3>1. [call[c] EXCEPT !.pc = "waiting"].pc = "waiting"
      BY <1>0 DEF Call
    <3>2. \/ call'[c] = Ended
          \/ call'[c] = [call[c] EXCEPT !.pc = "waiting"]
          \/ call'[c] = call[c]
      BY <2>1, Zenon DEF Crash
    <3> QED
      BY <1>0, <1>1, <3>1, <3>2
  <2> QED
    BY <1>1, <1>11, <2>1 DEF HealthStep, Restart, LinkDrops, LinkReturns
<1>12. CASE UNCHANGED vars
  BY <1>1, <1>12 DEF vars
<1> QED
  BY <1>1, <1>4, <1>5, <1>6, <1>7, <1>8, <1>9, <1>10, <1>11, <1>12
     DEF Next, HealthStep

LEMMA PromoterStep == TypeInv /\ PromoterAtHead /\ [Next]_vars => PromoterAtHead'
<1> SUFFICES ASSUME TypeInv, PromoterAtHead, [Next]_vars, NEW c \in Caller,
                    call'[c].pc = "promoting", row'[c].status = "QUEUED"
             PROVE  c \in Heads'
  BY DEF PromoterAtHead
<1>0. row \in [Caller -> Row]
  BY DEF TypeInv, TypeOK
<1>1. CASE row' = row
  BY <1>1, PromotionBegins DEF PromoterAtHead, Heads, Queued
<1>2. CASE call[c].pc = "promoting"
  <2> USE DEF RecordStep, Kept, Closed, Created, Queues, Promoted, Expires, Cancels
  <2>1. row'[c] = row[c] /\ row[c].status = "QUEUED"
    BY <1>2, RecordSteps
  <2>2. c \in Heads /\ c \in Queued
    BY <1>2, <2>1 DEF PromoterAtHead, Queued
  <2>3. ASSUME NEW d \in Queued' PROVE row[c].position <= row'[d].position
    <3>1. d \in Caller /\ row'[d].status = "QUEUED"
      BY DEF Queued
    <3>2. CASE row'[d] = row[d]
      BY <2>2, <3>1, <3>2 DEF Heads, Queued
    <3>3. CASE row'[d] # row[d]
      BY <2>2, <3>1, <3>3, RecordSteps
    <3> QED
      BY <3>2, <3>3
  <2> QED
    BY <2>1, <2>2, <2>3 DEF Heads, Queued
<1> QED
  BY <1>1, <1>2, PromotionBegins

\* Callers are promoted in the order of their positions, although a poll decides
\* before its transaction and a completion may come in between.
THEOREM PromotionsInOrder == Spec => PromotedInOrder
<1>1. Init => PromoterAtHead
  BY DEF Init, PromoterAtHead, NewCall
<1>2. TypeInv /\ PromoterAtHead /\ [Next]_vars =>
        [\A c, d \in Caller :
           /\ row[c].status = "QUEUED" /\ row'[c].status = "DEQUEUED"
           /\ row[d].status = "QUEUED"
           => row[c].position <= row[d].position]_vars
  <2> SUFFICES ASSUME TypeInv, PromoterAtHead, [Next]_vars,
                      NEW c \in Caller, NEW d \in Caller,
                      row[c].status = "QUEUED", row'[c].status = "DEQUEUED",
                      row[d].status = "QUEUED"
               PROVE  row[c].position <= row[d].position
    OBVIOUS
  <2>1. c \in Heads \/ call[c].pc = "promoting"
    BY RecordSteps DEF RecordStep, Kept, Closed, Created, Queues, Promoted,
                       Expires, Cancels
  <2>2. c \in Heads
    BY <2>1 DEF PromoterAtHead
  <2> QED
    BY <2>2 DEF Heads, Queued
<1> QED
  BY InitTyped, TypeInvStep, PromoterStep, <1>1, <1>2, PTL DEF Spec, PromotedInOrder

-----------------------------------------------------------------------------
(* The ring loops.  A loop is started, and responders' phones ring, only for *)
(* a tier that has had an incident of its own: one that is not queued, and   *)
(* so is never given another tier.  A responder who answers is therefore one *)
(* of the people ErsIncident lets into the room.                             *)

RungFor(c, t) ==
  incident[c].status # "none" /\ row[c].status # "QUEUED" /\ incident[c].tier = t
HasRung(t) == \E c \in Caller : RungFor(c, t)

RingInv ==
  /\ TypeInv
  /\ ring \in [Tier -> Loop] /\ legs \in [Tier -> BOOLEAN]
  /\ \A t \in Tier : ring[t].pc # "off" \/ legs[t] => HasRung(t)

\* An incident that no longer queues keeps its tier, whatever completes.
LEMMA TierStays ==
  ASSUME TypeInv, [Next]_vars, NEW t \in Tier, HasRung(t)
  PROVE  HasRung(t)'
<1>1. PICK c \in Caller : RungFor(c, t)
  BY DEF HasRung
<1>2. RungFor(c, t)'
  BY <1>1, RecordSteps
     DEF RungFor, RecordStep, Kept, Closed, Completes, Created, Queues, Promoted,
         Expires, Cancels
<1> QED
  BY <1>2 DEF HasRung

\* The steps of the ring loops that are steps of the calls.
LEMMA RingSteps ==
  ASSUME RingInv, [RingNext]_ringVars
  PROVE  [Next]_vars
<1>1. ASSUME NEW c \in Caller, CallStep(c) PROVE Next
  <2>1. ASSUME NEW p \in 0..N, Enqueue({c}, p) PROVE Next
    BY <2>1 DEF Next
  <2>2. CASE RingAllCreateRings(c) \/ PollPromoteRings(c)
    BY <2>2 DEF RingAllCreateRings, PollPromoteRings, Next, RingAllStep, PollStep
  <2> QED
    BY <1>1, <2>1, <2>2 DEF CallStep, Quietly, Next, RingAllStep, PollStep
<1>2. ASSUME NEW c \in Caller,
             Quietly(Dial(c)) \/ Quietly(GiveUp(c)) \/ Quietly(RowStep(c))
               \/ Quietly(OperatorCancel(c))
      PROVE  Next
  BY <1>2 DEF Quietly, Next
<1>3. ASSUME NEW t \in Tier, LoopStep(t) \/ RingTimesOut(t) \/ LegsEnd(t)
      PROVE  UNCHANGED vars
  BY <1>3 DEF LoopStep, RingWave, RingStops, RingTimesOut, LegsEnd
<1>4. ASSUME NEW t \in Tier, ResponderJoins(t) PROVE [Next]_vars
  <2>1. OfTier(t) # {} /\ others \in [Tier -> BOOLEAN]
    BY <1>4 DEF ResponderJoins, RingInv, HasRung, RungFor, OfTier, TypeInv, TypeOK
  <2>2. CASE others[t]
    <3>1. others' = others
      BY <1>4, <2>1, <2>2 DEF ResponderJoins
    <3> QED
      BY <1>4, <3>1 DEF ResponderJoins, vars, jobs, health
  <2>3. CASE ~others[t]
    <3>1. OthersJoin(t)
      BY <1>4, <2>1, <2>3 DEF ResponderJoins, OthersJoin
    <3> QED
      BY <3>1 DEF Next
  <2> QED
    BY <2>2, <2>3
<1>5. ASSUME NEW t \in Tier, Quietly(OthersLeave(t)) \/ Quietly(ReconcileStep(t))
      PROVE  Next
  BY <1>5 DEF Quietly, Next
<1>6. CASE \/ Quietly(SweepStep) \/ RingCrash \/ Quietly(Restart)
           \/ Quietly(LinkDrops) \/ Quietly(LinkReturns)
  BY <1>6 DEF Quietly, RingCrash, Next
<1>7. CASE UNCHANGED ringVars
  BY <1>7 DEF ringVars
<1> QED
  BY <1>1, <1>2, <1>3, <1>4, <1>5, <1>6, <1>7 DEF RingNext, LegStep

\* What a step does to the loop and the phones of a tier: nothing that was not
\* there begins, but for a caller whose incident has just been given the tier.
Rings(t) ==
  /\ ring' \in [Tier -> Loop] /\ legs' \in [Tier -> BOOLEAN]
  /\ ring'[t].pc # "off" \/ legs'[t] =>
       ring[t].pc # "off" \/ legs[t] \/ HasRung(t)'

LEMMA LoopStarts ==
  ASSUME RingInv, NEW c \in Caller, NEW u \in Tier, StartRingAll(u, c),
         RungFor(c, u)', legs' = legs, NEW t \in Tier
  PROVE  Rings(t)
<1> DEFINE l == [pc |-> "start", caller |-> c]
<1>1. l \in Loop
  BY DEF Loop
<1>2. ring' = [ring EXCEPT ![u] = l] \/ ring' = ring
  BY DEF StartRingAll, SetLoop
<1> HIDE DEF l
<1>3. ring' \in [Tier -> Loop] /\ (t # u => ring'[t] = ring[t])
  BY <1>1, <1>2 DEF RingInv
<1>4. HasRung(u)'
  BY DEF HasRung
<1> QED
  BY <1>3, <1>4 DEF RingInv, Rings

LEMMA CallRings ==
  ASSUME RingInv, NEW c \in Caller, CallStep(c), NEW t \in Tier
  PROVE  Rings(t)
<1>0. /\ call[c] \in Call /\ row[c] \in Row /\ incident[c] \in Incident
      /\ call \in [Caller -> Call] /\ row \in [Caller -> Row]
      /\ incident \in [Caller -> Incident] /\ call[c].tier \in Tier
  BY DEF RingInv, TypeInv, TypeOK, Call
<1>1. CASE UNCHANGED <<ring, legs>>
  BY <1>1 DEF RingInv, Rings
<1>2. CASE RingAllCreateRings(c)
  <2>1. PICK u \in Tier : u = call[c].tier
    BY <1>0
  <2>2. row'[c].status # "QUEUED"
    BY <1>2 DEF RingAllCreateRings, RingAllCreate, RingInv, TypeInv, Unrecorded, Early
  <2>3. incident'[c].status = "ACTIVE" /\ incident'[c].tier = u
    BY <1>0, <1>2, <2>1 DEF RingAllCreateRings, RingAllCreate
  <2>4. RungFor(c, u)'
    BY <2>2, <2>3 DEF RungFor
  <2> QED
    BY <1>2, <2>1, <2>4, LoopStarts DEF RingAllCreateRings
<1>3. CASE PollPromoteRings(c)
  <2>1. PICK u \in Tier : u = call[c].tier
    BY <1>0
  <2>2. CASE call'[c].pc = "bridging"
    <3>1. row[c].status = "QUEUED"
      BY <1>0, <1>3, <2>2 DEF PollPromoteRings, PollPromote, Go, SetCall, Call
    <3>2. /\ row'[c].status = "DEQUEUED"
          /\ incident'[c].status = "ACTIVE" /\ incident'[c].tier = u
      BY <1>0, <1>3, <2>1, <3>1 DEF PollPromoteRings, PollPromote, Row, Incident
    <3>3. RungFor(c, u)'
      BY <3>2 DEF RungFor
    <3> QED
      BY <1>3, <2>1, <2>2, <3>3, LoopStarts DEF PollPromoteRings
  <2>3. CASE call'[c].pc # "bridging"
    BY <1>1, <1>3, <2>3 DEF PollPromoteRings
  <2> QED
    BY <2>2, <2>3
<1> QED
  BY <1>1, <1>2, <1>3 DEF CallStep, Quietly

LEMMA TierRings ==
  ASSUME RingInv, NEW u \in Tier, LoopStep(u) \/ RingTimesOut(u) \/ LegStep(u),
         NEW t \in Tier
  PROVE  Rings(t)
<1> USE DEF SetLoop
<1>0. /\ ring \in [Tier -> Loop] /\ legs \in [Tier -> BOOLEAN]
      /\ NoLoop \in Loop /\ NoLoop.pc = "off"
  BY DEF RingInv, NoLoop, Loop
<1>1. CASE RingWave(u)
  <2>1. [ring[u] EXCEPT !.pc = "wait"] \in Loop /\ ring[u].pc # "off"
    BY <1>0, <1>1 DEF RingWave, Loop
  <2>2. /\ ring' \in [Tier -> Loop] /\ (t # u => ring'[t] = ring[t])
        /\ t # u => legs'[t] = legs[t]
    BY <1>0, <1>1, <2>1 DEF RingWave
  <2>3. legs' \in [Tier -> BOOLEAN]
    BY <1>0, <1>1 DEF RingWave
  <2> QED
    BY <2>1, <2>2, <2>3 DEF Rings
<1>2. CASE RingStops(u) \/ RingTimesOut(u)
  <2>1. ring' = [ring EXCEPT ![u] = NoLoop] /\ legs' = legs
    BY <1>2 DEF RingStops, RingTimesOut
  <2> QED
    BY <1>0, <2>1 DEF Rings
<1>3. CASE LegStep(u)
  <2>1. legs' = [legs EXCEPT ![u] = FALSE] /\ ring' = ring
    BY <1>3 DEF LegStep, ResponderJoins, LegsEnd
  <2> QED
    BY <1>0, <2>1 DEF Rings
<1> QED
  BY <1>1, <1>2, <1>3 DEF LoopStep

LEMMA RingInitKeeps == RingInit => RingInv
<1>1. NoLoop \in Loop /\ NoLoop.pc = "off"
  BY DEF NoLoop, Loop
<1> QED
  BY <1>1, InitTyped DEF RingInit, RingInv

LEMMA RingInvStep == RingInv /\ [RingNext]_ringVars => RingInv'
<1> SUFFICES ASSUME RingInv, [RingNext]_ringVars PROVE RingInv'
  OBVIOUS
<1>1. TypeInv'
  BY RingSteps, TypeInvStep DEF RingInv
<1>2. ASSUME NEW t \in Tier PROVE Rings(t)
  <2>1. CASE UNCHANGED <<ring, legs>>
    BY <2>1 DEF RingInv, Rings
  <2>2. CASE RingCrash
    <3>1. ring' = [u \in Tier |-> NoLoop] /\ legs' = legs
      BY <2>2 DEF RingCrash
    <3>2. NoLoop \in Loop /\ NoLoop.pc = "off"
      BY DEF NoLoop, Loop
    <3> QED
      BY <3>1, <3>2 DEF RingInv, Rings
  <2> QED
    BY <2>1, <2>2, CallRings, TierRings DEF RingNext, Quietly, ringVars
<1>3. ring' \in [Tier -> Loop] /\ legs' \in [Tier -> BOOLEAN]
  BY <1>2, ConstantsTyped DEF Rings
<1>4. ASSUME NEW t \in Tier, ring'[t].pc # "off" \/ legs'[t] PROVE HasRung(t)'
  BY <1>2, <1>4, RingSteps, TierStays DEF Rings, RingInv
<1> QED
  BY <1>1, <1>3, <1>4 DEF RingInv

\* The calls with their ring loops are calls of ErsIncident: startRingAll,
\* the waves, their end and their deadline change nothing the calls see, and a
\* responder who answers is one of the people the room may have.
THEOREM RingImplements == RingSpec => Spec
<1>1. RingInit => Init
  BY DEF RingInit
<1> QED
  BY <1>1, RingInitKeeps, RingInvStep, RingSteps, PTL DEF RingSpec, Spec

\* So what holds of the calls holds of them with their ring loops: the records
\* agree, rows leave the queue once, and callers are promoted in order.
THEOREM RingKeepsQueue ==
  RingSpec => []QueueMatchesIncident /\ RowSettled /\ PromotedInOrder
<1> QED
  BY RingImplements, RecordsAgree, RowsSettle, PromotionsInOrder

\* No loop runs and no phone rings for a tier that never had an incident: the
\* loops are started by ersRingAll and ersOverflowPoll after their INSERT or
\* UPDATE, and a completion cannot give that incident to another tier.
THEOREM RungForIncident ==
  RingSpec => [](TypeOK /\ \A t \in Tier : ring[t].pc # "off" \/ legs[t] => HasRung(t))
<1>1. RingInv => TypeOK /\ \A t \in Tier : ring[t].pc # "off" \/ legs[t] => HasRung(t)
  BY DEF RingInv, TypeInv
<1> QED
  BY <1>1, RingInitKeeps, RingInvStep, PTL DEF RingSpec

=============================================================================
