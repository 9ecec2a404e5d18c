-------------------------- MODULE EnsCampaignProofs --------------------------
(***************************************************************************)
(* Proofs about EnsCampaign for every number of destinations, every limit  *)
(* and every number of faults: the type invariant; for a backend that runs *)
(* one engine, the bound on the rows that hold a slot; how often a contact *)
(* is dialled; until a fault happens, who owns a call; and, through any    *)
(* number of engines, faults and deadlines, which outcomes are final, which *)
(* contacts are given up and when a campaign is complete.                  *)
(***************************************************************************)
EXTENDS EnsCampaign, FiniteSetTheorems, TLAPS

LEMMA ConstantsTyped ==
  /\ MaxConcurrent \in Nat /\ MaxAttempts \in Nat /\ BatchSize \in Nat
  /\ MaxFaults \in Nat /\ AttemptCap \in Nat
  BY CampaignAssumption DEF CampaignAssumption, AttemptCap

-----------------------------------------------------------------------------
\* The new campaign, its rows and an idle engine are well typed.
LEMMA InitTyped == Init => TypeOK
<1> SUFFICES ASSUME Init PROVE TypeOK
  OBVIOUS
<1>1. NewRow \in Row
  BY ConstantsTyped DEF NewRow, Row, RowStatus, NoCall
<1>2. NewCall \in Call
  BY DEF NewCall, Call
<1>3. IdleTick \in Tick
  BY ConstantsTyped DEF IdleTick, Tick, TickPc
<1>4. /\ row \in [Dest -> Row]
      /\ call \in [Calls -> Call]
      /\ tick \in [Engine -> Tick]
  BY <1>1, <1>2, <1>3 DEF Init
<1>5. /\ campaign \in CampaignStatus
      /\ faults \in 0..MaxFaults
  BY ConstantsTyped DEF Init, CampaignStatus
<1> QED
  BY <1>4, <1>5 DEF Init, TypeOK

\* A step of the tick keeps the types.
LEMMA TickTyped ==
  ASSUME TypeOK, NEW e \in Engine, TickStep(e) PROVE TypeOK'
<1> USE ConstantsTyped
<1>0. IdleTick \in Tick /\ tick[e] \in Tick
  BY DEF IdleTick, Tick, TickPc, TypeOK
<1>1. CASE TickSelect(e)
  <2>1. [IdleTick EXCEPT !.pc = IF campaign = "queued" THEN "starting"
                                ELSE "started",
                         !.seen = campaign] \in Tick
    BY <1>1, <1>0 DEF TickSelect, Tick, TickPc
  <2> QED
    BY <1>1, <2>1 DEF TickSelect, TypeOK, SetTick, NoFault
<1>2. CASE TickStart(e)
  <2>1. [tick[e] EXCEPT !.pc = "started"] \in Tick
    BY <1>0 DEF Tick, TickPc
  <2> QED
    BY <1>2, <2>1 DEF TickStart, TypeOK, SetTick, NoFault, CampaignStatus
<1>3. CASE TickExpireRows(e)
  <2>1. [tick[e] EXCEPT !.pc = "expiring"] \in Tick
    BY <1>0 DEF Tick, TickPc
  <2>2. \A d \in Dest : [row[d] EXCEPT !.status = "expired"] \in Row
    BY DEF TypeOK, Row, RowStatus
  <2> QED
    BY <1>3, <2>1, <2>2 DEF TickExpireRows, TypeOK, SetTick, NoFault
<1>4. CASE TickFinish(e)
  BY <1>4, <1>0 DEF TickFinish, TypeOK, SetTick, EndTick, NoFault,
                    CampaignStatus
<1>5. CASE TickNothingLeft(e)
  <2>1. [tick[e] EXCEPT !.pc = "completing"] \in Tick
    BY <1>0 DEF Tick, TickPc
  <2> QED
    BY <1>5, <2>1 DEF TickNothingLeft, TypeOK, SetTick, NoFault
<1>6. CASE TickNoSlot(e)
  BY <1>6, <1>0 DEF TickNoSlot, TypeOK, SetTick, EndTick, NoFault
<1>7. ASSUME NEW n \in 1..BatchSize, TickCount(e, n) PROVE TypeOK'
  <2>0. n \in 0..BatchSize
    OBVIOUS
  <2>1. [tick[e] EXCEPT !.pc = "counted", !.slots = n] \in Tick
    BY <1>0, <2>0, Zenon DEF Tick, TickPc
  <2> QED
    BY <1>7, <2>1 DEF TickCount, TypeOK, SetTick, NoFault
<1>8. ASSUME NEW S \in SUBSET Dest, TickClaim(e, S) PROVE TypeOK'
  <2>0. 0 \in 0..BatchSize
    OBVIOUS
  <2>1. [tick[e] EXCEPT !.pc = "dispatching", !.slots = 0, !.batch = S] \in Tick
    BY <1>0, <2>0, Zenon DEF Tick, TickPc
  <2>2. \A d \in S : [row[d] EXCEPT !.status = "dialing", !.call = NoCall,
                        !.attempts = @ + 1, !.due = TRUE] \in Row
    <3> SUFFICES ASSUME NEW d \in S
                 PROVE  [row[d] EXCEPT !.status = "dialing", !.call = NoCall,
                           !.attempts = row[d].attempts + 1, !.due = TRUE] \in Row
      OBVIOUS
    <3>1. row[d] \in Row /\ row[d].attempts < AttemptCap
      BY <1>8 DEF TickClaim, TypeOK, Ready, Queued
    <3>2. row[d].attempts + 1 \in 0..AttemptCap
      BY <3>1 DEF Row
    <3> HIDE ConstantsTyped
    <3> DEFINE m == row[d].attempts + 1
    <3> HIDE DEF m
    <3>3. [row[d] EXCEPT !.status = "dialing", !.call = NoCall,
             !.attempts = m, !.due = TRUE] \in Row
      BY <3>1, <3>2, Zenon DEF Row, RowStatus, NoCall, m
    <3> QED
      BY <3>3 DEF m
  <2>3. row' \in [Dest -> Row]
    BY <1>8, <2>2 DEF TickClaim, TypeOK
  <2>4. tick' \in [Engine -> Tick]
    BY <1>8, <2>1, <1>0 DEF TickClaim, TypeOK, SetTick
  <2> QED
    BY <1>8, <2>3, <2>4 DEF TickClaim, TypeOK, NoFault
<1>9. ASSUME NEW d \in Dest, TickOriginate(e, d) PROVE TypeOK'
  <2> DEFINE k == row[d].attempts
             rest == tick[e].batch \ {d}
  <2>1. k \in Attempt
    BY <1>9 DEF TickOriginate
  <2>2. <<d, k>> \in Calls /\ call[d, k] \in Call
    BY <2>1 DEF Calls, TypeOK
  <2>3. [row[d] EXCEPT !.call = k] \in Row
    BY <2>1 DEF TypeOK, Row
  <2>4. /\ [call[d, k] EXCEPT !.leg = "ringing", !.job = "pending"] \in Call
        /\ [call[d, k] EXCEPT !.job = "rejected"] \in Call
    BY <2>2 DEF Call
  <2>5. [tick[e] EXCEPT !.batch = rest] \in Tick
    BY <1>0 DEF Tick
  <2>6. row' \in [Dest -> Row]
    BY <1>9, <2>3 DEF TickOriginate, TypeOK, SetRow
  <2>7. tick' \in [Engine -> Tick]
    BY <1>9, <2>5, <1>0 DEF TickOriginate, TypeOK, SetTick
  <2>8. call' \in [Calls -> Call]
    BY <1>9, <2>2, <2>4 DEF TickOriginate, TypeOK, SetCall
  <2> QED
    BY <1>9, <2>6, <2>7, <2>8 DEF TickOriginate, TypeOK, NoFault
<1> QED
  BY <1>1, <1>2, <1>3, <1>4, <1>5, <1>6, <1>7, <1>8, <1>9 DEF TickStep

\* FreeSWITCH keeps the types of a call, and touches nothing else.
LEMMA SwitchTyped ==
  ASSUME TypeOK, NEW c \in Calls, SwitchStep(c) PROVE TypeOK'
<1>1. call[c] \in Call
  BY DEF TypeOK
<1>2. CASE LegAnswers(c)
  <2>1. [call[c] EXCEPT !.leg = "talking", !.answer = Heard,
           !.job = IF @ = "pending" THEN "settled" ELSE @] \in Call
    BY <1>1 DEF Call, Heard
  <2> QED
    BY <1>2, <2>1 DEF LegAnswers, TypeOK, SetCall, NoFault
<1>3. ASSUME NEW why \in {"retryable", "final"}, LegFails(c, why)
      PROVE  TypeOK'
  <2>1. ASSUME NEW end \in {"rejected", "settled"}
        PROVE  [call[c] EXCEPT !.leg = "gone", !.cause = why, !.hangup = Heard,
                  !.job = IF @ = "pending" THEN end ELSE @] \in Call
    BY <1>1 DEF Call, Heard
  <2> QED
    BY <1>3, <2>1 DEF LegFails, TypeOK, SetCall, NoFault
<1>4. CASE LegEnds(c)
  <2>1. [call[c] EXCEPT !.leg = "gone", !.cause = "final", !.hangup = Heard]
          \in Call
    BY <1>1 DEF Call, Heard
  <2> QED
    BY <1>4, <2>1 DEF LegEnds, TypeOK, SetCall, NoFault
<1> QED
  BY <1>2, <1>3, <1>4 DEF SwitchStep

\* The handlers of events and of rejected promises keep the types.
LEMMA HandlerTyped ==
  ASSUME TypeOK, NEW d \in Dest, NEW k \in Attempt, HandlerStep(d, k)
  PROVE  TypeOK'
<1>1. <<d, k>> \in Calls /\ call[d, k] \in Call /\ row[d] \in Row
  BY DEF TypeOK, Calls
<1>2. FailedRow(row[d]) \in Row
  BY <1>1 DEF FailedRow, Row, RowStatus, NoCall
<1>3. CASE OnCallAnswer(d, k)
  <2>1. [call[d, k] EXCEPT !.answer = FALSE] \in Call
    BY <1>1 DEF Call
  <2>2. [row[d] EXCEPT !.status = "answered", !.answeredAt = TRUE] \in Row
    BY <1>1 DEF Row, RowStatus
  <2> QED
    BY <1>1, <1>3, <2>1, <2>2
       DEF OnCallAnswer, TypeOK, SetCall, SetRow, NoFault
<1>4. CASE OnCallHangupRead(d, k)
  <2>1. HangupWrite(d, k) \in {"none", "complete", "retry", "fail"}
    BY DEF HangupWrite
  <2>2. [call[d, k] EXCEPT !.hangup = FALSE, !.write = HangupWrite(d, k)]
          \in Call
    BY <1>1, <2>1 DEF Call
  <2> QED
    BY <1>1, <1>4, <2>2 DEF OnCallHangupRead, TypeOK, SetCall, NoFault
<1>5. CASE OnCallHangupWrite(d, k)
  <2>1. [call[d, k] EXCEPT !.write = "none"] \in Call
    BY <1>1 DEF Call
  <2>2. /\ [row[d] EXCEPT !.status = "completed"] \in Row
        /\ [row[d] EXCEPT !.status = "queued", !.due = FALSE,
                          !.call = NoCall] \in Row
    BY <1>1 DEF Row, RowStatus, NoCall
  <2>3. row' \in [Dest -> Row]
    BY <1>1, <1>2, <1>5, <2>2 DEF OnCallHangupWrite, TypeOK, SetRow
  <2> QED
    BY <1>1, <1>5, <2>1, <2>3 DEF OnCallHangupWrite, TypeOK, SetCall, NoFault
<1>6. CASE OriginateRejected(d, k)
  <2>1. [call[d, k] EXCEPT !.job = "thrown"] \in Call
    BY <1>1 DEF Call
  <2> QED
    BY <1>1, <1>2, <1>6, <2>1
       DEF OriginateRejected, TypeOK, SetCall, SetRow, NoFault
<1> QED
  BY <1>3, <1>4, <1>5, <1>6 DEF HandlerStep

\* Retries falling due and the recovery of stale rows keep the types.
LEMMA RowTyped ==
  ASSUME TypeOK, NEW d \in Dest, RowStep(d) PROVE TypeOK'
<1>1. row[d] \in Row
  BY DEF TypeOK
<1>2. CASE RetryDue(d)
  <2>1. [row[d] EXCEPT !.due = TRUE] \in Row
    BY <1>1 DEF Row
  <2> QED
    BY <1>2, <2>1 DEF RetryDue, TypeOK, SetRow, NoFault
<1>3. CASE RecoverDialing(d)
  <2>1. [row[d] EXCEPT !.status = "queued", !.due = FALSE, !.call = NoCall]
          \in Row
    BY <1>1 DEF Row, RowStatus, NoCall
  <2> QED
    BY <1>3, <2>1 DEF RecoverDialing, TypeOK, SetRow, NoFault
<1>4. CASE RecoverAnswered(d)
  <2>1. [row[d] EXCEPT !.status = "completed", !.call = NoCall] \in Row
    BY <1>1 DEF Row, RowStatus, NoCall
  <2> QED
    BY <1>4, <2>1 DEF RecoverAnswered, TypeOK, SetRow, NoFault
<1> QED
  BY <1>2, <1>3, <1>4 DEF RowStep

\* The operator's requests keep the types.
LEMMA OperatorTyped == TypeOK /\ OperatorStep => TypeOK'
<1> SUFFICES ASSUME TypeOK, OperatorStep PROVE TypeOK'
  OBVIOUS
<1>1. CASE Pause
  BY <1>1 DEF Pause, TypeOK, CampaignStatus, NoFault
<1>2. CASE Resume
  BY <1>2 DEF Resume, TypeOK, CampaignStatus, NoFault
<1>3. CASE CancelRows
  <2>1. \A d \in Dest : [row[d] EXCEPT !.status = "skipped"] \in Row
    BY DEF TypeOK, Row, RowStatus
  <2> QED
    BY <1>3, <2>1 DEF CancelRows, TypeOK, NoFault
<1>4. CASE CancelCampaign
  BY <1>4 DEF CancelCampaign, TypeOK, CampaignStatus, NoFault
<1> QED
  BY <1>1, <1>2, <1>3, <1>4 DEF OperatorStep

\* Crashes, drops and a failed synthesis keep the types.
LEMMA FaultTyped == TypeOK /\ FaultStep => TypeOK'
<1> SUFFICES ASSUME TypeOK, FaultStep PROVE TypeOK'
  OBVIOUS
<1>1. IdleTick \in Tick
  BY ConstantsTyped DEF IdleTick, Tick, TickPc
<1>2. CASE Crash
  <2>1. \A c \in Calls :
          [call[c] EXCEPT !.answer = FALSE, !.hangup = FALSE, !.write = "none",
                          !.job = IF @ \in {"none", "thrown"} THEN @
                                  ELSE "settled"] \in Call
    BY DEF TypeOK, Call
  <2>2. faults' \in 0..MaxFaults
    <3>1. faults < MaxFaults /\ faults' = faults + 1
      BY <1>2, Zenon DEF Crash
    <3>2. faults \in 0..MaxFaults
      BY DEF TypeOK
    <3> QED
      BY <3>1, <3>2, ConstantsTyped
  <2>3. call' \in [Calls -> Call]
    BY <1>2, <2>1 DEF Crash
  <2>4. tick' \in [Engine -> Tick]
    BY <1>1, <1>2 DEF Crash
  <2> QED
    BY <1>2, <2>2, <2>3, <2>4 DEF Crash, TypeOK
<1>3. CASE LinkDrops
  <2>1. \A c \in Calls :
          [call[c] EXCEPT !.job = IF @ = "pending" THEN "lost" ELSE @] \in Call
    BY DEF TypeOK, Call
  <2>2. faults' \in 0..MaxFaults
    BY <1>3, ConstantsTyped DEF LinkDrops, TypeOK
  <2> QED
    BY <1>3, <2>1, <2>2 DEF LinkDrops, TypeOK
<1>4. ASSUME NEW e \in Engine, TickNoMedia(e) PROVE TypeOK'
  <2>1. faults' \in 0..MaxFaults
    BY <1>4, ConstantsTyped DEF TickNoMedia, TypeOK
  <2> QED
    BY <1>1, <1>4, <2>1 DEF TickNoMedia, TypeOK, EndTick, SetTick
<1> QED
  BY <1>2, <1>3, <1>4 DEF FaultStep

\* Every step keeps the types.
LEMMA NextTyped == TypeOK /\ [Next]_vars => TypeOK'
<1> SUFFICES ASSUME TypeOK, [Next]_vars PROVE TypeOK'
  OBVIOUS
<1>1. ASSUME NEW e \in Engine, TickStep(e) PROVE TypeOK'
  BY <1>1, TickTyped
<1>2. ASSUME NEW d \in Dest, NEW k \in Attempt, SwitchStep(<<d, k>>)
      PROVE  TypeOK'
  <2>1. <<d, k>> \in Calls
    BY DEF Calls
  <2> QED
    BY <1>2, <2>1, SwitchTyped
<1>3. ASSUME NEW d \in Dest, NEW k \in Attempt, HandlerStep(d, k)
      PROVE  TypeOK'
  BY <1>3, HandlerTyped
<1>4. ASSUME NEW d \in Dest, RowStep(d) PROVE TypeOK'
  BY <1>4, RowTyped
<1>5. CASE OperatorStep
  BY <1>5, OperatorTyped
<1>6. CASE FaultStep
  BY <1>6, FaultTyped
<1>7. CASE TimeOut \/ Restart \/ LinkReturns
  BY <1>7 DEF TimeOut, Restart, LinkReturns, TypeOK
<1>8. CASE UNCHANGED vars
  BY <1>8 DEF vars, TypeOK
<1> QED
  BY <1>1, <1>2, <1>3, <1>4, <1>5, <1>6, <1>7, <1>8 DEF Next

\* Type correctness: whatever the interleaving of ticks, events, requests and
\* crashes, every column and every field keeps a value of its type.
THEOREM TypeCorrect == Spec => []TypeOK
  BY InitTyped, NextTyped, PTL DEF Spec

-----------------------------------------------------------------------------
\* The concurrency bound.  ConcurrencyBound alone is not inductive: between the
\* count and the claim the tick holds slots that no row shows yet.

\* ecosystem.config.cjs: instances = 1.
OneProcess == \A e, f \in Engine : e = f

\* The slots counted are still free: nothing but a claim adds a row in flight.
SlotsReserved ==
  \A e \in Engine : tick[e].pc = "counted" =>
    Cardinality(InFlight) + tick[e].slots <= MaxConcurrent

ConcurrencyInv == TypeOK /\ ConcurrencyBound /\ SlotsReserved

\* A set of destinations is finite, and has a number of members.
LEMMA DestSetsFinite ==
  ASSUME NEW S \in SUBSET Dest
  PROVE  IsFiniteSet(S) /\ Cardinality(S) \in Nat
  BY CampaignAssumption, FS_Subset, FS_CardinalityType DEF CampaignAssumption

\* A step that puts no row in flight, and counts no slots, keeps the invariant.
LEMMA NoNewCall ==
  ASSUME ConcurrencyInv, TypeOK', InFlight' \subseteq InFlight,
         \A e \in Engine : tick'[e].pc = "counted" => tick'[e] = tick[e]
  PROVE  ConcurrencyInv'
<1>1. InFlight \in SUBSET Dest /\ InFlight' \in SUBSET Dest
  BY DEF InFlight
<1>2. Cardinality(InFlight') <= Cardinality(InFlight)
  BY <1>1, DestSetsFinite, FS_Subset
<1>3. Cardinality(InFlight) \in Nat /\ Cardinality(InFlight') \in Nat
  BY <1>1, DestSetsFinite
<1>4. ConcurrencyBound'
  BY <1>2, <1>3, ConstantsTyped DEF ConcurrencyInv, ConcurrencyBound
<1>5. SlotsReserved'
  <2> SUFFICES ASSUME NEW e \in Engine, tick'[e].pc = "counted"
               PROVE  Cardinality(InFlight') + tick'[e].slots <= MaxConcurrent
    BY DEF SlotsReserved
  <2>1. tick'[e].slots = tick[e].slots /\ tick[e].pc = "counted"
    OBVIOUS
  <2>2. tick[e].slots \in Nat
    BY ConstantsTyped DEF ConcurrencyInv, TypeOK, Tick
  <2>3. Cardinality(InFlight) + tick[e].slots <= MaxConcurrent
    BY <2>1 DEF ConcurrencyInv, SlotsReserved
  <2> QED
    BY <1>2, <1>3, <2>1, <2>2, <2>3, ConstantsTyped
<1> QED
  BY <1>4, <1>5 DEF ConcurrencyInv

\* A claim fills no more than the slots it has reserved.
LEMMA ClaimInSlots ==
  ASSUME OneProcess, ConcurrencyInv, TypeOK',
         NEW e \in Engine, NEW S \in SUBSET Dest, TickClaim(e, S)
  PROVE  ConcurrencyInv'
<1>1. InFlight' \subseteq InFlight \cup S
  BY DEF TickClaim, InFlight
<1>2. /\ InFlight \in SUBSET Dest /\ InFlight' \in SUBSET Dest
      /\ InFlight \cup S \in SUBSET Dest /\ InFlight \cap S \in SUBSET Dest
  BY DEF InFlight
<1>3. Cardinality(InFlight') <= Cardinality(InFlight) + Cardinality(S)
  <2>1. Cardinality(InFlight') <= Cardinality(InFlight \cup S)
    BY <1>1, <1>2, DestSetsFinite, FS_Subset
  <2>2. Cardinality(InFlight \cup S) =
          Cardinality(InFlight) + Cardinality(S) - Cardinality(InFlight \cap S)
    BY <1>2, DestSetsFinite, FS_Union
  <2> QED
    BY <1>2, <2>1, <2>2, DestSetsFinite
<1>4. /\ Cardinality(InFlight) + tick[e].slots <= MaxConcurrent
      /\ Cardinality(S) <= tick[e].slots
      /\ tick[e].slots \in Nat
  <2>1. tick[e].pc = "counted" /\ Cardinality(S) <= tick[e].slots
    BY DEF TickClaim
  <2>2. tick[e].slots \in Nat
    BY ConstantsTyped DEF ConcurrencyInv, TypeOK, Tick
  <2> QED
    BY <2>1, <2>2 DEF ConcurrencyInv, SlotsReserved
<1>5. ConcurrencyBound'
  BY <1>2, <1>3, <1>4, DestSetsFinite, ConstantsTyped DEF ConcurrencyBound
<1>6. SlotsReserved'
  <2>1. tick'[e].pc # "counted"
    BY DEF TickClaim, SetTick, IdleTick, ConcurrencyInv, TypeOK, Tick
  <2>2. \A f \in Engine : f = e
    BY DEF OneProcess
  <2> QED
    BY <2>1, <2>2 DEF SlotsReserved
<1> QED
  BY <1>5, <1>6 DEF ConcurrencyInv

\* The count reserves what the rows in flight leave free.
LEMMA CountReserves ==
  ASSUME ConcurrencyInv, TypeOK',
         NEW e \in Engine, NEW n \in 1..BatchSize, TickCount(e, n)
  PROVE  ConcurrencyInv'
<1>1. InFlight' = InFlight
  BY DEF TickCount, InFlight
<1>2. Cardinality(InFlight) \in Nat
  BY DestSetsFinite DEF InFlight
<1>3. ASSUME NEW f \in Engine, tick'[f].pc = "counted"
      PROVE  Cardinality(InFlight) + tick'[f].slots <= MaxConcurrent
  <2>1. CASE f = e
    <3>1. tick'[e].slots = n
      BY DEF TickCount, SetTick, ConcurrencyInv, TypeOK, Tick
    <3>2. n + Cardinality(InFlight) <= MaxConcurrent
      BY DEF TickCount
    <3> QED
      BY <1>2, <2>1, <3>1, <3>2, ConstantsTyped
  <2>2. CASE f # e
    <3>1. tick'[f] = tick[f]
      BY <2>2 DEF TickCount, SetTick, ConcurrencyInv, TypeOK
    <3> QED
      BY <1>3, <3>1 DEF ConcurrencyInv, SlotsReserved
  <2> QED
    BY <2>1, <2>2
<1> QED
  BY <1>1, <1>3 DEF ConcurrencyInv, ConcurrencyBound, SlotsReserved

\* The other steps of the tick neither claim nor count.
LEMMA TickKeepsBound ==
  ASSUME OneProcess, ConcurrencyInv, TypeOK', NEW e \in Engine, TickStep(e)
  PROVE  ConcurrencyInv'
<1> DEFINE Calm == /\ InFlight' \subseteq InFlight
                   /\ \A f \in Engine : tick'[f].pc = "counted"
                                         => tick'[f] = tick[f]
<1>0. TypeOK /\ tick[e] \in Tick
  BY DEF ConcurrencyInv, TypeOK
<1>1. CASE TickSelect(e)
  <2>1. Calm
    BY <1>0, <1>1 DEF TickSelect, SetTick, IdleTick, InFlight, TypeOK
  <2> QED
    BY <2>1, NoNewCall
<1>2. CASE TickStart(e)
  <2>1. Calm
    BY <1>0, <1>2 DEF TickStart, SetTick, InFlight, TypeOK, Tick
  <2> QED
    BY <2>1, NoNewCall
<1>3. CASE TickExpireRows(e)
  <2>1. InFlight' \subseteq InFlight
    BY <1>0, <1>3 DEF TickExpireRows, InFlight, Queued, TypeOK, Row
  <2>2. \A f \in Engine : tick'[f].pc = "counted" => tick'[f] = tick[f]
    BY <1>0, <1>3 DEF TickExpireRows, SetTick, TypeOK, Tick
  <2> QED
    BY <2>1, <2>2, NoNewCall
<1>4. CASE TickFinish(e)
  <2>1. Calm
    BY <1>0, <1>4 DEF TickFinish, EndTick, SetTick, IdleTick, InFlight, TypeOK
  <2> QED
    BY <2>1, NoNewCall
<1>5. CASE TickNothingLeft(e)
  <2>1. Calm
    BY <1>0, <1>5 DEF TickNothingLeft, SetTick, InFlight, TypeOK, Tick
  <2> QED
    BY <2>1, NoNewCall
<1>6. CASE TickNoSlot(e)
  <2>1. Calm
    BY <1>0, <1>6 DEF TickNoSlot, EndTick, SetTick, IdleTick, InFlight, TypeOK
  <2> QED
    BY <2>1, NoNewCall
<1>7. ASSUME NEW n \in 1..BatchSize, TickCount(e, n) PROVE ConcurrencyInv'
  BY <1>7, CountReserves
<1>8. ASSUME NEW S \in SUBSET Dest, TickClaim(e, S) PROVE ConcurrencyInv'
  BY <1>8, ClaimInSlots
<1>9. ASSUME NEW d \in Dest, TickOriginate(e, d) PROVE ConcurrencyInv'
  <2>1. \A x \in Dest : row'[x].status = row[x].status
    BY <1>0, <1>9 DEF TickOriginate, SetRow, TypeOK, Row
  <2>2. InFlight' \subseteq InFlight
    BY <2>1 DEF InFlight
  <2>3. \A f \in Engine : tick'[f].pc = "counted" => tick'[f] = tick[f]
    BY <1>0, <1>9 DEF TickOriginate, SetTick, IdleTick, TypeOK, Tick
  <2> QED
    BY <2>2, <2>3, NoNewCall
<1> QED
  BY <1>1, <1>2, <1>3, <1>4, <1>5, <1>6, <1>7, <1>8, <1>9 DEF TickStep

\* A handler, a retry falling due or a recovery never puts a row in flight that
\* was not: answered comes only from dialing.
LEMMA RowsKeepBound ==
  ASSUME TypeOK, NEW d \in Dest,
         RowStep(d) \/ \E k \in Attempt : HandlerStep(d, k)
  PROVE  InFlight' \subseteq InFlight /\ tick' = tick
<1>1. CASE RowStep(d)
  BY <1>1 DEF RowStep, RetryDue, RecoverDialing, RecoverAnswered, SetRow,
              InFlight, TypeOK, Row
<1>2. ASSUME NEW k \in Attempt, HandlerStep(d, k)
      PROVE  InFlight' \subseteq InFlight /\ tick' = tick
  <2>1. CASE OnCallAnswer(d, k)
    BY <2>1 DEF OnCallAnswer, SetRow, InFlight, TypeOK, Row
  <2>2. CASE OnCallHangupRead(d, k)
    BY <2>2 DEF OnCallHangupRead, InFlight
  <2>3. CASE OnCallHangupWrite(d, k)
    BY <2>3 DEF OnCallHangupWrite, SetRow, FailedRow, InFlight, TypeOK, Row
  <2>4. CASE OriginateRejected(d, k)
    BY <2>4 DEF OriginateRejected, SetRow, FailedRow, InFlight, TypeOK, Row
  <2> QED
    BY <1>2, <2>1, <2>2, <2>3, <2>4 DEF HandlerStep
<1> QED
  BY <1>1, <1>2

\* Neither do FreeSWITCH, the operator, the clock and the faults.
LEMMA OthersKeepBound ==
  ASSUME TypeOK,
         \/ OperatorStep \/ TimeOut \/ FaultStep \/ Restart \/ LinkReturns
         \/ \E c \in Calls : SwitchStep(c)
         \/ UNCHANGED vars
  PROVE  /\ InFlight' \subseteq InFlight
         /\ \A f \in Engine : tick'[f].pc = "counted" => tick'[f] = tick[f]
<1>1. CASE OperatorStep
  BY <1>1 DEF OperatorStep, Pause, Resume, CancelRows, CancelCampaign,
              InFlight, Queued, TypeOK, Row
<1>2. CASE TimeOut \/ Restart \/ LinkReturns \/ UNCHANGED vars
  BY <1>2 DEF TimeOut, Restart, LinkReturns, vars, InFlight
<1>3. CASE Crash \/ LinkDrops
  <2>1. row' = row
    BY <1>3, Zenon DEF Crash, LinkDrops
  <2>2. tick' = tick \/ tick' = [e \in Engine |-> IdleTick]
    BY <1>3, Zenon DEF Crash, LinkDrops
  <2>3. InFlight' = InFlight
    BY <2>1 DEF InFlight
  <2> QED
    BY <2>2, <2>3 DEF IdleTick
<1>4. ASSUME NEW e \in Engine, TickNoMedia(e)
      PROVE  /\ InFlight' \subseteq InFlight
             /\ \A f \in Engine : tick'[f].pc = "counted"
                                   => tick'[f] = tick[f]
  BY <1>4 DEF TickNoMedia, EndTick, SetTick, IdleTick, InFlight, TypeOK
<1>5. ASSUME NEW c \in Calls, SwitchStep(c)
      PROVE  InFlight' \subseteq InFlight /\ tick' = tick
  BY <1>5 DEF SwitchStep, LegAnswers, LegFails, LegEnds, InFlight
<1> QED
  BY <1>1, <1>2, <1>3, <1>4, <1>5 DEF FaultStep

\* The invariant is inductive for a single process.
LEMMA ConcurrencyStep ==
  ASSUME OneProcess, ConcurrencyInv, [Next]_vars PROVE ConcurrencyInv'
<1>1. TypeOK /\ TypeOK'
  BY NextTyped DEF ConcurrencyInv
<1>2. ASSUME NEW e \in Engine, TickStep(e) PROVE ConcurrencyInv'
  BY <1>1, <1>2, TickKeepsBound
<1>3. ASSUME NEW d \in Dest,
             RowStep(d) \/ \E k \in Attempt : HandlerStep(d, k)
      PROVE  ConcurrencyInv'
  BY <1>1, <1>3, RowsKeepBound, NoNewCall
<1>4. ASSUME \/ OperatorStep \/ TimeOut \/ FaultStep \/ Restart \/ LinkReturns
             \/ \E c \in Calls : SwitchStep(c)
             \/ UNCHANGED vars
      PROVE  ConcurrencyInv'
  BY <1>1, <1>4, OthersKeepBound, NoNewCall
<1>5. ASSUME NEW d \in Dest, NEW k \in Attempt, SwitchStep(<<d, k>>)
      PROVE  ConcurrencyInv'
  <2>1. <<d, k>> \in Calls
    BY DEF Calls
  <2> QED
    BY <1>4, <1>5, <2>1
<1> QED
  BY <1>2, <1>3, <1>4, <1>5 DEF Next

\* No row is in flight when the campaign is created.
LEMMA ConcurrencyInit == Init => ConcurrencyInv
<1> SUFFICES ASSUME Init PROVE ConcurrencyInv
  OBVIOUS
<1>1. InFlight = {}
  BY DEF Init, InFlight, NewRow
<1>2. Cardinality(InFlight) = 0
  BY <1>1, FS_EmptySet
<1>3. SlotsReserved
  BY DEF Init, SlotsReserved, IdleTick
<1> QED
  BY <1>2, <1>3, InitTyped, ConstantsTyped DEF ConcurrencyInv, ConcurrencyBound

\* With one process, the rows that hold a slot never exceed max_concurrent,
\* whatever handlers, recoveries, requests, crashes and lost events do between
\* the tick's count and its claim.
THEOREM ConcurrencyBounded ==
  ASSUME OneProcess PROVE Spec => []ConcurrencyBound
<1>1. Init => ConcurrencyInv
  BY ConcurrencyInit
<1>2. ConcurrencyInv /\ [Next]_vars => ConcurrencyInv'
  BY ConcurrencyStep
<1>3. ConcurrencyInv => ConcurrencyBound
  BY DEF ConcurrencyInv
<1> QED
  BY <1>1, <1>2, <1>3, PTL DEF Spec

-----------------------------------------------------------------------------
\* Until the first fault.  Every row and every call stay in step: the call of
\* an attempt that is over is over, one still to come is untouched, and the
\* last attempt's call is where the row says.  LiveLegOwned and the promises
\* about reports follow; none of them is inductive alone,
\* since a handler decides on a call and writes the row some steps later.

\* Some engine has claimed the row and not yet originated it.
Claimed(d) == \E e \in Engine : d \in tick[e].batch

\* Nothing of the call is left to happen.
Over(c) ==
  /\ c.leg \in {"none", "gone"} /\ c.job \in {"none", "settled", "thrown"}
  /\ ~c.answer /\ ~c.hangup /\ c.write = "none"

BatchesApart ==
  /\ \A e \in Engine : tick[e].pc # "dispatching" => tick[e].batch = {}
  /\ \A e, f \in Engine, d \in Dest :
       d \in tick[e].batch /\ d \in tick[f].batch => e = f

\* The order of a call's leg, promise, events and decision.
CallShape(c) ==
  /\ c.leg = "none" =>
       ~c.answer /\ ~c.hangup /\ c.write = "none" /\ c.cause = "none"
  /\ c.leg = "ringing" =>
       c.job = "pending" /\ ~c.answer /\ ~c.hangup /\ c.write = "none"
  /\ c.leg = "talking" => c.job = "settled" /\ ~c.hangup /\ c.write = "none"
  /\ c.leg \in {"ringing", "talking"} => c.cause = "none"
  /\ c.hangup => c.write = "none"
  /\ c.answer => c.job = "settled" /\ (c.leg = "talking" \/ c.cause = "final")
  /\ c.job = "pending" => c.leg = "ringing"
  /\ c.job # "lost"
  /\ c.write = "retry" => c.cause = "retryable"

\* The columns of a row; b says whether an engine has claimed it.
RowShape(r, b) ==
  /\ r.attempts <= MaxAttempts
  /\ r.status = "queued" => r.attempts < MaxAttempts
  /\ b => r.status = "dialing" /\ r.call = NoCall
  /\ r.status = "dialing" /\ ~b => r.call = r.attempts
  /\ r.status = "answered" => r.call = r.attempts /\ r.answeredAt
  /\ r.status \in {"dialing", "answered"} => r.attempts # 0
  /\ r.answeredAt => r.status \in {"answered", "completed", "failed"}

\* A row r and the call c of its last attempt: a row that holds a slot has a
\* live leg or a handler still to run, and a row that does not has no live leg.
LastCall(r, c, b) ==
  /\ b => c = NewCall
  /\ c.leg \in {"ringing", "talking"} =>
       r.status \in {"dialing", "answered"} /\ ~b
  /\ r.status = "dialing" /\ ~b =>
       \/ c.leg = "ringing" \/ (c.leg = "talking" /\ c.answer)
       \/ c.hangup \/ c.write # "none" \/ c.job = "rejected"
  /\ r.status = "answered" =>
       c.leg = "talking" \/ c.hangup \/ c.write # "none"
  /\ r.answeredAt => c.leg = "talking" \/ c.cause = "final"
  /\ r.status = "queued" => ~c.answer /\ ~c.hangup /\ c.write = "none"
  /\ r.status = "queued" /\ r.due => c.job # "rejected"
  /\ c.write = "retry" => r.attempts < MaxAttempts

Fits(r, c, b) == CallShape(c) /\ RowShape(r, b) /\ LastCall(r, c, b)

DestInv(d) ==
  /\ RowShape(row[d], Claimed(d))
  /\ \A k \in Attempt :
       /\ k > row[d].attempts => call[d, k] = NewCall
       /\ k < row[d].attempts => Over(call[d, k])
       /\ k = row[d].attempts => Fits(row[d], call[d, k], Claimed(d))

InStep ==
  /\ node = "up" /\ link = "up"
  /\ BatchesApart
  /\ \A d \in Dest : DestInv(d)

StepInv == TypeOK /\ (faults = 0 => InStep)

\* The number of attempts, and of a call, is a number.
LEMMA AttemptsTyped ==
  ASSUME TypeOK, NEW d \in Dest
  PROVE  /\ row[d] \in Row /\ row[d].attempts \in Nat
         /\ \A k \in Attempt : k \in Nat /\ k # 0 /\ call[d, k] \in Call
<1>1. row[d] \in Row
  BY DEF TypeOK
<1>2. row[d].attempts \in Nat
  BY <1>1, ConstantsTyped DEF Row
<1>3. ASSUME NEW k \in Attempt PROVE k \in Nat /\ k # 0 /\ call[d, k] \in Call
  <2>1. <<d, k>> \in Calls
    BY DEF Calls
  <2>2. call[d, k] \in Call
    BY <2>1 DEF TypeOK
  <2>3. k \in Nat /\ k # 0
    BY ConstantsTyped DEF Attempt
  <2> QED
    BY <2>2, <2>3, Zenon
<1> QED
  BY <1>1, <1>2, <1>3

LEMMA Trichotomy ==
  \A m, n \in Nat : /\ ~(m > m) /\ ~(m < m)
                    /\ ~(m > n) /\ ~(m < n) => m = n
  OBVIOUS

LEMMA Successor ==
  \A k, n \in Nat : /\ k > n + 1 => k > n
                    /\ k < n + 1 => k < n \/ k = n
                    /\ k = n + 1 => k > n
  OBVIOUS

\* A call that is not over is the one of the row's last attempt.
LEMMA ActiveIsLast ==
  ASSUME TypeOK, NEW d \in Dest, DestInv(d), NEW k \in Attempt,
         ~Over(call[d, k])
  PROVE  k = row[d].attempts /\ Fits(row[d], call[d, k], Claimed(d))
<1>1. row[d].attempts \in Nat /\ k \in Nat
  BY AttemptsTyped
<1>2. call[d, k] # NewCall
  <2>1. Over(NewCall)
    BY DEF Over, NewCall
  <2> QED
    BY <2>1, Zenon
<1>3. ~(k > row[d].attempts) /\ ~(k < row[d].attempts)
  BY <1>2 DEF DestInv
<1>4. k = row[d].attempts
  BY <1>1, <1>3, Trichotomy, Zenon
<1> QED
  BY <1>4 DEF DestInv

\* The rows a step does not touch stay in step.
LEMMA Bystander ==
  ASSUME NEW d \in Dest, DestInv(d), row'[d] = row[d],
         \A k \in Attempt : call'[d, k] = call[d, k],
         Claimed(d)' = Claimed(d)
  PROVE  DestInv(d)'
  BY DEF DestInv

\* So does a row whose last call, or which itself, moved to a state that fits.
LEMMA Moved ==
  ASSUME TypeOK, NEW d \in Dest, DestInv(d), NEW k \in Attempt,
         k = row[d].attempts, row'[d].attempts = k,
         \A j \in Attempt \ {k} : call'[d, j] = call[d, j],
         Fits(row'[d], call'[d, k], Claimed(d)')
  PROVE  DestInv(d)'
<1>1. RowShape(row'[d], Claimed(d)')
  BY DEF Fits
<1>2. ASSUME NEW j \in Attempt
      PROVE  /\ j > row'[d].attempts => call'[d, j] = NewCall
             /\ j < row'[d].attempts => Over(call'[d, j])
             /\ j = row'[d].attempts =>
                  Fits(row'[d], call'[d, j], Claimed(d)')
  <2>1. CASE j = k
    <3>1. k \in Nat
      BY AttemptsTyped
    <3>2. ~(k > k) /\ ~(k < k)
      BY <3>1, Trichotomy, Zenon
    <3> QED
      BY <2>1, <3>2, Zenon
  <2>2. CASE j # k
    <3>1. call'[d, j] = call[d, j]
      BY <2>2
    <3> QED
      BY <2>2, <3>1 DEF DestInv
  <2> QED
    BY <2>1, <2>2
<1> QED
  BY <1>1, <1>2 DEF DestInv

-----------------------------------------------------------------------------
\* The batches, in any state of the rows.

\* A tick that neither takes nor gives up a batch.
LEMMA TickCalm ==
  ASSUME TypeOK, BatchesApart, NEW e \in Engine, NEW t,
         tick' = [tick EXCEPT ![e] = t], t.batch = tick[e].batch,
         t.pc # "dispatching" => t.batch = {}
  PROVE  BatchesApart' /\ \A d \in Dest : Claimed(d)' = Claimed(d)
<1>1. \A f \in Engine : tick'[f].batch = tick[f].batch
  BY DEF TypeOK
<1>2. \A f \in Engine : tick'[f].pc # "dispatching" => tick'[f].batch = {}
  BY DEF TypeOK, BatchesApart
<1>3. BatchesApart'
  BY <1>1, <1>2, Zenon DEF BatchesApart
<1>4. ASSUME NEW d \in Dest PROVE Claimed(d)' = Claimed(d)
  BY <1>1, Zenon DEF Claimed
<1> QED
  BY <1>3, <1>4

\* Those are the steps of a tick up to the claim.
LEMMA CalmTicks ==
  ASSUME TypeOK, BatchesApart, NEW e \in Engine,
         \/ TickSelect(e) \/ TickStart(e) \/ TickFinish(e)
         \/ TickNothingLeft(e) \/ TickNoSlot(e) \/ TickExpireRows(e)
         \/ TickNoMedia(e)
         \/ \E n \in 1..BatchSize : TickCount(e, n)
  PROVE  BatchesApart' /\ \A d \in Dest : Claimed(d)' = Claimed(d)
<1> DEFINE Calm == BatchesApart' /\ \A d \in Dest : Claimed(d)' = Claimed(d)
<1>1. tick[e] \in Tick /\ (tick[e].pc # "dispatching" => tick[e].batch = {})
  BY DEF TypeOK, BatchesApart
<1>2. ASSUME NEW t, tick' = [tick EXCEPT ![e] = t], t.batch = {},
             tick[e].pc # "dispatching"
      PROVE  Calm
  BY <1>1, <1>2, TickCalm
<1>3. CASE TickSelect(e)
  <2> DEFINE t == [IdleTick EXCEPT
                     !.pc = IF campaign = "queued" THEN "starting"
                            ELSE "started",
                     !.seen = campaign]
  <2>1. t.batch = {}
    BY DEF IdleTick
  <2>2. tick' = [tick EXCEPT ![e] = t] /\ tick[e].pc # "dispatching"
    BY <1>3 DEF TickSelect, SetTick
  <2> HIDE DEF t, Calm
  <2>3. Calm
    BY <1>2, <2>1, <2>2
  <2> QED
    BY <2>3 DEF Calm
<1>4. CASE TickStart(e)
  <2>1. [tick[e] EXCEPT !.pc = "started"].batch = {}
    BY <1>1, <1>4 DEF TickStart, Tick
  <2> QED
    BY <1>2, <1>4, <2>1 DEF TickStart, SetTick
<1>5. CASE TickFinish(e) \/ TickNoSlot(e) \/ TickNoMedia(e)
  <2>1. tick' = [tick EXCEPT ![e] = IdleTick] /\ tick[e].pc # "dispatching"
    BY <1>5 DEF TickFinish, TickNoSlot, TickNoMedia, EndTick, SetTick
  <2>2. IdleTick.batch = {}
    BY DEF IdleTick
  <2> HIDE DEF Calm
  <2>3. Calm
    BY <1>2, <2>1, <2>2
  <2> QED
    BY <2>3 DEF Calm
<1>6. CASE TickNothingLeft(e)
  <2>1. [tick[e] EXCEPT !.pc = "completing"].batch = {}
    BY <1>1, <1>6 DEF TickNothingLeft, Tick
  <2> QED
    BY <1>2, <1>6, <2>1 DEF TickNothingLeft, SetTick
<1>7. ASSUME NEW n \in 1..BatchSize, TickCount(e, n) PROVE Calm
  <2>1. [tick[e] EXCEPT !.pc = "counted", !.slots = n].batch = {}
    BY <1>1, <1>7 DEF TickCount, Tick
  <2> QED
    BY <1>2, <1>7, <2>1 DEF TickCount, SetTick
<1>8. CASE TickExpireRows(e)
  <2>1. [tick[e] EXCEPT !.pc = "expiring"].batch = {}
    BY <1>1, <1>8 DEF TickExpireRows, Tick
  <2> QED
    BY <1>2, <1>8, <2>1 DEF TickExpireRows, SetTick
<1> QED
  BY <1>3, <1>4, <1>5, <1>6, <1>7, <1>8

\* A claim of rows that nobody has claimed.
LEMMA ClaimBatches ==
  ASSUME TypeOK, BatchesApart, NEW e \in Engine, NEW S \in SUBSET Dest,
         TickClaim(e, S), \A d \in S : ~Claimed(d)
  PROVE  /\ BatchesApart'
         /\ \A d \in S : Claimed(d)'
         /\ \A d \in Dest \ S : Claimed(d)' = Claimed(d)
<1>2. tick[e].batch = {}
  BY DEF TickClaim, BatchesApart
<1>3. /\ tick'[e].batch = S
      /\ tick'[e].pc # "dispatching" => tick'[e].batch = {}
  <2>1. tick[e] \in Tick
    BY DEF TypeOK
  <2>2. CASE S = {}
    BY <2>2 DEF TickClaim, SetTick, IdleTick, TypeOK
  <2>3. CASE S # {}
    BY <2>1, <2>3 DEF TickClaim, SetTick, TypeOK, Tick
  <2> QED
    BY <2>2, <2>3
<1>4. \A f \in Engine : f # e => tick'[f] = tick[f]
  BY DEF TickClaim, SetTick, TypeOK
<1>6. BatchesApart'
  <2>1. \A f \in Engine, d \in Dest :
          f # e => ~(d \in S /\ d \in tick[f].batch)
    BY DEF Claimed
  <2>2. \A f \in Engine : tick'[f].pc # "dispatching" => tick'[f].batch = {}
    BY <1>3, <1>4 DEF BatchesApart
  <2>3. ASSUME NEW f \in Engine, NEW g \in Engine, NEW d \in Dest,
               d \in tick'[f].batch, d \in tick'[g].batch
        PROVE  f = g
    BY <1>3, <1>4, <2>1, <2>3 DEF BatchesApart
  <2> QED
    BY <2>2, <2>3 DEF BatchesApart
<1>7. ASSUME NEW d \in Dest \ S PROVE Claimed(d)' = Claimed(d)
  BY <1>2, <1>3, <1>4, <1>7 DEF Claimed
<1>8. ASSUME NEW d \in S PROVE Claimed(d)'
  BY <1>3 DEF Claimed
<1> QED
  BY <1>6, <1>7, <1>8

\* An origination takes its row off the batch.
LEMMA OriginateBatches ==
  ASSUME TypeOK, BatchesApart, NEW e \in Engine, NEW d \in Dest,
         TickOriginate(e, d)
  PROVE  /\ BatchesApart'
         /\ Claimed(d)' = FALSE
         /\ \A x \in Dest \ {d} : Claimed(x)' = Claimed(x)
<1> DEFINE rest == tick[e].batch \ {d}
<1>1. d \in tick[e].batch /\ tick[e].pc = "dispatching"
  BY DEF TickOriginate
<1>6. /\ tick'[e].batch = rest
      /\ tick'[e].pc # "dispatching" => tick'[e].batch = {}
      /\ \A f \in Engine : f # e => tick'[f] = tick[f]
  <2>1. tick[e] \in Tick
    BY DEF TypeOK
  <2>2. CASE rest = {}
    BY <2>2 DEF TickOriginate, SetTick, IdleTick, TypeOK
  <2>3. CASE rest # {}
    BY <1>1, <2>1, <2>3 DEF TickOriginate, SetTick, TypeOK, Tick
  <2> QED
    BY <2>2, <2>3
<1>7. BatchesApart'
  <2>1. \A f \in Engine : tick'[f].pc # "dispatching" => tick'[f].batch = {}
    BY <1>6 DEF BatchesApart
  <2>2. \A f \in Engine : tick'[f].batch \subseteq tick[f].batch
    BY <1>6
  <2> QED
    BY <2>1, <2>2 DEF BatchesApart
<1>8. Claimed(d)' = FALSE
  BY <1>1, <1>6 DEF Claimed, BatchesApart
<1>9. ASSUME NEW x \in Dest \ {d} PROVE Claimed(x)' = Claimed(x)
  BY <1>6 DEF Claimed
<1> QED
  BY <1>7, <1>8, <1>9

-----------------------------------------------------------------------------
\* How each event moves a row r and the call c of its last attempt.

\* The leg rings, is answered, fails or ends.
LEMMA LegFits ==
  ASSUME NEW r \in Row, NEW c \in Call, NEW b \in BOOLEAN, Fits(r, c, b)
  PROVE  /\ c.leg = "ringing" =>
              Fits(r, [c EXCEPT !.leg = "talking", !.answer = TRUE,
                                !.job = "settled"], b)
         /\ \A why \in {"retryable", "final"}, j \in {"rejected", "settled"} :
              c.leg = "ringing" =>
                Fits(r, [c EXCEPT !.leg = "gone", !.cause = why,
                                  !.hangup = TRUE, !.job = j], b)
         /\ c.leg = "talking" =>
              Fits(r, [c EXCEPT !.leg = "gone", !.cause = "final",
                                !.hangup = TRUE], b)
<1>1. c.leg = "ringing" =>
        Fits(r, [c EXCEPT !.leg = "talking", !.answer = TRUE,
                          !.job = "settled"], b)
  BY DEF Fits, CallShape, RowShape, LastCall, NewCall,
         SettledStatus, Call, Row
<1>2. ASSUME NEW why \in {"retryable", "final"},
             NEW j \in {"rejected", "settled"},
             c.leg = "ringing"
      PROVE  Fits(r, [c EXCEPT !.leg = "gone", !.cause = why,
                               !.hangup = TRUE, !.job = j], b)
  BY <1>2 DEF Fits, CallShape, RowShape, LastCall, NewCall,
              SettledStatus, Call, Row
<1>3. c.leg = "talking" =>
        Fits(r, [c EXCEPT !.leg = "gone", !.cause = "final",
                          !.hangup = TRUE], b)
  BY DEF Fits, CallShape, RowShape, LastCall, NewCall,
         SettledStatus, Call, Row
<1> QED
  BY <1>1, <1>2, <1>3, Zenon

\* The answer is handled.
LEMMA AnswerFits ==
  ASSUME NEW r \in Row, NEW c \in Call, NEW b \in BOOLEAN, Fits(r, c, b),
         c.answer
  PROVE  Fits(IF r.call = r.attempts /\ r.status = "dialing"
              THEN [r EXCEPT !.status = "answered", !.answeredAt = TRUE]
              ELSE r,
              [c EXCEPT !.answer = FALSE], b)
  BY DEF Fits, CallShape, RowShape, LastCall, NewCall,
         SettledStatus, Call, Row

\* The hangup is read, and a write decided on.
LEMMA HangupFits ==
  ASSUME NEW r \in Row, NEW c \in Call, NEW b \in BOOLEAN, Fits(r, c, b),
         c.hangup, NEW w \in {"none", "complete", "retry", "fail"},
         r.attempts \in Nat,
         w = "none" => r.call # r.attempts,
         w = "retry" => /\ c.cause = "retryable" /\ r.attempts < MaxAttempts,
         w = "fail" => \/ c.cause # "retryable"
                       \/ ~(r.attempts < MaxAttempts)
  PROVE  Fits(r, [c EXCEPT !.hangup = FALSE, !.write = w], b)
  BY ConstantsTyped
     DEF Fits, CallShape, RowShape, LastCall, NewCall,
         SettledStatus, Call, Row

\* The write is done.
LEMMA WriteFits ==
  ASSUME NEW r \in Row, NEW c \in Call, NEW b \in BOOLEAN, Fits(r, c, b),
         c.write # "none"
  PROVE  Fits(CASE c.write = "complete" -> [r EXCEPT !.status = "completed"]
                [] c.write = "retry" -> [r EXCEPT !.status = "queued",
                                           !.due = FALSE, !.call = NoCall]
                [] OTHER -> FailedRow(r),
              [c EXCEPT !.write = "none"], b)
<1> DEFINE v == [c EXCEPT !.write = "none"]
<1>1. c.write = "complete" => Fits([r EXCEPT !.status = "completed"], v, b)
  BY DEF Fits, CallShape, RowShape, LastCall, NewCall,
         SettledStatus, Call, Row
<1>2. c.write = "retry" =>
        Fits([r EXCEPT !.status = "queued", !.due = FALSE, !.call = NoCall],
             v, b)
  <2> SUFFICES ASSUME c.write = "retry"
               PROVE  Fits([r EXCEPT !.status = "queued", !.due = FALSE,
                                     !.call = NoCall], v, b)
    OBVIOUS
  <2>1. /\ c.leg = "gone" /\ c.cause = "retryable" /\ ~c.hangup /\ ~c.answer
        /\ ~b /\ ~r.answeredAt /\ r.attempts < MaxAttempts
        /\ r.attempts <= MaxAttempts
    BY DEF Fits, CallShape, RowShape, LastCall, NewCall, Call, Row
  <2> QED
    BY <2>1 DEF Fits, CallShape, RowShape, LastCall, SettledStatus, Call, Row
<1>3. c.write = "fail" => Fits(FailedRow(r), v, b)
  <2> SUFFICES ASSUME c.write = "fail" PROVE Fits(FailedRow(r), v, b)
    OBVIOUS
  <2>1. /\ c.leg = "gone" /\ ~c.hangup /\ ~b
        /\ r.attempts <= MaxAttempts
    BY DEF Fits, CallShape, RowShape, LastCall, NewCall, Call, Row
  <2> QED
    BY <2>1 DEF Fits, CallShape, RowShape, LastCall, FailedRow,
                SettledStatus, Call, Row
<1>4. c.write \in {"complete", "retry", "fail"}
  BY DEF Call
<1> DEFINE s == CASE c.write = "complete" -> [r EXCEPT !.status = "completed"]
                  [] c.write = "retry" -> [r EXCEPT !.status = "queued",
                                             !.due = FALSE, !.call = NoCall]
                  [] OTHER -> FailedRow(r)
<1>5. /\ c.write = "complete" => s = [r EXCEPT !.status = "completed"]
      /\ c.write = "retry" => s = [r EXCEPT !.status = "queued",
                                     !.due = FALSE, !.call = NoCall]
      /\ c.write = "fail" => s = FailedRow(r)
  OBVIOUS
<1>6. Fits(s, v, b)
  <2> HIDE DEF s, v
  <2> QED
    BY <1>1, <1>2, <1>3, <1>4, <1>5
<1> QED
  BY <1>6

\* The promise is rejected.
LEMMA RejectedFits ==
  ASSUME NEW r \in Row, NEW c \in Call, NEW b \in BOOLEAN, Fits(r, c, b),
         c.job \in {"rejected", "lost"}
  PROVE  Fits(FailedRow(r), [c EXCEPT !.job = "thrown"], b)
  BY DEF Fits, CallShape, RowShape, LastCall, NewCall,
         SettledStatus, Call, Row, FailedRow

\* A queued row is put aside, or its retry falls due.
LEMMA AsideFits ==
  ASSUME NEW r \in Row, NEW c \in Call, NEW b \in BOOLEAN, Fits(r, c, b),
         r.status = "queued"
  PROVE  /\ \A s \in {"expired", "skipped"} :
              Fits([r EXCEPT !.status = s], c, b)
         /\ c.job # "rejected" => Fits([r EXCEPT !.due = TRUE], c, b)
<1>1. ~b
  BY DEF Fits, RowShape
<1>2. ASSUME NEW s \in {"expired", "skipped"}
      PROVE  Fits([r EXCEPT !.status = s], c, b)
  BY <1>1 DEF Fits, CallShape, RowShape, LastCall, SettledStatus, Call, Row
<1>3. c.job # "rejected" => Fits([r EXCEPT !.due = TRUE], c, b)
  BY <1>1 DEF Fits, CallShape, RowShape, LastCall, SettledStatus, Call, Row
<1> QED
  BY <1>2, <1>3, Zenon

\* A claimed row is originated: the leg rings, or the promise is rejected.
LEMMA OriginateFits ==
  ASSUME NEW r \in Row, NEW c \in Call, Fits(r, c, TRUE), r.attempts # 0
  PROVE  /\ Fits([r EXCEPT !.call = r.attempts],
                 [c EXCEPT !.leg = "ringing", !.job = "pending"], FALSE)
         /\ Fits([r EXCEPT !.call = r.attempts],
                 [c EXCEPT !.job = "rejected"], FALSE)
<1>1. /\ c = NewCall /\ r.status = "dialing" /\ ~r.answeredAt
      /\ r.attempts <= MaxAttempts
  BY DEF Fits, RowShape, LastCall
<1> DEFINE s == [r EXCEPT !.call = r.attempts]
<1>2. RowShape(s, FALSE)
  BY <1>1 DEF RowShape, Row
<1>3. Fits(s, [c EXCEPT !.leg = "ringing", !.job = "pending"], FALSE)
  <2> DEFINE v == [c EXCEPT !.leg = "ringing", !.job = "pending"]
  <2>1. CallShape(v)
    BY <1>1 DEF CallShape, NewCall
  <2>2. LastCall(s, v, FALSE)
    <3>1. s.status = "dialing" /\ ~s.answeredAt
      BY <1>1 DEF Row
    <3>2. v.leg = "ringing" /\ v.write = "none"
      BY <1>1 DEF NewCall
    <3> HIDE DEF s, v
    <3> QED
      BY <3>1, <3>2 DEF LastCall
  <2> QED
    BY <1>2, <2>1, <2>2 DEF Fits
<1>4. Fits(s, [c EXCEPT !.job = "rejected"], FALSE)
  <2> DEFINE v == [c EXCEPT !.job = "rejected"]
  <2>1. CallShape(v)
    BY <1>1 DEF CallShape, NewCall
  <2>2. LastCall(s, v, FALSE)
    BY <1>1 DEF LastCall, NewCall, Row
  <2> QED
    BY <1>2, <2>1, <2>2 DEF Fits
<1> QED
  BY <1>3, <1>4

\* A queued row whose retry is due is claimed: its last call is over, and the
\* row fits a new one.
LEMMA ClaimFits ==
  ASSUME NEW r \in Row, NEW b \in BOOLEAN, RowShape(r, b),
         r.status = "queued", r.due, r.attempts \in Nat
  PROVE  /\ Fits([r EXCEPT !.status = "dialing", !.call = NoCall,
                           !.attempts = r.attempts + 1, !.due = TRUE],
                 NewCall, TRUE)
         /\ \A c \in Call : Fits(r, c, b) => Over(c)
<1>1. Fits([r EXCEPT !.status = "dialing", !.call = NoCall,
                     !.attempts = r.attempts + 1, !.due = TRUE],
           NewCall, TRUE)
  BY ConstantsTyped
     DEF Fits, CallShape, RowShape, LastCall, NewCall,
         SettledStatus, Row
<1>2. ASSUME NEW c \in Call, Fits(r, c, b) PROVE Over(c)
  BY <1>2 DEF Fits, CallShape, LastCall, Over, Call
<1> QED
  BY <1>1, <1>2

-----------------------------------------------------------------------------
\* Each step keeps rows and calls in step while no fault happens.

\* A step of one call, and perhaps of its row, that leaves the ticks alone.
LEMMA CallStep ==
  ASSUME TypeOK, InStep, NEW d \in Dest, NEW k \in Attempt,
         NEW c, NEW r, ~Over(call[d, k]),
         call' = [call EXCEPT ![<<d, k>>] = c], row' = [row EXCEPT ![d] = r],
         r.attempts = row[d].attempts, Fits(r, c, Claimed(d)),
         tick' = tick, node' = node, link' = link
  PROVE  InStep'
<1>1. k = row[d].attempts
  BY ActiveIsLast DEF InStep
<1>2. \A x \in Dest : Claimed(x)' = Claimed(x)
  BY Zenon DEF Claimed
<1>3. BatchesApart'
  BY Zenon DEF BatchesApart, InStep
<1>4. ASSUME NEW x \in Dest PROVE DestInv(x)'
  <2>1. CASE x = d
    <3>1. row'[d] = r /\ call'[d, k] = c
      BY DEF TypeOK, Calls
    <3>2. \A j \in Attempt \ {k} : call'[d, j] = call[d, j]
      BY DEF TypeOK, Calls
    <3>3. Fits(row'[d], call'[d, k], Claimed(d)')
      BY <1>2, <3>1, Zenon
    <3>4. row'[d].attempts = k
      BY <1>1, <3>1, Zenon
    <3>5. DestInv(d)
      BY Zenon DEF InStep
    <3> QED
      BY <1>1, <2>1, <3>2, <3>3, <3>4, <3>5, Moved, Zenon
  <2>2. CASE x # d
    <3>1. row'[x] = row[x]
      BY <2>2 DEF TypeOK
    <3>2. \A j \in Attempt : call'[x, j] = call[x, j]
      BY <2>2 DEF TypeOK, Calls
    <3> QED
      BY <1>2, <3>1, <3>2, Bystander, Zenon DEF InStep
  <2> QED
    BY <2>1, <2>2
<1> QED
  BY <1>3, <1>4 DEF InStep

\* FreeSWITCH moves a leg.
LEMMA SwitchInStep ==
  ASSUME TypeOK, InStep, NEW d \in Dest, NEW k \in Attempt,
         SwitchStep(<<d, k>>)
  PROVE  InStep'
<1> DEFINE c == call[d, k]
<1>1. /\ c \in Call /\ row[d] \in Row /\ Claimed(d) \in BOOLEAN
      /\ node' = node /\ link' = link /\ tick' = tick
      /\ row' = [row EXCEPT ![d] = row[d]]
  <2>1. c \in Call /\ row[d] \in Row
    BY AttemptsTyped
  <2>2. row' = row /\ tick' = tick /\ node' = node /\ link' = link
    BY DEF SwitchStep, LegAnswers, LegFails, LegEnds, NoFault
  <2> QED
    BY <2>1, <2>2 DEF TypeOK, Claimed
<1>2. c.leg \in {"ringing", "talking"} /\ ~Over(c)
  BY DEF SwitchStep, LegAnswers, LegFails, LegEnds, Over
<1>3. Fits(row[d], c, Claimed(d))
  BY <1>2, ActiveIsLast DEF InStep
<1>4. Heard = TRUE /\ (c.leg = "ringing" => c.job = "pending")
  BY <1>3 DEF InStep, Heard, Fits, CallShape
<1>5. CASE LegAnswers(<<d, k>>)
  <2> DEFINE v == [c EXCEPT !.leg = "talking", !.answer = TRUE,
                            !.job = "settled"]
  <2>1. call' = [call EXCEPT ![<<d, k>>] = v]
    BY <1>4, <1>5 DEF LegAnswers, SetCall
  <2>2. Fits(row[d], v, Claimed(d))
    BY <1>1, <1>3, <1>5, LegFits DEF LegAnswers
  <2> QED
    BY <1>1, <1>2, <2>1, <2>2, CallStep
<1>6. ASSUME NEW why \in {"retryable", "final"}, LegFails(<<d, k>>, why)
      PROVE  InStep'
  <2>1. PICK j \in {"rejected", "settled"} :
          call' = [call EXCEPT ![<<d, k>>] =
                     [c EXCEPT !.leg = "gone", !.cause = why, !.hangup = TRUE,
                               !.job = j]]
    BY <1>4, <1>6 DEF LegFails, SetCall
  <2> DEFINE v == [c EXCEPT !.leg = "gone", !.cause = why, !.hangup = TRUE,
                            !.job = j]
  <2>2. Fits(row[d], v, Claimed(d))
    BY <1>1, <1>3, <1>6, LegFits DEF LegFails
  <2> QED
    BY <1>1, <1>2, <2>1, <2>2, CallStep
<1>7. CASE LegEnds(<<d, k>>)
  <2> DEFINE v == [c EXCEPT !.leg = "gone", !.cause = "final",
                            !.hangup = TRUE]
  <2>1. call' = [call EXCEPT ![<<d, k>>] = v]
    BY <1>4, <1>7 DEF LegEnds, SetCall
  <2>2. Fits(row[d], v, Claimed(d))
    BY <1>1, <1>3, <1>7, LegFits DEF LegEnds
  <2> QED
    BY <1>1, <1>2, <2>1, <2>2, CallStep
<1> QED
  BY <1>5, <1>6, <1>7 DEF SwitchStep

\* A handler runs one of its statements.
LEMMA HandlerInStep ==
  ASSUME TypeOK, InStep, NEW d \in Dest, NEW k \in Attempt, HandlerStep(d, k)
  PROVE  InStep'
<1> DEFINE c == call[d, k]
           r == row[d]
<1>1. /\ c \in Call /\ r \in Row /\ Claimed(d) \in BOOLEAN
      /\ r.attempts \in Nat
  BY AttemptsTyped DEF Claimed
<1>2. node' = node /\ link' = link /\ tick' = tick
  BY DEF HandlerStep, OnCallAnswer, OnCallHangupRead, OnCallHangupWrite,
         OriginateRejected, NoFault
<1>3. ~Over(c)
  BY DEF HandlerStep, OnCallAnswer, OnCallHangupRead, OnCallHangupWrite,
         OriginateRejected, Over
<1>4. Fits(r, c, Claimed(d)) /\ k = r.attempts
  BY <1>3, ActiveIsLast DEF InStep
<1>5. row = [row EXCEPT ![d] = r]
  BY DEF TypeOK
<1>6. CASE OnCallAnswer(d, k)
  <2> DEFINE v == [c EXCEPT !.answer = FALSE]
             s == IF r.call = r.attempts /\ r.status = "dialing"
                  THEN [r EXCEPT !.status = "answered", !.answeredAt = TRUE]
                  ELSE r
  <2>1. call' = [call EXCEPT ![<<d, k>>] = v]
    BY <1>6 DEF OnCallAnswer, SetCall
  <2>2. row' = [row EXCEPT ![d] = s]
    BY <1>4, <1>5, <1>6 DEF OnCallAnswer, SetRow
  <2>3. s.attempts = r.attempts
    BY <1>1 DEF Row
  <2>4. Fits(s, v, Claimed(d))
    BY <1>1, <1>4, <1>6, AnswerFits DEF OnCallAnswer
  <2> QED
    BY <1>2, <1>3, <2>1, <2>2, <2>3, <2>4, CallStep
<1>7. CASE OnCallHangupRead(d, k)
  <2> DEFINE w == HangupWrite(d, k)
             v == [c EXCEPT !.hangup = FALSE, !.write = w]
  <2>1. call' = [call EXCEPT ![<<d, k>>] = v] /\ c.hangup /\ row' = row
    BY <1>7 DEF OnCallHangupRead, SetCall
  <2>2. /\ w \in {"none", "complete", "retry", "fail"}
        /\ w = "none" => r.call # r.attempts
        /\ w = "retry" => c.cause = "retryable" /\ r.attempts < MaxAttempts
        /\ w = "fail" => \/ c.cause # "retryable"
                         \/ ~(r.attempts < MaxAttempts)
    BY <1>4 DEF HangupWrite
  <2> HIDE DEF w
  <2>3. Fits(r, v, Claimed(d))
    BY <1>1, <1>4, <2>1, <2>2, HangupFits
  <2> QED
    BY <1>2, <1>3, <1>5, <2>1, <2>3, CallStep
<1>8. CASE OnCallHangupWrite(d, k)
  <2> DEFINE v == [c EXCEPT !.write = "none"]
             s == CASE c.write = "complete" ->
                         [r EXCEPT !.status = "completed"]
                    [] c.write = "retry" ->
                         [r EXCEPT !.status = "queued", !.due = FALSE,
                                   !.call = NoCall]
                    [] OTHER -> FailedRow(r)
  <2>1. call' = [call EXCEPT ![<<d, k>>] = v] /\ row' = [row EXCEPT ![d] = s]
    BY <1>8 DEF OnCallHangupWrite, SetCall, SetRow
  <2>2. s.attempts = r.attempts
    BY <1>1 DEF Row, FailedRow
  <2>3. Fits(s, v, Claimed(d))
    BY <1>1, <1>4, <1>8, WriteFits DEF OnCallHangupWrite
  <2> QED
    BY <1>2, <1>3, <2>1, <2>2, <2>3, CallStep
<1>9. CASE OriginateRejected(d, k)
  <2> DEFINE v == [c EXCEPT !.job = "thrown"]
             s == FailedRow(r)
  <2>1. call' = [call EXCEPT ![<<d, k>>] = v] /\ row' = [row EXCEPT ![d] = s]
    BY <1>9 DEF OriginateRejected, SetCall, SetRow
  <2>2. s.attempts = r.attempts
    BY <1>1 DEF Row, FailedRow
  <2>3. Fits(s, v, Claimed(d))
    BY <1>1, <1>4, <1>9, RejectedFits DEF OriginateRejected
  <2> QED
    BY <1>2, <1>3, <2>1, <2>2, <2>3, CallStep
<1> QED
  BY <1>6, <1>7, <1>8, <1>9 DEF HandlerStep

\* A step that touches no call, and moves rows, if any, to states that fit.
LEMMA RowsStep ==
  ASSUME TypeOK, InStep, BatchesApart', call' = call,
         node' = node, link' = link,
         \A d \in Dest : Claimed(d)' = Claimed(d),
         \A d \in Dest :
           \/ row'[d] = row[d]
           \/ /\ row'[d].attempts = row[d].attempts
              /\ RowShape(row'[d], Claimed(d))
              /\ \A k \in Attempt : k = row[d].attempts =>
                   Fits(row'[d], call[d, k], Claimed(d))
  PROVE  InStep'
<1> SUFFICES ASSUME NEW d \in Dest PROVE DestInv(d)'
  BY DEF InStep
<1>1. Claimed(d)' = Claimed(d) /\ DestInv(d)
  BY Zenon DEF InStep
<1>2. CASE row'[d] = row[d]
  BY <1>1, <1>2, Bystander, Zenon
<1>3. CASE /\ row'[d].attempts = row[d].attempts
           /\ RowShape(row'[d], Claimed(d))
           /\ \A k \in Attempt : k = row[d].attempts =>
                Fits(row'[d], call[d, k], Claimed(d))
  BY <1>1, <1>3, Zenon DEF DestInv
<1> QED
  BY <1>2, <1>3

\* The same for a row that is queued.
LEMMA AsideShape ==
  ASSUME NEW r \in Row, NEW b \in BOOLEAN, RowShape(r, b), r.status = "queued"
  PROVE  /\ \A s \in {"expired", "skipped"} :
              RowShape([r EXCEPT !.status = s], b)
         /\ RowShape([r EXCEPT !.due = TRUE], b)
  BY DEF RowShape, Row

\* A queued row put aside, with its last call if it has one, fits.
LEMMA QueuedAside ==
  ASSUME TypeOK, InStep, NEW d \in Dest, row[d].status = "queued",
         NEW s \in {"expired", "skipped"}
  PROVE  LET r == [row[d] EXCEPT !.status = s] IN
           /\ r.attempts = row[d].attempts
           /\ RowShape(r, Claimed(d))
           /\ \A k \in Attempt : k = row[d].attempts =>
                Fits(r, call[d, k], Claimed(d))
<1> DEFINE r == [row[d] EXCEPT !.status = s]
<1>1. row[d] \in Row /\ Claimed(d) \in BOOLEAN
  BY AttemptsTyped DEF Claimed
<1>2. r.attempts = row[d].attempts
  BY <1>1 DEF Row
<1>3. RowShape(r, Claimed(d))
  BY <1>1, AsideShape DEF InStep, DestInv
<1>4. ASSUME NEW k \in Attempt, k = row[d].attempts
      PROVE  Fits(r, call[d, k], Claimed(d))
  <2>1. call[d, k] \in Call
    BY AttemptsTyped
  <2>2. Fits(row[d], call[d, k], Claimed(d))
    BY <1>4 DEF InStep, DestInv
  <2> QED
    BY <1>1, <2>1, <2>2, AsideFits
<1> QED
  BY <1>2, <1>3, <1>4

\* A claim moves queued rows to a new attempt, whose call is untouched.
LEMMA ClaimInStep ==
  ASSUME TypeOK, InStep, NEW e \in Engine, NEW S \in SUBSET Dest,
         TickClaim(e, S)
  PROVE  InStep'
<1> DEFINE claim(d) == [row[d] EXCEPT !.status = "dialing", !.call = NoCall,
                                      !.attempts = row[d].attempts + 1,
                                      !.due = TRUE]
<1>1. /\ \A d \in S : row'[d] = claim(d)
      /\ \A d \in Dest \ S : row'[d] = row[d]
      /\ call' = call /\ node' = node /\ link' = link
  BY DEF TickClaim, NoFault
<1>2. \A d \in S : row[d].status = "queued" /\ row[d].due
  BY DEF TickClaim, Ready, Queued
<1>5. \A d \in S : ~Claimed(d)
  BY <1>2 DEF InStep, DestInv, RowShape
<1>6. /\ BatchesApart'
      /\ \A d \in S : Claimed(d)'
      /\ \A d \in Dest \ S : Claimed(d)' = Claimed(d)
  BY <1>5, ClaimBatches, Zenon DEF InStep
<1>9. ASSUME NEW d \in Dest PROVE DestInv(d)'
  <2>1. CASE d \notin S
    BY <1>1, <1>6, <2>1, Bystander DEF InStep
  <2>2. CASE d \in S
    <3> DEFINE r == row[d]
    <3>1. /\ r \in Row /\ r.attempts \in Nat /\ Claimed(d) \in BOOLEAN
          /\ RowShape(r, Claimed(d)) /\ r.status = "queued" /\ r.due
          /\ DestInv(d)
      BY <1>2, <2>2, AttemptsTyped DEF Claimed, InStep, DestInv
    <3>2. /\ Fits(claim(d), NewCall, TRUE)
          /\ \A c \in Call : Fits(r, c, Claimed(d)) => Over(c)
      BY <3>1, ClaimFits
    <3>3. claim(d).attempts = r.attempts + 1
      BY <3>1 DEF Row
    <3>4. row'[d] = claim(d) /\ Claimed(d)' = TRUE
      BY <1>1, <1>6, <2>2 DEF Claimed
    <3>5. ASSUME NEW k \in Attempt
          PROVE  /\ k > r.attempts + 1 => call[d, k] = NewCall
                 /\ k < r.attempts + 1 => Over(call[d, k])
                 /\ k = r.attempts + 1 => call[d, k] = NewCall
      <4>1. k \in Nat /\ call[d, k] \in Call
        BY AttemptsTyped
      <4>2. /\ k > r.attempts => call[d, k] = NewCall
            /\ k < r.attempts => Over(call[d, k])
            /\ k = r.attempts => Over(call[d, k])
        BY <3>1, <3>2, <4>1 DEF DestInv
      <4>3. /\ k > r.attempts + 1 => k > r.attempts
            /\ k < r.attempts + 1 => k < r.attempts \/ k = r.attempts
            /\ k = r.attempts + 1 => k > r.attempts
        BY <3>1, <4>1, Successor, Zenon
      <4> QED
        BY <4>2, <4>3, Zenon
    <3>6. RowShape(claim(d), TRUE)
      BY <3>2 DEF Fits
    <3> HIDE DEF claim
    <3> QED
      BY <1>1, <3>2, <3>3, <3>4, <3>5, <3>6, Zenon DEF DestInv
  <2> QED
    BY <2>1, <2>2
<1> QED
  BY <1>1, <1>6, <1>9 DEF InStep

\* An origination gives the row the UUID of its call, and the call its leg.
LEMMA OriginateInStep ==
  ASSUME TypeOK, InStep, NEW e \in Engine, NEW d \in Dest,
         TickOriginate(e, d)
  PROVE  InStep'
<1> DEFINE k == row[d].attempts
           r == [row[d] EXCEPT !.call = k]
<1>1. /\ k \in Attempt /\ k # 0 /\ row[d] \in Row /\ call[d, k] \in Call
      /\ d \in tick[e].batch /\ tick[e].pc = "dispatching"
      /\ node' = node /\ link' = link
  BY AttemptsTyped DEF TickOriginate, NoFault
<1>2. Claimed(d) = TRUE
  BY <1>1 DEF Claimed
<1>3. Fits(row[d], call[d, k], TRUE)
  BY <1>1, <1>2 DEF InStep, DestInv
<1>4. PICK v : /\ call' = [call EXCEPT ![<<d, k>>] = v]
               /\ Fits(r, v, FALSE)
  <2>1. \/ call' = [call EXCEPT ![<<d, k>>] =
                      [call[d, k] EXCEPT !.leg = "ringing", !.job = "pending"]]
        \/ call' = [call EXCEPT ![<<d, k>>] =
                      [call[d, k] EXCEPT !.job = "rejected"]]
    BY DEF TickOriginate, SetCall
  <2>2. /\ Fits(r, [call[d, k] EXCEPT !.leg = "ringing", !.job = "pending"],
                FALSE)
        /\ Fits(r, [call[d, k] EXCEPT !.job = "rejected"], FALSE)
    BY <1>1, <1>3, OriginateFits
  <2> HIDE DEF r
  <2> QED
    BY <2>1, <2>2, Zenon
<1>5. row' = [row EXCEPT ![d] = r]
  BY DEF TickOriginate, SetRow
<1>6. /\ BatchesApart' /\ Claimed(d)' = FALSE
      /\ \A x \in Dest \ {d} : Claimed(x)' = Claimed(x)
  BY OriginateBatches, Zenon DEF InStep
<1>9. ASSUME NEW x \in Dest PROVE DestInv(x)'
  <2>1. CASE x = d
    <3>1. row'[d] = r /\ call'[d, k] = v
      BY <1>1, <1>4, <1>5 DEF TypeOK, Calls
    <3>2. \A j \in Attempt \ {k} : call'[d, j] = call[d, j]
      BY <1>4 DEF TypeOK, Calls
    <3>3. r.attempts = k
      BY <1>1 DEF Row
    <3>4. Fits(row'[d], call'[d, k], Claimed(d)')
      BY <1>4, <1>6, <3>1, Zenon
    <3>5. DestInv(d)
      BY Zenon DEF InStep
    <3>6. row'[d].attempts = k
      BY <3>1, <3>3, Zenon
    <3> HIDE DEF r, k
    <3>7. k = row[d].attempts
      BY DEF k
    <3> QED
      BY <1>1, <2>1, <3>2, <3>4, <3>5, <3>6, <3>7, Moved, Zenon
  <2>2. CASE x # d
    <3>1. row'[x] = row[x]
      BY <1>5, <2>2 DEF TypeOK
    <3>2. \A j \in Attempt : call'[x, j] = call[x, j]
      BY <1>4, <2>2 DEF TypeOK, Calls
    <3>3. Claimed(x)' = Claimed(x)
      BY <1>6, <2>2
    <3> QED
      BY <3>1, <3>2, <3>3, Bystander, Zenon DEF InStep
  <2> QED
    BY <2>1, <2>2
<1> QED
  BY <1>1, <1>6, <1>9 DEF InStep

\* The tick.
LEMMA TickInStep ==
  ASSUME TypeOK, InStep, NEW e \in Engine, TickStep(e)
  PROVE  InStep'
<1>3. CASE \/ TickSelect(e) \/ TickStart(e) \/ TickFinish(e)
           \/ TickNothingLeft(e) \/ TickNoSlot(e)
           \/ \E n \in 1..BatchSize : TickCount(e, n)
  <2>1. row' = row /\ call' = call /\ node' = node /\ link' = link
    BY <1>3 DEF TickSelect, TickStart, TickFinish, TickNothingLeft,
                TickNoSlot, TickCount, NoFault
  <2>2. BatchesApart' /\ \A d \in Dest : Claimed(d)' = Claimed(d)
    BY <1>3, CalmTicks, Zenon DEF InStep
  <2> QED
    BY <2>1, <2>2, RowsStep
<1>4. CASE TickExpireRows(e)
  <2>1. call' = call /\ node' = node /\ link' = link
    BY <1>4 DEF TickExpireRows, NoFault
  <2>2. BatchesApart' /\ \A d \in Dest : Claimed(d)' = Claimed(d)
    BY <1>4, CalmTicks, Zenon DEF InStep
  <2>3. \A d \in Dest :
          \/ row'[d] = row[d]
          \/ /\ row[d].status = "queued"
             /\ row'[d] = [row[d] EXCEPT !.status = "expired"]
    BY <1>4 DEF TickExpireRows, Queued
  <2>4. ASSUME NEW d \in Dest, row[d].status = "queued",
               row'[d] = [row[d] EXCEPT !.status = "expired"]
        PROVE  /\ row'[d].attempts = row[d].attempts
               /\ RowShape(row'[d], Claimed(d))
               /\ \A k \in Attempt : k = row[d].attempts =>
                    Fits(row'[d], call[d, k], Claimed(d))
    BY <2>4, QueuedAside
  <2> QED
    BY <2>1, <2>2, <2>3, <2>4, RowsStep, Zenon
<1>5. ASSUME NEW S \in SUBSET Dest, TickClaim(e, S) PROVE InStep'
  BY <1>5, ClaimInStep
<1>6. ASSUME NEW d \in Dest, TickOriginate(e, d) PROVE InStep'
  BY <1>6, OriginateInStep
<1> QED
  BY <1>3, <1>4, <1>5, <1>6 DEF TickStep

\* A retry falls due.  Recovery finds nothing to repair: a row that holds a
\* slot has a live leg or a handler still to run, and is not quiet.
LEMMA RowInStep ==
  ASSUME TypeOK, InStep, NEW d \in Dest, RowStep(d)
  PROVE  InStep'
<1> DEFINE r == row[d]
<1>1. r \in Row /\ Claimed(d) \in BOOLEAN /\ DestInv(d)
  BY AttemptsTyped DEF Claimed, InStep
<1>2. /\ call' = call /\ tick' = tick /\ node' = node /\ link' = link
      /\ \A x \in Dest \ {d} : row'[x] = row[x]
  BY DEF RowStep, RetryDue, RecoverDialing, RecoverAnswered, SetRow, NoFault,
         TypeOK
<1>3. BatchesApart' /\ \A x \in Dest : Claimed(x)' = Claimed(x)
  BY <1>2, Zenon DEF Claimed, BatchesApart, InStep
<1>4. CASE RetryDue(d)
  <2> DEFINE s == [r EXCEPT !.due = TRUE]
  <2>1. row'[d] = s /\ r.status = "queued" /\ Settled(d)
    BY <1>4 DEF RetryDue, SetRow, TypeOK
  <2>2. s.attempts = r.attempts /\ RowShape(s, Claimed(d))
    BY <1>1, <2>1, AsideShape DEF DestInv, Row
  <2>3. ASSUME NEW k \in Attempt, k = r.attempts
        PROVE  Fits(s, call[d, k], Claimed(d))
    <3>1. Fits(r, call[d, k], Claimed(d)) /\ call[d, k] \in Call
      BY <1>1, <2>3, AttemptsTyped DEF DestInv
    <3>2. call[d, k].job # "rejected"
      BY <2>1, Zenon DEF Settled
    <3> QED
      BY <1>1, <2>1, <3>1, <3>2, AsideFits
  <2> HIDE DEF s
  <2> QED
    BY <1>2, <1>3, <2>1, <2>2, <2>3, RowsStep
<1>5. CASE RecoverDialing(d) \/ RecoverAnswered(d)
  <2>1. /\ r.status \in {"dialing", "answered"} /\ Quiet(d)
        /\ r.status = "answered" => \A k \in Attempt : call[d, k].leg # "talking"
    BY <1>5 DEF RecoverDialing, RecoverAnswered
  <2>2. ~Claimed(d)
    BY <2>1 DEF Quiet, Claimed
  <2>3. r.attempts # 0 /\ r.call = r.attempts
    BY <1>1, <2>1, <2>2 DEF DestInv, RowShape
  <2>4. r.attempts \in Attempt
    BY <1>1, <2>3, ConstantsTyped DEF Row, Attempt, NoCall
  <2> DEFINE c == call[d, r.attempts]
  <2>5. Fits(r, c, Claimed(d)) /\ c \in Call
    BY <1>1, <2>4, AttemptsTyped DEF DestInv
  <2>6. /\ ~c.answer /\ ~c.hangup /\ c.write = "none"
        /\ c.job # "rejected" /\ c.leg # "ringing"
        /\ r.status = "answered" => c.leg # "talking"
    BY <2>1, <2>4 DEF Quiet, Settled
  <2>7. FALSE
    BY <2>1, <2>2, <2>5, <2>6 DEF Fits, LastCall
  <2> QED
    BY <2>7
<1> QED
  BY <1>4, <1>5 DEF RowStep

\* The operator skips queued rows, or moves the campaign.
LEMMA OperatorInStep ==
  ASSUME TypeOK, InStep, OperatorStep
  PROVE  InStep'
<1>1. call' = call /\ tick' = tick /\ node' = node /\ link' = link
  BY DEF OperatorStep, Pause, Resume, CancelRows, CancelCampaign, NoFault
<1>2. BatchesApart' /\ \A x \in Dest : Claimed(x)' = Claimed(x)
  BY <1>1, Zenon DEF Claimed, BatchesApart, InStep
<1>3. CASE CancelRows
  <2>1. \A d \in Dest :
          \/ row'[d] = row[d]
          \/ /\ row[d].status = "queued"
             /\ row'[d] = [row[d] EXCEPT !.status = "skipped"]
    BY <1>3 DEF CancelRows, Queued
  <2>2. ASSUME NEW d \in Dest, row[d].status = "queued",
               row'[d] = [row[d] EXCEPT !.status = "skipped"]
        PROVE  /\ row'[d].attempts = row[d].attempts
               /\ RowShape(row'[d], Claimed(d))
               /\ \A k \in Attempt : k = row[d].attempts =>
                    Fits(row'[d], call[d, k], Claimed(d))
    BY <2>2, QueuedAside
  <2> QED
    BY <1>1, <1>2, <2>1, <2>2, RowsStep, Zenon
<1>4. CASE Pause \/ Resume \/ CancelCampaign
  <2>1. row' = row
    BY <1>4 DEF Pause, Resume, CancelCampaign
  <2> QED
    BY <1>1, <1>2, <2>1, RowsStep, Zenon
<1> QED
  BY <1>3, <1>4 DEF OperatorStep

\* A step that changes no row, call, tick or connection.
LEMMA IdleInStep ==
  ASSUME TypeOK, InStep, row' = row, call' = call, tick' = tick,
         node' = node, link' = link
  PROVE  InStep'
<1>1. BatchesApart' /\ \A x \in Dest : Claimed(x)' = Claimed(x)
  BY Zenon DEF Claimed, BatchesApart, InStep
<1> QED
  BY <1>1, RowsStep, Zenon

\* A step that counts no fault keeps rows and calls in step.
LEMMA FaultlessStep ==
  ASSUME TypeOK, InStep, [Next]_vars, ~FaultStep PROVE InStep'
<1>1. ASSUME NEW e \in Engine, TickStep(e) PROVE InStep'
  BY <1>1, TickInStep
<1>2. ASSUME NEW d \in Dest, NEW k \in Attempt, SwitchStep(<<d, k>>)
      PROVE  InStep'
  BY <1>2, SwitchInStep
<1>3. ASSUME NEW d \in Dest, NEW k \in Attempt, HandlerStep(d, k)
      PROVE  InStep'
  BY <1>3, HandlerInStep
<1>4. ASSUME NEW d \in Dest, RowStep(d) PROVE InStep'
  BY <1>4, RowInStep
<1>5. CASE OperatorStep
  BY <1>5, OperatorInStep
<1>6. CASE TimeOut \/ UNCHANGED vars
  BY <1>6, IdleInStep DEF TimeOut, vars
<1>7. CASE Restart \/ LinkReturns
  BY <1>7 DEF Restart, LinkReturns, InStep
<1> QED
  BY <1>1, <1>2, <1>3, <1>4, <1>5, <1>6, <1>7 DEF Next

\* A fault is counted, and no step takes one back.
LEMMA FaultsCounted ==
  ASSUME TypeOK, [Next]_vars, faults' = 0 PROVE faults = 0 /\ ~FaultStep
<1>1. faults \in Nat
  BY ConstantsTyped DEF TypeOK
<1>2. FaultStep => faults' = faults + 1
  BY Zenon DEF FaultStep, Crash, LinkDrops, TickNoMedia
<1>3. ~FaultStep => faults' = faults
  <2>1. ASSUME NEW e \in Engine, TickStep(e) PROVE faults' = faults
    BY <2>1, Zenon DEF TickStep, TickSelect, TickStart, TickExpireRows,
         TickFinish, TickNothingLeft, TickNoSlot, TickCount, TickClaim,
         TickOriginate, NoFault
  <2>2. ASSUME NEW d \in Dest, NEW k \in Attempt,
               SwitchStep(<<d, k>>) \/ HandlerStep(d, k)
        PROVE  faults' = faults
    BY <2>2, Zenon DEF SwitchStep, LegAnswers, LegFails, LegEnds, HandlerStep,
         OnCallAnswer, OnCallHangupRead, OnCallHangupWrite, OriginateRejected,
         NoFault
  <2>3. ASSUME NEW d \in Dest, RowStep(d) PROVE faults' = faults
    BY <2>3, Zenon DEF RowStep, RetryDue, RecoverDialing, RecoverAnswered,
         NoFault
  <2>4. CASE OperatorStep
    BY <2>4, Zenon DEF OperatorStep, Pause, Resume, CancelRows,
         CancelCampaign, NoFault
  <2>5. CASE TimeOut \/ Restart \/ LinkReturns \/ UNCHANGED vars
    BY <2>5, Zenon DEF TimeOut, Restart, LinkReturns, vars
  <2> QED
    BY <2>1, <2>2, <2>3, <2>4, <2>5, Zenon DEF Next
<1> QED
  BY <1>1, <1>2, <1>3

LEMMA StepInvInit == Init => StepInv
<1> SUFFICES ASSUME Init PROVE StepInv
  OBVIOUS
<1>1. \A d \in Dest : ~Claimed(d)
  BY DEF Init, Claimed, IdleTick
<1>2. BatchesApart
  BY DEF Init, BatchesApart, IdleTick
<1>3. ASSUME NEW d \in Dest PROVE DestInv(d)
  <2>1. row[d] = NewRow /\ \A k \in Attempt : call[d, k] = NewCall
    BY DEF Init, Calls
  <2>2. NewRow.attempts = 0
    BY DEF NewRow
  <2>3. RowShape(NewRow, Claimed(d))
    BY <1>1, CampaignAssumption DEF CampaignAssumption, RowShape, NewRow
  <2>4. \A k \in Attempt : ~(k < 0) /\ k # 0
    BY ConstantsTyped DEF Attempt
  <2> QED
    BY <2>1, <2>2, <2>3, <2>4, Zenon DEF DestInv
<1> QED
  BY <1>2, <1>3, InitTyped DEF StepInv, InStep, Init

LEMMA StepInvNext == StepInv /\ [Next]_vars => StepInv'
  BY NextTyped, FaultsCounted, FaultlessStep DEF StepInv

LEMMA StepInvAlways == Spec => []StepInv
  BY StepInvInit, StepInvNext, PTL DEF Spec

-----------------------------------------------------------------------------
\* What follows from rows and calls being in step.

\* Until a fault happens, a call FreeSWITCH carries belongs to a row that holds
\* a slot and has the call's UUID, whatever the number of engines and however
\* events, rejections and requests interleave.
THEOREM LiveLegsOwned == Spec => [](faults = 0 => LiveLegOwned)
<1>1. ASSUME StepInv, faults = 0 PROVE LiveLegOwned
  <2> SUFFICES ASSUME NEW d \in Dest, NEW k \in Attempt, <<d, k>> \in LiveLegs
               PROVE  /\ row[d].call = k
                      /\ row[d].status \in {"dialing", "answered"}
    BY DEF LiveLegOwned
  <2>1. call[d, k].leg \in {"ringing", "talking"}
    BY DEF LiveLegs
  <2>2. TypeOK /\ InStep /\ DestInv(d)
    BY <1>1 DEF StepInv, InStep
  <2>3. k = row[d].attempts /\ Fits(row[d], call[d, k], Claimed(d))
    BY <2>1, <2>2, ActiveIsLast DEF Over
  <2> QED
    BY <2>1, <2>3 DEF Fits, RowShape, LastCall
<1>2. StepInv => (faults = 0 => LiveLegOwned)
  BY <1>1
<1> QED
  BY <1>2, StepInvAlways, PTL

\* The only step that makes a leg ring is an origination.
LEMMA RingsWhenClaimed ==
  ASSUME TypeOK, Next, NEW d \in Dest, NEW k \in Attempt,
         call[d, k].leg # "ringing", call'[d, k].leg = "ringing"
  PROVE  Claimed(d)
<1>0. <<d, k>> \in Calls
  BY DEF Calls
<1>1. ASSUME NEW e \in Engine, TickStep(e) PROVE Claimed(d)
  <2>1. ASSUME NEW x \in Dest, TickOriginate(e, x) PROVE Claimed(d)
    <3>1. CASE x = d
      BY <2>1, <3>1 DEF TickOriginate, Claimed
    <3>2. CASE x # d
      <4>1. call'[d, k] = call[d, k]
        BY <1>0, <2>1, <3>2 DEF TickOriginate, SetCall, TypeOK
      <4> QED
        BY <4>1
    <3> QED
      BY <3>1, <3>2
  <2>2. ASSUME ~\E x \in Dest : TickOriginate(e, x) PROVE call' = call
    BY <1>1, <2>2, Zenon DEF TickStep, TickSelect, TickStart, TickExpireRows,
       TickFinish, TickNothingLeft, TickNoSlot, TickCount, TickClaim
  <2> QED
    BY <2>1, <2>2
<1>2. ASSUME NEW x \in Dest, NEW j \in Attempt,
             SwitchStep(<<x, j>>) \/ HandlerStep(x, j)
      PROVE  FALSE
  <2>1. <<x, j>> \in Calls /\ call[x, j] \in Call
    BY AttemptsTyped DEF Calls
  <2>2. PICK v : /\ call' = [call EXCEPT ![<<x, j>>] = v]
                 /\ v.leg # "ringing" \/ v.leg = call[x, j].leg
    <3>1. ASSUME SwitchStep(<<x, j>>)
          PROVE  \E v : /\ call' = [call EXCEPT ![<<x, j>>] = v]
                        /\ v.leg # "ringing"
      <4>1. CASE LegAnswers(<<x, j>>)
        <5> DEFINE v == [call[x, j] EXCEPT !.leg = "talking", !.answer = Heard,
                           !.job = IF @ = "pending" THEN "settled" ELSE @]
        <5>1. call' = [call EXCEPT ![<<x, j>>] = v]
          BY <4>1 DEF LegAnswers, SetCall
        <5>2. v.leg # "ringing"
          BY <2>1 DEF Call
        <5> HIDE DEF v
        <5> QED
          BY <5>1, <5>2
      <4>2. ASSUME NEW why \in {"retryable", "final"},
                   LegFails(<<x, j>>, why)
            PROVE  \E v : /\ call' = [call EXCEPT ![<<x, j>>] = v]
                          /\ v.leg # "ringing"
        <5>0. PICK end : call' = [call EXCEPT ![<<x, j>>] =
                [call[x, j] EXCEPT !.leg = "gone", !.cause = why,
                   !.hangup = Heard, !.job = IF @ = "pending" THEN end ELSE @]]
          BY <4>2 DEF LegFails, SetCall
        <5> DEFINE v == [call[x, j] EXCEPT !.leg = "gone", !.cause = why,
                           !.hangup = Heard,
                           !.job = IF @ = "pending" THEN end ELSE @]
        <5>1. call' = [call EXCEPT ![<<x, j>>] = v]
          BY <5>0
        <5>2. v.leg # "ringing"
          BY <2>1 DEF Call
        <5> HIDE DEF v
        <5> QED
          BY <5>1, <5>2
      <4>3. CASE LegEnds(<<x, j>>)
        <5> DEFINE v == [call[x, j] EXCEPT !.leg = "gone", !.cause = "final",
                                           !.hangup = Heard]
        <5>1. call' = [call EXCEPT ![<<x, j>>] = v]
          BY <4>3 DEF LegEnds, SetCall
        <5>2. v.leg # "ringing"
          BY <2>1 DEF Call
        <5> HIDE DEF v
        <5> QED
          BY <5>1, <5>2
      <4> QED
        BY <3>1, <4>1, <4>2, <4>3 DEF SwitchStep
    <3>2. ASSUME HandlerStep(x, j)
          PROVE  \E v : /\ call' = [call EXCEPT ![<<x, j>>] = v]
                        /\ v.leg = call[x, j].leg
      <4> DEFINE w == HangupWrite(x, j)
                 a == [call[x, j] EXCEPT !.answer = FALSE]
                 b == [call[x, j] EXCEPT !.hangup = FALSE, !.write = w]
                 c == [call[x, j] EXCEPT !.write = "none"]
                 f == [call[x, j] EXCEPT !.job = "thrown"]
      <4>1. \/ call' = [call EXCEPT ![<<x, j>>] = a]
            \/ call' = [call EXCEPT ![<<x, j>>] = b]
            \/ call' = [call EXCEPT ![<<x, j>>] = c]
            \/ call' = [call EXCEPT ![<<x, j>>] = f]
        BY <3>2, Zenon DEF HandlerStep, OnCallAnswer, OnCallHangupRead,
           OnCallHangupWrite, OriginateRejected, SetCall
      <4> HIDE DEF w
      <4>2. /\ a.leg = call[x, j].leg /\ b.leg = call[x, j].leg
            /\ c.leg = call[x, j].leg /\ f.leg = call[x, j].leg
        BY <2>1 DEF Call
      <4> HIDE DEF a, b, c, f
      <4> QED
        BY <4>1, <4>2
    <3> QED
      BY <1>2, <3>1, <3>2
  <2>3. CASE <<x, j>> = <<d, k>>
    <3>1. call'[<<d, k>>] = v
      BY <1>0, <2>2, <2>3 DEF TypeOK
    <3> QED
      BY <2>2, <2>3, <3>1
  <2>4. CASE <<x, j>> # <<d, k>>
    <3>1. call'[<<d, k>>] = call[<<d, k>>]
      BY <1>0, <2>2, <2>4 DEF TypeOK
    <3> QED
      BY <3>1
  <2> QED
    BY <2>3, <2>4
<1>3. ASSUME \/ \E x \in Dest : RowStep(x)
             \/ OperatorStep \/ TimeOut \/ Restart \/ LinkReturns
             \/ \E e \in Engine : TickNoMedia(e)
      PROVE  FALSE
  BY <1>3 DEF RowStep, RetryDue, RecoverDialing, RecoverAnswered,
     OperatorStep, Pause, Resume, CancelRows, CancelCampaign, TimeOut,
     Restart, LinkReturns, TickNoMedia
<1>4. ASSUME Crash \/ LinkDrops PROVE FALSE
  <2>0. call[<<d, k>>] \in Call
    BY <1>0 DEF TypeOK
  <2>1. call'[<<d, k>>].leg = call[<<d, k>>].leg
    <3>1. CASE Crash
      <4>1. call'[<<d, k>>] =
              [call[<<d, k>>] EXCEPT
                 !.answer = FALSE, !.hangup = FALSE, !.write = "none",
                 !.job = IF call[<<d, k>>].job \in {"none", "thrown"}
                         THEN call[<<d, k>>].job ELSE "settled"]
        BY <1>0, <3>1 DEF Crash
      <4> QED
        BY <2>0, <4>1 DEF Call
    <3>2. CASE LinkDrops
      <4>1. call'[<<d, k>>] =
              [call[<<d, k>>] EXCEPT
                 !.job = IF call[<<d, k>>].job = "pending" THEN "lost"
                         ELSE call[<<d, k>>].job]
        BY <1>0, <3>2 DEF LinkDrops
      <4> QED
        BY <2>0, <4>1 DEF Call
    <3> QED
      BY <1>4, <3>1, <3>2
  <2> QED
    BY <2>1
<1> QED
  BY <1>1, <1>2, <1>3, <1>4 DEF Next, FaultStep

\* Until a fault happens, no new call is placed to a contact that is listening
\* or has answered.
THEOREM AnsweredLeftAlone == Spec /\ [](faults = 0) => AnsweredNotRedialled
<1>1. ASSUME StepInv, faults = 0, Next, NEW d \in Dest, NEW k \in Attempt,
             call[d, k].leg # "ringing", call'[d, k].leg = "ringing"
      PROVE  ~(row[d].answeredAt \/ \E j \in Attempt : call[d, j].leg = "talking")
  <2>1. TypeOK /\ InStep /\ DestInv(d)
    BY <1>1 DEF StepInv, InStep
  <2>2. Claimed(d)
    BY <1>1, <2>1, RingsWhenClaimed
  <2>3. row[d].status = "dialing" /\ ~row[d].answeredAt
    BY <2>1, <2>2 DEF DestInv, RowShape
  <2>4. ASSUME NEW j \in Attempt, call[d, j].leg = "talking" PROVE FALSE
    <3>1. Fits(row[d], call[d, j], Claimed(d))
      BY <2>1, <2>4, ActiveIsLast DEF Over
    <3> QED
      BY <2>2, <2>4, <3>1 DEF Fits, LastCall
  <2> QED
    BY <2>3, <2>4
<1>2. ASSUME StepInv, faults = 0, [Next]_vars
      PROVE  [\A d \in Dest, k \in Attempt :
                (row[d].answeredAt
                   \/ \E j \in Attempt : call[d, j].leg = "talking") =>
                  ~(call[d, k].leg # "ringing"
                      /\ call'[d, k].leg = "ringing")]_vars
  BY <1>1, <1>2
<1>3. StepInv /\ faults = 0 /\ [Next]_vars =>
        [\A d \in Dest, k \in Attempt :
           (row[d].answeredAt
              \/ \E j \in Attempt : call[d, j].leg = "talking") =>
             ~(call[d, k].leg # "ringing"
                 /\ call'[d, k].leg = "ringing")]_vars
  BY <1>2
<1> QED
  BY <1>3, StepInvAlways, PTL DEF Spec, AnsweredNotRedialled

-----------------------------------------------------------------------------
\* The number of attempts, through any number of faults.  Recovery queues a
\* row whatever its attempt_count, but finds one only after a fault: a row that
\* has had an attempt more than max_attempts for each fault so far was claimed
\* after the last of them, and has a call or a handler that will move it on.

Limit == MaxAttempts + faults
CallsOf(d) == [k \in Attempt |-> call[d, k]]

\* Something of the call is still to come; h says whether events are heard.
ToCome(c, h) ==
  \/ c.leg = "ringing" /\ h
  \/ c.leg # "ringing" /\ c.answer
  \/ c.leg = "gone" /\ c.hangup
  \/ c.write # "none"
  \/ c.job = "rejected"

\* The calls differ in that of attempt k only; none differs in what is written.
OnlyCall(cs, ds, k) == \A j \in Attempt : j # k => ds[j] = cs[j]
SameWrites(cs, ds) == \A j \in Attempt : ds[j].write = cs[j].write

\* A row r, its calls cs, whether it is claimed, and the limit n.
Spares(r, cs, b, n, h) ==
  /\ r.attempts <= n
  /\ r.status = "queued" => r.attempts < n /\ r.call = NoCall
  /\ (r.status = "queued" /\ r.due) \/ b =>
       \A k \in Attempt : cs[k].write = "none"
  /\ b => r.status # "queued" /\ r.call = NoCall
  /\ \A k \in Attempt : cs[k].write = "retry" => r.attempts < MaxAttempts
  /\ r.status = "dialing" /\ ~(r.attempts < n) /\ ~b =>
       /\ r.attempts \in Attempt /\ r.call = r.attempts
       /\ ToCome(cs[r.attempts], h)

\* Of one row and its calls: has the catch of a rejected originate written it?
CaughtIn(cs) == \E k \in Attempt : cs[k].job = "thrown"

FailsFor(r, c) == c.cause # "retryable" \/ ~(r.attempts < MaxAttempts)

\* What the row's status says of its calls while no catch has written it.
Orderly(r, cs, b) ==
  /\ r.status \in {"queued", "failed", "expired", "skipped"} => r.call = NoCall
  /\ b => r.status = "dialing"
  /\ \A k \in Attempt : cs[k].write # "none" =>
       r.call = k /\ r.status \in {"dialing", "answered"}
  /\ \A k \in Attempt : r.status = "completed" /\ r.call = k =>
       cs[k].leg = "gone" /\ ~cs[k].hangup
  /\ \A k \in Attempt : cs[k].write = "fail" => FailsFor(r, cs[k])
  /\ r.status = "failed" => \A k \in Attempt : k = r.attempts =>
       cs[k].leg = "gone" /\ FailsFor(r, cs[k])

\* No call of the attempt has begun.
Fresh(c) == c.leg = "none" /\ ~c.hangup /\ c.write = "none" /\ c.job = "none"

Tidy(r, cs, b) ==
  /\ \A k \in Attempt : k > r.attempts \/ (b /\ k = r.attempts) => Fresh(cs[k])
  /\ \A k \in Attempt : cs[k].hangup \/ cs[k].write # "none" => cs[k].leg = "gone"
  /\ \A k \in Attempt : cs[k].hangup => cs[k].write = "none"
  /\ r.call # NoCall => r.call = r.attempts
  /\ r.status \in {"dialing", "answered"} => r.attempts # 0
  /\ CaughtIn(cs) \/ Orderly(r, cs, b)

Sound(r, cs, b, n, h) == Spares(r, cs, b, n, h) /\ Tidy(r, cs, b)

SoundAll == \A d \in Dest : Sound(row[d], CallsOf(d), Claimed(d), Limit, Heard)

\* A process that is down runs no tick.
TicksAwake == \A e \in Engine : tick[e].pc # "idle" => node = "up"

SoundInv == TypeOK /\ BatchesApart /\ TicksAwake /\ SoundAll

LEMMA LimitTyped ==
  ASSUME TypeOK PROVE Limit \in Nat /\ MaxAttempts <= Limit /\ faults \in Nat
BY ConstantsTyped DEF TypeOK, Limit

LEMMA CallsTyped ==
  ASSUME TypeOK, NEW d \in Dest
  PROVE  /\ row[d] \in Row /\ row[d].attempts \in Nat
         /\ CallsOf(d) \in [Attempt -> Call]
         /\ \A k \in Attempt : CallsOf(d)[k] = call[d, k]
         /\ Claimed(d) \in BOOLEAN /\ Heard \in BOOLEAN
<1>1. row[d] \in Row /\ row[d].attempts \in Nat
  BY AttemptsTyped
<1>2. \A k \in Attempt : call[d, k] \in Call
  BY AttemptsTyped
<1>3. CallsOf(d) \in [Attempt -> Call] /\ \A k \in Attempt : CallsOf(d)[k] = call[d, k]
  BY <1>2, Zenon DEF CallsOf
<1>4. Claimed(d) \in BOOLEAN /\ Heard \in BOOLEAN
  BY DEF Claimed, Heard
<1> QED
  BY <1>1, <1>3, <1>4

\* The leg of one of the calls rings, is answered, fails or ends.
LEMMA LegSpares ==
  ASSUME NEW r \in Row, NEW cs \in [Attempt -> Call], NEW b \in BOOLEAN,
         NEW n \in Nat, NEW h \in BOOLEAN, Spares(r, cs, b, n, h),
         NEW k \in Attempt, NEW ds, OnlyCall(cs, ds, k),
         ds[k].write = cs[k].write,
         cs[k].job = "rejected" => ds[k].job = "rejected",
         \/ /\ cs[k].leg = "ringing" /\ ds[k].leg = "talking" /\ ds[k].answer = h
         \/ /\ cs[k].leg = "ringing" /\ ds[k].leg = "gone" /\ ds[k].hangup = h
            /\ ds[k].answer = cs[k].answer
         \/ /\ cs[k].leg = "talking" /\ ds[k].leg = "gone"
            /\ ds[k].answer = cs[k].answer
  PROVE  Spares(r, ds, b, n, h)
<1>1. \A j \in Attempt : ds[j].write = cs[j].write
  BY Zenon DEF OnlyCall
<1>2. ToCome(cs[k], h) => ToCome(ds[k], h)
  BY DEF ToCome, Call
<1>3. \A j \in Attempt : ToCome(cs[j], h) => ToCome(ds[j], h)
  BY <1>2, Zenon DEF OnlyCall
<1> QED
  BY <1>1, <1>3 DEF Spares

\* The answer is handled.
LEMMA AnswerSpares ==
  ASSUME NEW r \in Row, NEW cs, NEW b \in BOOLEAN,
         NEW n \in Nat, NEW h \in BOOLEAN, Spares(r, cs, b, n, h),
         NEW k \in Attempt, NEW ds, OnlyCall(cs, ds, k),
         ds[k].write = cs[k].write, NEW s \in Row,
         s.attempts = r.attempts, s.call = r.call, s.due = r.due,
         s.status = r.status \/ s.status = "answered",
         s.status = "dialing" => r.status = "dialing" /\ r.call # k
  PROVE  Spares(s, ds, b, n, h)
<1>1. \A j \in Attempt : ds[j].write = cs[j].write
  BY Zenon DEF OnlyCall
<1> QED
  BY <1>1 DEF Spares, OnlyCall

\* The hangup is read: only the row's own call leads to a write.
LEMMA HangupSpares ==
  ASSUME NEW r \in Row, NEW cs, NEW b \in BOOLEAN,
         NEW n \in Nat, NEW h \in BOOLEAN, Spares(r, cs, b, n, h),
         NEW k \in Attempt, NEW ds, OnlyCall(cs, ds, k),
         ds[k].write = "none" <=> r.call # k,
         ds[k].write = "retry" => r.attempts < MaxAttempts
  PROVE  Spares(r, ds, b, n, h)
<1>1. k # NoCall
  BY ConstantsTyped DEF Attempt, NoCall
<1>2. ds[k].write # "none" => ToCome(ds[k], h)
  BY Zenon DEF ToCome
<1> QED
  BY <1>1, <1>2 DEF Spares, OnlyCall

\* The write is done: no claim has come in between.
LEMMA WriteSpares ==
  ASSUME NEW r \in Row, NEW cs, NEW b \in BOOLEAN,
         NEW n \in Nat, NEW h \in BOOLEAN, Spares(r, cs, b, n, h),
         NEW k \in Attempt, NEW ds, OnlyCall(cs, ds, k),
         cs[k].write # "none", ds[k].write = "none",
         NEW s \in Row, MaxAttempts <= n, s.attempts = r.attempts,
         \/ s.status = "completed"
         \/ s.status = "failed"
         \/ /\ cs[k].write = "retry"
            /\ s.status = "queued" /\ ~s.due /\ s.call = NoCall
  PROVE  Spares(s, ds, b, n, h)
<1>1. \A j \in Attempt : ds[j].write = cs[j].write \/ ds[j].write = "none"
  BY Zenon DEF OnlyCall
<1>2. ~b
  BY DEF Spares
<1>3. r.attempts \in Nat
  BY ConstantsTyped DEF Row
<1>4. cs[k].write = "retry" => r.attempts < n
  BY <1>3, ConstantsTyped DEF Spares
<1> QED
  BY <1>1, <1>2, <1>4 DEF Spares

\* A row that is given up, put aside or completed needs nothing; its calls may
\* be settled at the same time.
LEMMA AsideSpares ==
  ASSUME NEW r \in Row, NEW cs, NEW b \in BOOLEAN,
         NEW n \in Nat, NEW h \in BOOLEAN, Spares(r, cs, b, n, h),
         NEW s \in Row, NEW ds, SameWrites(cs, ds),
         s.attempts = r.attempts, s.status # "queued", s.status # "dialing",
         s.call = r.call \/ s.call = NoCall
  PROVE  Spares(s, ds, b, n, h)
BY DEF Spares, SameWrites

\* A retry falls due when no write is under way.
LEMMA DueSpares ==
  ASSUME NEW r \in Row, NEW cs, NEW b \in BOOLEAN,
         NEW n \in Nat, NEW h \in BOOLEAN, Spares(r, cs, b, n, h),
         NEW s \in Row, s.attempts = r.attempts, s.status = r.status,
         s.call = r.call, \A k \in Attempt : cs[k].write = "none"
  PROVE  Spares(s, cs, b, n, h)
BY DEF Spares

\* Recovery finds a quiet row: one that has an attempt left.
LEMMA RecoverSpares ==
  ASSUME NEW r \in Row, NEW cs, NEW b \in BOOLEAN, ~b,
         NEW n \in Nat, NEW h \in BOOLEAN,
         Spares(r, cs, b, n, h), r.status = "dialing",
         \A k \in Attempt : ~ToCome(cs[k], h),
         NEW s \in Row, s.attempts = r.attempts, s.status = "queued", ~s.due,
         s.call = NoCall
  PROVE  Spares(s, cs, b, n, h)
<1>1. r.attempts < n
  BY DEF Spares
<1> QED
  BY <1>1 DEF Spares

LEMMA ClaimSpares ==
  ASSUME NEW r \in Row, NEW cs, NEW b \in BOOLEAN, r.attempts \in Nat,
         NEW n \in Nat, NEW h \in BOOLEAN, Spares(r, cs, b, n, h),
         r.status = "queued", r.due,
         NEW s, s.attempts = r.attempts + 1, s.status = "dialing",
         s.call = NoCall, NEW a \in BOOLEAN, a
  PROVE  Spares(s, cs, a, n, h)
<1>1. r.attempts < n /\ \A k \in Attempt : cs[k].write = "none"
  BY DEF Spares
<1>2. s.attempts <= n
  BY <1>1
<1> QED
  BY <1>1, <1>2 DEF Spares

\* The originated call rings and is heard, or its promise is rejected.
LEMMA OriginateSpares ==
  ASSUME NEW r \in Row, NEW cs, NEW b \in BOOLEAN, b, NEW a \in BOOLEAN, ~a,
         NEW n \in Nat, NEW h \in BOOLEAN, Spares(r, cs, b, n, h),
         r.attempts \in Attempt, NEW ds,
         SameWrites(cs, ds),
         (ds[r.attempts].leg = "ringing" /\ h) \/ ds[r.attempts].job = "rejected",
         NEW s, s.attempts = r.attempts, s.status = r.status,
         s.call = r.attempts
  PROVE  Spares(s, ds, a, n, h)
<1>1. ToCome(ds[r.attempts], h)
  BY DEF ToCome
<1> QED
  BY <1>1 DEF Spares, SameWrites

\* A fault allows for one attempt more, and takes back no decision but all.
LEMMA FaultSpares ==
  ASSUME NEW r \in Row, NEW cs, NEW b \in BOOLEAN, r.attempts \in Nat,
         NEW n \in Nat, NEW h \in BOOLEAN, Spares(r, cs, b, n, h),
         NEW ds, NEW a \in BOOLEAN, NEW g \in BOOLEAN, a => b,
         \A k \in Attempt : ds[k].write = cs[k].write \/ ds[k].write = "none"
  PROVE  Spares(r, ds, a, n + 1, g)
<1>1. r.attempts < n + 1 /\ r.attempts <= n + 1
  BY DEF Spares
<1>2. r.status = "queued" => r.attempts < n + 1 /\ r.call = NoCall
  BY <1>1 DEF Spares
<1> DEFINE m == n + 1
<1> HIDE DEF m
<1>3. Spares(r, ds, a, m, g)
  BY <1>1, <1>2 DEF Spares, m
<1> QED
  BY <1>3 DEF m

\* The leg of one of the calls is answered, fails or ends.
LEMMA LegTidy ==
  ASSUME NEW r \in Row, NEW cs, NEW b \in BOOLEAN, Tidy(r, cs, b),
         NEW k \in Attempt, NEW ds, OnlyCall(cs, ds, k),
         cs[k].leg # "none", cs[k].leg # "gone",
         ds[k].write = cs[k].write,
         ds[k].hangup => ds[k].leg = "gone",
         cs[k].job = "thrown" => ds[k].job = "thrown"
  PROVE  Tidy(r, ds, b)
<1>1. /\ cs[k].write = "none" /\ ds[k].write = "none" /\ ~cs[k].hangup
      /\ ~(k > r.attempts) /\ ~(b /\ k = r.attempts)
  BY DEF Tidy, Fresh
<1>2. CaughtIn(cs) => CaughtIn(ds)
  BY Zenon DEF CaughtIn, OnlyCall
<1>3. Orderly(r, cs, b) => Orderly(r, ds, b)
  <2>1. ASSUME NEW j \in Attempt, j # k PROVE ds[j] = cs[j]
    BY <2>1, Zenon DEF OnlyCall
  <2> QED
    BY <1>1, <2>1 DEF Orderly
<1> QED
  BY <1>1, <1>2, <1>3 DEF Tidy, OnlyCall

\* The answer is handled.
LEMMA AnswerTidy ==
  ASSUME NEW r \in Row, NEW cs, NEW b \in BOOLEAN, Tidy(r, cs, b),
         b => r.call = NoCall,
         NEW k \in Attempt, NEW ds, OnlyCall(cs, ds, k),
         ds[k].leg = cs[k].leg,
         ds[k].write = cs[k].write, ds[k].hangup = cs[k].hangup,
         ds[k].cause = cs[k].cause, ds[k].job = cs[k].job,
         NEW s \in Row, s.attempts = r.attempts, s.call = r.call,
         \/ s.status = r.status
         \/ r.status = "dialing" /\ s.status = "answered" /\ r.call = k
  PROVE  Tidy(s, ds, b)
<1>1. Fresh(cs[k]) => Fresh(ds[k])
  BY DEF Fresh
<1>2. CaughtIn(cs) => CaughtIn(ds)
  BY Zenon DEF CaughtIn, OnlyCall
<1>3. k # NoCall
  BY ConstantsTyped DEF Attempt, NoCall
<1>4. Orderly(r, cs, b) => Orderly(s, ds, b)
  <2>1. ASSUME NEW j \in Attempt
        PROVE  /\ ds[j].leg = cs[j].leg /\ ds[j].write = cs[j].write
               /\ ds[j].hangup = cs[j].hangup /\ ds[j].cause = cs[j].cause
    BY <2>1, Zenon DEF OnlyCall
  <2> QED
    BY <1>3, <2>1 DEF Orderly, FailsFor
<1> QED
  BY <1>1, <1>2, <1>4 DEF Tidy, OnlyCall

\* The hangup is read.
LEMMA HangupTidy ==
  ASSUME NEW r \in Row, NEW cs, NEW b \in BOOLEAN, Tidy(r, cs, b),
         NEW k \in Attempt, NEW ds, OnlyCall(cs, ds, k),
         cs[k].hangup, ~ds[k].hangup, ds[k].leg = cs[k].leg,
         ds[k].cause = cs[k].cause, ds[k].job = cs[k].job,
         ds[k].write # "none" => r.call = k,
         ds[k].write = "fail" => FailsFor(r, cs[k])
  PROVE  Tidy(r, ds, b)
<1>1. /\ cs[k].write = "none" /\ cs[k].leg = "gone"
      /\ ~(k > r.attempts) /\ ~(b /\ k = r.attempts)
  BY DEF Tidy, Fresh
<1>2. CaughtIn(cs) => CaughtIn(ds)
  BY Zenon DEF CaughtIn, OnlyCall
<1>3. k # NoCall
  BY ConstantsTyped DEF Attempt, NoCall
<1>4. Orderly(r, cs, b) => Orderly(r, ds, b)
  <2>1. ASSUME NEW j \in Attempt, j # k PROVE ds[j] = cs[j]
    BY <2>1, Zenon DEF OnlyCall
  <2>2. FailsFor(r, ds[k]) <=> FailsFor(r, cs[k])
    BY DEF FailsFor
  <2> QED
    BY <1>1, <1>3, <2>1, <2>2 DEF Orderly, Row, RowStatus
<1> QED
  BY <1>1, <1>2, <1>4 DEF Tidy, OnlyCall

\* The write is done.
LEMMA WriteTidy ==
  ASSUME NEW r \in Row, NEW cs, NEW b \in BOOLEAN, Tidy(r, cs, b),
         NEW k \in Attempt, NEW ds, OnlyCall(cs, ds, k), ~b,
         cs[k].write # "none", ds[k].write = "none",
         ds[k].leg = cs[k].leg, ds[k].hangup = cs[k].hangup,
         ds[k].cause = cs[k].cause, ds[k].job = cs[k].job,
         NEW s \in Row, s.attempts = r.attempts,
         \/ s.status = "completed" /\ s.call = r.call
         \/ s.status = "failed" /\ s.call = NoCall /\ cs[k].write = "fail"
         \/ s.status = "queued" /\ s.call = NoCall
  PROVE  Tidy(s, ds, b)
<1>1. /\ cs[k].leg = "gone" /\ ~cs[k].hangup
      /\ ~(k > r.attempts) /\ ~(b /\ k = r.attempts)
  BY DEF Tidy, Fresh
<1>2. CaughtIn(cs) => CaughtIn(ds)
  BY Zenon DEF CaughtIn, OnlyCall
<1>3. k # NoCall
  BY ConstantsTyped DEF Attempt, NoCall
<1>4. Orderly(r, cs, b) => Orderly(s, ds, b)
  <2> SUFFICES ASSUME Orderly(r, cs, b) PROVE Orderly(s, ds, b)
    OBVIOUS
  <2>1. ASSUME NEW j \in Attempt, j # k PROVE ds[j] = cs[j]
    BY <2>1, Zenon DEF OnlyCall
  <2>2. r.call = k /\ r.attempts = k /\ \A j \in Attempt : ds[j].write = "none"
    BY <1>3, <2>1 DEF Orderly, Tidy
  <2>3. FailsFor(s, ds[k]) <=> FailsFor(r, cs[k])
    BY DEF FailsFor
  <2>4. cs[k].write = "fail" => FailsFor(r, cs[k])
    BY DEF Orderly
  <2> QED
    BY <1>1, <1>3, <2>2, <2>3, <2>4 DEF Orderly
<1> QED
  BY <1>1, <1>2, <1>4 DEF Tidy, OnlyCall

\* The catch writes: from now on it may have the last word.
LEMMA CaughtTidy ==
  ASSUME NEW r \in Row, NEW cs, NEW b \in BOOLEAN, Tidy(r, cs, b),
         NEW k \in Attempt, NEW ds, OnlyCall(cs, ds, k),
         cs[k].job # "none", ds[k].leg = cs[k].leg,
         ds[k].write = cs[k].write, ds[k].hangup = cs[k].hangup,
         ds[k].job = "thrown",
         NEW s, s.attempts = r.attempts, s.call = NoCall, s.status = "failed"
  PROVE  Tidy(s, ds, b)
<1>1. CaughtIn(ds)
  BY Zenon DEF CaughtIn
<1>2. ~Fresh(cs[k])
  BY DEF Fresh
<1> QED
  BY <1>1, <1>2 DEF Tidy, OnlyCall

\* The row keeps its status, or moves where its pending decisions allow.
LEMMA RowTidy ==
  ASSUME NEW r \in Row, NEW cs, NEW b \in BOOLEAN, Tidy(r, cs, b),
         NEW s \in Row, s.attempts = r.attempts,
         \/ s.status = r.status /\ s.call = r.call
         \/ /\ r.status = "queued" /\ s.status \in {"expired", "skipped"}
            /\ s.call = r.call /\ ~b
         \/ /\ r.status \in {"dialing", "answered"} /\ ~b
            /\ s.status \in {"queued", "completed"} /\ s.call = NoCall
            /\ \A k \in Attempt : cs[k].write = "none"
  PROVE  Tidy(s, cs, b)
<1>1. Orderly(r, cs, b) => Orderly(s, cs, b)
  <2>1. \A k \in Attempt : FailsFor(s, cs[k]) <=> FailsFor(r, cs[k])
    BY DEF FailsFor
  <2>2. \A k \in Attempt : k # NoCall
    BY ConstantsTyped DEF Attempt, NoCall
  <2> QED
    BY <2>1, <2>2 DEF Orderly
<1> QED
  BY <1>1 DEF Tidy

\* A queued row is claimed.
LEMMA ClaimTidy ==
  ASSUME NEW r \in Row, NEW cs, NEW b \in BOOLEAN, Tidy(r, cs, b),
         r.attempts \in Nat,
         \A k \in Attempt : cs[k].write = "none",
         NEW s, s.attempts = r.attempts + 1, s.status = "dialing",
         s.call = NoCall, NEW a \in BOOLEAN
  PROVE  Tidy(s, cs, a)
<1>1. \A k \in Attempt : k > s.attempts \/ k = s.attempts => k > r.attempts
  BY ConstantsTyped DEF Attempt
<1>2. s.attempts # 0
  OBVIOUS
<1>3. Orderly(s, cs, a)
  BY DEF Orderly
<1> QED
  BY <1>1, <1>2, <1>3 DEF Tidy

\* The claimed row's call begins.
LEMMA OriginateTidy ==
  ASSUME NEW r \in Row, NEW cs, NEW b \in BOOLEAN, b, Tidy(r, cs, b),
         \A k \in Attempt : cs[k].write = "none",
         r.attempts \in Attempt, NEW ds, OnlyCall(cs, ds, r.attempts),
         ds[r.attempts].write = "none", ~ds[r.attempts].hangup,
         NEW s, s.attempts = r.attempts, s.status = r.status,
         s.call = r.attempts, NEW a \in BOOLEAN, ~a
  PROVE  Tidy(s, ds, a)
<1>0. cs[r.attempts].job # "thrown"
  BY DEF Tidy, Fresh
<1>1. CaughtIn(cs) => CaughtIn(ds)
  BY <1>0, Zenon DEF CaughtIn, OnlyCall
<1>2. Orderly(r, cs, b) => Orderly(s, ds, a)
  <2>1. \A j \in Attempt : ds[j].write = "none"
    BY Zenon DEF OnlyCall
  <2> QED
    BY <2>1 DEF Orderly
<1>3. ~(r.attempts > r.attempts)
  BY ConstantsTyped DEF Attempt
<1> QED
  BY <1>1, <1>2, <1>3 DEF Tidy, OnlyCall

\* A fault takes back no decision but all, and no catch's report.
LEMMA FaultTidy ==
  ASSUME NEW r \in Row, NEW cs, NEW b \in BOOLEAN, Tidy(r, cs, b),
         NEW ds, NEW a \in BOOLEAN, a => b,
         \A k \in Attempt :
           /\ ds[k].write = cs[k].write \/ ds[k].write = "none"
           /\ ds[k].hangup => cs[k].hangup
           /\ ds[k].leg = cs[k].leg /\ ds[k].cause = cs[k].cause
           /\ cs[k].job = "thrown" => ds[k].job = "thrown"
           /\ cs[k].job = "none" => ds[k].job = "none"
  PROVE  Tidy(r, ds, a)
<1>1. CaughtIn(cs) => CaughtIn(ds)
  BY Zenon DEF CaughtIn
<1>2. Orderly(r, cs, b) => Orderly(r, ds, a)
  <2>1. \A k \in Attempt : FailsFor(r, ds[k]) <=> FailsFor(r, cs[k])
    BY DEF FailsFor
  <2> QED
    BY <2>1 DEF Orderly
<1>3. \A k \in Attempt : Fresh(cs[k]) => Fresh(ds[k])
  BY DEF Fresh
<1> QED
  BY <1>1, <1>2, <1>3 DEF Tidy

-----------------------------------------------------------------------------
\* Each step keeps it.

\* A step of one call, and perhaps of its row, that leaves the ticks alone.
LEMMA CallSound ==
  ASSUME SoundInv, NEW d \in Dest, NEW k \in Attempt, NEW v, NEW r,
         call' = [call EXCEPT ![<<d, k>>] = v], row' = [row EXCEPT ![d] = r],
         Sound(r, [CallsOf(d) EXCEPT ![k] = v], Claimed(d), Limit, Heard),
         UNCHANGED <<tick, node, link, faults>>
  PROVE  BatchesApart' /\ TicksAwake' /\ SoundAll'
<1>1. TypeOK /\ SoundAll
  BY DEF SoundInv
<1>2. BatchesApart' /\ TicksAwake'
  BY Zenon DEF SoundInv, BatchesApart, TicksAwake
<1>3. Limit' = Limit /\ Heard' = Heard /\ \A x \in Dest : Claimed(x)' = Claimed(x)
  BY Zenon DEF Limit, Heard, Claimed
<1>4. row'[d] = r /\ \A x \in Dest : x # d => row'[x] = row[x]
  BY <1>1 DEF TypeOK
<1>5. CallsOf(d)' = [CallsOf(d) EXCEPT ![k] = v]
  <2>1. \A j \in Attempt : call'[d, j] = IF j = k THEN v ELSE call[d, j]
    BY <1>1 DEF TypeOK, Calls
  <2> QED
    BY <2>1 DEF CallsOf
<1>6. \A x \in Dest : x # d => CallsOf(x)' = CallsOf(x)
  <2>1. \A x \in Dest : x # d => \A j \in Attempt : call'[x, j] = call[x, j]
    BY <1>1 DEF TypeOK, Calls
  <2> QED
    BY <2>1 DEF CallsOf
<1>7. ASSUME NEW x \in Dest
      PROVE  Sound(row'[x], CallsOf(x)', Claimed(x)', Limit', Heard')
  BY <1>1, <1>3, <1>4, <1>5, <1>6, Zenon DEF SoundAll
<1> QED
  BY <1>2, <1>7 DEF SoundAll

\* A step that touches no call.
LEMMA RowSound ==
  ASSUME SoundInv, UNCHANGED <<call, faults>>, Heard' = Heard,
         \A d \in Dest :
           \/ row'[d] = row[d] /\ Claimed(d)' = Claimed(d)
           \/ Sound(row'[d], CallsOf(d), Claimed(d)', Limit, Heard)
  PROVE  SoundAll'
<1>1. Limit' = Limit /\ \A d \in Dest : CallsOf(d)' = CallsOf(d)
  BY DEF Limit, CallsOf
<1>2. ASSUME NEW d \in Dest
      PROVE  Sound(row'[d], CallsOf(d)', Claimed(d)', Limit', Heard')
  BY <1>1, Zenon DEF SoundInv, SoundAll
<1> QED
  BY <1>2 DEF SoundAll

LEMMA SwitchSound ==
  ASSUME SoundInv, NEW d \in Dest, NEW k \in Attempt, SwitchStep(<<d, k>>)
  PROVE  BatchesApart' /\ TicksAwake' /\ SoundAll'
<1> DEFINE r == row[d]
           cs == CallsOf(d)
<1>1. TypeOK /\ Sound(r, cs, Claimed(d), Limit, Heard)
  BY Zenon DEF SoundInv, SoundAll
<1>2. /\ r \in Row /\ cs \in [Attempt -> Call] /\ cs[k] = call[d, k]
      /\ Claimed(d) \in BOOLEAN /\ Heard \in BOOLEAN /\ Limit \in Nat
      /\ call[d, k] \in Call
  BY <1>1, CallsTyped, LimitTyped
<1>h. call[d, k].hangup => call[d, k].leg = "gone"
  <2> HIDE DEF cs
  <2>1. cs[k].hangup => cs[k].leg = "gone"
    BY <1>1, Zenon DEF Sound, Tidy
  <2> QED
    BY <1>2, <2>1
<1>3. /\ row' = row /\ row = [row EXCEPT ![d] = r]
      /\ UNCHANGED <<tick, node, link, faults>>
  BY <1>1 DEF SwitchStep, LegAnswers, LegFails, LegEnds, NoFault, TypeOK
<1>4. \E v \in Call :
        /\ call' = [call EXCEPT ![<<d, k>>] = v]
        /\ v.write = call[d, k].write
        /\ call[d, k].job = "rejected" => v.job = "rejected"
        /\ call[d, k].job = "thrown" => v.job = "thrown"
        /\ v.hangup => v.leg = "gone"
        /\ \/ /\ call[d, k].leg = "ringing" /\ v.leg = "talking" /\ v.answer = Heard
           \/ /\ call[d, k].leg = "ringing" /\ v.leg = "gone" /\ v.hangup = Heard
              /\ v.answer = call[d, k].answer
           \/ /\ call[d, k].leg = "talking" /\ v.leg = "gone"
              /\ v.answer = call[d, k].answer
  <2> DEFINE c == call[d, k]
             P(v) == /\ v.write = c.write
                     /\ c.job = "rejected" => v.job = "rejected"
                     /\ c.job = "thrown" => v.job = "thrown"
                     /\ v.hangup => v.leg = "gone"
                     /\ \/ /\ c.leg = "ringing" /\ v.leg = "talking" /\ v.answer = Heard
                        \/ /\ c.leg = "ringing" /\ v.leg = "gone" /\ v.hangup = Heard
                           /\ v.answer = c.answer
                        \/ /\ c.leg = "talking" /\ v.leg = "gone"
                           /\ v.answer = c.answer
  <2>1. CASE LegAnswers(<<d, k>>)
    <3> DEFINE v == [c EXCEPT !.leg = "talking", !.answer = Heard,
                              !.job = IF @ = "pending" THEN "settled" ELSE @]
    <3>1. v \in Call /\ P(v)
      BY <1>2, <1>h, <2>1 DEF LegAnswers, Call
    <3>2. call' = [call EXCEPT ![<<d, k>>] = v]
      BY <2>1 DEF LegAnswers, SetCall
    <3> QED
      BY <3>1, <3>2
  <2>2. ASSUME NEW why \in {"retryable", "final"}, LegFails(<<d, k>>, why)
        PROVE  \E v \in Call : call' = [call EXCEPT ![<<d, k>>] = v] /\ P(v)
    <3>0. PICK end \in {"rejected", "settled"} :
            call' = [call EXCEPT ![<<d, k>>] =
                       [c EXCEPT !.leg = "gone", !.cause = why, !.hangup = Heard,
                                 !.job = IF @ = "pending" THEN end ELSE @]]
      BY <2>2 DEF LegFails, SetCall
    <3> DEFINE v == [c EXCEPT !.leg = "gone", !.cause = why, !.hangup = Heard,
                              !.job = IF @ = "pending" THEN end ELSE @]
    <3>1. v \in Call /\ P(v)
      BY <1>2, <2>2 DEF LegFails, Call
    <3>2. call' = [call EXCEPT ![<<d, k>>] = v]
      BY <3>0
    <3> QED
      BY <3>1, <3>2
  <2>3. CASE LegEnds(<<d, k>>)
    <3> DEFINE v == [c EXCEPT !.leg = "gone", !.cause = "final", !.hangup = Heard]
    <3>1. v \in Call /\ P(v)
      BY <1>2, <2>3 DEF LegEnds, Call
    <3>2. call' = [call EXCEPT ![<<d, k>>] = v]
      BY <2>3 DEF LegEnds, SetCall
    <3> QED
      BY <3>1, <3>2
  <2> QED
    BY <2>1, <2>2, <2>3 DEF SwitchStep
<1>5. PICK v \in Call :
        /\ call' = [call EXCEPT ![<<d, k>>] = v]
        /\ v.write = call[d, k].write
        /\ call[d, k].job = "rejected" => v.job = "rejected"
        /\ call[d, k].job = "thrown" => v.job = "thrown"
        /\ v.hangup => v.leg = "gone"
        /\ \/ /\ call[d, k].leg = "ringing" /\ v.leg = "talking" /\ v.answer = Heard
           \/ /\ call[d, k].leg = "ringing" /\ v.leg = "gone" /\ v.hangup = Heard
              /\ v.answer = call[d, k].answer
           \/ /\ call[d, k].leg = "talking" /\ v.leg = "gone"
              /\ v.answer = call[d, k].answer
  BY <1>4, Zenon
<1> DEFINE ds == [cs EXCEPT ![k] = v]
<1>6. ds[k] = v /\ OnlyCall(cs, ds, k)
  BY <1>2 DEF OnlyCall
<1>t. /\ Spares(r, cs, Claimed(d), Limit, Heard) /\ Tidy(r, cs, Claimed(d))
      /\ cs[k].leg # "none" /\ cs[k].leg # "gone"
      /\ cs[k].job = "rejected" => ds[k].job = "rejected"
      /\ cs[k].job = "thrown" => ds[k].job = "thrown"
      /\ ds[k].hangup => ds[k].leg = "gone"
      /\ ds[k].write = cs[k].write
  BY <1>1, <1>2, <1>5, <1>6 DEF Sound
<1> HIDE DEF r, cs, ds
<1>7. Sound(r, ds, Claimed(d), Limit, Heard)
  <2>1. Spares(r, ds, Claimed(d), Limit, Heard)
    BY <1>t, <1>2, <1>5, <1>6, LegSpares, Zenon
  <2>2. Tidy(r, ds, Claimed(d))
    BY <1>t, <1>2, <1>6, LegTidy, Zenon
  <2> QED
    BY <2>1, <2>2 DEF Sound
<1> QED
  BY <1>3, <1>5, <1>7, CallSound DEF r, cs, ds

LEMMA HandlerSound ==
  ASSUME SoundInv, NEW d \in Dest, NEW k \in Attempt, HandlerStep(d, k)
  PROVE  BatchesApart' /\ TicksAwake' /\ SoundAll'
<1> DEFINE r == row[d]
           cs == CallsOf(d)
           c == call[d, k]
<1>1. TypeOK /\ Sound(r, cs, Claimed(d), Limit, Heard)
  BY Zenon DEF SoundInv, SoundAll
<1>2. /\ r \in Row /\ cs \in [Attempt -> Call] /\ cs[k] = c /\ c \in Call
      /\ MaxAttempts <= Limit
  BY <1>1, CallsTyped, LimitTyped
<1>t. /\ Claimed(d) \in BOOLEAN /\ Limit \in Nat /\ Heard \in BOOLEAN
      /\ Spares(r, cs, Claimed(d), Limit, Heard) /\ Tidy(r, cs, Claimed(d))
      /\ Claimed(d) => r.call = NoCall /\ cs[k].write = "none"
  BY <1>1, CallsTyped, LimitTyped, Zenon DEF Sound, Spares
<1>3. UNCHANGED <<tick, node, link, faults>>
  BY DEF HandlerStep, OnCallAnswer, OnCallHangupRead, OnCallHangupWrite,
         OriginateRejected, NoFault
<1>4. row = [row EXCEPT ![d] = r]
  BY <1>1 DEF TypeOK
<1>5. CASE OnCallAnswer(d, k)
  <2> DEFINE v == [c EXCEPT !.answer = FALSE]
             s == IF r.call = k /\ r.status = "dialing"
                  THEN [r EXCEPT !.status = "answered", !.answeredAt = TRUE]
                  ELSE r
  <2>1. call' = [call EXCEPT ![<<d, k>>] = v]
    BY <1>5 DEF OnCallAnswer, SetCall
  <2>2. row' = [row EXCEPT ![d] = s]
    BY <1>4, <1>5 DEF OnCallAnswer, SetRow
  <2>3. /\ s \in Row /\ s.attempts = r.attempts /\ s.call = r.call
        /\ s.due = r.due /\ (s.status = r.status \/ s.status = "answered")
        /\ s.status = "dialing" => r.status = "dialing" /\ r.call # k
    BY <1>2 DEF Row, RowStatus
  <2>4. /\ r \in Row /\ v.write = c.write /\ v.leg = c.leg
        /\ v.hangup = c.hangup /\ v.cause = c.cause /\ v.job = c.job
    BY <1>2 DEF Call
  <2>a. \/ s.status = r.status
        \/ r.status = "dialing" /\ s.status = "answered" /\ r.call = k
    BY <1>2 DEF Row
  <2> DEFINE ds == [cs EXCEPT ![k] = v]
  <2>5. /\ OnlyCall(cs, ds, k)
        /\ ds[k].write = cs[k].write /\ ds[k].leg = cs[k].leg
        /\ ds[k].hangup = cs[k].hangup /\ ds[k].cause = cs[k].cause
        /\ ds[k].job = cs[k].job
    BY <1>2, <2>4 DEF OnlyCall
  <2> HIDE DEF r, cs, c, s, v, ds
  <2>6. Sound(s, ds, Claimed(d), Limit, Heard)
    <3>1. Spares(s, ds, Claimed(d), Limit, Heard)
      BY <1>t, <2>3, <2>4, <2>5, AnswerSpares, Zenon
    <3>2. Tidy(s, ds, Claimed(d))
      BY <1>t, <2>3, <2>4, <2>a, <2>5, AnswerTidy, Zenon
    <3> QED
      BY <3>1, <3>2 DEF Sound
  <2> QED
    BY <1>3, <2>1, <2>2, <2>6, CallSound DEF ds, cs
<1>6. CASE OnCallHangupRead(d, k)
  <2> DEFINE w == HangupWrite(d, k)
             v == [c EXCEPT !.hangup = FALSE, !.write = w]
  <2>1. call' = [call EXCEPT ![<<d, k>>] = v] /\ row' = row
    BY <1>6 DEF OnCallHangupRead, SetCall
  <2>2. /\ w \in {"none", "complete", "retry", "fail"}
        /\ w = "none" <=> r.call # k
        /\ w = "retry" => r.attempts < MaxAttempts
        /\ w = "fail" => FailsFor(r, c)
    BY DEF HangupWrite, FailsFor
  <2>3. /\ r \in Row /\ v.write = w /\ ~v.hangup /\ v.leg = c.leg
        /\ v.cause = c.cause /\ v.job = c.job /\ cs[k] = c /\ c.hangup
    BY <1>2, <1>6 DEF Call, OnCallHangupRead
  <2> DEFINE ds == [cs EXCEPT ![k] = v]
  <2>4. /\ OnlyCall(cs, ds, k)
        /\ ds[k].write = w /\ cs[k].hangup /\ ~ds[k].hangup
        /\ ds[k].leg = cs[k].leg
        /\ ds[k].cause = cs[k].cause /\ ds[k].job = cs[k].job
    BY <1>2, <2>3 DEF OnlyCall
  <2> HIDE DEF r, cs, c, w, v, ds
  <2>5. /\ ds[k].write = "none" <=> r.call # k
        /\ ds[k].write = "retry" => r.attempts < MaxAttempts
        /\ ds[k].write # "none" => r.call = k
        /\ ds[k].write = "fail" => FailsFor(r, cs[k])
    BY <2>2, <2>3, <2>4, Zenon
  <2>6. Sound(r, ds, Claimed(d), Limit, Heard)
    <3>1. Spares(r, ds, Claimed(d), Limit, Heard)
      BY <1>t, <2>3, <2>4, <2>5, HangupSpares, Zenon
    <3>2. Tidy(r, ds, Claimed(d))
      BY <1>t, <2>3, <2>4, <2>5, HangupTidy, Zenon
    <3> QED
      BY <3>1, <3>2 DEF Sound
  <2> QED
    BY <1>3, <1>4, <2>1, <2>6, CallSound DEF ds, cs
<1>7. CASE OnCallHangupWrite(d, k)
  <2> DEFINE v == [c EXCEPT !.write = "none"]
             s == CASE c.write = "complete" -> [r EXCEPT !.status = "completed"]
                    [] c.write = "retry" -> [r EXCEPT !.status = "queued",
                                               !.due = FALSE, !.call = NoCall]
                    [] OTHER -> FailedRow(r)
  <2>1. call' = [call EXCEPT ![<<d, k>>] = v] /\ row' = [row EXCEPT ![d] = s]
        /\ c.write # "none"
    BY <1>7 DEF OnCallHangupWrite, SetCall, SetRow
  <2>2. /\ s \in Row /\ s.attempts = r.attempts
        /\ \/ s.status = "completed"
           \/ s.status = "failed"
           \/ c.write = "retry" /\ s.status = "queued" /\ ~s.due /\ s.call = NoCall
        /\ \/ s.status = "completed" /\ s.call = r.call
           \/ s.status = "failed" /\ s.call = NoCall /\ c.write = "fail"
           \/ s.status = "queued" /\ s.call = NoCall
    <3>1. c.write \in {"complete", "retry", "fail"}
      BY <1>2, <2>1 DEF Call
    <3>2. CASE c.write = "complete"
      BY <1>2, <3>2 DEF Row, RowStatus
    <3>3. CASE c.write = "retry"
      BY <1>2, <3>3 DEF Row, RowStatus, NoCall
    <3>4. CASE c.write = "fail"
      BY <1>2, <3>4 DEF Row, RowStatus, NoCall, FailedRow
    <3> QED
      BY <3>1, <3>2, <3>3, <3>4
  <2>3. /\ r \in Row /\ MaxAttempts <= Limit /\ cs[k] = c /\ v.write = "none"
        /\ v.leg = c.leg /\ v.hangup = c.hangup
        /\ v.cause = c.cause /\ v.job = c.job
    BY <1>2 DEF Call
  <2> DEFINE ds == [cs EXCEPT ![k] = v]
  <2>4. /\ OnlyCall(cs, ds, k)
        /\ cs[k].write # "none" /\ ds[k].write = "none"
        /\ ds[k].leg = cs[k].leg /\ ds[k].hangup = cs[k].hangup
        /\ ds[k].cause = cs[k].cause /\ ds[k].job = cs[k].job
    BY <1>2, <2>1, <2>3 DEF OnlyCall
  <2> HIDE DEF r, cs, c, s, v, ds
  <2>5. \/ s.status = "completed"
        \/ s.status = "failed"
        \/ /\ cs[k].write = "retry"
           /\ s.status = "queued" /\ ~s.due /\ s.call = NoCall
    BY <2>2, <2>3, Zenon
  <2>a. \/ s.status = "completed" /\ s.call = r.call
        \/ s.status = "failed" /\ s.call = NoCall /\ cs[k].write = "fail"
        \/ s.status = "queued" /\ s.call = NoCall
    BY <2>2, <2>3, Zenon
  <2>6. Sound(s, ds, Claimed(d), Limit, Heard)
    <3>1. Spares(s, ds, Claimed(d), Limit, Heard)
      BY <1>t, <2>2, <2>3, <2>4, <2>5, WriteSpares, Zenon
    <3>2. Tidy(s, ds, Claimed(d))
      BY <1>t, <2>2, <2>3, <2>4, <2>a, WriteTidy, Zenon
    <3> QED
      BY <3>1, <3>2 DEF Sound
  <2> QED
    BY <1>3, <2>1, <2>6, CallSound DEF ds, cs
<1>8. CASE OriginateRejected(d, k)
  <2> DEFINE v == [c EXCEPT !.job = "thrown"]
             s == FailedRow(r)
             ds == [cs EXCEPT ![k] = v]
  <2>1. call' = [call EXCEPT ![<<d, k>>] = v] /\ row' = [row EXCEPT ![d] = s]
    BY <1>8 DEF OriginateRejected, SetCall, SetRow
  <2>2. /\ s \in Row /\ s.attempts = r.attempts /\ s.call = NoCall
        /\ s.status # "queued" /\ s.status # "dialing"
    BY <1>2 DEF FailedRow, Row, RowStatus, NoCall
  <2>3. SameWrites(cs, ds)
    BY <1>2 DEF Call, SameWrites
  <2>a. /\ r \in Row /\ s.status = "failed" /\ OnlyCall(cs, ds, k)
        /\ cs[k].job # "none" /\ ds[k].leg = cs[k].leg
        /\ ds[k].write = cs[k].write /\ ds[k].hangup = cs[k].hangup
        /\ ds[k].job = "thrown"
    BY <1>2, <1>8 DEF Call, OnlyCall, FailedRow, Row, OriginateRejected
  <2> HIDE DEF r, cs, c, s, ds
  <2>4. Sound(s, ds, Claimed(d), Limit, Heard)
    <3>1. Spares(s, ds, Claimed(d), Limit, Heard)
      BY <1>t, <2>2, <2>3, <2>a, AsideSpares, Zenon
    <3>2. Tidy(s, ds, Claimed(d))
      BY <1>t, <2>2, <2>a, CaughtTidy, Zenon
    <3> QED
      BY <3>1, <3>2 DEF Sound
  <2> QED
    BY <1>3, <2>1, <2>4, CallSound DEF ds, cs
<1> QED
  BY <1>5, <1>6, <1>7, <1>8 DEF HandlerStep

LEMMA RepairSound ==
  ASSUME SoundInv, NEW d \in Dest, RowStep(d)
  PROVE  BatchesApart' /\ TicksAwake' /\ SoundAll'
<1> DEFINE r == row[d]
           cs == CallsOf(d)
<1>1. TypeOK /\ Sound(r, cs, Claimed(d), Limit, Heard)
  BY Zenon DEF SoundInv, SoundAll
<1>2. /\ r \in Row /\ cs \in [Attempt -> Call]
      /\ \A k \in Attempt : cs[k] = call[d, k]
      /\ Claimed(d) \in BOOLEAN /\ Heard \in BOOLEAN /\ Limit \in Nat
  BY <1>1, CallsTyped, LimitTyped
<1>t. /\ Spares(r, cs, Claimed(d), Limit, Heard) /\ Tidy(r, cs, Claimed(d))
  BY <1>1 DEF Sound
<1>3. /\ UNCHANGED <<call, tick, node, link, faults>>
      /\ \A x \in Dest \ {d} : row'[x] = row[x]
  BY <1>1 DEF RowStep, RetryDue, RecoverDialing, RecoverAnswered, SetRow,
              NoFault, TypeOK
<1>4. /\ BatchesApart' /\ TicksAwake' /\ Heard' = Heard
      /\ \A x \in Dest : Claimed(x)' = Claimed(x)
  BY <1>3, Zenon DEF SoundInv, BatchesApart, TicksAwake, Heard, Claimed
<1>5. Sound(row'[d], cs, Claimed(d), Limit, Heard)
  <2>1. CASE RetryDue(d)
    <3>1. /\ row'[d] = [r EXCEPT !.due = TRUE] /\ r.status = "queued"
          /\ Settled(d)
      BY <1>1, <2>1 DEF RetryDue, SetRow, TypeOK
    <3>2. \A k \in Attempt : cs[k].write = "none"
      BY <1>2, <3>1 DEF Settled
    <3>3. /\ row'[d] \in Row /\ row'[d].attempts = r.attempts
          /\ row'[d].status = r.status /\ row'[d].call = r.call
      BY <1>2, <3>1 DEF Row
    <3> HIDE DEF r, cs
    <3>4. Spares(row'[d], cs, Claimed(d), Limit, Heard)
      BY <1>t, <1>2, <3>2, <3>3, DueSpares, Zenon
    <3>5. Tidy(row'[d], cs, Claimed(d))
      BY <1>t, <1>2, <3>3, RowTidy, Zenon
    <3> QED
      BY <3>4, <3>5 DEF Sound
  <2>2. CASE RecoverDialing(d)
    <3>1. /\ row'[d] = [r EXCEPT !.status = "queued", !.due = FALSE,
                                 !.call = NoCall]
          /\ r.status = "dialing" /\ Quiet(d)
      BY <1>1, <2>2 DEF RecoverDialing, SetRow, TypeOK
    <3>2. ~Claimed(d)
      BY <3>1 DEF Quiet, Claimed
    <3>3. \A k \in Attempt : ~ToCome(cs[k], Heard)
      BY <1>2, <3>1 DEF Quiet, Settled, ToCome
    <3>4. /\ row'[d] \in Row /\ row'[d].attempts = r.attempts
          /\ row'[d].status = "queued" /\ ~row'[d].due /\ row'[d].call = NoCall
      BY <1>2, <3>1 DEF Row, RowStatus, NoCall
    <3>5. /\ r.status = "dialing" /\ r \in Row
          /\ r.status \in {"dialing", "answered"}
          /\ row'[d].status \in {"queued", "completed"}
          /\ \A k \in Attempt : cs[k].write = "none"
      BY <1>1, <1>2, <3>1, <3>4 DEF Quiet, Settled
    <3>6. Claimed(d) \in BOOLEAN /\ Limit \in Nat /\ Heard \in BOOLEAN
      BY <1>2
    <3> HIDE DEF r, cs
    <3>7. Spares(row'[d], cs, Claimed(d), Limit, Heard)
      BY <1>t, <3>2, <3>3, <3>4, <3>5, <3>6, RecoverSpares, Zenon
    <3>8. Tidy(row'[d], cs, Claimed(d))
      BY <1>t, <3>2, <3>4, <3>5, <3>6, RowTidy, Zenon
    <3> QED
      BY <3>7, <3>8 DEF Sound
  <2>3. CASE RecoverAnswered(d)
    <3>1. row'[d] = [r EXCEPT !.status = "completed", !.call = NoCall]
      BY <1>1, <2>3 DEF RecoverAnswered, SetRow, TypeOK
    <3>2. /\ row'[d] \in Row /\ row'[d].attempts = r.attempts
          /\ row'[d].status # "queued" /\ row'[d].status # "dialing"
          /\ row'[d].call = NoCall
      BY <1>2, <3>1 DEF Row, RowStatus, NoCall
    <3>3. /\ r \in Row
          /\ Claimed(d) \in BOOLEAN /\ Heard \in BOOLEAN /\ Limit \in Nat
          /\ SameWrites(cs, cs)
      BY <1>1, <1>2, Zenon DEF SameWrites
    <3>4. /\ r.status \in {"dialing", "answered"}
          /\ row'[d].status \in {"queued", "completed"}
          /\ ~Claimed(d) /\ \A k \in Attempt : cs[k].write = "none"
      BY <1>2, <2>3, <3>1 DEF RecoverAnswered, Quiet, Settled, Claimed, Row
    <3> HIDE DEF r, cs
    <3>5. Spares(row'[d], cs, Claimed(d), Limit, Heard)
      BY <1>t, <3>2, <3>3, AsideSpares, Zenon
    <3>6. Tidy(row'[d], cs, Claimed(d))
      BY <1>t, <3>2, <3>3, <3>4, RowTidy, Zenon
    <3> QED
      BY <3>5, <3>6 DEF Sound
  <2> QED
    BY <2>1, <2>2, <2>3 DEF RowStep
<1>6. SoundAll'
  <2>1. \A x \in Dest :
          \/ row'[x] = row[x] /\ Claimed(x)' = Claimed(x)
          \/ Sound(row'[x], CallsOf(x), Claimed(x)', Limit, Heard)
    BY <1>3, <1>4, <1>5
  <2> QED
    BY <1>3, <1>4, <2>1, RowSound
<1> QED
  BY <1>4, <1>6

\* Queued rows expire or are skipped.
LEMMA PutAside ==
  ASSUME SoundInv, NEW d \in Dest, NEW st \in {"expired", "skipped"},
         row[d].status = "queued", row'[d] = [row[d] EXCEPT !.status = st]
  PROVE  Sound(row'[d], CallsOf(d), Claimed(d), Limit, Heard)
<1>1. TypeOK /\ Sound(row[d], CallsOf(d), Claimed(d), Limit, Heard)
  BY Zenon DEF SoundInv, SoundAll
<1>2. /\ row[d] \in Row /\ CallsOf(d) \in [Attempt -> Call]
      /\ Claimed(d) \in BOOLEAN /\ Heard \in BOOLEAN /\ Limit \in Nat
  BY <1>1, CallsTyped, LimitTyped
<1>3. /\ row'[d] \in Row /\ row'[d].attempts = row[d].attempts
      /\ row'[d].call = row[d].call
      /\ row'[d].status \in {"expired", "skipped"}
  BY <1>2 DEF Row, RowStatus
<1>4. Spares(row'[d], CallsOf(d), Claimed(d), Limit, Heard) /\ ~Claimed(d)
  BY <1>1, <1>3 DEF Sound, Spares
<1>5. Tidy(row[d], CallsOf(d), Claimed(d))
  BY <1>1 DEF Sound
<1> DEFINE r == row[d]
           s == row'[d]
           cs == CallsOf(d)
<1>6. /\ r \in Row /\ s \in Row /\ Claimed(d) \in BOOLEAN /\ ~Claimed(d)
      /\ Tidy(r, cs, Claimed(d)) /\ s.attempts = r.attempts
      /\ r.status = "queued" /\ s.status \in {"expired", "skipped"}
      /\ s.call = r.call
  BY <1>2, <1>3, <1>4, <1>5
<1> HIDE DEF r, s, cs
<1>7. Tidy(s, cs, Claimed(d))
  BY <1>6, RowTidy, Zenon
<1> QED
  BY <1>4, <1>7 DEF Sound, s, cs

\* Hearing events again, a row has no less to come.
LEMMA HeardSound ==
  ASSUME NEW r \in Row, NEW cs, NEW b \in BOOLEAN,
         NEW n \in Nat, NEW h \in BOOLEAN, Sound(r, cs, b, n, h),
         NEW g \in BOOLEAN, h => g
  PROVE  Sound(r, cs, b, n, g)
<1>1. \A j \in Attempt : ToCome(cs[j], h) => ToCome(cs[j], g)
  BY DEF ToCome
<1> QED
  BY <1>1 DEF Sound, Spares

LEMMA OperatorSound ==
  ASSUME SoundInv, OperatorStep PROVE BatchesApart' /\ TicksAwake' /\ SoundAll'
<1>1. UNCHANGED <<call, tick, node, link, faults>>
  BY Zenon DEF OperatorStep, Pause, Resume, CancelRows, CancelCampaign, NoFault
<1>2. /\ BatchesApart' /\ TicksAwake' /\ Heard' = Heard
      /\ \A x \in Dest : Claimed(x)' = Claimed(x)
  BY <1>1, Zenon DEF SoundInv, BatchesApart, TicksAwake, Heard, Claimed
<1>3. ASSUME NEW d \in Dest
      PROVE  \/ row'[d] = row[d] /\ Claimed(d)' = Claimed(d)
             \/ Sound(row'[d], CallsOf(d), Claimed(d)', Limit, Heard)
  <2>1. CASE row'[d] = row[d]
    BY <1>2, <2>1
  <2>2. CASE row'[d] # row[d]
    <3>1. /\ row[d].status = "queued"
          /\ row'[d] = [row[d] EXCEPT !.status = "skipped"]
      BY <2>2 DEF OperatorStep, Pause, Resume, CancelRows, CancelCampaign,
                  Queued
    <3>2. Sound(row'[d], CallsOf(d), Claimed(d), Limit, Heard)
      BY <3>1, PutAside
    <3> QED
      BY <1>2, <3>2, Zenon
  <2> QED
    BY <2>1, <2>2
<1>4. SoundAll'
  BY <1>1, <1>2, <1>3, RowSound
<1> QED
  BY <1>2, <1>4

LEMMA TickSound ==
  ASSUME SoundInv, NEW e \in Engine, TickStep(e)
  PROVE  BatchesApart' /\ TicksAwake' /\ SoundAll'
<1>1. /\ TypeOK /\ BatchesApart /\ TicksAwake /\ SoundAll
      /\ UNCHANGED <<node, link, faults>>
  BY DEF SoundInv, TickStep, TickSelect, TickStart, TickExpireRows,
     TickFinish, TickNothingLeft, TickNoSlot, TickCount, TickClaim,
     TickOriginate, NoFault
<1>2. node = "up"
  BY <1>1 DEF TicksAwake, TickStep, TickSelect, TickStart, TickExpireRows,
     TickFinish, TickNothingLeft, TickNoSlot, TickCount, TickClaim,
     TickOriginate
<1>3. TicksAwake' /\ Heard' = Heard
  BY <1>1, <1>2 DEF TicksAwake, Heard
<1>4. CASE \/ TickSelect(e) \/ TickStart(e) \/ TickFinish(e)
           \/ TickNothingLeft(e) \/ TickNoSlot(e)
           \/ \E n \in 1..BatchSize : TickCount(e, n)
  <2>1. BatchesApart' /\ \A d \in Dest : Claimed(d)' = Claimed(d)
    BY <1>1, <1>4, CalmTicks, Zenon
  <2>2. UNCHANGED <<row, call>>
    BY <1>4 DEF TickSelect, TickStart, TickFinish, TickNothingLeft,
       TickNoSlot, TickCount
  <2>3. SoundAll'
    BY <1>1, <1>3, <2>1, <2>2, RowSound
  <2> QED
    BY <1>3, <2>1, <2>3
<1>5. CASE TickExpireRows(e)
  <2>1. BatchesApart' /\ \A d \in Dest : Claimed(d)' = Claimed(d)
    BY <1>1, <1>5, CalmTicks, Zenon
  <2>2. UNCHANGED call
    BY <1>5 DEF TickExpireRows
  <2>3. ASSUME NEW d \in Dest
        PROVE  \/ row'[d] = row[d] /\ Claimed(d)' = Claimed(d)
               \/ Sound(row'[d], CallsOf(d), Claimed(d)', Limit, Heard)
    <3>1. CASE row'[d] = row[d]
      BY <2>1, <3>1
    <3>2. CASE row'[d] # row[d]
      <4>1. /\ row[d].status = "queued"
            /\ row'[d] = [row[d] EXCEPT !.status = "expired"]
        BY <1>5, <3>2 DEF TickExpireRows, Queued
      <4>2. Sound(row'[d], CallsOf(d), Claimed(d), Limit, Heard)
        BY <4>1, PutAside
      <4> QED
        BY <2>1, <4>2, Zenon
    <3> QED
      BY <3>1, <3>2
  <2>4. SoundAll'
    BY <1>1, <1>3, <2>2, <2>3, RowSound
  <2> QED
    BY <1>3, <2>1, <2>4
<1>6. ASSUME NEW S \in SUBSET Dest, TickClaim(e, S)
      PROVE  BatchesApart' /\ SoundAll'
  <2>1. /\ call' = call
        /\ \A d \in S : /\ row[d].status = "queued" /\ row[d].due
                        /\ row'[d] = [row[d] EXCEPT !.status = "dialing",
                                        !.call = NoCall, !.due = TRUE,
                                        !.attempts = row[d].attempts + 1]
        /\ \A d \in Dest \ S : row'[d] = row[d]
    BY <1>6 DEF TickClaim, Ready, Queued
  <2>2. \A d \in S : ~Claimed(d)
    <3> SUFFICES ASSUME NEW d \in S, Claimed(d) PROVE FALSE
      OBVIOUS
    <3>1. Sound(row[d], CallsOf(d), Claimed(d), Limit, Heard)
      BY <1>1, Zenon DEF SoundAll
    <3> QED
      BY <2>1, <3>1 DEF Sound, Spares
  <2>3. /\ BatchesApart'
        /\ \A d \in S : Claimed(d)'
        /\ \A d \in Dest \ S : Claimed(d)' = Claimed(d)
    BY <1>1, <1>6, <2>2, ClaimBatches
  <2>4. ASSUME NEW d \in S
        PROVE  Sound(row'[d], CallsOf(d), Claimed(d)', Limit, Heard)
    <3>1. Sound(row[d], CallsOf(d), Claimed(d), Limit, Heard)
      BY <1>1, Zenon DEF SoundAll
    <3>2. /\ row[d] \in Row /\ row[d].attempts \in Nat
          /\ Claimed(d) \in BOOLEAN /\ Heard \in BOOLEAN /\ Limit \in Nat
      BY <1>1, CallsTyped, LimitTyped
    <3> DEFINE r == row[d]
               s == [r EXCEPT !.status = "dialing", !.call = NoCall,
                              !.due = TRUE, !.attempts = r.attempts + 1]
               cs == CallsOf(d)
               a == Claimed(d)'
    <3>3. /\ s.attempts = r.attempts + 1
          /\ s.status = "dialing" /\ s.call = NoCall
      BY <3>2 DEF Row
    <3>4. a /\ a \in BOOLEAN
      BY <2>3 DEF Claimed
    <3>5. /\ r.status = "queued" /\ r.due /\ row'[d] = s
          /\ r \in Row /\ r.attempts \in Nat
          /\ Sound(r, cs, Claimed(d), Limit, Heard)
      BY <2>1, <3>1, <3>2, Zenon
    <3>6. /\ Claimed(d) \in BOOLEAN /\ Limit \in Nat /\ Heard \in BOOLEAN
          /\ Spares(r, cs, Claimed(d), Limit, Heard) /\ Tidy(r, cs, Claimed(d))
          /\ \A k \in Attempt : cs[k].write = "none"
      BY <3>1, <3>2, <3>5 DEF Sound, Spares
    <3> HIDE DEF r, s, cs, a
    <3>7. Sound(s, cs, a, Limit, Heard)
      <4>1. Spares(s, cs, a, Limit, Heard)
        BY <3>3, <3>4, <3>5, <3>6, ClaimSpares, Zenon
      <4>2. Tidy(s, cs, a)
        BY <3>3, <3>4, <3>5, <3>6, ClaimTidy, Zenon
      <4> QED
        BY <4>1, <4>2 DEF Sound
    <3> QED
      BY <3>5, <3>7, Zenon DEF cs, a
  <2>5. SoundAll'
    BY <1>1, <1>3, <2>1, <2>3, <2>4, RowSound, Zenon
  <2> QED
    BY <2>3, <2>5
<1>7. ASSUME NEW d \in Dest, TickOriginate(e, d)
      PROVE  BatchesApart' /\ SoundAll'
  <2> DEFINE k == row[d].attempts
             c == call[d, k]
  <2>1. /\ BatchesApart' /\ ~Claimed(d)' /\ Claimed(d)' \in BOOLEAN
        /\ \A x \in Dest \ {d} : Claimed(x)' = Claimed(x)
    BY <1>1, <1>7, OriginateBatches
  <2>2. Claimed(d) /\ k \in Attempt
    BY <1>7 DEF TickOriginate, Claimed
  <2>3. Sound(row[d], CallsOf(d), Claimed(d), Limit, Heard)
    BY <1>1, Zenon DEF SoundAll
  <2>4. /\ row[d] \in Row /\ CallsOf(d) \in [Attempt -> Call]
        /\ \A j \in Attempt : CallsOf(d)[j] = call[d, j]
        /\ Claimed(d) \in BOOLEAN /\ Heard \in BOOLEAN /\ Limit \in Nat
        /\ c \in Call
    BY <1>1, <2>2, CallsTyped, LimitTyped
  <2>5. row'[d] = [row[d] EXCEPT !.call = k] /\ \A x \in Dest \ {d} : row'[x] = row[x]
    BY <1>1, <1>7 DEF TickOriginate, SetRow, TypeOK
  <2>6. row'[d].attempts = k /\ row'[d].status = row[d].status /\ row'[d].call = k
    BY <2>4, <2>5 DEF Row
  <2>7. \E v : /\ call' = [call EXCEPT ![<<d, k>>] = v]
               /\ v.write = c.write /\ v.hangup = c.hangup
               /\ (v.leg = "ringing" /\ Heard) \/ v.job = "rejected"
    <3>1. CASE /\ link = "up"
               /\ call' = [call EXCEPT ![<<d, k>>] =
                             [c EXCEPT !.leg = "ringing", !.job = "pending"]]
      <4>1. /\ [c EXCEPT !.leg = "ringing", !.job = "pending"].write = c.write
            /\ [c EXCEPT !.leg = "ringing", !.job = "pending"].hangup = c.hangup
            /\ [c EXCEPT !.leg = "ringing", !.job = "pending"].leg = "ringing"
        BY <2>4 DEF Call
      <4>2. Heard
        BY <1>2, <3>1 DEF Heard
      <4> QED
        BY <3>1, <4>1, <4>2
    <3>2. CASE call' = [call EXCEPT ![<<d, k>>] = [c EXCEPT !.job = "rejected"]]
      <4>1. /\ [c EXCEPT !.job = "rejected"].write = c.write
            /\ [c EXCEPT !.job = "rejected"].hangup = c.hangup
            /\ [c EXCEPT !.job = "rejected"].job = "rejected"
        BY <2>4 DEF Call
      <4> QED
        BY <3>2, <4>1
    <3> QED
      BY <1>7, <3>1, <3>2 DEF TickOriginate, SetCall
  <2>8. PICK v : /\ call' = [call EXCEPT ![<<d, k>>] = v]
                 /\ v.write = c.write /\ v.hangup = c.hangup
                 /\ (v.leg = "ringing" /\ Heard) \/ v.job = "rejected"
    BY <2>7, Zenon
  <2>9. \A x \in Dest, j \in Attempt :
          call'[x, j] = IF x = d /\ j = k THEN v ELSE call[x, j]
    BY <1>1, <2>8 DEF TypeOK, Calls
  <2>10. \A x \in Dest \ {d} : CallsOf(x)' = CallsOf(x)
    BY <2>9 DEF CallsOf
  <2>11. \A j \in Attempt : CallsOf(d)'[j] = IF j = k THEN v ELSE call[d, j]
    BY <2>9 DEF CallsOf
  <2> HIDE DEF k, c
  <2>12. /\ \A j \in Attempt : CallsOf(d)'[j].write = CallsOf(d)[j].write
         /\ CallsOf(d)'[k] = v
         /\ \A j \in Attempt : j # k => CallsOf(d)'[j] = CallsOf(d)[j]
         /\ CallsOf(d)'[k].hangup = CallsOf(d)[k].hangup
    BY <2>2, <2>4, <2>8, <2>11, Zenon DEF c
  <2>13. Sound(row'[d], CallsOf(d)', Claimed(d)', Limit, Heard)
    <3> DEFINE r == row[d]
               s == row'[d]
               ds == CallsOf(d)'
               cs == CallsOf(d)
               a == Claimed(d)'
    <3>1. /\ r \in Row /\ Claimed(d) /\ Claimed(d) \in BOOLEAN
          /\ ~a /\ a \in BOOLEAN
          /\ Limit \in Nat /\ Heard \in BOOLEAN
          /\ Spares(r, cs, Claimed(d), Limit, Heard) /\ Tidy(r, cs, Claimed(d))
      BY <2>1, <2>2, <2>3, <2>4, Zenon DEF Sound
    <3>2. /\ r.attempts \in Attempt
          /\ SameWrites(cs, ds)
          /\ s.attempts = r.attempts /\ s.status = r.status
          /\ s.call = r.attempts
          /\ OnlyCall(cs, ds, r.attempts)
          /\ ds[r.attempts].write = cs[r.attempts].write
          /\ ds[r.attempts].hangup = cs[r.attempts].hangup
      BY <2>2, <2>6, <2>12, Zenon DEF k, SameWrites, OnlyCall
    <3>3. \/ ds[r.attempts].leg = "ringing" /\ Heard
          \/ ds[r.attempts].job = "rejected"
      BY <2>8, <2>12, Zenon DEF k
    <3> HIDE DEF r, s, cs, ds, a
    <3>5. \A j \in Attempt : cs[j].write = "none"
      BY <3>1, Zenon DEF Spares
    <3>6. ds[r.attempts].write = "none" /\ ~ds[r.attempts].hangup
      <4>1. Fresh(cs[r.attempts])
        BY <3>1, <3>2, Zenon DEF Tidy
      <4> QED
        BY <3>2, <4>1, Zenon DEF Fresh
    <3>4. Sound(s, ds, a, Limit, Heard)
      <4>1. Spares(s, ds, a, Limit, Heard)
        BY <3>1, <3>2, <3>3, OriginateSpares, Zenon
      <4>2. Tidy(s, ds, a)
        BY <3>1, <3>2, <3>5, <3>6, OriginateTidy, Zenon
      <4> QED
        BY <4>1, <4>2 DEF Sound
    <3> QED
      BY <3>4, Zenon DEF s, ds, a
  <2>14. Limit' = Limit
    BY <1>1 DEF Limit
  <2>15. ASSUME NEW x \in Dest
         PROVE  Sound(row'[x], CallsOf(x)', Claimed(x)', Limit', Heard')
    BY <1>1, <1>3, <2>1, <2>5, <2>10, <2>13, <2>14, Zenon DEF SoundAll
  <2> QED
    BY <2>1, <2>15 DEF SoundAll
<1> QED
  BY <1>3, <1>4, <1>5, <1>6, <1>7 DEF TickStep

\* A fault.
LEMMA BreakSound ==
  ASSUME SoundInv, FaultStep PROVE BatchesApart' /\ TicksAwake' /\ SoundAll'
<1>1. TypeOK /\ BatchesApart /\ TicksAwake /\ SoundAll
  BY DEF SoundInv
<1>2. row' = row /\ faults' = faults + 1
  BY DEF FaultStep, Crash, LinkDrops, TickNoMedia
<1>3. Limit' = Limit + 1 /\ Heard' \in BOOLEAN
  BY <1>1, <1>2, LimitTyped, ConstantsTyped DEF Limit, Heard
<1> DEFINE Kept(u, v) == /\ v.write = u.write \/ v.write = "none"
                         /\ v.hangup => u.hangup
                         /\ v.leg = u.leg /\ v.cause = u.cause
                         /\ u.job = "thrown" => v.job = "thrown"
                         /\ u.job = "none" => v.job = "none"
<1>4. ASSUME BatchesApart', TicksAwake', \A d \in Dest : Claimed(d)' => Claimed(d),
             \A d \in Dest, k \in Attempt : Kept(call[d, k], call'[d, k])
      PROVE  BatchesApart' /\ TicksAwake' /\ SoundAll'
  <2>1. ASSUME NEW d \in Dest
        PROVE  Sound(row'[d], CallsOf(d)', Claimed(d)', Limit', Heard')
    <3>1. Sound(row[d], CallsOf(d), Claimed(d), Limit, Heard)
      BY <1>1, Zenon DEF SoundAll
    <3>2. /\ row[d] \in Row /\ row[d].attempts \in Nat
          /\ \A k \in Attempt : CallsOf(d)[k] = call[d, k]
          /\ Claimed(d) \in BOOLEAN /\ Heard \in BOOLEAN /\ Limit \in Nat
      BY <1>1, CallsTyped, LimitTyped
    <3>3. \A k \in Attempt : CallsOf(d)'[k] = call'[d, k]
      BY DEF CallsOf
    <3>4. \A k \in Attempt :
            /\ \/ CallsOf(d)'[k].write = CallsOf(d)[k].write
               \/ CallsOf(d)'[k].write = "none"
            /\ CallsOf(d)'[k].hangup => CallsOf(d)[k].hangup
            /\ CallsOf(d)'[k].leg = CallsOf(d)[k].leg
            /\ CallsOf(d)'[k].cause = CallsOf(d)[k].cause
            /\ CallsOf(d)[k].job = "thrown" => CallsOf(d)'[k].job = "thrown"
            /\ CallsOf(d)[k].job = "none" => CallsOf(d)'[k].job = "none"
      <4> TAKE k \in Attempt
      <4>1. CallsOf(d)[k] = call[d, k] /\ CallsOf(d)'[k] = call'[d, k]
        BY <3>2, <3>3
      <4> DEFINE u == CallsOf(d)[k]
                 v == CallsOf(d)'[k]
      <4>2. Kept(u, v)
        BY <1>4, <4>1
      <4> HIDE DEF u, v
      <4>3. /\ v.write = u.write \/ v.write = "none"
            /\ v.hangup => u.hangup
            /\ v.leg = u.leg /\ v.cause = u.cause
            /\ u.job = "thrown" => v.job = "thrown"
            /\ u.job = "none" => v.job = "none"
        BY <4>2
      <4> QED
        BY <4>3 DEF u, v
    <3>5. Claimed(d)' \in BOOLEAN /\ (Claimed(d)' => Claimed(d))
      BY <1>4 DEF Claimed
    <3>6. Sound(row[d], CallsOf(d)', Claimed(d)', Limit + 1, Heard')
      <4> DEFINE r == row[d]
                 ds == CallsOf(d)'
                 cs == CallsOf(d)
                 a == Claimed(d)'
                 g == Heard'
      <4>1. /\ r \in Row /\ r.attempts \in Nat /\ Claimed(d) \in BOOLEAN
            /\ Limit \in Nat /\ Heard \in BOOLEAN
            /\ Spares(r, cs, Claimed(d), Limit, Heard)
            /\ Tidy(r, cs, Claimed(d))
            /\ a \in BOOLEAN /\ g \in BOOLEAN /\ (a => Claimed(d))
            /\ \A k \in Attempt :
                 ds[k].write = cs[k].write \/ ds[k].write = "none"
        BY <1>3, <3>1, <3>2, <3>4, <3>5, Zenon DEF Sound
      <4>3. \A k \in Attempt :
              /\ ds[k].write = cs[k].write \/ ds[k].write = "none"
              /\ ds[k].hangup => cs[k].hangup
              /\ ds[k].leg = cs[k].leg /\ ds[k].cause = cs[k].cause
              /\ cs[k].job = "thrown" => ds[k].job = "thrown"
              /\ cs[k].job = "none" => ds[k].job = "none"
        BY <3>4, Zenon
      <4> HIDE DEF r, cs, ds, a, g
      <4>2. Sound(r, ds, a, Limit + 1, g)
        <5>1. Spares(r, ds, a, Limit + 1, g)
          BY <4>1, FaultSpares, Zenon
        <5>2. Tidy(r, ds, a)
          BY <4>1, <4>3, FaultTidy, Zenon
        <5> QED
          BY <5>1, <5>2 DEF Sound
      <4> QED
        BY <4>2, Zenon DEF r, ds, a, g
    <3> QED
      BY <1>2, <1>3, <3>6, Zenon
  <2> QED
    BY <1>4, <2>1 DEF SoundAll
<1>5. CASE Crash
  <2>1. /\ \A e \in Engine : tick'[e] = IdleTick
        /\ IdleTick.pc = "idle" /\ IdleTick.batch = {}
    BY <1>5 DEF Crash, IdleTick
  <2>2. BatchesApart' /\ TicksAwake' /\ \A d \in Dest : ~Claimed(d)'
    BY <2>1 DEF BatchesApart, TicksAwake, Claimed
  <2>3. ASSUME NEW d \in Dest, NEW k \in Attempt
        PROVE  Kept(call[d, k], call'[d, k])
    <3>1. <<d, k>> \in Calls /\ call[d, k] \in Call
      BY <1>1, AttemptsTyped DEF Calls
    <3> DEFINE v == [call[d, k] EXCEPT !.answer = FALSE, !.hangup = FALSE,
                       !.write = "none",
                       !.job = IF @ \in {"none", "thrown"} THEN @
                                  ELSE "settled"]
    <3>2. call'[d, k] = v
      BY <1>5, <3>1 DEF Crash
    <3>3. Kept(call[d, k], v)
      BY <3>1 DEF Call
    <3> QED
      BY <3>2, <3>3
  <2> QED
    BY <1>4, <2>2, <2>3, Zenon
<1>6. CASE LinkDrops
  <2>1. UNCHANGED <<tick, node>>
    BY <1>6 DEF LinkDrops
  <2>2. BatchesApart' /\ TicksAwake' /\ \A d \in Dest : Claimed(d)' => Claimed(d)
    BY <1>1, <2>1, Zenon DEF BatchesApart, TicksAwake, Claimed
  <2>3. ASSUME NEW d \in Dest, NEW k \in Attempt
        PROVE  Kept(call[d, k], call'[d, k])
    <3>1. <<d, k>> \in Calls /\ call[d, k] \in Call
      BY <1>1, AttemptsTyped DEF Calls
    <3> DEFINE v == [call[d, k] EXCEPT
                       !.job = IF @ = "pending" THEN "lost" ELSE @]
    <3>2. call'[d, k] = v
      BY <1>6, <3>1 DEF LinkDrops
    <3>3. Kept(call[d, k], v)
      BY <3>1 DEF Call
    <3> QED
      BY <3>2, <3>3
  <2> QED
    BY <1>4, <2>2, <2>3, Zenon
<1>7. ASSUME NEW e \in Engine, TickNoMedia(e)
      PROVE  BatchesApart' /\ TicksAwake' /\ SoundAll'
  <2>1. BatchesApart' /\ \A d \in Dest : Claimed(d)' = Claimed(d)
    BY <1>1, <1>7, CalmTicks, Zenon
  <2>2. /\ UNCHANGED <<call, node>> /\ tick[e].pc # "idle"
        /\ \A f \in Engine : f # e => tick'[f] = tick[f]
    BY <1>1, <1>7 DEF TickNoMedia, EndTick, SetTick, TypeOK
  <2>3. TicksAwake'
    BY <1>1, <2>2 DEF TicksAwake
  <2>4. \A d \in Dest, k \in Attempt : Kept(call[d, k], call'[d, k])
    BY <2>2
  <2> QED
    BY <1>4, <2>1, <2>3, <2>4, Zenon
<1> QED
  BY <1>5, <1>6, <1>7 DEF FaultStep

\* The process restarts, the connection returns, the campaign's time runs out,
\* or nothing happens.
LEMMA ReturnSound ==
  ASSUME SoundInv, TimeOut \/ Restart \/ LinkReturns \/ UNCHANGED vars
  PROVE  BatchesApart' /\ TicksAwake' /\ SoundAll'
<1>1. TypeOK /\ BatchesApart /\ TicksAwake /\ SoundAll
  BY DEF SoundInv
<1>2. UNCHANGED <<row, call, tick, faults>>
  BY Zenon DEF TimeOut, Restart, LinkReturns, vars
<1>3. (Heard => Heard') /\ (node = "up" => node' = "up")
  BY DEF TimeOut, Restart, LinkReturns, vars, Heard
<1>4. /\ BatchesApart' /\ TicksAwake' /\ Limit' = Limit
      /\ \A d \in Dest : Claimed(d)' = Claimed(d) /\ CallsOf(d)' = CallsOf(d)
  BY <1>1, <1>2, <1>3, Zenon
     DEF BatchesApart, TicksAwake, Limit, Claimed, CallsOf
<1>5. ASSUME NEW d \in Dest
      PROVE  Sound(row'[d], CallsOf(d)', Claimed(d)', Limit', Heard')
  <2>1. Sound(row[d], CallsOf(d), Claimed(d), Limit, Heard)
    BY <1>1, Zenon DEF SoundAll
  <2>2. /\ row[d] \in Row
        /\ Claimed(d) \in BOOLEAN /\ Heard \in BOOLEAN /\ Limit \in Nat
    BY <1>1, CallsTyped, LimitTyped
  <2>3. Heard' \in BOOLEAN
    BY DEF Heard
  <2>4. Sound(row[d], CallsOf(d), Claimed(d), Limit, Heard')
    BY <1>3, <2>1, <2>2, <2>3, HeardSound, Zenon
  <2> QED
    BY <1>2, <1>4, <2>4, Zenon
<1> QED
  BY <1>4, <1>5 DEF SoundAll

LEMMA SoundInit == Init => SoundInv
<1> SUFFICES ASSUME Init PROVE SoundInv
  OBVIOUS
<1>1. TypeOK
  BY InitTyped
<1>2. BatchesApart /\ TicksAwake /\ \A d \in Dest : ~Claimed(d)
  BY DEF Init, IdleTick, BatchesApart, TicksAwake, Claimed
<1>3. ASSUME NEW d \in Dest
      PROVE  Sound(row[d], CallsOf(d), Claimed(d), Limit, Heard)
  <2>1. row[d].status = "queued" /\ row[d].attempts = 0 /\ row[d].call = NoCall
    BY DEF Init, NewRow
  <2>2. \A k \in Attempt : call[d, k].write = "none" /\ Fresh(call[d, k])
    <3>1. \A k \in Attempt : call[d, k] = NewCall
      BY DEF Init, Calls
    <3> QED
      <4>1. NewCall.write = "none" /\ Fresh(NewCall)
        BY DEF NewCall, Fresh
      <4> QED
        BY <3>1, <4>1, Zenon
  <2>3. \A k \in Attempt :
          CallsOf(d)[k].write = "none" /\ Fresh(CallsOf(d)[k])
    BY <2>2 DEF CallsOf
  <2>4. 0 < Limit /\ 0 <= Limit
    BY <1>1, LimitTyped, CampaignAssumption DEF CampaignAssumption
  <2>5. Spares(row[d], CallsOf(d), Claimed(d), Limit, Heard)
    BY <1>2, <2>1, <2>3, <2>4 DEF Spares
  <2>6. Tidy(row[d], CallsOf(d), Claimed(d))
    <3> DEFINE r == row[d]
               cs == CallsOf(d)
    <3>1. /\ r.status = "queued" /\ r.attempts = 0 /\ r.call = NoCall
          /\ \A k \in Attempt : cs[k].write = "none" /\ ~cs[k].hangup
          /\ \A k \in Attempt : Fresh(cs[k])
          /\ ~Claimed(d)
      BY <1>2, <2>1, <2>3 DEF Fresh
    <3> HIDE DEF r, cs
    <3>2. Tidy(r, cs, Claimed(d))
      BY <3>1 DEF Tidy, Orderly
    <3> QED
      BY <3>2 DEF r, cs
  <2> QED
    BY <2>5, <2>6 DEF Sound
<1> QED
  BY <1>1, <1>2, <1>3 DEF SoundInv, SoundAll

LEMMA SoundNext == SoundInv /\ [Next]_vars => SoundInv'
<1> SUFFICES ASSUME SoundInv, [Next]_vars PROVE SoundInv'
  OBVIOUS
<1>1. TypeOK'
  BY NextTyped DEF SoundInv
<1>2. BatchesApart' /\ TicksAwake' /\ SoundAll'
  BY TickSound, SwitchSound, HandlerSound, RepairSound, OperatorSound,
     BreakSound, ReturnSound, Zenon DEF Next
<1> QED
  BY <1>1, <1>2 DEF SoundInv

\* No contact is dialled more often than max_attempts, but for one attempt more
\* with each fault, although neither the claim nor recovery looks at the count.
THEOREM AttemptsWithinLimit == Spec => []AttemptsBounded
<1>1. SoundInv => AttemptsBounded
  <2> SUFFICES ASSUME SoundInv, NEW d \in Dest
               PROVE  row[d].attempts <= MaxAttempts + faults
    BY DEF AttemptsBounded
  <2>1. Sound(row[d], CallsOf(d), Claimed(d), Limit, Heard)
    BY Zenon DEF SoundInv, SoundAll
  <2>2. row[d].attempts <= Limit
    BY <2>1, Zenon DEF Sound, Spares
  <2> QED
    BY <2>2 DEF Limit
<1> QED
  BY SoundInit, SoundNext, <1>1, PTL DEF Spec

-----------------------------------------------------------------------------
\* Reports.  Only the catch of a rejected originate breaks their order, and it
\* leaves its mark on the call.

LEMMA TidyRow ==
  ASSUME SoundInv, NEW d \in Dest
  PROVE  /\ row[d] \in Row /\ \A k \in Attempt : call[d, k] \in Call
         /\ Tidy(row[d], CallsOf(d), Claimed(d))
         /\ \A k \in Attempt : CallsOf(d)[k] = call[d, k]
         /\ CaughtIn(CallsOf(d)) <=> CatchWrote(d)
<1>1. TypeOK /\ Sound(row[d], CallsOf(d), Claimed(d), Limit, Heard)
  BY Zenon DEF SoundInv, SoundAll
<1>2. /\ row[d] \in Row /\ \A k \in Attempt : call[d, k] \in Call
      /\ \A k \in Attempt : CallsOf(d)[k] = call[d, k]
  BY <1>1, CallsTyped, AttemptsTyped
<1>3. CaughtIn(CallsOf(d)) <=> CatchWrote(d)
  BY <1>2 DEF CaughtIn, CatchWrote
<1> QED
  BY <1>1, <1>2, <1>3, Zenon DEF Sound

\* A contact is given up with attempts left only for a cause that is not to be
\* retried, or by the catch of an originate.
THEOREM RetriesKept == Spec => []FailedForCause
<1>1. SoundInv => FailedForCause
  <2> SUFFICES ASSUME SoundInv, NEW d \in Dest, row[d].status = "failed",
                      row[d].attempts \in 1..(MaxAttempts - 1), ~CatchWrote(d)
               PROVE  call[d, row[d].attempts].cause # "retryable"
    BY DEF FailedForCause
  <2>1. row[d].attempts \in Attempt /\ row[d].attempts < MaxAttempts
    BY ConstantsTyped, CampaignAssumption DEF Attempt, AttemptCap, CampaignAssumption
  <2> DEFINE r == row[d]
             cs == CallsOf(d)
  <2>2. Orderly(r, cs, Claimed(d)) /\ cs[r.attempts] = call[d, r.attempts]
    BY <2>1, TidyRow, Zenon DEF Tidy
  <2>3. r.status = "failed" /\ r.attempts \in Attempt /\ r.attempts < MaxAttempts
    BY <2>1
  <2> HIDE DEF r, cs
  <2>4. FailsFor(r, cs[r.attempts])
    BY <2>2, <2>3, Zenon DEF Orderly
  <2>5. cs[r.attempts].cause # "retryable"
    BY <2>3, <2>4, Zenon DEF FailsFor
  <2> QED
    BY <2>2, <2>5, Zenon DEF r
<1> QED
  BY SoundInit, SoundNext, <1>1, PTL DEF Spec

\* The mark stays.
LEMMA ThrownStays ==
  ASSUME SoundInv, [Next]_vars, NEW d \in Dest, NEW k \in Attempt,
         call[d, k].job = "thrown"
  PROVE  call'[d, k].job = "thrown"
<1>1. /\ call \in [Calls -> Call] /\ <<d, k>> \in Calls /\ call[d, k] \in Call
      /\ tick \in [Engine -> Tick]
  BY AttemptsTyped DEF SoundInv, TypeOK, Calls
<1>2. CASE UNCHANGED call
  BY <1>2
<1>3. ASSUME NEW e \in Engine, NEW x \in Dest, TickOriginate(e, x)
      PROVE  call'[d, k].job = "thrown"
  <2> DEFINE j == row[x].attempts
  <2>1. /\ x \in tick[e].batch /\ j \in Attempt
        /\ \E v : call' = [call EXCEPT ![<<x, j>>] = v]
    BY <1>3 DEF TickOriginate, SetCall
  <2>2. Fresh(call[x, j])
    <3>1. Claimed(x)
      BY <2>1 DEF Claimed
    <3> QED
      BY <2>1, <3>1, TidyRow DEF Tidy
  <2>3. <<x, j>> # <<d, k>>
    BY <2>2 DEF Fresh
  <2> HIDE DEF j
  <2> QED
    BY <1>1, <2>1, <2>3
<1>4. ASSUME NEW x \in Dest, NEW j \in Attempt, SwitchStep(<<x, j>>)
      PROVE  call'[d, k].job = "thrown"
  <2>1. \E v : /\ call' = [call EXCEPT ![<<x, j>>] = v]
               /\ call[x, j].job = "thrown" => v.job = "thrown"
    <3>0. call[x, j] \in Call
      BY AttemptsTyped DEF SoundInv
    <3>1. CASE LegAnswers(<<x, j>>)
      <4> DEFINE v == [call[x, j] EXCEPT !.leg = "talking", !.answer = Heard,
                            !.job = IF @ = "pending" THEN "settled" ELSE @]
      <4>1. call' = [call EXCEPT ![<<x, j>>] = v]
        BY <3>1 DEF LegAnswers, SetCall
      <4>2. call[x, j].job = "thrown" => v.job = "thrown"
        BY <3>0 DEF Call
      <4> QED
        BY <4>1, <4>2
    <3>2. ASSUME NEW why \in {"retryable", "final"}, LegFails(<<x, j>>, why)
          PROVE  \E v : /\ call' = [call EXCEPT ![<<x, j>>] = v]
                        /\ call[x, j].job = "thrown" => v.job = "thrown"
      BY <3>0, <3>2 DEF LegFails, SetCall, Call
    <3>3. CASE LegEnds(<<x, j>>)
      <4> DEFINE v == [call[x, j] EXCEPT !.leg = "gone", !.cause = "final",
                            !.hangup = Heard]
      <4>1. call' = [call EXCEPT ![<<x, j>>] = v]
        BY <3>3 DEF LegEnds, SetCall
      <4>2. call[x, j].job = "thrown" => v.job = "thrown"
        BY <3>0 DEF Call
      <4> QED
        BY <4>1, <4>2
    <3> QED
      BY <1>4, <3>1, <3>2, <3>3 DEF SwitchStep
  <2> QED
    BY <1>1, <2>1
<1>5. ASSUME NEW x \in Dest, NEW j \in Attempt, HandlerStep(x, j)
      PROVE  call'[d, k].job = "thrown"
  <2>1. \E v : /\ call' = [call EXCEPT ![<<x, j>>] = v]
               /\ call[x, j].job = "thrown" => v.job = "thrown"
    <3>0. call[x, j] \in Call
      BY AttemptsTyped DEF SoundInv
    <3>1. CASE OnCallAnswer(x, j)
      <4> DEFINE v == [call[x, j] EXCEPT !.answer = FALSE]
      <4>1. call' = [call EXCEPT ![<<x, j>>] = v]
        BY <3>1 DEF OnCallAnswer, SetCall
      <4>2. call[x, j].job = "thrown" => v.job = "thrown"
        BY <3>0 DEF Call
      <4> QED
        BY <4>1, <4>2
    <3>2. CASE OnCallHangupRead(x, j)
      <4> DEFINE v == [call[x, j] EXCEPT !.hangup = FALSE,
                            !.write = HangupWrite(x, j)]
      <4>1. call' = [call EXCEPT ![<<x, j>>] = v]
        BY <3>2 DEF OnCallHangupRead, SetCall
      <4>2. call[x, j].job = "thrown" => v.job = "thrown"
        BY <3>0 DEF Call
      <4> QED
        BY <4>1, <4>2
    <3>3. CASE OnCallHangupWrite(x, j)
      <4> DEFINE v == [call[x, j] EXCEPT !.write = "none"]
      <4>1. call' = [call EXCEPT ![<<x, j>>] = v]
        BY <3>3 DEF OnCallHangupWrite, SetCall
      <4>2. call[x, j].job = "thrown" => v.job = "thrown"
        BY <3>0 DEF Call
      <4> QED
        BY <4>1, <4>2
    <3>4. CASE OriginateRejected(x, j)
      BY <3>0, <3>4 DEF OriginateRejected, SetCall, Call
    <3> QED
      BY <1>5, <3>1, <3>2, <3>3, <3>4 DEF HandlerStep
  <2> QED
    BY <1>1, <2>1
<1>6. CASE Crash
  BY <1>1, <1>6 DEF Crash, Call
<1>7. CASE LinkDrops
  BY <1>1, <1>7 DEF LinkDrops, Call
<1>8. CASE \/ \E e \in Engine : TickStep(e) /\ UNCHANGED call
           \/ \E x \in Dest : RowStep(x)
           \/ OperatorStep \/ TimeOut \/ Restart \/ LinkReturns
           \/ \E e \in Engine : TickNoMedia(e)
           \/ UNCHANGED vars
  <2>1. UNCHANGED call
    BY <1>8 DEF RowStep, RetryDue, RecoverDialing, RecoverAnswered,
       OperatorStep, Pause, Resume, CancelRows, CancelCampaign, TimeOut,
       Restart, LinkReturns, TickNoMedia, vars
  <2> QED
    BY <2>1
<1>9. ASSUME NEW e \in Engine, TickStep(e)
      PROVE  UNCHANGED call \/ \E x \in Dest : TickOriginate(e, x)
  BY <1>9 DEF TickStep, TickSelect, TickStart, TickExpireRows, TickFinish,
     TickNothingLeft, TickNoSlot, TickCount, TickClaim
<1> QED
  BY <1>2, <1>3, <1>4, <1>5, <1>6, <1>7, <1>8, <1>9 DEF Next, FaultStep

\* What a step may do to a settled row.
LEMMA SettledStep ==
  ASSUME SoundInv, [Next]_vars, NEW d \in Dest, row[d].status \in SettledStatus
  PROVE  row'[d].status = row[d].status \/ CatchWrote(d)'
<1>1. /\ row \in [Dest -> Row] /\ row[d] \in Row
      /\ row[d].status \notin {"queued", "dialing", "answered"}
  BY DEF SoundInv, TypeOK, SettledStatus, Row
<1>2. CASE \/ \E e \in Engine : TickStep(e)
           \/ \E x \in Dest : RowStep(x)
           \/ \E x \in Dest, j \in Attempt : SwitchStep(<<x, j>>)
           \/ OperatorStep \/ TimeOut \/ FaultStep \/ Restart \/ LinkReturns
           \/ UNCHANGED vars
  <2>1. ASSUME NEW e \in Engine, TickStep(e)
        PROVE  row'[d].status = row[d].status
    <3>1. CASE TickExpireRows(e)
      BY <1>1, <3>1 DEF TickExpireRows, Queued
    <3>2. ASSUME NEW S \in SUBSET Dest, TickClaim(e, S)
          PROVE  row'[d].status = row[d].status
      BY <1>1, <3>2 DEF TickClaim, Ready, Queued
    <3>3. ASSUME NEW x \in Dest, TickOriginate(e, x)
          PROVE  row'[d].status = row[d].status
      <4>1. /\ row[x] \in Row
            /\ row' = [row EXCEPT ![x] = [row[x] EXCEPT !.call = row[x].attempts]]
        BY <1>1, <3>3 DEF TickOriginate, SetRow
      <4>2. [row[x] EXCEPT !.call = row[x].attempts].status = row[x].status
        BY <4>1 DEF Row
      <4> QED
        BY <1>1, <4>1, <4>2
    <3>4. CASE \/ TickSelect(e) \/ TickStart(e) \/ TickFinish(e)
               \/ TickNothingLeft(e) \/ TickNoSlot(e)
               \/ \E n \in 1..BatchSize : TickCount(e, n)
      BY <3>4 DEF TickSelect, TickStart, TickFinish, TickNothingLeft,
                  TickNoSlot, TickCount
    <3> QED
      BY <2>1, <3>1, <3>2, <3>3, <3>4 DEF TickStep
  <2>2. ASSUME NEW x \in Dest, RowStep(x)
        PROVE  row'[d].status = row[d].status
    <3>1. CASE RetryDue(x)
      BY <1>1, <3>1 DEF RetryDue, SetRow, Row
    <3>2. CASE RecoverDialing(x)
      BY <1>1, <3>2 DEF RecoverDialing, SetRow
    <3>3. CASE RecoverAnswered(x)
      BY <1>1, <3>3 DEF RecoverAnswered, SetRow
    <3> QED
      BY <2>2, <3>1, <3>2, <3>3 DEF RowStep
  <2>3. CASE OperatorStep
    BY <1>1, <2>3 DEF OperatorStep, Pause, Resume, CancelRows, CancelCampaign,
                      Queued
  <2>4. CASE \/ \E x \in Dest, j \in Attempt : SwitchStep(<<x, j>>)
             \/ TimeOut \/ FaultStep \/ Restart \/ LinkReturns
             \/ UNCHANGED vars
    BY <2>4 DEF SwitchStep, LegAnswers, LegFails, LegEnds, TimeOut, FaultStep,
       Crash, LinkDrops, TickNoMedia, Restart, LinkReturns, vars
  <2> QED
    BY <1>2, <2>1, <2>2, <2>3, <2>4
<1>3. ASSUME NEW x \in Dest, NEW k \in Attempt, HandlerStep(x, k)
      PROVE  row'[d].status = row[d].status \/ CatchWrote(d)'
  <2>1. CASE OnCallAnswer(x, k)
    BY <1>1, <2>1 DEF OnCallAnswer, SetRow
  <2>2. CASE OnCallHangupRead(x, k)
    BY <2>2 DEF OnCallHangupRead
  <2>3. CASE OnCallHangupWrite(x, k)
    <3>1. CASE x # d
      BY <1>1, <2>3, <3>1 DEF OnCallHangupWrite, SetRow
    <3>2. CASE x = d
      <4>1. CatchWrote(d)
        <5> SUFFICES ASSUME ~CatchWrote(d) PROVE FALSE
          OBVIOUS
        <5>1. Orderly(row[d], CallsOf(d), Claimed(d))
          BY TidyRow, Zenon DEF Tidy
        <5>2. CallsOf(d)[k].write # "none"
          BY <2>3, <3>2, TidyRow DEF OnCallHangupWrite
        <5> QED
          BY <1>1, <5>1, <5>2 DEF Orderly
      <4>2. PICK j \in Attempt : call[d, j].job = "thrown"
        BY <4>1 DEF CatchWrote
      <4>3. call'[d, j].job = "thrown"
        BY <4>2, ThrownStays
      <4> QED
        BY <4>3 DEF CatchWrote
    <3> QED
      BY <3>1, <3>2
  <2>4. CASE OriginateRejected(x, k)
    <3>1. CASE x # d
      BY <1>1, <2>4, <3>1 DEF OriginateRejected, SetRow
    <3>2. CASE x = d
      <4>1. call \in [Calls -> Call] /\ <<d, k>> \in Calls /\ call[d, k] \in Call
        BY AttemptsTyped DEF SoundInv, TypeOK, Calls
      <4>2. call'[d, k] = [call[d, k] EXCEPT !.job = "thrown"]
        BY <2>4, <3>2, <4>1 DEF OriginateRejected, SetCall
      <4>3. call'[d, k].job = "thrown"
        BY <4>1, <4>2 DEF Call
      <4> QED
        BY <4>3 DEF CatchWrote
    <3> QED
      BY <3>1, <3>2
  <2> QED
    BY <1>3, <2>1, <2>2, <2>3, <2>4 DEF HandlerStep
<1> QED
  BY <1>2, <1>3 DEF Next

\* A report stands until a catch replaces it, through any number of engines,
\* faults and overlapping handlers.
THEOREM ReportsStand == Spec => SettledStaysSettled
<1>1. SoundInv /\ [Next]_vars =>
        [\A d \in Dest : row[d].status \in SettledStatus =>
           row'[d].status = row[d].status \/ CatchWrote(d)']_vars
  BY SettledStep
<1>2. Spec => []SoundInv
  BY SoundInit, SoundNext, PTL DEF Spec
<1> QED
  BY <1>1, <1>2, PTL DEF Spec, SettledStaysSettled

-----------------------------------------------------------------------------
\* Completion.  A destination that has been dealt with stays so, and the tick
\* that goes to complete or expire the campaign has found every one dealt with.

Resolved(d) == \/ row[d].status \in SettledStatus
               \/ timedOut /\ row[d].attempts > 0
               \/ CatchWrote(d)
Closing == (\E e \in Engine : tick[e].pc \in {"expiring", "completing"})
             \/ campaign = "completed"
ClosingInv == SoundInv /\ (Closing => \A d \in Dest : Resolved(d))

LEMMA AttemptsGrow ==
  ASSUME TypeOK, [Next]_vars, NEW d \in Dest
  PROVE  row'[d].attempts >= row[d].attempts
<1>1. row \in [Dest -> Row] /\ row[d].attempts \in Nat /\ row[d] \in Row
  BY AttemptsTyped DEF TypeOK
<1>0. row'[d].attempts = row[d].attempts => row'[d].attempts >= row[d].attempts
  <2> DEFINE m == row[d].attempts
             n == row'[d].attempts
  <2>1. m \in Nat
    BY <1>1
  <2> HIDE DEF m, n
  <2>2. n = m => n >= m
    BY <2>1
  <2> QED
    BY <2>2 DEF m, n
<1>2. ASSUME NEW e \in Engine, TickStep(e)
      PROVE  row'[d].attempts >= row[d].attempts
  <2>1. CASE TickExpireRows(e)
    BY <1>1, <2>1 DEF TickExpireRows, Row
  <2>2. ASSUME NEW S \in SUBSET Dest, TickClaim(e, S)
        PROVE  row'[d].attempts >= row[d].attempts
    <3>1. CASE d \in S
      <4>1. row'[d] = [row[d] EXCEPT !.status = "dialing", !.call = NoCall,
                                     !.attempts = row[d].attempts + 1,
                                     !.due = TRUE]
        BY <2>2, <3>1 DEF TickClaim
      <4>2. row'[d].attempts = row[d].attempts + 1
        BY <1>1, <4>1 DEF Row
      <4> QED
        BY <1>1, <4>2
    <3>2. CASE d \notin S
      BY <1>0, <2>2, <3>2 DEF TickClaim
    <3> QED
      BY <3>1, <3>2
  <2>3. ASSUME NEW x \in Dest, TickOriginate(e, x)
        PROVE  row'[d].attempts >= row[d].attempts
    <3>1. /\ row[x] \in Row
          /\ row' = [row EXCEPT ![x] = [row[x] EXCEPT !.call = row[x].attempts]]
      BY <1>1, <2>3 DEF TickOriginate, SetRow
    <3>2. [row[x] EXCEPT !.call = row[x].attempts].attempts = row[x].attempts
      BY <3>1 DEF Row
    <3> QED
      BY <1>1, <3>1, <3>2
  <2>4. CASE \/ TickSelect(e) \/ TickStart(e) \/ TickFinish(e)
             \/ TickNothingLeft(e) \/ TickNoSlot(e)
             \/ \E n \in 1..BatchSize : TickCount(e, n)
    BY <1>0, <2>4 DEF TickSelect, TickStart, TickFinish, TickNothingLeft,
                TickNoSlot, TickCount
  <2> QED
    BY <1>2, <2>1, <2>2, <2>3, <2>4 DEF TickStep
<1>3. ASSUME NEW x \in Dest, RowStep(x)
      PROVE  row'[d].attempts = row[d].attempts
  <2>1. CASE RetryDue(x)
    BY <1>1, <2>1 DEF RetryDue, SetRow, Row
  <2>2. CASE RecoverDialing(x)
    BY <1>1, <2>2 DEF RecoverDialing, SetRow, Row
  <2>3. CASE RecoverAnswered(x)
    BY <1>1, <2>3 DEF RecoverAnswered, SetRow, Row
  <2> QED
    BY <1>3, <2>1, <2>2, <2>3 DEF RowStep
<1>4. ASSUME NEW x \in Dest, NEW k \in Attempt, HandlerStep(x, k)
      PROVE  row'[d].attempts = row[d].attempts
  <2>1. CASE OnCallAnswer(x, k)
    <3>1. CASE row' = row
      BY <3>1
    <3>2. CASE row' = [row EXCEPT ![x] = [row[x] EXCEPT !.status = "answered",
                                                        !.answeredAt = TRUE]]
      BY <1>1, <3>2 DEF Row
    <3> QED
      BY <2>1, <3>1, <3>2 DEF OnCallAnswer, SetRow
  <2>2. CASE OnCallHangupRead(x, k)
    BY <1>1, <2>2 DEF OnCallHangupRead
  <2>3. CASE OnCallHangupWrite(x, k)
    BY <1>1, <2>3 DEF OnCallHangupWrite, SetRow, FailedRow, Row
  <2>4. CASE OriginateRejected(x, k)
    BY <1>1, <2>4 DEF OriginateRejected, SetRow, FailedRow, Row
  <2> QED
    BY <1>4, <2>1, <2>2, <2>3, <2>4 DEF HandlerStep
<1>5. CASE OperatorStep
  BY <1>1, <1>5 DEF OperatorStep, Pause, Resume, CancelRows, CancelCampaign,
                    Row
<1>6. CASE \/ \E x \in Dest, j \in Attempt : SwitchStep(<<x, j>>)
           \/ TimeOut \/ FaultStep \/ Restart \/ LinkReturns
           \/ UNCHANGED vars
  BY <1>0, <1>6 DEF SwitchStep, LegAnswers, LegFails, LegEnds, TimeOut,
     FaultStep, Crash, LinkDrops, TickNoMedia, Restart, LinkReturns, vars
<1> QED
  BY <1>0, <1>2, <1>3, <1>4, <1>5, <1>6 DEF Next

LEMMA ResolvedStays ==
  ASSUME SoundInv, [Next]_vars, NEW d \in Dest, Resolved(d)
  PROVE  Resolved(d)'
<1>1. CASE row[d].status \in SettledStatus
  BY <1>1, SettledStep DEF Resolved
<1>2. CASE timedOut /\ row[d].attempts > 0
  <2>1. timedOut'
    <3>1. ASSUME NEW e \in Engine, TickStep(e) PROVE timedOut'
      BY <1>2, <3>1 DEF TickStep, TickSelect, TickStart, TickExpireRows,
         TickFinish, TickNothingLeft, TickNoSlot, TickCount, TickClaim,
         TickOriginate, NoFault
    <3>2. ASSUME NEW x \in Dest, NEW k \in Attempt, SwitchStep(<<x, k>>)
          PROVE  timedOut'
      BY <1>2, <3>2 DEF SwitchStep, LegAnswers, LegFails, LegEnds, NoFault
    <3>3. ASSUME NEW x \in Dest, NEW k \in Attempt, HandlerStep(x, k)
          PROVE  timedOut'
      BY <1>2, <3>3 DEF HandlerStep, OnCallAnswer, OnCallHangupRead,
         OnCallHangupWrite, OriginateRejected, NoFault
    <3>4. ASSUME NEW x \in Dest, RowStep(x) PROVE timedOut'
      BY <1>2, <3>4 DEF RowStep, RetryDue, RecoverDialing, RecoverAnswered,
         NoFault
    <3>5. CASE OperatorStep
      BY <1>2, <3>5 DEF OperatorStep, Pause, Resume, CancelRows,
         CancelCampaign, NoFault
    <3>6. CASE FaultStep
      BY <1>2, <3>6 DEF FaultStep, Crash, LinkDrops, TickNoMedia
    <3>7. CASE TimeOut \/ Restart \/ LinkReturns \/ UNCHANGED vars
      BY <1>2, <3>7 DEF TimeOut, Restart, LinkReturns, vars
    <3> QED
      BY <3>1, <3>2, <3>3, <3>4, <3>5, <3>6, <3>7 DEF Next
  <2>2. row'[d].attempts >= row[d].attempts /\ row[d].attempts \in Nat
    BY AttemptsGrow, AttemptsTyped DEF SoundInv
  <2>3. row'[d].attempts \in Nat
    <3>1. TypeOK'
      BY NextTyped DEF SoundInv
    <3>2. row'[d] \in Row
      BY <3>1 DEF TypeOK
    <3> QED
      BY <3>2, ConstantsTyped DEF Row
  <2>4. row'[d].attempts > 0
    BY <1>2, <2>2, <2>3
  <2> QED
    BY <2>1, <2>4 DEF Resolved
<1>3. CASE CatchWrote(d)
  <2>1. PICK j \in Attempt : call[d, j].job = "thrown"
    BY <1>3 DEF CatchWrote
  <2>2. call'[d, j].job = "thrown"
    BY <2>1, ThrownStays
  <2> QED
    BY <2>2 DEF Resolved, CatchWrote
<1> QED
  BY <1>1, <1>2, <1>3 DEF Resolved

\* Only two steps decide that the campaign is over.
LEMMA ClosingBegins ==
  ASSUME TypeOK, [Next]_vars, Closing', ~Closing
  PROVE  \E e \in Engine : TickExpireRows(e) \/ TickNothingLeft(e)
<1>1. tick \in [Engine -> Tick]
  BY DEF TypeOK
<1>2. ASSUME NEW e \in Engine, TickStep(e), ~TickExpireRows(e),
             ~TickNothingLeft(e)
      PROVE  FALSE
  <2>1. ASSUME NEW t, tick' = [tick EXCEPT ![e] = t],
               t.pc \notin {"expiring", "completing"}, campaign' = campaign
        PROVE  FALSE
    BY <1>1, <2>1 DEF Closing
  <2>2. IdleTick.pc = "idle"
    BY DEF IdleTick
  <2>3. tick[e] \in Tick
    BY <1>1
  <2>4. CASE TickSelect(e)
    <3> DEFINE t == [IdleTick EXCEPT
                       !.pc = IF campaign = "queued" THEN "starting" ELSE "started",
                       !.seen = campaign]
    <3>1. t.pc \in {"starting", "started"}
      BY DEF IdleTick
    <3>2. tick' = [tick EXCEPT ![e] = t] /\ campaign' = campaign
      BY <2>4 DEF TickSelect, SetTick
    <3> HIDE DEF t
    <3> QED
      BY <2>1, <3>1, <3>2
  <2>5. CASE TickStart(e)
    BY <1>1, <2>5 DEF TickStart, SetTick, Tick, Closing
  <2>6. CASE TickFinish(e)
    BY <2>6 DEF TickFinish, Closing
  <2>7. CASE TickNoSlot(e)
    BY <2>1, <2>2, <2>7 DEF TickNoSlot, EndTick, SetTick
  <2>8. ASSUME NEW n \in 1..BatchSize, TickCount(e, n)
        PROVE  FALSE
    <3> DEFINE t == [tick[e] EXCEPT !.pc = "counted", !.slots = n]
    <3>1. t.pc = "counted"
      BY <2>3 DEF Tick
    <3>2. tick' = [tick EXCEPT ![e] = t] /\ campaign' = campaign
      BY <2>8 DEF TickCount, SetTick
    <3> HIDE DEF t
    <3> QED
      BY <2>1, <3>1, <3>2
  <2>9. ASSUME NEW S \in SUBSET Dest, TickClaim(e, S)
        PROVE  FALSE
    <3> DEFINE t == IF S = {} THEN IdleTick
                    ELSE [tick[e] EXCEPT !.pc = "dispatching", !.slots = 0,
                                         !.batch = S]
    <3>1. t.pc \in {"idle", "dispatching"}
      BY <2>2, <2>3 DEF Tick
    <3>2. tick' = [tick EXCEPT ![e] = t] /\ campaign' = campaign
      BY <2>9 DEF TickClaim, SetTick
    <3> HIDE DEF t
    <3> QED
      BY <2>1, <3>1, <3>2
  <2>10. ASSUME NEW x \in Dest, TickOriginate(e, x)
         PROVE  FALSE
    <3> DEFINE rest == tick[e].batch \ {x}
               t == IF rest = {} THEN IdleTick
                    ELSE [tick[e] EXCEPT !.batch = rest]
    <3>1. t.pc \in {"idle", "dispatching"}
      BY <2>2, <2>3, <2>10 DEF Tick, TickOriginate
    <3>2. tick' = [tick EXCEPT ![e] = t] /\ campaign' = campaign
      BY <2>10 DEF TickOriginate, SetTick
    <3> HIDE DEF t
    <3> QED
      BY <2>1, <3>1, <3>2
  <2> QED
    BY <1>2, <2>4, <2>5, <2>6, <2>7, <2>8, <2>9, <2>10 DEF TickStep
<1>3. ASSUME UNCHANGED tick, campaign' # "completed" \/ campaign' = campaign
      PROVE  FALSE
  BY <1>3 DEF Closing
<1>4. CASE FaultStep
  <2>1. CASE Crash
    <3>1. campaign' = campaign /\ \A e \in Engine : tick'[e].pc = "idle"
      BY <2>1 DEF Crash, IdleTick
    <3> QED
      BY <3>1 DEF Closing
  <2>2. CASE LinkDrops
    BY <1>3, <2>2 DEF LinkDrops
  <2>3. ASSUME NEW e \in Engine, TickNoMedia(e)
        PROVE  FALSE
    BY <1>1, <2>3 DEF TickNoMedia, EndTick, SetTick, IdleTick, Closing
  <2> QED
    BY <1>4, <2>1, <2>2, <2>3 DEF FaultStep
<1>5. CASE \/ \E d \in Dest, k \in Attempt : SwitchStep(<<d, k>>) \/ HandlerStep(d, k)
           \/ \E d \in Dest : RowStep(d)
           \/ OperatorStep \/ TimeOut \/ Restart \/ LinkReturns
           \/ UNCHANGED vars
  <2>1. ASSUME NEW d \in Dest, NEW k \in Attempt, SwitchStep(<<d, k>>)
        PROVE  FALSE
    BY <1>3, <2>1 DEF SwitchStep, LegAnswers, LegFails, LegEnds
  <2>2. ASSUME NEW d \in Dest, NEW k \in Attempt, HandlerStep(d, k)
        PROVE  FALSE
    BY <1>3, <2>2 DEF HandlerStep, OnCallAnswer, OnCallHangupRead,
       OnCallHangupWrite, OriginateRejected
  <2>3. ASSUME NEW d \in Dest, RowStep(d)
        PROVE  FALSE
    BY <1>3, <2>3 DEF RowStep, RetryDue, RecoverDialing, RecoverAnswered
  <2>4. CASE OperatorStep
    BY <1>3, <2>4 DEF OperatorStep, Pause, Resume, CancelRows, CancelCampaign
  <2>5. CASE TimeOut \/ Restart \/ LinkReturns
    BY <1>3, <2>5 DEF TimeOut, Restart, LinkReturns
  <2>6. CASE UNCHANGED vars
    BY <1>3, <2>6 DEF vars
  <2> QED
    BY <1>5, <2>1, <2>2, <2>3, <2>4, <2>5, <2>6
<1> QED
  BY <1>2, <1>4, <1>5 DEF Next

LEMMA ClosingInit == Init => ClosingInv
<1> SUFFICES ASSUME Init PROVE ClosingInv
  OBVIOUS
<1>1. ~Closing
  BY DEF Init, IdleTick, Closing
<1> QED
  BY <1>1, SoundInit DEF ClosingInv

LEMMA ClosingNext == ClosingInv /\ [Next]_vars => ClosingInv'
<1> SUFFICES ASSUME ClosingInv, [Next]_vars PROVE ClosingInv'
  OBVIOUS
<1>1. SoundInv' /\ SoundInv /\ TypeOK
  BY SoundNext DEF ClosingInv, SoundInv
<1>2. ASSUME Closing', Closing, NEW d \in Dest PROVE Resolved(d)'
  BY <1>1, <1>2, ResolvedStays DEF ClosingInv
<1>3. ASSUME Closing', ~Closing, NEW d \in Dest PROVE Resolved(d)'
  <2>1. PICK e \in Engine : TickExpireRows(e) \/ TickNothingLeft(e)
    BY <1>1, <1>3, ClosingBegins
  <2>2. row[d] \in Row /\ row[d].status \in RowStatus /\ row[d].attempts \in Nat
    BY <1>1, AttemptsTyped DEF Row
  <2>3. CASE TickNothingLeft(e)
    <3>1. row[d].status \in SettledStatus /\ row' = row
      BY <2>2, <2>3 DEF TickNothingLeft, Queued, InFlight, SettledStatus,
                        RowStatus
    <3> QED
      BY <3>1 DEF Resolved
  <2>4. CASE TickExpireRows(e)
    <3>1. CASE row[d].status = "queued"
      <4>1. row'[d] = [row[d] EXCEPT !.status = "expired"]
        BY <2>4, <3>1 DEF TickExpireRows, Queued
      <4>2. row'[d].status = "expired"
        BY <2>2, <4>1 DEF Row
      <4> QED
        BY <4>2 DEF Resolved, SettledStatus
    <3>2. CASE row[d].status # "queued"
      <4>1. row'[d] = row[d] /\ timedOut'
        BY <2>4, <3>2 DEF TickExpireRows, Queued, PastTimeout, NoFault
      <4>2. CASE row[d].status \in {"dialing", "answered"}
        <5>1. row[d].attempts # 0
          BY <1>1, <4>2, TidyRow DEF Tidy
        <5> QED
          BY <2>2, <4>1, <5>1 DEF Resolved
      <4>3. CASE row[d].status \notin {"dialing", "answered"}
        BY <2>2, <3>2, <4>1, <4>3 DEF Resolved, SettledStatus, RowStatus
      <4> QED
        BY <4>2, <4>3
    <3> QED
      BY <3>1, <3>2
  <2> QED
    BY <2>1, <2>3, <2>4
<1>4. Closing' => \A d \in Dest : Resolved(d)'
  BY <1>2, <1>3
<1> QED
  BY <1>1, <1>4 DEF ClosingInv

\* A completed campaign has dealt with every destination, whatever engines,
\* faults, deadline and operators did on the way.
THEOREM CompletedMeansResolved == Spec => []CompletedIsResolved
<1>1. ClosingInv => CompletedIsResolved
  BY DEF ClosingInv, Closing, Resolved, CompletedIsResolved
<1> QED
  BY ClosingInit, ClosingNext, <1>1, PTL DEF Spec

=============================================================================
