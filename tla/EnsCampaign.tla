----------------------------- MODULE EnsCampaign -----------------------------
(***************************************************************************)
(* One ENS campaign of backend/src/services/campaignEngine.js: the one-    *)
(* second tick that claims queued destinations and originates calls, the   *)
(* handlers of the ESL events CHANNEL_ANSWER and CHANNEL_HANGUP, the        *)
(* rejection of an originate promise, the recovery of stale rows, and the   *)
(* operator's pause, resume and cancel.                                     *)
(*                                                                         *)
(* A step is one SQL statement, or one event of FreeSWITCH (external).     *)
(* Statements that only keep the campaign's counters are left out.         *)
(*                                                                         *)
(* Time.  No clock is modelled; the guards Settled, Quiet and the one of   *)
(* OriginateRejected encode the order of the code's time constants:        *)
(* a statement already issued (milliseconds) < a retry interval or the     *)
(* five seconds of recovery < originate_timeout (30 s) < the timeout of    *)
(* the originate command (40 s) < STALE_DIALING_SEC (90 s).                *)
(***************************************************************************)
EXTENDS Naturals, FiniteSets

CONSTANTS
  Engine,           \* backend processes running the tick; the product runs one
  Dest,             \* rows of ens_campaign_destinations
  MaxConcurrent,    \* ens_campaigns.max_concurrent
  MaxAttempts,      \* max_attempts of every row
  BatchSize,        \* batch_size, 10 when null
  MaxFaults,        \* bound: crashes, ESL drops and failed syntheses of a run
  OperatorActs,     \* may an operator pause, resume and cancel?
  MayTimeOut        \* may campaign_timeout_min elapse during the run?

ASSUME CampaignAssumption ==
  /\ IsFiniteSet(Dest) /\ Dest # {}
  /\ IsFiniteSet(Engine) /\ Engine # {}
  /\ MaxConcurrent \in Nat \ {0}
  /\ MaxAttempts \in Nat \ {0}
  /\ BatchSize \in Nat \ {0}
  /\ MaxFaults \in Nat
  /\ {OperatorActs, MayTimeOut} \subseteq BOOLEAN

\* Bound on attempt_count; without a wrong retry, only a fault can take a row
\* past MaxAttempts, and once per fault.
AttemptCap == MaxAttempts + MaxFaults + 1
Attempt == 1..AttemptCap

\* A call is the attempt of a row; its number stands for the random callUuid,
\* and 0 for a null call_uuid.
Calls == Dest \X Attempt
NoCall == 0

RowStatus == {"queued", "dialing", "answered", "completed", "failed",
              "expired", "skipped"}
Row == [status : RowStatus, call : Attempt \cup {NoCall},
        attempts : 0..AttemptCap, due : BOOLEAN, answeredAt : BOOLEAN]

CampaignStatus == {"queued", "running", "paused", "completed", "cancelled"}
Finished == {"completed", "cancelled"}

\* leg and cause are FreeSWITCH's; job is the originate promise: lost with the
\* connection, rejected, or thrown once its catch has written the row; answer
\* and hangup are events received whose first statement has not run; write is
\* what onCallHangup decided to do with the row it has read.
Call == [leg : {"none", "ringing", "talking", "gone"},
         cause : {"none", "retryable", "final"},
         job : {"none", "pending", "lost", "rejected", "thrown", "settled"},
         answer : BOOLEAN,
         hangup : BOOLEAN,
         write : {"none", "complete", "retry", "fail"}]

TickPc == {"idle", "starting", "started", "expiring", "completing",
           "counted", "dispatching"}
Tick == [pc : TickPc, seen : {"queued", "running"}, slots : 0..BatchSize,
         batch : SUBSET Dest]

VARIABLES
  campaign,   \* ens_campaigns.status
  row,        \* the rows, by destination
  call,       \* the calls, by row and attempt
  tick,       \* each engine's tick: where it is and what it has read
  api,        \* the cancel request between its two statements
  node,       \* is the backend process up?
  link,       \* is its ESL connection up?
  timedOut,   \* has campaign_timeout_min elapsed since started_at?
  faults      \* faults so far

vars == <<campaign, row, call, tick, api, node, link, timedOut, faults>>

NewRow == [status |-> "queued", call |-> NoCall, attempts |-> 0, due |-> TRUE,
           answeredAt |-> FALSE]
NewCall == [leg |-> "none", cause |-> "none", job |-> "none",
            answer |-> FALSE, hangup |-> FALSE, write |-> "none"]
IdleTick == [pc |-> "idle", seen |-> "queued", slots |-> 0, batch |-> {}]

\* createCampaignByConfigId inserts the campaign and its rows in one
\* transaction.
Init ==
  /\ campaign = "queued"
  /\ row = [d \in Dest |-> NewRow]
  /\ call = [c \in Calls |-> NewCall]
  /\ tick = [e \in Engine |-> IdleTick]
  /\ api = "idle"
  /\ node = "up" /\ link = "up"
  /\ timedOut = FALSE
  /\ faults = 0

-----------------------------------------------------------------------------
\* What the statements of the tick count.

InFlight == {d \in Dest : row[d].status \in {"dialing", "answered"}}
Queued == {d \in Dest : row[d].status = "queued"}
Ready == {d \in Queued : row[d].due}

\* An event, rejection or decision of the row's calls whose statement is still
\* to run, milliseconds later.
Settled(d) ==
  \A k \in Attempt : LET c == call[d, k] IN
    ~c.answer /\ ~c.hangup /\ c.write = "none" /\ c.job # "rejected"

\* Nothing will move the row any more: what 90 seconds without an update mean.
Quiet(d) ==
  /\ Settled(d)
  /\ \A e \in Engine : d \notin tick[e].batch
  /\ \A k \in Attempt : call[d, k].leg # "ringing"
                        /\ call[d, k].job \notin {"pending", "lost"}

SetTick(e, t) == tick' = [tick EXCEPT ![e] = t]
SetRow(d, r) == row' = [row EXCEPT ![d] = r]
SetCall(c, v) == call' = [call EXCEPT ![c] = v]
EndTick(e) == SetTick(e, IdleTick)
NoFault == UNCHANGED <<node, link, timedOut, faults>>

-----------------------------------------------------------------------------
\* The tick: processAllCampaigns and processCampaign.

\* A slip: the SELECT loses its status filter.
TickSelectAny(e) ==
  /\ node = "up"
  /\ tick[e].pc = "idle"
  /\ SetTick(e, [IdleTick EXCEPT
       !.pc = IF campaign = "queued" THEN "starting" ELSE "started",
       !.seen = campaign])
  /\ UNCHANGED <<campaign, row, call, api>> /\ NoFault

\* SELECT of the queued and running campaigns; what it read is not read again.
TickSelect(e) ==
  /\ node = "up"
  /\ tick[e].pc = "idle"
  /\ campaign \in {"queued", "running"}
  /\ SetTick(e, [IdleTick EXCEPT
       !.pc = IF campaign = "queued" THEN "starting" ELSE "started",
       !.seen = campaign])
  /\ UNCHANGED <<campaign, row, call, api>> /\ NoFault

\* queued -> running, guarded; the tick goes on even when the guard misses.
TickStart(e) ==
  /\ tick[e].pc = "starting"
  /\ campaign' = IF campaign = "queued" THEN "running" ELSE campaign
  /\ SetTick(e, [tick[e] EXCEPT !.pc = "started"])
  /\ UNCHANGED <<row, call, api>> /\ NoFault

\* started_at is null in the snapshot of a queued campaign.
PastTimeout(e) == tick[e].seen = "running" /\ timedOut

\* expireCampaign, first statement.
TickExpireRows(e) ==
  /\ tick[e].pc = "started" /\ PastTimeout(e)
  /\ row' = [d \in Dest |-> IF d \in Queued
                            THEN [row[d] EXCEPT !.status = "expired"]
                            ELSE row[d]]
  /\ SetTick(e, [tick[e] EXCEPT !.pc = "expiring"])
  /\ UNCHANGED <<campaign, call, api>> /\ NoFault

\* completeCampaign, and the second statement of expireCampaign.
TickFinish(e) ==
  /\ tick[e].pc \in {"expiring", "completing"}
  /\ campaign' = IF campaign = "running" THEN "completed" ELSE campaign
  /\ EndTick(e)
  /\ UNCHANGED <<row, call, api>> /\ NoFault

\* A slip: rows whose retry window has not opened do not block completion.
TickNothingReady(e) ==
  /\ tick[e].pc = "started" /\ ~PastTimeout(e)
  /\ Ready = {} /\ InFlight = {}
  /\ SetTick(e, [tick[e] EXCEPT !.pc = "completing"])
  /\ UNCHANGED <<campaign, row, call, api>> /\ NoFault

\* The count finds nothing ready, pending, dialing or answered.
TickNothingLeft(e) ==
  /\ tick[e].pc = "started" /\ ~PastTimeout(e)
  /\ Queued = {} /\ InFlight = {}
  /\ SetTick(e, [tick[e] EXCEPT !.pc = "completing"])
  /\ UNCHANGED <<campaign, row, call, api>> /\ NoFault

\* A plausible slip: the count forgets that an answered call holds its slot.
TickCountDialing(e, n) ==
  /\ tick[e].pc = "started" /\ ~PastTimeout(e)
  /\ n + Cardinality({d \in Dest : row[d].status = "dialing"}) <= MaxConcurrent
  /\ n <= Cardinality(Ready)
  /\ SetTick(e, [tick[e] EXCEPT !.pc = "counted", !.slots = n])
  /\ UNCHANGED <<campaign, row, call, api>> /\ NoFault

\* The count leaves n slots: at most what concurrency, batch size and ready
\* rows allow, and fewer when the calls-per-second window is used up.  A tick
\* that the window throttles to no slot at all changes nothing and is no step.
TickCount(e, n) ==
  /\ tick[e].pc = "started" /\ ~PastTimeout(e)
  /\ n + Cardinality(InFlight) <= MaxConcurrent
  /\ n <= Cardinality(Ready)
  /\ SetTick(e, [tick[e] EXCEPT !.pc = "counted", !.slots = n])
  /\ UNCHANGED <<campaign, row, call, api>> /\ NoFault

\* The count leaves no slot.
TickNoSlot(e) ==
  /\ tick[e].pc = "started" /\ ~PastTimeout(e)
  /\ Queued \cup InFlight # {}
  /\ Ready = {} \/ Cardinality(InFlight) >= MaxConcurrent
  /\ EndTick(e)
  /\ UNCHANGED <<campaign, row, call, api>> /\ NoFault

\* ensureCampaignTtsWav returned null: no row has been claimed yet.
TickNoMedia(e) ==
  /\ tick[e].pc = "counted"
  /\ faults < MaxFaults /\ faults' = faults + 1
  /\ EndTick(e)
  /\ UNCHANGED <<campaign, row, call, api, node, link, timedOut>>

\* A slip: the sub-select of the claim loses status = 'queued'.
TickClaimAny(e, S) ==
  /\ tick[e].pc = "counted"
  /\ S \subseteq {d \in Ready \cup InFlight : row[d].attempts < AttemptCap}
  /\ Cardinality(S) <= tick[e].slots
  /\ S # {}
  /\ row' = [d \in Dest |->
       IF d \in S THEN [row[d] EXCEPT !.status = "dialing", !.call = NoCall,
                                      !.attempts = @ + 1, !.due = TRUE]
       ELSE row[d]]
  /\ SetTick(e, [tick[e] EXCEPT !.pc = "dispatching", !.slots = 0,
                                !.batch = S])
  /\ UNCHANGED <<campaign, call, api>> /\ NoFault

\* The atomic claim.  SKIP LOCKED may pass over rows another statement holds;
\* the campaign's status is not looked at again.
TickClaim(e, S) ==
  /\ tick[e].pc = "counted"
  /\ S \subseteq {d \in Ready : row[d].attempts < AttemptCap}
  /\ Cardinality(S) <= tick[e].slots
  /\ S = {} => Ready = {}
  /\ row' = [d \in Dest |->
       IF d \in S THEN [row[d] EXCEPT !.status = "dialing", !.call = NoCall,
                                      !.attempts = @ + 1, !.due = TRUE]
       ELSE row[d]]
  /\ SetTick(e, IF S = {} THEN IdleTick
                ELSE [tick[e] EXCEPT !.pc = "dispatching", !.slots = 0,
                                     !.batch = S])
  /\ UNCHANGED <<campaign, call, api>> /\ NoFault

\* originateDestination: the fresh call_uuid by row id, then the command, not
\* awaited.  FreeSWITCH rings the leg or answers -ERR without one; with no ESL
\* connection the promise rejects at once.
TickOriginate(e, d) ==
  /\ tick[e].pc = "dispatching" /\ d \in tick[e].batch
  /\ LET k == row[d].attempts
         rest == tick[e].batch \ {d} IN
     /\ k \in Attempt
     /\ SetRow(d, [row[d] EXCEPT !.call = k])
     /\ \/ /\ link = "up"
           /\ SetCall(<<d, k>>, [call[d, k] EXCEPT !.leg = "ringing",
                                                   !.job = "pending"])
        \/ SetCall(<<d, k>>, [call[d, k] EXCEPT !.job = "rejected"])
     /\ SetTick(e, IF rest = {} THEN IdleTick
                   ELSE [tick[e] EXCEPT !.batch = rest])
  /\ UNCHANGED <<campaign, api>> /\ NoFault

-----------------------------------------------------------------------------
\* FreeSWITCH, external: a leg rings, is answered or not, and ends.  Events
\* and job results reach the backend only over a live connection.

Heard == node = "up" /\ link = "up"

LegAnswers(c) ==
  /\ call[c].leg = "ringing"
  /\ SetCall(c, [call[c] EXCEPT !.leg = "talking",
                 !.answer = Heard,
                 !.job = IF @ = "pending" THEN "settled" ELSE @])
  /\ UNCHANGED <<campaign, row, tick, api>> /\ NoFault

\* Busy, no answer, rejected...: the BACKGROUND_JOB of the originate ends with
\* the call, and its result may be an -ERR, which rejects the promise, or not.
LegFails(c, why) ==
  /\ call[c].leg = "ringing"
  /\ \E end \in {"rejected", "settled"} :
       SetCall(c, [call[c] EXCEPT !.leg = "gone", !.cause = why,
                   !.hangup = Heard,
                   !.job = IF @ = "pending" THEN end ELSE @])
  /\ UNCHANGED <<campaign, row, tick, api>> /\ NoFault

\* After an answer the cause is never one of RETRYABLE_CAUSES.
LegEnds(c) ==
  /\ call[c].leg = "talking"
  /\ SetCall(c, [call[c] EXCEPT !.leg = "gone", !.cause = "final",
                                !.hangup = Heard])
  /\ UNCHANGED <<campaign, row, tick, api>> /\ NoFault

-----------------------------------------------------------------------------
\* The event handlers.

OnCallAnswer(d, k) ==
  /\ call[d, k].answer
  /\ SetCall(<<d, k>>, [call[d, k] EXCEPT !.answer = FALSE])
  /\ IF row[d].call = k /\ row[d].status = "dialing"
     THEN SetRow(d, [row[d] EXCEPT !.status = "answered", !.answeredAt = TRUE])
     ELSE UNCHANGED row
  /\ UNCHANGED <<campaign, tick, api>> /\ NoFault

WasAnswered(d) == row[d].answeredAt \/ row[d].status = "answered"

\* Slips: every cause is retried; one attempt too many; one too few.
HangupWriteAnyCause(d, k) ==
  CASE row[d].call # k -> "none"
    [] row[d].call = k /\ WasAnswered(d) -> "complete"
    [] row[d].call = k /\ ~WasAnswered(d) ->
         IF row[d].attempts < MaxAttempts THEN "retry" ELSE "fail"

HangupWriteOver(d, k) ==
  CASE row[d].call # k -> "none"
    [] row[d].call = k /\ WasAnswered(d) -> "complete"
    [] row[d].call = k /\ ~WasAnswered(d) ->
         IF call[d, k].cause = "retryable" /\ row[d].attempts <= MaxAttempts
         THEN "retry" ELSE "fail"

HangupWriteUnder(d, k) ==
  CASE row[d].call # k -> "none"
    [] row[d].call = k /\ WasAnswered(d) -> "complete"
    [] row[d].call = k /\ ~WasAnswered(d) ->
         IF call[d, k].cause = "retryable" /\ row[d].attempts + 1 < MaxAttempts
         THEN "retry" ELSE "fail"

\* What onCallHangup will write, decided on the row its SELECT returned.
HangupWrite(d, k) ==
  CASE row[d].call # k -> "none"
    [] row[d].call = k /\ WasAnswered(d) -> "complete"
    [] row[d].call = k /\ ~WasAnswered(d) ->
         IF call[d, k].cause = "retryable" /\ row[d].attempts < MaxAttempts
         THEN "retry" ELSE "fail"

OnCallHangupRead(d, k) ==
  /\ call[d, k].hangup
  /\ SetCall(<<d, k>>, [call[d, k] EXCEPT !.hangup = FALSE,
                                          !.write = HangupWrite(d, k)])
  /\ UNCHANGED <<campaign, row, tick, api>> /\ NoFault

\* handleDestFailed updates by row id, whatever the row has become.
FailedRow(r) == [r EXCEPT !.status = "failed", !.call = NoCall]

\* The UPDATE of the branch taken, by row id and unguarded.
OnCallHangupWrite(d, k) ==
  /\ call[d, k].write # "none"
  /\ SetCall(<<d, k>>, [call[d, k] EXCEPT !.write = "none"])
  /\ SetRow(d, CASE call[d, k].write = "complete" ->
                      [row[d] EXCEPT !.status = "completed"]
                 [] call[d, k].write = "retry" ->
                      [row[d] EXCEPT !.status = "queued", !.due = FALSE,
                                     !.call = NoCall]
                 [] OTHER -> FailedRow(row[d]))
  /\ UNCHANGED <<campaign, tick, api>> /\ NoFault

\* The catch of originateCampaignCall: a -ERR reply, no connection, or no reply
\* within 40 seconds, when the leg has stopped ringing.
OriginateRejected(d, k) ==
  /\ \/ call[d, k].job = "rejected"
     \/ call[d, k].job = "lost" /\ call[d, k].leg # "ringing"
  /\ SetCall(<<d, k>>, [call[d, k] EXCEPT !.job = "thrown"])
  /\ SetRow(d, FailedRow(row[d]))
  /\ UNCHANGED <<campaign, tick, api>> /\ NoFault

\* next_attempt_at has come.
RetryDue(d) ==
  /\ row[d].status = "queued" /\ ~row[d].due /\ Settled(d)
  /\ SetRow(d, [row[d] EXCEPT !.due = TRUE])
  /\ UNCHANGED <<campaign, call, tick, api>> /\ NoFault

\* A slip: recovery looks only for rows that were given a call_uuid.
RecoverDialingCalled(d) ==
  /\ node = "up"
  /\ row[d].status = "dialing" /\ row[d].call # NoCall /\ Quiet(d)
  /\ SetRow(d, [row[d] EXCEPT !.status = "queued", !.due = FALSE,
                              !.call = NoCall])
  /\ UNCHANGED <<campaign, call, tick, api>> /\ NoFault

\* recoverStaleDialing, first statement: attempt_count is not looked at.
RecoverDialing(d) ==
  /\ node = "up"
  /\ row[d].status = "dialing" /\ Quiet(d)
  /\ SetRow(d, [row[d] EXCEPT !.status = "queued", !.due = FALSE,
                              !.call = NoCall])
  /\ UNCHANGED <<campaign, call, tick, api>> /\ NoFault

\* recoverStaleDialing, second statement; a message is shorter than 600 s.
RecoverAnswered(d) ==
  /\ node = "up"
  /\ row[d].status = "answered" /\ Quiet(d)
  /\ \A k \in Attempt : call[d, k].leg # "talking"
  /\ SetRow(d, [row[d] EXCEPT !.status = "completed", !.call = NoCall])
  /\ UNCHANGED <<campaign, call, tick, api>> /\ NoFault

-----------------------------------------------------------------------------
\* The operator.

Pause ==
  /\ OperatorActs /\ node = "up" /\ campaign = "running"
  /\ campaign' = "paused"
  /\ UNCHANGED <<row, call, tick, api>> /\ NoFault

Resume ==
  /\ OperatorActs /\ node = "up" /\ campaign = "paused"
  /\ campaign' = "running"
  /\ UNCHANGED <<row, call, tick, api>> /\ NoFault

\* A slip: cancelling skips every row that is not in a call.
CancelAllRows ==
  /\ OperatorActs /\ node = "up" /\ api = "idle"
  /\ row' = [d \in Dest |-> IF d \in InFlight THEN row[d]
                            ELSE [row[d] EXCEPT !.status = "skipped"]]
  /\ api' = "cancelling"
  /\ UNCHANGED <<campaign, call, tick>> /\ NoFault

\* cancelCampaign skips the queued rows before it looks at the campaign.
CancelRows ==
  /\ OperatorActs /\ node = "up" /\ api = "idle"
  /\ row' = [d \in Dest |-> IF d \in Queued
                            THEN [row[d] EXCEPT !.status = "skipped"]
                            ELSE row[d]]
  /\ api' = "cancelling"
  /\ UNCHANGED <<campaign, call, tick>> /\ NoFault

CancelCampaign ==
  /\ api = "cancelling"
  /\ campaign' = IF campaign \in Finished THEN campaign ELSE "cancelled"
  /\ api' = "idle"
  /\ UNCHANGED <<row, call, tick>> /\ NoFault

-----------------------------------------------------------------------------
\* The clock, crashes and the ESL connection.

TimeOut ==
  /\ MayTimeOut /\ ~timedOut /\ campaign # "queued"
  /\ timedOut' = TRUE
  /\ UNCHANGED <<campaign, row, call, tick, api, node, link, faults>>

\* The process dies: ticks, promises, received events and decisions with it.
Crash ==
  /\ node = "up" /\ faults < MaxFaults
  /\ faults' = faults + 1
  /\ node' = "down" /\ link' = "down"
  /\ tick' = [e \in Engine |-> IdleTick]
  /\ api' = "idle"
  /\ call' = [c \in Calls |->
       [call[c] EXCEPT !.answer = FALSE, !.hangup = FALSE, !.write = "none",
                       !.job = IF @ \in {"none", "thrown"} THEN @
                               ELSE "settled"]]
  /\ UNCHANGED <<campaign, row, timedOut>>

Restart ==
  /\ node = "down"
  /\ node' = "up"
  /\ UNCHANGED <<campaign, row, call, tick, api, link, timedOut, faults>>

\* The connection drops: replies still awaited will never come.
LinkDrops ==
  /\ node = "up" /\ link = "up" /\ faults < MaxFaults
  /\ faults' = faults + 1
  /\ link' = "down"
  /\ call' = [c \in Calls |->
       [call[c] EXCEPT !.job = IF @ = "pending" THEN "lost" ELSE @]]
  /\ UNCHANGED <<campaign, row, tick, api, node, timedOut>>

LinkReturns ==
  /\ node = "up" /\ link = "down"
  /\ link' = "up"
  /\ UNCHANGED <<campaign, row, call, tick, api, node, timedOut, faults>>

-----------------------------------------------------------------------------
TickStep(e) ==
  \/ TickSelect(e) \/ TickStart(e) \/ TickExpireRows(e) \/ TickFinish(e)
  \/ TickNothingLeft(e) \/ TickNoSlot(e)
  \/ \E n \in 1..BatchSize : TickCount(e, n)
  \/ \E S \in SUBSET Dest : TickClaim(e, S)
  \/ \E d \in Dest : TickOriginate(e, d)

SwitchStep(c) ==
  LegAnswers(c) \/ LegEnds(c) \/ \E why \in {"retryable", "final"} : LegFails(c, why)

HandlerStep(d, k) ==
  \/ OnCallAnswer(d, k) \/ OnCallHangupRead(d, k) \/ OnCallHangupWrite(d, k)
  \/ OriginateRejected(d, k)

RowStep(d) == RetryDue(d) \/ RecoverDialing(d) \/ RecoverAnswered(d)

OperatorStep == Pause \/ Resume \/ CancelRows \/ CancelCampaign

FaultStep == Crash \/ LinkDrops \/ \E e \in Engine : TickNoMedia(e)

Next ==
  \/ \E e \in Engine : TickStep(e)
  \/ \E d \in Dest, k \in Attempt : SwitchStep(<<d, k>>) \/ HandlerStep(d, k)
  \/ \E d \in Dest : RowStep(d)
  \/ OperatorStep \/ TimeOut \/ FaultStep \/ Restart \/ LinkReturns

\* setInterval fires the tick; a call ends by originate_timeout or with the
\* message; statements return; timers run; the supervisor restarts the process
\* and the ESL client reconnects.  Operators and faults owe nothing.
Fairness ==
  /\ \A e \in Engine : WF_vars(TickStep(e))
  /\ \A d \in Dest, k \in Attempt :
       WF_vars(SwitchStep(<<d, k>>)) /\ WF_vars(HandlerStep(d, k))
  /\ \A d \in Dest : WF_vars(RowStep(d))
  /\ WF_vars(CancelCampaign) /\ WF_vars(Restart) /\ WF_vars(LinkReturns)

Spec == Init /\ [][Next]_vars
FairSpec == Spec /\ Fairness

-----------------------------------------------------------------------------
(* Properties *)

\* Every variable holds a value of its column or field.
TypeOK ==
  /\ campaign \in CampaignStatus
  /\ row \in [Dest -> Row]
  /\ call \in [Calls -> Call]
  /\ tick \in [Engine -> Tick]
  /\ api \in {"idle", "cancelling"}
  /\ node \in {"up", "down"} /\ link \in {"up", "down"}
  /\ timedOut \in BOOLEAN
  /\ faults \in 0..MaxFaults

\* The rows that hold a slot, dialing or answered, never exceed max_concurrent:
\* the tick counts them, awaits a speech synthesis and only then claims, while
\* handlers, recovery and the operator move rows underneath it.
ConcurrencyBound == Cardinality(InFlight) <= MaxConcurrent

LiveLegs == {c \in Calls : call[c].leg \in {"ringing", "talking"}}

\* A call FreeSWITCH carries belongs to a row that still holds a slot and still
\* has the call's UUID, so its answer and hangup will find the row.
LiveLegOwned ==
  \A d \in Dest, k \in Attempt :
    <<d, k>> \in LiveLegs =>
      row[d].call = k /\ row[d].status \in {"dialing", "answered"}

\* No contact is dialled more often than max_attempts, but for one attempt more
\* with each fault: the claim does not look at attempt_count, nor does recovery.
AttemptsBounded == \A d \in Dest : row[d].attempts <= MaxAttempts + faults

\* A contact whose last call ended with a retryable cause, with attempts left,
\* is not given up as failed (docs/15-ens-guide.md:351).
RetryableNotFailed ==
  \A d \in Dest :
    row[d].status = "failed" /\ row[d].attempts \in 1..(MaxAttempts - 1) =>
      call[d, row[d].attempts].cause # "retryable"

\* The catch of a rejected originate of the row has written it.
CatchWrote(d) == \E k \in Attempt : call[d, k].job = "thrown"

\* A contact is given up with attempts left only for a cause that is not to be
\* retried, or by the catch of an originate, which does not look at the cause:
\* no overlap of the two handlers of a call, of recovery or of another engine
\* loses a retry otherwise.
FailedForCause ==
  \A d \in Dest :
    row[d].status = "failed" /\ row[d].attempts \in 1..(MaxAttempts - 1) =>
      call[d, row[d].attempts].cause # "retryable" \/ CatchWrote(d)

\* No new call is placed to a contact that is listening or has answered.
AnsweredNotRedialled ==
  [][\A d \in Dest, k \in Attempt :
       (row[d].answeredAt \/ \E j \in Attempt : call[d, j].leg = "talking") =>
         ~(call[d, k].leg # "ringing" /\ call'[d, k].leg = "ringing")]_vars

SettledStatus == {"completed", "failed", "expired", "skipped"}

\* A destination once reported as delivered, failed, expired or skipped keeps
\* that report: a handler that writes by row id does not overwrite it, unless
\* the catch of a rejected originate has put in a report of its own.
SettledStaysSettled ==
  [][\A d \in Dest : row[d].status \in SettledStatus =>
       row'[d].status = row[d].status \/ CatchWrote(d)']_vars

\* A completed campaign has settled every destination.  The exceptions: one in
\* a call when the deadline passed, and one that the catch of a rejected
\* originate wrote while its hangup was being handled.
CompletedIsResolved ==
  campaign = "completed" =>
    \A d \in Dest : \/ row[d].status \in SettledStatus
                    \/ timedOut /\ row[d].attempts > 0
                    \/ CatchWrote(d)

\* A campaign that operators stop pausing finishes, through a crash or a loss of
\* events: no row is left dialing or queued for ever.
Finishes == []<>(campaign = "paused") \/ <>(campaign \in Finished)

=============================================================================
