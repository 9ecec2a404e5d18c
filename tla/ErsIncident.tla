----------------------------- MODULE ErsIncident -----------------------------
(***************************************************************************)
(* The emergency calls of one ERS configuration: the endpoints ring-all,    *)
(* tier-status, overflow/enqueue, overflow/poll and complete of             *)
(* controllers/internal/ersInternalController.js, the Lua handlers that     *)
(* call them (nodeTypes/registry.js), and the two reconciliations of        *)
(* eslService.js.  The module ErsRing adds the ring loop of a room.         *)
(*                                                                         *)
(* A step is one transaction, or one read of the live member count with the *)
(* decision taken on it.  Rooms are those of a STATIC configuration, one    *)
(* per tier, so a tier stands for its room.  People other than the callers  *)
(* of the model, responders or someone who dialled the bridge number, count *)
(* as one.                                                                  *)
(*                                                                         *)
(* Time.  A caller stops waiting (max_wait_seconds is at most an hour)      *)
(* before his queue row expires (2 h).                                      *)
(***************************************************************************)
EXTENDS Naturals, FiniteSets

CONSTANTS
  Caller,        \* the emergency calls of a run, each dialled once
  Tier,          \* the tiers followed; one left out stays occupied by others
  NoCaller,      \* a null incident UUID
  Graph,         \* the IVR graph: {"check"}, {"primary"}, or both
  OperatorActs,  \* may an operator cancel queued incidents?
  MaxFaults      \* bound: crashes of the backend and drops of the ESL

ASSUME IncidentAssumption ==
  /\ IsFiniteSet(Caller) /\ Caller # {} /\ NoCaller \notin Caller
  /\ "primary" \in Tier /\ Tier \subseteq {"primary", "secondary"}
  /\ Graph \subseteq {"check", "primary"}
  /\ OperatorActs \in BOOLEAN
  /\ MaxFaults \in Nat

N == Cardinality(Caller)

\* The steps of a call: dialled, sent to ring-all, inside ring-all's
\* transaction with the tier seen empty, sent to the queue, holding, holding
\* with a poll that saw a free tier, sent to the room, in it, and out of it
\* with the completion still to be posted.
Pc == {"out", "routed", "creating", "queueing", "waiting", "promoting",
       "bridging", "in", "left", "done"}

\* uuid is the incident the call was given, named by the caller it was
\* created for.
Call == [pc : Pc, tier : Tier, uuid : Caller \cup {NoCaller}]

IncidentStatus == {"none", "QUEUED", "ACTIVE", "COMPLETED", "CANCELLED"}
Incident == [status : IncidentStatus, tier : Tier, started : 0..N]

RowStatus == {"none", "QUEUED", "DEQUEUED", "CANCELLED", "EXPIRED"}
Row == [status : RowStatus, position : 0..N]

\* reconcileOrphanedIncident of a room: completing the incidents it found, or
\* those it found active after that.
Recon == [pc : {"idle", "first", "second"}, todo : SUBSET Caller]

VARIABLES
  call,       \* each call, as its Lua session and its request see it
  incident,   \* ers_incidents, by the caller of its creation
  row,        \* ers_queues, by the caller of its incident
  others,     \* is anyone else in the room?
  destroyed,  \* a conference-destroy event not handled yet
  recon,      \* reconcileOrphanedIncident at work
  sweep,      \* the incident whose room the 30 s sweep has just found empty
  node, link, \* is the backend up, is its ESL connection?
  faults

vars == <<call, incident, row, others, destroyed, recon, sweep, node, link,
          faults>>
switch == <<others, destroyed>>
jobs == <<recon, sweep>>
health == <<node, link, faults>>

NewCall == [pc |-> "out", tier |-> "primary", uuid |-> NoCaller]
Ended == [NewCall EXCEPT !.pc = "done"]
NewIncident == [status |-> "none", tier |-> "primary", started |-> 0]
NewRow == [status |-> "none", position |-> 0]
NoRecon == [pc |-> "idle", todo |-> {}]

\* People may have dialled a bridge number before the first emergency.
Init ==
  /\ call = [c \in Caller |-> NewCall]
  /\ incident = [c \in Caller |-> NewIncident]
  /\ row = [c \in Caller |-> NewRow]
  /\ others \in [Tier -> BOOLEAN]
  /\ destroyed = [t \in Tier |-> FALSE]
  /\ recon = [t \in Tier |-> NoRecon]
  /\ sweep = NoCaller
  /\ node = "up" /\ link = "up"
  /\ faults = 0

-----------------------------------------------------------------------------
\* The room, and what getConferenceMemberCount reports of it: nothing, when
\* the ESL command fails.

Inside(t) == {c \in Caller : call[c].pc = "in" /\ call[c].tier = t}
Members(t) == Cardinality(Inside(t)) + (IF others[t] THEN 1 ELSE 0)
Seen(t) == IF link = "up" THEN Members(t) ELSE 0
Occupied(t) == Seen(t) # 0

\* Level 1 goes before level 2.
Free == {t \in Tier : ~Occupied(t)}
FirstFree == IF "primary" \in Free THEN {"primary"} ELSE Free

\* The incident tierLiveStatus names for an occupied tier: the one started
\* last whose group_type is the tier, whatever its status.
OfTier(t) == {c \in Caller : incident[c].status # "none" /\ incident[c].tier = t}
IsLatest(u, t) ==
  IF OfTier(t) = {} THEN u = NoCaller
  ELSE /\ u \in OfTier(t)
       /\ \A c \in OfTier(t) : incident[c].started <= incident[u].started

\* started_at of an incident created now.
Now == Cardinality({c \in Caller : incident[c].status # "none"}) + 1

Queued == {c \in Caller : row[c].status = "QUEUED"}

\* A slip: the ORDER BY of the head's SELECT is lost.
AnyQueued == Queued

\* ORDER BY position LIMIT 1 picks one of these.
Heads == {c \in Queued : \A d \in Queued : row[c].position <= row[d].position}

SetCall(c, r) == call' = [call EXCEPT ![c] = r]
Go(c, pc) == SetCall(c, [call[c] EXCEPT !.pc = pc])

\* completeIncidentCore, one transaction: complete the incident unless it is,
\* and give its tier to the head of the queue.
CompleteIncidentCore(u) ==
  IF u = NoCaller \/ incident[u].status \in {"none", "COMPLETED"}
  THEN UNCHANGED <<incident, row>>
  ELSE LET closed == [incident EXCEPT ![u].status = "COMPLETED"] IN
       \/ Queued = {} /\ incident' = closed /\ UNCHANGED row
       \/ \E h \in Heads :
            /\ row' = [row EXCEPT ![h].status = "DEQUEUED"]
            /\ incident' = [closed EXCEPT ![h].status = "ACTIVE",
                                          ![h].tier = incident[u].tier]

-----------------------------------------------------------------------------
\* The call, up to its room.

\* exec_ers_overflow_check, or a graph that goes straight to ring-all.
Dial(c) ==
  /\ call[c].pc = "out" /\ node = "up"
  /\ \/ "primary" \in Graph /\ Go(c, "routed")
     \/ /\ "check" \in Graph
        /\ IF Free = {} THEN Go(c, "queueing")
           ELSE \E t \in FirstFree :
                  SetCall(c, [call[c] EXCEPT !.pc = "routed", !.tier = t])
  /\ UNCHANGED <<incident, row, switch, jobs, health>>

\* pg_advisory_xact_lock is held by the one call that is creating.
LockFree == \A d \in Caller : call[d].pc # "creating"

\* ersRingAll finds the tier occupied: the caller is given its last incident.
RingAllRejoin(c, u) ==
  /\ call[c].pc = "routed" /\ node = "up" /\ LockFree
  /\ Occupied(call[c].tier)
  /\ IsLatest(u, call[c].tier)
  /\ SetCall(c, [call[c] EXCEPT !.pc = "bridging", !.uuid = u])
  /\ UNCHANGED <<incident, row, switch, jobs, health>>

\* ersRingAll finds it empty, under the lock.
RingAllCheck(c) ==
  /\ call[c].pc = "routed" /\ node = "up" /\ LockFree
  /\ ~Occupied(call[c].tier)
  /\ Go(c, "creating")
  /\ UNCHANGED <<incident, row, switch, jobs, health>>

\* The INSERT, the commit that releases the lock, and the reply.
RingAllCreate(c) ==
  /\ call[c].pc = "creating"
  /\ incident' = [incident EXCEPT ![c] = [status |-> "ACTIVE",
                    tier |-> call[c].tier, started |-> Now]]
  /\ SetCall(c, [call[c] EXCEPT !.pc = "bridging", !.uuid = c])
  /\ UNCHANGED <<row, switch, jobs, health>>

\* ersOverflowEnqueue.  Its FOR UPDATE serialises it behind rows that exist;
\* transactions S that find the queue empty lock nothing and read the same
\* maximum position.
Enqueue(S, p) ==
  /\ S # {} /\ \A c \in S : call[c].pc = "queueing"
  /\ node = "up"
  /\ IF Queued = {} THEN p = 1
     ELSE /\ \E c \in Caller : S = {c}
          /\ \E d \in Queued : row[d].position + 1 = p
          /\ \A d \in Queued : row[d].position < p
  /\ row' = [c \in Caller |->
       IF c \in S THEN [status |-> "QUEUED", position |-> p] ELSE row[c]]
  /\ incident' = [c \in Caller |->
       IF c \in S THEN [status |-> "QUEUED", tier |-> "primary", started |-> Now]
       ELSE incident[c]]
  /\ call' = [c \in Caller |->
       IF c \in S THEN [call[c] EXCEPT !.pc = "waiting", !.uuid = c] ELSE call[c]]
  /\ UNCHANGED <<switch, jobs, health>>

\* ersOverflowPoll: the row has been dequeued by a completion.
PollReady(c) ==
  /\ call[c].pc = "waiting" /\ node = "up"
  /\ row[c].status = "DEQUEUED"
  /\ SetCall(c, [call[c] EXCEPT !.pc = "bridging", !.tier = incident[c].tier])
  /\ UNCHANGED <<incident, row, switch, jobs, health>>

\* ...cancelled: the graph's fallback node takes over.
PollCancelled(c) ==
  /\ call[c].pc = "waiting" /\ node = "up"
  /\ row[c].status = "CANCELLED"
  /\ SetCall(c, Ended)
  /\ UNCHANGED <<incident, row, switch, jobs, health>>

\* ...at the head, with a tier seen empty.
PollSeesFree(c) ==
  /\ call[c].pc = "waiting" /\ node = "up"
  /\ c \in Heads
  /\ \E t \in FirstFree :
       SetCall(c, [call[c] EXCEPT !.pc = "promoting", !.tier = t])
  /\ UNCHANGED <<incident, row, switch, jobs, health>>

\* A slip: the promotion trusts the status read before the transaction.
PollPromoteBlind(c) ==
  /\ call[c].pc = "promoting"
  /\ row' = [row EXCEPT ![c].status = "DEQUEUED"]
  /\ incident' = [incident EXCEPT ![c].status = "ACTIVE",
                                  ![c].tier = call[c].tier]
  /\ Go(c, "bridging")
  /\ UNCHANGED <<switch, jobs, health>>

\* The promotion's transaction looks at the row again.
PollPromote(c) ==
  /\ call[c].pc = "promoting"
  /\ IF row[c].status = "QUEUED"
     THEN /\ row' = [row EXCEPT ![c].status = "DEQUEUED"]
          /\ incident' = [incident EXCEPT ![c].status = "ACTIVE",
                                          ![c].tier = call[c].tier]
          /\ Go(c, "bridging")
     ELSE Go(c, "waiting") /\ UNCHANGED <<incident, row>>
  /\ UNCHANGED <<switch, jobs, health>>

\* A waiting caller hangs up or reaches max_wait_seconds; exec_ers_overflow_wait
\* then returns and tells the backend nothing.
GiveUp(c) ==
  /\ call[c].pc = "waiting"
  /\ SetCall(c, Ended)
  /\ UNCHANGED <<incident, row, switch, jobs, health>>

-----------------------------------------------------------------------------
\* The call in its room, and its end.

\* FreeSWITCH tells the backend when the last member leaves.
Emptied(t, rest) ==
  destroyed' = IF rest = 0 /\ node = "up" /\ link = "up"
               THEN [destroyed EXCEPT ![t] = TRUE] ELSE destroyed

Join(c) ==
  /\ call[c].pc = "bridging"
  /\ Go(c, "in")
  /\ UNCHANGED <<incident, row, switch, jobs, health>>

\* The conference application returns at once on a dead session.
HangUpEarly(c) ==
  /\ call[c].pc = "bridging"
  /\ Go(c, "left")
  /\ UNCHANGED <<incident, row, switch, jobs, health>>

Leave(c) ==
  /\ call[c].pc = "in"
  /\ Go(c, "left")
  /\ Emptied(call[c].tier, Members(call[c].tier) - 1)
  /\ UNCHANGED <<incident, row, others, jobs, health>>

\* The Lua handler posts complete once its own leg has left, whoever else is
\* in the room; a post that fails is not repeated.
Complete(c) ==
  /\ call[c].pc = "left"
  /\ SetCall(c, Ended)
  /\ IF node = "up" THEN CompleteIncidentCore(call[c].uuid)
     ELSE UNCHANGED <<incident, row>>
  /\ UNCHANGED <<switch, jobs, health>>

\* A backend that is down answers nothing: the call is ended or falls back.
RequestFails(c) ==
  /\ call[c].pc \in {"routed", "queueing"} /\ node = "down"
  /\ SetCall(c, Ended)
  /\ UNCHANGED <<incident, row, switch, jobs, health>>

\* Responders are rung once the tier has had an incident, and may answer when
\* its caller has left.
OthersJoin(t) ==
  /\ ~others[t] /\ OfTier(t) # {}
  /\ others' = [others EXCEPT ![t] = TRUE]
  /\ UNCHANGED <<call, incident, row, destroyed, jobs, health>>

OthersLeave(t) ==
  /\ others[t]
  /\ others' = [others EXCEPT ![t] = FALSE]
  /\ Emptied(t, Members(t) - 1)
  /\ UNCHANGED <<call, incident, row, jobs, health>>

-----------------------------------------------------------------------------
\* reconcileOrphanedIncident, on conference-destroy.

ActiveIn(t) == {c \in Caller : incident[c].status = "ACTIVE" /\ incident[c].tier = t}
SetRecon(t, pc, todo) == recon' = [recon EXCEPT ![t] = [pc |-> pc, todo |-> todo]]

ReconcileRead(t) ==
  /\ destroyed[t] /\ recon[t].pc = "idle"
  /\ destroyed' = [destroyed EXCEPT ![t] = FALSE]
  /\ IF ActiveIn(t) = {} THEN UNCHANGED recon
     ELSE SetRecon(t, "first", ActiveIn(t))
  /\ UNCHANGED <<call, incident, row, others, sweep, health>>

ReconcileComplete(t, c) ==
  /\ c \in recon[t].todo
  /\ CompleteIncidentCore(c)
  /\ SetRecon(t, recon[t].pc, recon[t].todo \ {c})
  /\ UNCHANGED <<call, switch, sweep, health>>

\* What is still active in the room, and the room still empty?
ReconcileAgain(t) ==
  /\ recon[t].pc # "idle" /\ recon[t].todo = {}
  /\ IF recon[t].pc = "first" /\ ~Occupied(t) /\ ActiveIn(t) # {}
     THEN SetRecon(t, "second", ActiveIn(t))
     ELSE SetRecon(t, "idle", {})
  /\ UNCHANGED <<call, incident, row, switch, sweep, health>>

-----------------------------------------------------------------------------
\* reconcileAllActiveIncidents, every 30 seconds, with a live ESL connection.

\* A slip: the sweep's query asks for the wrong status.
SweepCountQueued(c) ==
  /\ node = "up" /\ link = "up" /\ sweep = NoCaller
  /\ incident[c].status = "QUEUED" /\ Members(incident[c].tier) = 0
  /\ sweep' = c
  /\ UNCHANGED <<call, incident, row, switch, recon, health>>

SweepCount(c) ==
  /\ node = "up" /\ link = "up" /\ sweep = NoCaller
  /\ incident[c].status = "ACTIVE" /\ Members(incident[c].tier) = 0
  /\ sweep' = c
  /\ UNCHANGED <<call, incident, row, switch, recon, health>>

SweepComplete ==
  /\ sweep # NoCaller
  /\ CompleteIncidentCore(sweep)
  /\ sweep' = NoCaller
  /\ UNCHANGED <<call, switch, recon, health>>

\* A slip: only rows whose incident is already closed expire.
SweepExpireClosed(c) ==
  /\ node = "up" /\ link = "up"
  /\ row[c].status = "QUEUED" /\ call[c].pc = "done"
  /\ incident[c].status = "COMPLETED"
  /\ row' = [row EXCEPT ![c].status = "EXPIRED"]
  /\ UNCHANGED <<call, incident, switch, jobs, health>>

\* A row two hours old; its caller has long given up.
SweepExpire(c) ==
  /\ node = "up" /\ link = "up"
  /\ row[c].status = "QUEUED" /\ call[c].pc = "done"
  /\ row' = [row EXCEPT ![c].status = "EXPIRED"]
  /\ UNCHANGED <<call, incident, switch, jobs, health>>

\* A queued incident without a queued row.
SweepOrphan(c) ==
  /\ node = "up" /\ link = "up"
  /\ incident[c].status = "QUEUED" /\ row[c].status # "QUEUED"
  /\ CompleteIncidentCore(c)
  /\ UNCHANGED <<call, switch, jobs, health>>

-----------------------------------------------------------------------------
\* A slip: the cancel forgets the queue row.
OperatorCancelIncident(c) ==
  /\ OperatorActs /\ node = "up"
  /\ incident[c].status = "QUEUED"
  /\ incident' = [incident EXCEPT ![c].status = "CANCELLED"]
  /\ UNCHANGED <<call, row, switch, jobs, health>>

\* cancelQueuedIncident, from the dashboard.
OperatorCancel(c) ==
  /\ OperatorActs /\ node = "up"
  /\ incident[c].status = "QUEUED"
  /\ incident' = [incident EXCEPT ![c].status = "CANCELLED"]
  /\ row' = IF row[c].status = "QUEUED"
            THEN [row EXCEPT ![c].status = "CANCELLED"] ELSE row
  /\ UNCHANGED <<call, switch, jobs, health>>

\* The backend dies: its transactions roll back, its loops and handlers are
\* gone, the requests it was serving fail.
Crash ==
  /\ node = "up" /\ faults < MaxFaults
  /\ faults' = faults + 1 /\ node' = "down" /\ link' = "down"
  /\ call' = [c \in Caller |->
       CASE call[c].pc = "creating" -> Ended
         [] call[c].pc = "promoting" -> [call[c] EXCEPT !.pc = "waiting"]
         [] OTHER -> call[c]]
  /\ recon' = [t \in Tier |-> NoRecon]
  /\ destroyed' = [t \in Tier |-> FALSE]
  /\ sweep' = NoCaller
  /\ UNCHANGED <<incident, row, others>>

Restart ==
  /\ node = "down" /\ node' = "up"
  /\ UNCHANGED <<call, incident, row, switch, jobs, link, faults>>

LinkDrops ==
  /\ node = "up" /\ link = "up" /\ faults < MaxFaults
  /\ faults' = faults + 1 /\ link' = "down"
  /\ UNCHANGED <<call, incident, row, switch, jobs, node>>

LinkReturns ==
  /\ node = "up" /\ link = "down" /\ link' = "up"
  /\ UNCHANGED <<call, incident, row, switch, jobs, node, faults>>

-----------------------------------------------------------------------------
RingAllStep(c) ==
  \/ RingAllCheck(c) \/ RingAllCreate(c) \/ RequestFails(c)
  \/ \E u \in Caller \cup {NoCaller} : RingAllRejoin(c, u)

PollStep(c) ==
  PollReady(c) \/ PollCancelled(c) \/ PollSeesFree(c) \/ PollPromote(c)

RoomStep(c) == Join(c) \/ HangUpEarly(c) \/ Leave(c) \/ Complete(c)

ReconcileStep(t) ==
  \/ ReconcileRead(t) \/ ReconcileAgain(t)
  \/ \E c \in Caller : ReconcileComplete(t, c)

SweepStep == SweepComplete \/ \E c \in Caller : SweepCount(c)

RowStep(c) == SweepExpire(c) \/ SweepOrphan(c)

Next ==
  \/ \E c \in Caller :
       \/ Dial(c) \/ RingAllStep(c) \/ PollStep(c) \/ GiveUp(c) \/ RoomStep(c)
       \/ RowStep(c) \/ OperatorCancel(c)
  \/ \E S \in SUBSET Caller, p \in 0..N : Enqueue(S, p)
  \/ \E t \in Tier :
       OthersJoin(t) \/ OthersLeave(t) \/ ReconcileStep(t)
  \/ SweepStep \/ Crash \/ Restart \/ LinkDrops \/ LinkReturns

Spec == Init /\ [][Next]_vars

-----------------------------------------------------------------------------
(* Properties *)

\* Every variable holds a value of its column or field.
TypeOK ==
  /\ call \in [Caller -> Call]
  /\ incident \in [Caller -> Incident]
  /\ row \in [Caller -> Row]
  /\ \A c \in Queued : row[c].position > 0
  /\ others \in [Tier -> BOOLEAN]
  /\ destroyed \in [Tier -> BOOLEAN]
  /\ recon \in [Tier -> Recon]
  /\ sweep \in Caller \cup {NoCaller}
  /\ node \in {"up", "down"} /\ link \in {"up", "down"}
  /\ faults \in 0..MaxFaults

\* A queue row and its incident tell the same story, although they are written
\* by polls, completions, cancels and sweeps: a row still queued belongs to no
\* active incident, so nobody is promoted twice, and a queued incident is either
\* still in the queue or about to be swept.
QueueMatchesIncident ==
  \A c \in Caller :
    /\ row[c].status = "QUEUED" => incident[c].status \in {"QUEUED", "COMPLETED"}
    /\ row[c].status = "DEQUEUED" => incident[c].status \in {"ACTIVE", "COMPLETED"}
    /\ row[c].status = "CANCELLED" => incident[c].status \in {"CANCELLED", "COMPLETED"}
    /\ incident[c].status = "QUEUED" => row[c].status \in {"QUEUED", "EXPIRED"}

\* A queue row leaves the queue once: a poll that decided before a cancel, a
\* completion or an expiry does not overwrite it.
RowSettled ==
  [][\A c \in Caller : row[c].status \in {"DEQUEUED", "CANCELLED", "EXPIRED"} =>
       row'[c] = row[c]]_vars

\* Callers are promoted in the order of their positions, by polls and by
\* completions alike, also when the poll looked at the queue before another
\* caller entered or left it.
PromotedInOrder ==
  [][\A c, d \in Caller :
       /\ row[c].status = "QUEUED" /\ row'[c].status = "DEQUEUED"
       /\ row[d].status = "QUEUED"
       => row[c].position <= row[d].position]_vars

\* Ring-all creates one incident for a tier, however many callers dial at once.
OneActivePerTier == \A t \in Tier : Cardinality(ActiveIn(t)) <= 1

=============================================================================
