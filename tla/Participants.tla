---------------------------- MODULE Participants ----------------------------
(***************************************************************************)
(* What an incident's report says of one responder: the status of the      *)
(* responder row and the presence rows of the participant.  Several legs   *)
(* may call the responder, one per wave and tier.  Each conference or      *)
(* hangup event starts a task of queries that nobody awaits; the ring loop *)
(* and the completion of the incident write the same rows.  The rows of    *)
(* the initiator are left out.  FreeSWITCH and its events are external.    *)
(***************************************************************************)
EXTENDS Naturals, Sequences, FiniteSets

CONSTANTS
  Leg,       \* the calls made to the responder
  MaxFaults  \* bound on lost events

ASSUME ParticipantsAssumption == IsFiniteSet(Leg) /\ MaxFaults \in Nat

VARIABLES
  incident,   \* status of the incident
  responder,  \* status of the responder row, "none" without one
  rows,       \* the participant's rows, oldest first
  leg,        \* where each call is
  registered, \* legs the registry holds as members
  channel,    \* ersChannelMap: the legs whose responder is known
  join,       \* the task of each leg's add-member
  found,      \* the row that task has found
  leave,      \* ... of its del-member
  hangup,     \* ... of its CHANNEL_HANGUP, and the cause
  answered,   \* history: some join task has recorded the responder
  lost,       \* history: legs whose del-member was lost, since rows were last closed
  late,       \* history: legs whose join was recorded after their end, since then
  faults

history == <<answered, lost, late>>
calls == <<leg, registered, channel>>
tasks == <<join, found, leave, hangup>>
vars == <<incident, responder, rows, calls, tasks, history, faults>>

\* mapHangupCauseToStatus, one cause of each kind.
CauseStatus ==
  [ USER_BUSY |-> "BUSY", NO_ANSWER |-> "NO_ANSWER", CALL_REJECTED |-> "REJECTED",
    ORIGINATOR_CANCEL |-> "TIMEOUT", NORMAL_CLEARING |-> "JOINED",
    MEDIA_TIMEOUT |-> "FAILED" ]
Cause == DOMAIN CauseStatus

Status == {"INVITED", "JOINED", "REJOINED", "MISSED"}
          \cup {CauseStatus[c] : c \in Cause}

TypeOK ==
  /\ incident \in {"ACTIVE", "COMPLETED"}
  /\ responder \in Status \cup {"none"}
  /\ rows \in Seq({"open", "closed"}) /\ Len(rows) <= Cardinality(Leg)
  /\ leg \in [Leg -> {"new", "in", "left", "gone"}]
  /\ registered \in SUBSET Leg /\ channel \in SUBSET Leg
  /\ join \in [Leg -> {"none", "begun", "resolved", "looked", "inserted",
                       "reopened", "done"}]
  /\ found \in [Leg -> 0..Len(rows)]
  /\ leave \in [Leg -> {"none", "begun", "done"}]
  /\ hangup \in [Leg -> Cause \cup {"none", "done"}]
  /\ answered \in BOOLEAN /\ lost \in SUBSET Leg /\ late \in SUBSET Leg
  /\ faults \in 0..MaxFaults

Init ==
  /\ incident = "ACTIVE" /\ responder = "none" /\ rows = << >>
  /\ leg = [l \in Leg |-> "new"] /\ registered = {} /\ channel = {}
  /\ join = [l \in Leg |-> "none"] /\ found = [l \in Leg |-> 0]
  /\ leave = [l \in Leg |-> "none"] /\ hangup = [l \in Leg |-> "none"]
  /\ answered = FALSE /\ lost = {} /\ late = {}
  /\ faults = 0

Fault == faults < MaxFaults /\ faults' = faults + 1
Moves(l, from, to) == leg[l] = from /\ leg' = [leg EXCEPT ![l] = to]
Task(l, from, to) == join[l] = from /\ join' = [join EXCEPT ![l] = to]

-----------------------------------------------------------------------------
(* The calls and their events. *)

\* add-member, handled or lost.
Joins(l) ==
  /\ Moves(l, "new", "in") /\ responder # "none"
  /\ \/ /\ registered' = registered \cup {l}
        /\ Task(l, "none", "begun")
        /\ UNCHANGED faults
     \/ Fault /\ UNCHANGED <<registered, join>>
  /\ UNCHANGED <<incident, responder, rows, channel, found, leave, hangup, history>>

\* del-member, handled or lost; tracked whether or not the join was.
Leaves(l) ==
  /\ Moves(l, "in", "left")
  /\ \/ /\ registered' = registered \ {l}
        /\ leave' = [leave EXCEPT ![l] = "begun"]
        /\ UNCHANGED <<faults, lost>>
     \/ Fault /\ lost' = lost \cup {l} /\ UNCHANGED <<registered, leave>>
  /\ UNCHANGED <<incident, responder, rows, channel, join, found, hangup,
                 answered, late>>

\* CHANNEL_HANGUP counts only for a leg of the channel map.
Hangs(l) ==
  /\ Moves(l, "left", "gone")
  /\ \/ l \in channel /\ \E c \in Cause : hangup' = [hangup EXCEPT ![l] = c]
     \/ l \notin channel /\ UNCHANGED hangup
  /\ channel' = channel \ {l}
  /\ UNCHANGED <<incident, responder, rows, registered, join, found, leave,
                 history, faults>>

\* seedConferenceRegistry enters a member the registry does not hold.  The task
\* it starts has no dialled number, and the caller's number of a leg the ring
\* loop originated is the initiator's: it finds his row, and writes nothing of
\* the responder.
Seed(l) ==
  /\ leg[l] = "in" /\ l \notin registered
  /\ registered' = registered \cup {l}
  /\ UNCHANGED <<incident, responder, rows, leg, channel, tasks, history, faults>>

-----------------------------------------------------------------------------
(* trackParticipant, join. *)

\* A slip: only a member who is still there is recorded.
ResolvePresent(l) ==
  /\ IF l \in registered
     THEN Task(l, "begun", "resolved") /\ channel' = channel \cup {l}
     ELSE Task(l, "begun", "done") /\ UNCHANGED channel
  /\ UNCHANGED <<incident, responder, rows, leg, registered, found, leave,
                 hangup, history, faults>>

\* The dialled number is the responder's; the channel of a member still there
\* is remembered.
Resolve(l) ==
  /\ Task(l, "begun", "resolved")
  /\ channel' = IF l \in registered THEN channel \cup {l} ELSE channel
  /\ UNCHANGED <<incident, responder, rows, leg, registered, found, leave,
                 hangup, history, faults>>

\* The newest row, 0 if there is none; an open one ends the task.
Look(l) ==
  /\ LET open == rows # << >> /\ rows[Len(rows)] = "open" IN
     Task(l, "resolved", IF open THEN "done" ELSE "looked")
  /\ found' = [found EXCEPT ![l] = Len(rows)]
  /\ UNCHANGED <<incident, responder, rows, calls, leave, hangup, history, faults>>

\* A row is open from here on; late, if the end of the leg is already recorded.
Opened(l) ==
  late' = IF leg[l] = "in" \/ leave[l] = "begun" \/ l \in lost THEN late
          ELSE late \cup {l}

Reopen(l) ==
  /\ found[l] # 0 /\ Task(l, "looked", "reopened")
  /\ rows' = [rows EXCEPT ![found[l]] = "open"] /\ Opened(l)
  /\ UNCHANGED <<incident, responder, calls, found, leave, hangup, answered, lost,
                 faults>>

Insert(l) ==
  /\ found[l] = 0 /\ Task(l, "looked", "inserted")
  /\ rows' = Append(rows, "open") /\ Opened(l)
  /\ UNCHANGED <<incident, responder, calls, found, leave, hangup, answered, lost,
                 faults>>

\* A slip: a row the completion has already stamped is not corrected.
RespondInvited(l) ==
  /\ \/ Task(l, "reopened", "done") /\ responder' = "REJOINED"
     \/ /\ Task(l, "inserted", "done")
        /\ responder' = IF responder = "INVITED" THEN "JOINED" ELSE responder
  /\ answered' = TRUE
  /\ UNCHANGED <<incident, rows, calls, found, leave, hangup, lost, late, faults>>

\* A row that is neither INVITED nor MISSED keeps its status.
Respond(l) ==
  /\ \/ Task(l, "reopened", "done") /\ responder' = "REJOINED"
     \/ /\ Task(l, "inserted", "done")
        /\ responder' = IF responder \in {"INVITED", "MISSED"} THEN "JOINED" ELSE responder
  /\ answered' = TRUE
  /\ UNCHANGED <<incident, rows, calls, found, leave, hangup, lost, late, faults>>

-----------------------------------------------------------------------------
(* The other writers. *)

\* Nobody is left to account for.
AllClosed == /\ rows' = [i \in DOMAIN rows |-> "closed"]
             /\ lost' = {} /\ late' = {}

\* A slip: only the newest row.
LeaveNewest(l) ==
  /\ leave[l] = "begun" /\ leave' = [leave EXCEPT ![l] = "done"]
  /\ rows' = [i \in DOMAIN rows |-> IF i = Len(rows) THEN "closed" ELSE rows[i]]
  /\ lost' = {} /\ late' = {}
  /\ UNCHANGED <<incident, responder, calls, join, found, hangup, answered, faults>>

\* trackParticipant, leave: every open row of the number.
Leave(l) ==
  /\ leave[l] = "begun" /\ leave' = [leave EXCEPT ![l] = "done"]
  /\ AllClosed
  /\ UNCHANGED <<incident, responder, calls, join, found, hangup, answered, faults>>

\* A slip: the cause is written as it came.
HangupCause(l) ==
  /\ hangup[l] \in Cause /\ hangup' = [hangup EXCEPT ![l] = "done"]
  /\ responder' = IF responder = "INVITED" THEN hangup[l] ELSE responder
  /\ UNCHANGED <<incident, rows, calls, join, found, leave, history, faults>>

\* The status of a call's end, for a responder not yet known to have joined.
Hangup(l) ==
  /\ hangup[l] \in Cause /\ hangup' = [hangup EXCEPT ![l] = "done"]
  /\ LET final == CauseStatus[hangup[l]] IN
     responder' = IF responder = "INVITED" \/ (responder = "MISSED" /\ final = "JOINED")
                  THEN final ELSE responder
  /\ UNCHANGED <<incident, rows, calls, join, found, leave, history, faults>>

\* The ring loop, before its first wave.
Invite ==
  /\ responder = "none" /\ responder' = "INVITED"
  /\ UNCHANGED <<incident, rows, calls, tasks, history, faults>>

\* completeIncidentCore, one transaction.
Complete ==
  /\ incident = "ACTIVE" /\ incident' = "COMPLETED"
  /\ responder' = IF responder = "INVITED" THEN "MISSED" ELSE responder
  /\ AllClosed
  /\ UNCHANGED <<calls, tasks, answered, faults>>

-----------------------------------------------------------------------------
Tracks(l) ==
  \/ Resolve(l) \/ Look(l) \/ Reopen(l) \/ Insert(l) \/ Respond(l)
  \/ Leave(l) \/ Hangup(l)

Next ==
  \/ \E l \in Leg : Joins(l) \/ Leaves(l) \/ Hangs(l) \/ Seed(l) \/ Tracks(l)
  \/ Invite \/ Complete

Fairness == \A l \in Leg : WF_vars(Tracks(l))

Spec == Init /\ [][Next]_vars /\ Fairness

-----------------------------------------------------------------------------
(* Properties *)

\* Once a join has been recorded, no order of hangups, completions, later
\* waves and other joins shows the responder as invited or missed again.
AnsweredNotMissed == answered => responder \notin {"none", "INVITED", "MISSED"}

\* A join whose event was handled is recorded, although the leg has left, or the
\* incident is complete, before its task has resolved the number, and although
\* other legs of the responder come and go meanwhile.
JoinsRecorded ==
  \A l \in Leg : join[l] = "begun" ~> responder \notin {"none", "INVITED", "MISSED"}

\* However the tasks of the legs overlap, and with two rows as with one, an open
\* row means a leg in the room, or one whose end is still to be recorded or was
\* lost; only a leg whose join is recorded after its own end leaves one behind,
\* until the next leave or the completion closes it.
RowsFollowCalls ==
  (\E i \in DOMAIN rows : rows[i] = "open") =>
    \/ late # {} \/ lost # {}
    \/ \E l \in Leg : leg[l] = "in" \/ leave[l] = "begun"

=============================================================================
