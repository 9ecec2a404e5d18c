----------------------------- MODULE Recording -----------------------------
(***************************************************************************)
(* Recordings of one conference room: the recordingState of its registry   *)
(* entry and the rows of table recordings.  A start is a request of the    *)
(* monitoring page (Manual) or of conferenceManager (Automatic), each with *)
(* a path of its own; its confirmation comes as the answer to the command, *)
(* as the start-recording event, or as the file itself.  Rows are written  *)
(* by tasks nobody awaits, and by the 2-minute scan of five directories,   *)
(* which a configured recording_directory or a path given in the request   *)
(* may lie outside of.  FreeSWITCH, its room and its files are external.    *)
(* RECORD_STOP, which inserts and completes a row once more, is left out.   *)
(***************************************************************************)
EXTENDS Naturals, Sequences

CONSTANTS
  Manual, Automatic,  \* the starts, by recording path
  Scanned,       \* the paths in the directories of the scan
  MaxRooms,      \* how often the room comes into being
  MaxFaults      \* bound on lost events, restarts and failures

Rec == Manual \cup Automatic
NoRec == 0

ASSUME RecordingAssumption ==
  /\ Manual \cap Automatic = {} /\ Rec \subseteq Nat \ {NoRec}
  /\ Scanned \subseteq Rec
  /\ MaxRooms \in Nat /\ MaxFaults \in Nat

VARIABLES
  live,     \* the room exists in FreeSWITCH
  rooms,    \* how many times it has come into being
  rec,      \* what FreeSWITCH does with each recording
  file,     \* paths that exist on disk
  wire,     \* events and answers FreeSWITCH has sent
  start,    \* where each start is
  stop,     \* the path whose norecord is awaited
  entry,    \* the recording fields of the registry entry
  timer,    \* the 5 s timer of STARTING
  polls,    \* starts whose file is being looked for
  upserts,  \* tasks that insert a row
  closes,   \* ... and that complete it
  row,      \* the status of each row
  scanned,  \* rows the scan has completed or inserted
  faults

fsVars == <<live, rooms, rec, file>>
apiVars == <<start, stop, entry, timer, polls>>
dbVars == <<upserts, closes, row, scanned>>
vars == <<fsVars, wire, apiVars, dbVars, faults>>

States == {"OFF", "STARTING", "ACTIVE", "STOPPING", "FAILED"}
Entry == [state : {"none"} \cup States, path : Rec \cup {NoRec}, on : BOOLEAN]
NoEntry == [state |-> "none", path |-> NoRec, on |-> FALSE]
NewEntry == [NoEntry EXCEPT !.state = "OFF"]

Message == [type : {"create", "destroy"}]
           \cup [type : {"start", "stop", "ok", "err", "norecord", "unknown"},
                 rec : Rec]

TypeOK ==
  /\ live \in BOOLEAN /\ rooms \in 0..MaxRooms
  /\ rec \in [Rec -> {"new", "asked", "running", "stopped"}]
  /\ file \subseteq Rec
  /\ wire \in Seq(Message)
  /\ start \in [Rec -> {"none", "checked", "sent", "answered", "done"}]
  /\ stop \in Rec \cup {NoRec}
  /\ entry \in Entry
  /\ entry.state \in {"STARTING", "ACTIVE"} => entry.path # NoRec
  /\ timer \in BOOLEAN
  /\ polls \subseteq Manual
  /\ upserts \cup closes \cup scanned \subseteq Rec
  /\ row \in [Rec -> {"none", "RECORDING", "COMPLETED"}]
  /\ faults \in 0..MaxFaults

Init ==
  /\ live = FALSE /\ rooms = 0
  /\ rec = [r \in Rec |-> "new"]
  /\ file = {}
  /\ wire = << >>
  /\ start = [r \in Rec |-> "none"]
  /\ stop = NoRec
  /\ entry = NoEntry
  /\ timer = FALSE
  /\ polls = {}
  /\ upserts = {} /\ closes = {}
  /\ row = [r \in Rec |-> "none"]
  /\ scanned = {}
  /\ faults = 0

Fault == faults < MaxFaults /\ faults' = faults + 1
Event(type) == [type |-> type]
About(type, r) == [type |-> type, rec |-> r]
Running == {r \in Rec : rec[r] = "running"}
Start(r, from, to) == start[r] = from /\ start' = [start EXCEPT ![r] = to]

-----------------------------------------------------------------------------
(* FreeSWITCH. *)

RoomBegins ==
  /\ ~live /\ rooms < MaxRooms
  /\ live' = TRUE /\ rooms' = rooms + 1
  /\ wire' = Append(wire, Event("create"))
  /\ UNCHANGED <<rec, file, apiVars, dbVars, faults>>

Stopped(S) == rec' = [r \in Rec |-> IF r \in S THEN "stopped" ELSE rec[r]]

\* The room ends with its recordings, up to two; the stop-recording of one
\* may come after conference-destroy.
RoomEnds ==
  /\ live /\ live' = FALSE
  /\ Stopped(Running)
  /\ LET over == << Event("destroy") >> IN
     \/ Running = {} /\ wire' = wire \o over
     \/ \E r \in Running :
          /\ Running = {r}
          /\ \/ wire' = wire \o << About("stop", r) >> \o over
             \/ wire' = wire \o over \o << About("stop", r) >>
     \/ \E r, q \in Running :
          r # q /\ wire' = wire \o << About("stop", r) >> \o over \o << About("stop", q) >>
  /\ UNCHANGED <<rooms, file, apiVars, dbVars, faults>>

\* The answer to "conference record": before or after the file is opened.
Answers(r) ==
  /\ Start(r, "sent", "answered")
  /\ \/ /\ rec[r] # "asked" \/ live
        /\ wire' = Append(wire, About("ok", r))
        /\ UNCHANGED rec
     \/ /\ rec[r] = "asked" /\ ~live
        /\ wire' = Append(wire, About("err", r))
        /\ rec' = [rec EXCEPT ![r] = "stopped"]
  /\ UNCHANGED <<live, rooms, file, stop, entry, timer, polls, dbVars, faults>>

Opens(r) ==
  /\ live /\ rec[r] = "asked"
  /\ rec' = [rec EXCEPT ![r] = "running"]
  /\ file' = file \cup {r}
  /\ wire' = Append(wire, About("start", r))
  /\ UNCHANGED <<live, rooms, apiVars, dbVars, faults>>

\* Accepted, but no file can be written.
NeverOpens(r) ==
  /\ rec[r] = "asked" /\ start[r] = "answered" /\ Fault
  /\ rec' = [rec EXCEPT ![r] = "stopped"]
  /\ UNCHANGED <<live, rooms, file, wire, apiVars, dbVars>>

-----------------------------------------------------------------------------
(* The start of a recording. *)

\* The guard is read before the query and the command that follow.
StartChecks(r) ==
  /\ r \in Manual /\ Start(r, "none", "checked")
  /\ entry.state \in {"none", "OFF", "FAILED"}
  /\ UNCHANGED <<fsVars, wire, stop, entry, timer, polls, dbVars, faults>>

StartSends(r) ==
  /\ Start(r, "checked", "sent")
  /\ rec' = [rec EXCEPT ![r] = "asked"]
  /\ UNCHANGED <<live, rooms, file, wire, stop, entry, timer, polls, dbVars, faults>>

Receive(type, r) == wire # << >> /\ Head(wire) = About(type, r) /\ wire' = Tail(wire)

Present == entry.state # "none"
Set(e) == entry' = IF Present THEN e ELSE entry
Failed == [entry EXCEPT !.state = "FAILED", !.on = FALSE]
Active(r) == [state |-> "ACTIVE", path |-> r, on |-> TRUE]

\* A slip: +OK is taken for the recording itself.
StartAcceptedActive(r) ==
  /\ Receive("ok", r) /\ start[r] = "answered"
  /\ start' = [start EXCEPT ![r] = "done"]
  /\ IF r \in Manual
     THEN /\ Set(Active(r))
          /\ timer' = (timer \/ Present)
          /\ polls' = polls \cup {r}
          /\ UNCHANGED upserts
     ELSE /\ upserts' = upserts \cup {r}
          /\ UNCHANGED <<entry, timer, polls>>
  /\ UNCHANGED <<fsVars, stop, closes, row, scanned, faults>>

\* +OK: STARTING, its timer, and the search for the file; conferenceManager
\* only inserts the row.
StartAccepted(r) ==
  /\ Receive("ok", r) /\ start[r] = "answered"
  /\ start' = [start EXCEPT ![r] = "done"]
  /\ IF r \in Manual
     THEN /\ Set([state |-> "STARTING", path |-> r, on |-> FALSE])
          /\ timer' = (timer \/ Present)
          /\ polls' = polls \cup {r}
          /\ UNCHANGED upserts
     ELSE /\ upserts' = upserts \cup {r}
          /\ UNCHANGED <<entry, timer, polls>>
  /\ UNCHANGED <<fsVars, stop, closes, row, scanned, faults>>

\* -ERR, or no answer within 10 s.
StartFails(r) ==
  /\ \/ Receive("err", r) /\ UNCHANGED faults
     \/ start[r] \in {"sent", "answered"} /\ Fault /\ UNCHANGED wire
  /\ start' = [start EXCEPT ![r] = "done"]
  /\ IF r \in Manual THEN Set(Failed) ELSE UNCHANGED entry
  /\ UNCHANGED <<fsVars, stop, timer, polls, dbVars>>

\* An answer that comes after the command was given up.
AnswerDropped(r) ==
  /\ start[r] = "done" /\ (Receive("ok", r) \/ Receive("err", r))
  /\ UNCHANGED <<fsVars, apiVars, dbVars, faults>>

StartTimesOut ==
  /\ timer /\ timer' = FALSE
  /\ entry' = IF entry.state = "STARTING" THEN Failed ELSE entry
  /\ UNCHANGED <<fsVars, wire, start, stop, polls, dbVars, faults>>

\* verifyRecordingCreated: the state is looked at, not whose start it is.
Poll(r) ==
  /\ r \in polls /\ polls' = polls \ {r}
  /\ \/ entry.state # "STARTING" /\ UNCHANGED <<entry, timer>>
     \/ /\ entry.state = "STARTING" /\ r \in file
        /\ entry' = Active(r) /\ timer' = FALSE
     \/ /\ entry.state = "STARTING" /\ r \notin file
        /\ entry' = Failed /\ UNCHANGED timer
  /\ UNCHANGED <<fsVars, wire, start, stop, dbVars, faults>>

-----------------------------------------------------------------------------
(* Its end. *)

StopSends ==
  /\ stop = NoRec /\ Present /\ entry.path # NoRec
  /\ stop' = entry.path
  /\ entry' = [entry EXCEPT !.state = "STOPPING"]
  /\ UNCHANGED <<fsVars, wire, start, timer, polls, dbVars, faults>>

\* FreeSWITCH stops that recording, or does not know it and, asked for all of
\* them next, stops those that run.
Answered == \E i \in DOMAIN wire : wire[i].type \in {"norecord", "unknown"}

StopAnswered ==
  /\ stop # NoRec /\ ~Answered
  /\ \/ /\ stop \in Running /\ Stopped({stop})
        /\ wire' = wire \o << About("norecord", stop), About("stop", stop) >>
     \/ /\ stop \notin Running /\ Running = {}
        /\ wire' = Append(wire, About("unknown", stop)) /\ UNCHANGED rec
     \/ \E r \in Running :
          /\ Running = {r} /\ r # stop /\ Stopped({r})
          /\ wire' = wire \o << About("stop", r), About("unknown", stop) >>
  /\ UNCHANGED <<live, rooms, file, apiVars, dbVars, faults>>

\* Both answers clear the path and the timer.
StopDone(r) ==
  /\ Receive("norecord", r) \/ Receive("unknown", r)
  /\ stop' = NoRec
  /\ Set(NewEntry) /\ timer' = (timer /\ ~Present)
  /\ UNCHANGED <<fsVars, start, polls, dbVars, faults>>

\* The command failed: STOPPING stays.
StopFails ==
  /\ stop # NoRec /\ ~Answered /\ stop' = NoRec /\ Fault
  /\ UNCHANGED <<fsVars, wire, start, entry, timer, polls, dbVars>>

-----------------------------------------------------------------------------
(* The events. *)

ReceiveEvent(type) == wire # << >> /\ Head(wire) = Event(type) /\ wire' = Tail(wire)

\* conference-create also triggers the automatic recording.
OnCreate ==
  /\ ReceiveEvent("create")
  /\ entry' = IF Present THEN entry ELSE NewEntry
  /\ \/ \E r \in Automatic : Start(r, "none", "checked")
     \/ (\A r \in Automatic : start[r] # "none") /\ UNCHANGED start
  /\ UNCHANGED <<fsVars, stop, timer, polls, dbVars, faults>>

\* conference-destroy completes the recording it knows of.
OnDestroy ==
  /\ ReceiveEvent("destroy")
  /\ closes' = IF entry.path # NoRec /\ (entry.on \/ entry.state \in {"ACTIVE", "STARTING"})
               THEN closes \cup {entry.path} ELSE closes
  /\ entry' = NoEntry
  /\ UNCHANGED <<fsVars, start, stop, timer, polls, upserts, row, scanned, faults>>

\* A slip: the path of the event is not taken over.
OnStartNoPath(r) ==
  /\ Receive("start", r)
  /\ timer' = FALSE
  /\ Set([entry EXCEPT !.state = "ACTIVE", !.on = TRUE])
  /\ upserts' = upserts \cup {r}
  /\ UNCHANGED <<fsVars, start, stop, polls, closes, row, scanned, faults>>

OnStart(r) ==
  /\ Receive("start", r)
  /\ timer' = FALSE
  /\ Set(Active(r))
  /\ upserts' = upserts \cup {r}
  /\ UNCHANGED <<fsVars, start, stop, polls, closes, row, scanned, faults>>

\* A slip: only the recording the registry knows of is closed.
OnStopKnown(r) ==
  /\ Receive("stop", r)
  /\ Set([entry EXCEPT !.state = "OFF", !.on = FALSE])
  /\ closes' = closes \cup ({r} \cap {entry.path})
  /\ UNCHANGED <<fsVars, start, stop, timer, polls, upserts, row, scanned, faults>>

\* OFF whichever recording it was; the path stays.
OnStop(r) ==
  /\ Receive("stop", r)
  /\ Set([entry EXCEPT !.state = "OFF", !.on = FALSE])
  /\ closes' = closes \cup {r}
  /\ UNCHANGED <<fsVars, start, stop, timer, polls, upserts, row, scanned, faults>>

\* The seed makes an entry without recording, or removes one, closing nothing.
Seed ==
  /\ entry' = IF ~live THEN NoEntry ELSE IF Present THEN entry ELSE NewEntry
  /\ entry' # entry
  /\ UNCHANGED <<fsVars, wire, start, stop, timer, polls, dbVars, faults>>

-----------------------------------------------------------------------------
(* The rows. *)

Inserted(r) == row' = [row EXCEPT ![r] = IF @ = "none" THEN "RECORDING" ELSE @]
NoRow == Fault /\ UNCHANGED row

\* upsertRecordingStart: nothing on conflict; an error is caught.
Upsert(r) ==
  /\ r \in upserts /\ upserts' = upserts \ {r}
  /\ (Inserted(r) /\ UNCHANGED faults) \/ NoRow
  /\ UNCHANGED <<fsVars, wire, apiVars, closes, scanned>>

\* A slip: the rows of the room, not the one of the path.
CloseRoom(r) ==
  /\ r \in closes /\ closes' = closes \ {r}
  /\ row' = [q \in Rec |-> IF row[q] = "RECORDING" THEN "COMPLETED" ELSE row[q]]
  /\ UNCHANGED <<fsVars, wire, apiVars, upserts, scanned, faults>>

\* closeRecording; a failure is caught.  It waits a second for the file, and an
\* insertion begun before is over by then.
Close(r) ==
  /\ r \in closes /\ closes' = closes \ {r} /\ r \notin upserts
  /\ \/ /\ row' = [row EXCEPT ![r] = IF @ = "RECORDING" THEN "COMPLETED" ELSE @]
        /\ UNCHANGED faults
     \/ NoRow
  /\ UNCHANGED <<fsVars, wire, apiVars, upserts, scanned>>

\* A slip: rows that exist are left alone.
ScanInserts(r) ==
  /\ r \in file \cap Scanned /\ row[r] = "none"
  /\ row' = [row EXCEPT ![r] = "COMPLETED"]
  /\ scanned' = scanned \cup {r}
  /\ UNCHANGED <<fsVars, wire, apiVars, upserts, closes, faults>>

\* scanRecordingDirectory: any file that is there counts as finished.
Scan(r) ==
  /\ r \in file \cap Scanned /\ row[r] # "COMPLETED"
  /\ row' = [row EXCEPT ![r] = "COMPLETED"]
  /\ scanned' = scanned \cup {r}
  /\ UNCHANGED <<fsVars, wire, apiVars, upserts, closes, faults>>

-----------------------------------------------------------------------------
(* Faults of the link and of the process. *)

LinkDrops ==
  /\ wire # << >> /\ wire' = << >> /\ stop' = NoRec /\ Fault
  /\ UNCHANGED <<fsVars, start, entry, timer, polls, dbVars>>

Restart ==
  /\ Fault
  /\ wire' = << >> /\ stop' = NoRec
  /\ start' = [r \in Rec |-> IF start[r] = "none" THEN "none" ELSE "done"]
  /\ entry' = NoEntry /\ timer' = FALSE /\ polls' = {}
  /\ upserts' = {} /\ closes' = {}
  /\ UNCHANGED <<fsVars, row, scanned>>

-----------------------------------------------------------------------------
RecStep(r) ==
  \/ Answers(r) \/ Opens(r) \/ NeverOpens(r)
  \/ StartChecks(r) \/ StartSends(r) \/ StartAccepted(r) \/ StartFails(r)
  \/ AnswerDropped(r) \/ Poll(r) \/ StopDone(r)
  \/ OnStart(r) \/ OnStop(r)
  \/ Upsert(r) \/ Close(r) \/ Scan(r)

Next ==
  \/ \E r \in Rec : RecStep(r)
  \/ RoomBegins \/ RoomEnds \/ StartTimesOut \/ StopSends \/ StopAnswered
  \/ StopFails \/ OnCreate \/ OnDestroy \/ Seed \/ LinkDrops \/ Restart

\* The handling of what FreeSWITCH has sent first.
Handle ==
  /\ wire # << >> /\ wire' = Tail(wire)
  /\ \/ \E r \in Rec : \/ StartAccepted(r) \/ StartFails(r) \/ AnswerDropped(r)
                       \/ StopDone(r) \/ OnStart(r) \/ OnStop(r)
     \/ OnCreate \/ OnDestroy

\* Messages are handled, tasks run, and so does the scan, every two minutes.
Fairness ==
  /\ WF_vars(Handle)
  /\ \A r \in Rec : WF_vars(Upsert(r)) /\ WF_vars(Close(r)) /\ WF_vars(Scan(r))

Spec == Init /\ [][Next]_vars /\ Fairness

-----------------------------------------------------------------------------
(* Properties *)

\* In one life of the room only the scan completes the row of a recording that
\* still runs: stops, the end of the room and late events complete the row of
\* their own path, with two recordings of the room as with one.  (When the room
\* comes back, the conference-destroy of its first life can close a recording
\* that was asked for in that life and has begun in the second.)
CompletedIsStopped ==
  rooms <= 1 =>
    \A r \in Rec : row[r] = "COMPLETED" /\ rec[r] = "running" => r \in scanned

\* ACTIVE is shown for a file that FreeSWITCH has opened, whichever of the
\* answer, the event and the search for the file came first, and whoever else
\* started a recording of the room meanwhile.
ActiveIsConfirmed == entry.state = "ACTIVE" => entry.path \in file

\* The row of a recording that is over becomes COMPLETED: whichever of
\* stop-recording and conference-destroy comes first, and whichever of the
\* room's recordings the registry knows of; and, for a file that the scan
\* visits, although the event, the task or the process that should have written
\* the row was lost.
RecordingsSettle ==
  \A r \in Rec :
    r \in file /\ rec[r] = "stopped" ~>
      row[r] = "COMPLETED" \/ (faults > 0 /\ r \notin Scanned)

=============================================================================
