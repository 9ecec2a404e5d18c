-------------------------- MODULE RecordingProofs --------------------------
(***************************************************************************)
(* Recording for any number of recordings, rooms and faults.  The state    *)
(* ACTIVE needs a file because each of its three sources carries one: an   *)
(* event on the way names a file that exists, the search for the file has  *)
(* just seen it, and no other step moves path and state apart.  In one life *)
(* of the room a row is completed ahead of its recording by the scan alone: *)
(* what stop events, the end of the room and closeRecording speak of is     *)
(* past, and the past does not change.                                      *)
(***************************************************************************)
EXTENDS Recording, SequenceTheorems, TLAPS

Sound(ms, f) ==
  /\ ms \in Seq(Message)
  /\ \A i \in 1..Len(ms) : ms[i].type = "start" => ms[i].rec \in f

IInv == TypeOK /\ ActiveIsConfirmed /\ Sound(wire, file)

USE RecordingAssumption DEF NoRec

-----------------------------------------------------------------------------
(* The messages on the way. *)

LEMMA Messages ==
  /\ \A type \in {"create", "destroy"} :
       Event(type) \in Message /\ Event(type).type = type
  /\ \A r \in Rec, type \in {"start", "stop", "ok", "err", "norecord", "unknown"} :
       About(type, r) \in Message /\ About(type, r).type = type /\ About(type, r).rec = r
BY DEF Event, About, Message

LEMMA SoundConcat ==
  ASSUME NEW f, NEW s, NEW t, Sound(s, f), Sound(t, f)
  PROVE  Sound(s \o t, f)
<1>1. s \in Seq(Message) /\ t \in Seq(Message)
  BY DEF Sound
<1>2. /\ s \o t \in Seq(Message) /\ Len(s \o t) = Len(s) + Len(t)
      /\ \A i \in 1..Len(s) + Len(t) :
           (s \o t)[i] = IF i <= Len(s) THEN s[i] ELSE t[i - Len(s)]
  BY <1>1, ConcatProperties
<1>3. Len(s) \in Nat /\ Len(t) \in Nat
  BY <1>1
<1>4. ASSUME NEW i \in 1..Len(s) + Len(t), (s \o t)[i].type = "start"
      PROVE  (s \o t)[i].rec \in f
  <2>1. CASE i <= Len(s)
    BY <1>2, <1>3, <1>4, <2>1 DEF Sound
  <2>2. CASE i > Len(s)
    <3>1. i - Len(s) \in 1..Len(t)
      BY <1>3, <2>2
    <3> QED
      BY <1>2, <1>4, <2>2, <3>1 DEF Sound
  <2> QED
    BY <1>3, <2>1, <2>2
<1> QED
  BY <1>2, <1>4 DEF Sound

\* One message more.
LEMMA SoundAppend ==
  ASSUME NEW f, NEW s, Sound(s, f), NEW m \in Message, m.type = "start" => m.rec \in f
  PROVE  Sound(<< m >>, f) /\ Sound(Append(s, m), f)
<1>1. Sound(<< m >>, f)
  BY DEF Sound
<1>2. s \in Seq(Message) /\ Append(s, m) = s \o << m >>
  BY AppendProperties DEF Sound
<1> QED
  BY <1>1, <1>2, SoundConcat

\* Whatever it is about, unless it is a start.
LEMMA SoundReply ==
  ASSUME NEW f, NEW s, Sound(s, f), NEW r \in Rec,
         NEW type \in {"stop", "ok", "err", "norecord", "unknown"}
  PROVE  Sound(<< About(type, r) >>, f) /\ Sound(Append(s, About(type, r)), f)
<1>1. About(type, r) \in Message /\ About(type, r).type # "start"
  BY Messages
<1> QED
  BY <1>1, SoundAppend

LEMMA SoundTail ==
  ASSUME NEW f, NEW s, Sound(s, f), s # << >>
  PROVE  /\ Sound(Tail(s), f) /\ Head(s) \in Message
         /\ Head(s).type = "start" => Head(s).rec \in f
<1>1. /\ s \in Seq(Message) /\ Head(s) = s[1] /\ 1 \in 1..Len(s) /\ Head(s) \in Message
      /\ Tail(s) \in Seq(Message)
      /\ \A i \in 1..Len(Tail(s)) : i + 1 \in 1..Len(s) /\ Tail(s)[i] = s[i + 1]
  BY HeadTailProperties DEF Sound
<1> QED
  BY <1>1 DEF Sound

LEMMA SoundGrows ==
  ASSUME NEW f, NEW g, f \subseteq g, NEW s, Sound(s, f)
  PROVE  Sound(s, g)
BY DEF Sound

\* What is received.
LEMMA Received ==
  ASSUME IInv, NEW type, NEW r \in Rec, Receive(type, r)
  PROVE  Sound(wire', file) /\ (type = "start" => r \in file)
<1>1. Head(wire).type = type /\ Head(wire).rec = r
  BY DEF Receive, About
<1> QED
  BY <1>1, SoundTail DEF IInv, Receive

LEMMA ReceivedEvent ==
  ASSUME IInv, NEW type, ReceiveEvent(type)
  PROVE  Sound(wire', file)
BY SoundTail DEF IInv, ReceiveEvent

LEMMA Entries ==
  /\ NoEntry \in Entry /\ NoEntry.state = "none" /\ NoEntry.path = NoRec
  /\ NewEntry \in Entry /\ NewEntry.state = "OFF"
  /\ \A r \in Rec : Active(r) \in Entry /\ Active(r).state = "ACTIVE" /\ Active(r).path = r
  /\ \A r \in Rec : r # NoRec
<1>1. NoEntry \in Entry /\ NoEntry.state = "none" /\ NoEntry.path = NoRec
  BY DEF NoEntry, Entry
<1>2. NewEntry \in Entry /\ NewEntry.state = "OFF"
  BY DEF NewEntry, NoEntry, Entry, States
<1>3. \A r \in Rec : Active(r) \in Entry /\ Active(r).state = "ACTIVE" /\ Active(r).path = r
  BY DEF Active, Entry, States
<1> QED
  BY <1>1, <1>2, <1>3

LEMMA InitHolds == Init => IInv
<1> SUFFICES ASSUME Init PROVE IInv
  OBVIOUS
<1>1. Sound(wire, file)
  BY EmptySeq DEF Init, Sound
<1>2. entry \in Entry /\ entry.state = "none"
  BY Entries DEF Init
<1> QED
  <2>1. TypeOK
    <3>1. wire \in Seq(Message)
      BY <1>1 DEF Sound
    <3>2. /\ rec \in [Rec -> {"new", "asked", "running", "stopped"}]
          /\ start \in [Rec -> {"none", "checked", "sent", "answered", "done"}]
          /\ row \in [Rec -> {"none", "RECORDING", "COMPLETED"}]
      BY DEF Init
    <3>3. rooms \in 0..MaxRooms /\ faults \in 0..MaxFaults
      BY DEF Init
    <3>4. entry.state \in {"STARTING", "ACTIVE"} => entry.path # NoRec
      BY <1>2
    <3>5. live \in BOOLEAN /\ timer \in BOOLEAN /\ stop \in Rec \cup {NoRec}
      BY DEF Init
    <3>6. file \subseteq Rec /\ polls \subseteq Manual /\ upserts \cup closes \cup scanned \subseteq Rec
      BY DEF Init
    <3> QED
      BY <1>2, <3>1, <3>2, <3>3, <3>4, <3>5, <3>6 DEF TypeOK
  <2>2. ActiveIsConfirmed
    BY <1>2 DEF ActiveIsConfirmed
  <2> QED
    BY <1>1, <2>1, <2>2 DEF IInv

-----------------------------------------------------------------------------
(* Every step, by what it changes. *)

\* FreeSWITCH sends, and opens files.
LEMMA SwitchSteps ==
  ASSUME IInv,
         \/ RoomBegins \/ RoomEnds \/ StopAnswered
         \/ \E r \in Rec : Answers(r) \/ Opens(r) \/ NeverOpens(r)
  PROVE  IInv'
<1> USE DEF IInv
<1>1. CASE RoomBegins
  <2>1. Sound(wire', file')
    BY <1>1, SoundAppend, Messages DEF RoomBegins
  <2> QED
    BY <1>1, <2>1 DEF RoomBegins, TypeOK, ActiveIsConfirmed, apiVars, dbVars, Sound
<1>2. CASE RoomEnds
  <2>1. Sound(<< Event("destroy") >>, file)
    BY SoundAppend, Messages
  <2>2. \A r \in Rec : Sound(<< About("stop", r) >>, file)
    BY SoundAppend, Messages
  <2>3. Sound(wire', file')
    <3> DEFINE over == << Event("destroy") >>
    <3>1. file' = file
      BY <1>2 DEF RoomEnds
    <3>2. CASE wire' = wire \o over
      BY <2>1, <3>1, <3>2, SoundConcat
    <3>3. ASSUME NEW r \in Rec,
                 \/ wire' = wire \o << About("stop", r) >> \o over
                 \/ wire' = wire \o over \o << About("stop", r) >>
          PROVE  Sound(wire', file')
      <4> HIDE DEF over
      <4>1. Sound(wire \o << About("stop", r) >>, file) /\ Sound(wire \o over, file)
        BY <2>1, <2>2, SoundConcat DEF over
      <4> QED
        BY <2>1, <2>2, <3>1, <3>3, <4>1, SoundConcat DEF over
    <3>4. ASSUME NEW r \in Rec, NEW q \in Rec,
                 wire' = wire \o << About("stop", r) >> \o over \o << About("stop", q) >>
          PROVE  Sound(wire', file')
      <4> HIDE DEF over
      <4>1. Sound(wire \o << About("stop", r) >>, file)
        BY <2>2, SoundConcat
      <4>2. Sound(wire \o << About("stop", r) >> \o over, file)
        BY <2>1, <4>1, SoundConcat DEF over
      <4> QED
        BY <2>2, <3>1, <3>4, <4>2, SoundConcat
    <3> QED
      BY <1>2, <3>2, <3>3, <3>4 DEF RoomEnds, Running
  <2>4. rec' \in [Rec -> {"new", "asked", "running", "stopped"}]
    BY <1>2 DEF RoomEnds, Stopped, TypeOK
  <2> QED
    BY <1>2, <2>3, <2>4 DEF RoomEnds, TypeOK, ActiveIsConfirmed, apiVars, dbVars, Sound
<1>3. CASE StopAnswered
  <2>1. \A r \in Rec : /\ Sound(<< About("norecord", r), About("stop", r) >>, file)
                       /\ \A q \in Rec : Sound(<< About("stop", r), About("unknown", q) >>, file)
    <3> SUFFICES ASSUME NEW r \in Rec
                 PROVE  /\ Sound(<< About("norecord", r), About("stop", r) >>, file)
                        /\ \A q \in Rec : Sound(<< About("stop", r), About("unknown", q) >>, file)
      OBVIOUS
    <3>1. \A m, n : << m, n >> = Append(<< m >>, n)
      OBVIOUS
    <3>2. Sound(<< About("norecord", r) >>, file) /\ Sound(<< About("stop", r) >>, file)
      BY SoundReply
    <3>3. Sound(Append(<< About("norecord", r) >>, About("stop", r)), file)
      BY <3>2, SoundReply
    <3>4. \A q \in Rec : Sound(Append(<< About("stop", r) >>, About("unknown", q)), file)
      BY <3>2, SoundReply
    <3> QED
      BY <3>1, <3>3, <3>4, Zenon
  <2>2. stop \in Rec
    BY <1>3 DEF StopAnswered, TypeOK
  <2>3. file' = file
    BY <1>3 DEF StopAnswered
  <2>4. \/ \E r, q \in Rec :
             \/ wire' = wire \o << About("norecord", r), About("stop", r) >>
             \/ wire' = wire \o << About("stop", r), About("unknown", q) >>
        \/ wire' = Append(wire, About("unknown", stop))
    BY <1>3, <2>2 DEF StopAnswered, Running
  <2>5. Sound(wire', file')
    <3>1. CASE wire' = Append(wire, About("unknown", stop))
      BY <2>2, <2>3, <3>1, SoundReply
    <3>2. CASE wire' # Append(wire, About("unknown", stop))
      <4>1. PICK ms : Sound(ms, file) /\ wire' = wire \o ms
        BY <2>1, <2>4, <3>2
      <4> QED
        BY <2>3, <4>1, SoundConcat
    <3> QED
      BY <3>1, <3>2
  <2>6. rec' \in [Rec -> {"new", "asked", "running", "stopped"}]
    BY <1>3 DEF StopAnswered, Stopped, TypeOK
  <2> QED
    BY <1>3, <2>5, <2>6 DEF StopAnswered, TypeOK, ActiveIsConfirmed, apiVars, dbVars, Sound
<1>4. ASSUME NEW r \in Rec, Answers(r) PROVE IInv'
  <2>1. \/ wire' = Append(wire, About("ok", r))
        \/ wire' = Append(wire, About("err", r))
    BY <1>4 DEF Answers
  <2>2. Sound(wire', file)
    BY <2>1, SoundReply
  <2> QED
    BY <1>4, <2>2 DEF Answers, Start, TypeOK, ActiveIsConfirmed, dbVars, Sound
<1>5. ASSUME NEW r \in Rec, Opens(r) PROVE IInv'
  <2>1. file \subseteq file' /\ r \in file'
    BY <1>5 DEF Opens
  <2>2. Sound(wire', file')
    BY <1>5, <2>1, SoundAppend, SoundGrows, Messages DEF Opens
  <2> QED
    BY <1>5, <2>1, <2>2 DEF Opens, TypeOK, ActiveIsConfirmed, apiVars, dbVars, Sound
<1>6. ASSUME NEW r \in Rec, NeverOpens(r) PROVE IInv'
  BY <1>6 DEF NeverOpens, Fault, TypeOK, ActiveIsConfirmed, apiVars, dbVars, Sound
<1> QED
  BY <1>1, <1>2, <1>3, <1>4, <1>5, <1>6

\* The entries the handlers write.
LEMMA EntriesWritten ==
  ASSUME entry \in Entry
  PROVE  /\ Failed \in Entry /\ Failed.state = "FAILED"
         /\ LET e == [entry EXCEPT !.state = "OFF", !.on = FALSE]
            IN  e \in Entry /\ e.state = "OFF"
         /\ LET e == [entry EXCEPT !.state = "STOPPING"]
            IN  e \in Entry /\ e.state = "STOPPING"
         /\ \A r \in Rec :
              LET e == [state |-> "STARTING", path |-> r, on |-> FALSE]
              IN  e \in Entry /\ e.state = "STARTING" /\ e.path # NoRec
BY DEF Failed, Entry, States

\* What an entry must be for the invariant.
Fine(e) ==
  /\ e \in Entry
  /\ e.state \in {"STARTING", "ACTIVE"} => e.path # NoRec
  /\ e.state = "ACTIVE" => e.path \in file

LEMMA EntryFine == IInv => Fine(entry)
BY DEF IInv, TypeOK, ActiveIsConfirmed, Fine

LEMMA WritesAreFine ==
  ASSUME IInv
  PROVE  /\ Fine(NoEntry) /\ Fine(NewEntry) /\ Fine(Failed)
         /\ Fine([entry EXCEPT !.state = "OFF", !.on = FALSE])
         /\ Fine([entry EXCEPT !.state = "STOPPING"])
         /\ \A r \in Rec : Fine([state |-> "STARTING", path |-> r, on |-> FALSE])
         /\ \A r \in Rec \cap file : Fine(Active(r))
<1>1. entry \in Entry
  BY DEF IInv, TypeOK
<1> QED
  BY <1>1, EntriesWritten, Entries DEF Fine

LEMMA SetFine ==
  ASSUME IInv, NEW e, Fine(e), Set(e)
  PROVE  Fine(entry')
BY EntryFine DEF Set

\* With the files as they are, that is all that matters.
LEMMA Kept ==
  ASSUME IInv, UNCHANGED fsVars, Fine(entry'), Sound(wire', file),
         start' \in [Rec -> {"none", "checked", "sent", "answered", "done"}],
         stop' \in Rec \cup {NoRec}, timer' \in BOOLEAN, polls' \subseteq Manual,
         upserts' \cup closes' \cup scanned' \subseteq Rec,
         row' \in [Rec -> {"none", "RECORDING", "COMPLETED"}],
         faults' \in 0..MaxFaults
  PROVE  IInv'
<1>1. live' \in BOOLEAN /\ rooms' \in 0..MaxRooms /\ file' = file /\ file' \subseteq Rec
      /\ rec' \in [Rec -> {"new", "asked", "running", "stopped"}]
  BY DEF IInv, TypeOK, fsVars
<1>2. Sound(wire', file') /\ wire' \in Seq(Message)
  BY <1>1 DEF Sound
<1> QED
  BY <1>1, <1>2 DEF IInv, TypeOK, ActiveIsConfirmed, Fine

\* The types the step leaves alone.
LEMMA Types ==
  ASSUME IInv
  PROVE  /\ start \in [Rec -> {"none", "checked", "sent", "answered", "done"}]
         /\ stop \in Rec \cup {NoRec} /\ timer \in BOOLEAN /\ polls \subseteq Manual
         /\ upserts \subseteq Rec /\ closes \subseteq Rec /\ scanned \subseteq Rec
         /\ row \in [Rec -> {"none", "RECORDING", "COMPLETED"}]
         /\ faults \in 0..MaxFaults /\ Sound(wire, file) /\ Fine(entry)
         /\ Fault => faults' \in 0..MaxFaults
         /\ \A r \in Rec, from, to \in {"none", "checked", "sent", "answered", "done"} :
              Start(r, from, to)
                => start' \in [Rec -> {"none", "checked", "sent", "answered", "done"}]
<1>1. Fine(entry)
  BY EntryFine
<1>2. faults \in 0..MaxFaults /\ (Fault => faults' \in 0..MaxFaults)
  BY DEF IInv, TypeOK, Fault
<1>3. start \in [Rec -> {"none", "checked", "sent", "answered", "done"}]
  BY DEF IInv, TypeOK
<1>4. \A r \in Rec, from, to \in {"none", "checked", "sent", "answered", "done"} :
         Start(r, from, to)
           => start' \in [Rec -> {"none", "checked", "sent", "answered", "done"}]
  BY <1>3 DEF Start
<1> QED
  BY <1>1, <1>2, <1>3, <1>4 DEF IInv, TypeOK

-----------------------------------------------------------------------------
(* The handlers. *)

LEMMA StartSteps ==
  ASSUME IInv, NEW r \in Rec,
         \/ StartChecks(r) \/ StartAccepted(r) \/ StartFails(r)
         \/ AnswerDropped(r) \/ Poll(r) \/ StopDone(r)
  PROVE  IInv'
<1>0. UNCHANGED fsVars
  BY DEF StartChecks, StartAccepted, StartFails, AnswerDropped, Poll, StopDone
<1>1. CASE StartChecks(r)
  <2>1. Fine(entry') /\ Sound(wire', file)
    BY <1>1, Types DEF StartChecks, Fine
  <2>2. start' \in [Rec -> {"none", "checked", "sent", "answered", "done"}]
    BY <1>1, Types DEF StartChecks
  <2> QED
    BY <1>0, <1>1, <2>1, <2>2, Types, Kept DEF StartChecks, dbVars
<1>2. CASE StartAccepted(r)
  <2>1. Sound(wire', file)
    BY <1>2, Received DEF StartAccepted
  <2>2. Fine(entry')
    BY <1>2, Types, WritesAreFine, SetFine DEF StartAccepted
  <2>3. start' \in [Rec -> {"none", "checked", "sent", "answered", "done"}]
    BY <1>2, Types DEF StartAccepted
  <2>4. timer' \in BOOLEAN /\ polls' \subseteq Manual /\ upserts' \subseteq Rec
    BY <1>2, Types DEF StartAccepted, Present
  <2> QED
    BY <1>0, <1>2, <2>1, <2>2, <2>3, <2>4, Types, Kept DEF StartAccepted
<1>3. CASE StartFails(r)
  <2>1. Sound(wire', file) /\ faults' \in 0..MaxFaults
    BY <1>3, Received, Types DEF StartFails
  <2>2. Fine(entry')
    BY <1>3, Types, WritesAreFine, SetFine DEF StartFails
  <2>3. start' \in [Rec -> {"none", "checked", "sent", "answered", "done"}]
    BY <1>3, Types DEF StartFails
  <2> QED
    BY <1>0, <1>3, <2>1, <2>2, <2>3, Types, Kept DEF StartFails, dbVars
<1>4. CASE AnswerDropped(r)
  <2>1. Sound(wire', file)
    BY <1>4, Received DEF AnswerDropped
  <2>2. Fine(entry')
    BY <1>4, Types DEF AnswerDropped, apiVars, Fine
  <2> QED
    BY <1>0, <1>4, <2>1, <2>2, Types, Kept DEF AnswerDropped, apiVars, dbVars
<1>5. CASE Poll(r)
  <2>1. Sound(wire', file)
    BY <1>5, Types DEF Poll
  <2>2. Fine(entry')
    BY <1>5, Types, WritesAreFine DEF Poll
  <2>3. timer' \in BOOLEAN /\ polls' \subseteq Manual
    BY <1>5, Types DEF Poll
  <2> QED
    BY <1>0, <1>5, <2>1, <2>2, <2>3, Types, Kept DEF Poll, dbVars
<1>6. CASE StopDone(r)
  <2>1. Sound(wire', file)
    BY <1>6, Received DEF StopDone
  <2>2. Fine(entry')
    BY <1>6, WritesAreFine, SetFine DEF StopDone
  <2>3. timer' \in BOOLEAN
    BY <1>6, Types DEF StopDone, Present
  <2> QED
    BY <1>0, <1>6, <2>1, <2>2, <2>3, Types, Kept DEF StopDone, dbVars
<1> QED
  BY <1>1, <1>2, <1>3, <1>4, <1>5, <1>6

LEMMA StartSendsKeeps ==
  ASSUME IInv, NEW r \in Rec, StartSends(r)
  PROVE  IInv'
<1>1. start' \in [Rec -> {"none", "checked", "sent", "answered", "done"}]
  BY Types DEF StartSends
<1>2. rec' \in [Rec -> {"new", "asked", "running", "stopped"}]
  BY DEF StartSends, IInv, TypeOK
<1> QED
  BY <1>1, <1>2 DEF StartSends, dbVars, IInv, TypeOK, ActiveIsConfirmed, Sound

LEMMA OtherSteps ==
  ASSUME IInv, StartTimesOut \/ StopSends \/ StopFails \/ Seed \/ LinkDrops \/ Restart
  PROVE  IInv'
<1>0. UNCHANGED fsVars
  BY DEF StartTimesOut, StopSends, StopFails, Seed, LinkDrops, Restart
<1>1. CASE StartTimesOut
  <2>1. Fine(entry') /\ Sound(wire', file)
    BY <1>1, Types, WritesAreFine DEF StartTimesOut
  <2> QED
    BY <1>0, <1>1, <2>1, Types, Kept DEF StartTimesOut, dbVars
<1>2. CASE StopSends
  <2>1. Fine(entry') /\ Sound(wire', file)
    BY <1>2, Types, WritesAreFine DEF StopSends
  <2>2. stop' \in Rec \cup {NoRec}
    BY <1>2 DEF StopSends, IInv, TypeOK, Entry
  <2> QED
    BY <1>0, <1>2, <2>1, <2>2, Types, Kept DEF StopSends, dbVars
<1>3. CASE StopFails
  <2>1. Fine(entry') /\ Sound(wire', file) /\ faults' \in 0..MaxFaults
    BY <1>3, Types DEF StopFails, Fine
  <2> QED
    BY <1>0, <1>3, <2>1, Types, Kept DEF StopFails, dbVars
<1>4. CASE Seed
  <2>1. Fine(entry') /\ Sound(wire', file)
    BY <1>4, Types, WritesAreFine DEF Seed
  <2> QED
    BY <1>0, <1>4, <2>1, Types, Kept DEF Seed, dbVars
<1>5. CASE LinkDrops
  <2>1. Fine(entry') /\ Sound(wire', file) /\ faults' \in 0..MaxFaults
    BY <1>5, Types, EmptySeq DEF LinkDrops, Fine, Sound
  <2> QED
    BY <1>0, <1>5, <2>1, Types, Kept DEF LinkDrops, dbVars
<1>6. CASE Restart
  <2>1. Fine(entry') /\ Sound(wire', file) /\ faults' \in 0..MaxFaults
    BY <1>6, Types, WritesAreFine, EmptySeq DEF Restart, Sound
  <2>2. start' \in [Rec -> {"none", "checked", "sent", "answered", "done"}]
    BY <1>6, Types DEF Restart
  <2> QED
    BY <1>0, <1>6, <2>1, <2>2, Types, Kept DEF Restart
<1> QED
  BY <1>1, <1>2, <1>3, <1>4, <1>5, <1>6

LEMMA EventSteps ==
  ASSUME IInv, OnCreate \/ OnDestroy \/ \E r \in Rec : OnStart(r) \/ OnStop(r)
  PROVE  IInv'
<1>0. UNCHANGED fsVars
  BY DEF OnCreate, OnDestroy, OnStart, OnStop
<1>1. CASE OnCreate
  <2>1. Fine(entry') /\ Sound(wire', file)
    BY <1>1, Types, WritesAreFine, ReceivedEvent DEF OnCreate
  <2>2. start' \in [Rec -> {"none", "checked", "sent", "answered", "done"}]
    BY <1>1, Types DEF OnCreate, Rec
  <2> QED
    BY <1>0, <1>1, <2>1, <2>2, Types, Kept DEF OnCreate, dbVars
<1>2. CASE OnDestroy
  <2>1. Fine(entry') /\ Sound(wire', file)
    BY <1>2, WritesAreFine, ReceivedEvent DEF OnDestroy
  <2>2. closes' \subseteq Rec
    BY <1>2, Types DEF OnDestroy, Fine, Entry
  <2> QED
    BY <1>0, <1>2, <2>1, <2>2, Types, Kept DEF OnDestroy
<1>3. ASSUME NEW r \in Rec, OnStart(r) PROVE IInv'
  <2>1. Sound(wire', file) /\ r \in file
    BY <1>3, Received DEF OnStart
  <2>2. Fine(entry')
    BY <1>3, <2>1, WritesAreFine, SetFine DEF OnStart
  <2> QED
    BY <1>0, <1>3, <2>1, <2>2, Types, Kept DEF OnStart
<1>4. ASSUME NEW r \in Rec, OnStop(r) PROVE IInv'
  <2>1. Sound(wire', file)
    BY <1>4, Received DEF OnStop
  <2>2. Fine(entry')
    BY <1>4, WritesAreFine, SetFine DEF OnStop
  <2> QED
    BY <1>0, <1>4, <2>1, <2>2, Types, Kept DEF OnStop
<1> QED
  BY <1>1, <1>2, <1>3, <1>4

LEMMA RowSteps ==
  ASSUME IInv, NEW r \in Rec, Upsert(r) \/ Close(r) \/ Scan(r)
  PROVE  IInv'
<1>0. UNCHANGED fsVars /\ UNCHANGED wire /\ UNCHANGED apiVars
  BY DEF Upsert, Close, Scan
<1>1. Fine(entry') /\ Sound(wire', file)
  BY <1>0, Types DEF apiVars, Fine
<1>2. faults' \in 0..MaxFaults
  BY Types DEF Upsert, Close, Scan, NoRow
<1>3. row' \in [Rec -> {"none", "RECORDING", "COMPLETED"}]
  BY Types DEF Upsert, Close, Scan, NoRow, Inserted
<1>4. upserts' \cup closes' \cup scanned' \subseteq Rec
  BY Types DEF Upsert, Close, Scan
<1> QED
  BY <1>0, <1>1, <1>2, <1>3, <1>4, Types, Kept DEF apiVars

LEMMA StepHolds == IInv /\ [Next]_vars => IInv'
<1> SUFFICES ASSUME IInv, [Next]_vars PROVE IInv'
  OBVIOUS
<1>1. CASE \E r \in Rec : RecStep(r)
  BY <1>1, SwitchSteps, StartSteps, StartSendsKeeps, EventSteps, RowSteps DEF RecStep
<1>2. CASE \/ RoomBegins \/ RoomEnds \/ StartTimesOut \/ StopSends \/ StopAnswered
           \/ StopFails \/ OnCreate \/ OnDestroy \/ Seed \/ LinkDrops \/ Restart
  BY <1>2, SwitchSteps, OtherSteps, EventSteps
<1>3. CASE UNCHANGED vars
  BY <1>3 DEF vars, fsVars, apiVars, dbVars, IInv, TypeOK, ActiveIsConfirmed, Sound
<1> QED
  BY <1>1, <1>2, <1>3 DEF Next

-----------------------------------------------------------------------------

\* Every reachable state is well typed; in particular STARTING and ACTIVE
\* always name a recording.
THEOREM TypeCorrect == Spec => []TypeOK
<1>1. IInv => TypeOK
  BY DEF IInv
<1> QED
  BY InitHolds, StepHolds, <1>1, PTL DEF Spec

\* A room is shown as ACTIVE only for a recording whose file exists, whatever
\* the order of answer, event and search, and however many starts overlap.
THEOREM ActiveHasFile == Spec => []ActiveIsConfirmed
<1>1. IInv => ActiveIsConfirmed
  BY DEF IInv
<1> QED
  BY InitHolds, StepHolds, <1>1, PTL DEF Spec

-----------------------------------------------------------------------------
(* One life of the room.  A path is gone when FreeSWITCH has stopped that    *)
(* recording or the room has ended: neither is undone before the room comes  *)
(* back.  Only such a path is named by a stop-recording on the way, waits to *)
(* be closed, or has been completed by something other than the scan.        *)

Over == ~live /\ rooms = 1
Gone(r) == rec[r] = "stopped" \/ Over
Past == {m \in Message : /\ m.type = "stop" => Gone(m.rec)
                         /\ m.type = "destroy" => Over}

Life ==
  /\ live => rooms = 1
  /\ \A r \in Rec : rec[r] = "running" => live
  /\ \A r \in Rec : start[r] \in {"none", "checked"} => rec[r] = "new"
  /\ wire \in Seq(Past)
  /\ \A r \in closes : Gone(r)
  /\ \A r \in Rec : row[r] = "COMPLETED" => r \in scanned \/ Gone(r)

OneLife == rooms <= 1 => Life

LEMMA SeqGrows ==
  ASSUME NEW A, NEW B, A \subseteq B
  PROVE  Seq(A) \subseteq Seq(B)
OBVIOUS

LEMMA SeqJoins ==
  ASSUME NEW Q, NEW s \in Seq(Q), NEW a \in Q
  PROVE  /\ s \o << a >> \in Seq(Q)
         /\ \A b \in Q : s \o << a, b >> \in Seq(Q)
<1>1. << a >> \in Seq(Q) /\ \A b \in Q : << a, b >> \in Seq(Q)
  OBVIOUS
<1> QED
  BY <1>1, ConcatProperties

\* Nothing that is gone returns.
Ages ==
  /\ \A r \in Rec : Gone(r) => Gone(r)'
  /\ Over => Over'
  /\ live' => rooms' = 1
  /\ \A r \in Rec : rec'[r] = "running" => live'
  /\ \A r \in Rec : start'[r] \in {"none", "checked"} => rec'[r] = "new"

LEMMA SwitchAges ==
  ASSUME IInv, Life, rooms' <= 1,
         \/ RoomBegins \/ RoomEnds \/ StopAnswered
         \/ \E r \in Rec : Answers(r) \/ Opens(r) \/ NeverOpens(r) \/ StartSends(r)
  PROVE  Ages
<1> USE DEF Life, Gone, Over, Ages
<1>0. /\ rec \in [Rec -> {"new", "asked", "running", "stopped"}]
      /\ start \in [Rec -> {"none", "checked", "sent", "answered", "done"}]
      /\ rooms \in Nat
  BY DEF IInv, TypeOK
<1>1. CASE RoomBegins
  BY <1>0, <1>1 DEF RoomBegins, apiVars
<1>2. CASE RoomEnds
  <2>1. /\ live /\ ~live' /\ UNCHANGED <<rooms, start>>
        /\ rec' = [r \in Rec |-> IF rec[r] = "running" THEN "stopped" ELSE rec[r]]
    BY <1>2 DEF RoomEnds, Stopped, Running, apiVars
  <2> QED
    BY <1>0, <2>1
<1>3. CASE StopAnswered
  <2>1. PICK S \in SUBSET Running : Stopped(S)
    <3>1. \/ {stop} \in SUBSET Running /\ Stopped({stop})
          \/ rec' = rec
          \/ \E r \in Running : Stopped({r})
      BY <1>3 DEF StopAnswered
    <3>2. rec' = rec => Stopped({})
      BY <1>0 DEF Stopped
    <3> QED
      BY <3>1, <3>2
  <2>2. UNCHANGED <<live, rooms, start>>
    BY <1>3 DEF StopAnswered, apiVars
  <2> QED
    BY <1>0, <2>1, <2>2 DEF Running, Stopped
<1>4. ASSUME NEW r \in Rec, Answers(r) PROVE Ages
  BY <1>0, <1>4 DEF Answers, Start
<1>5. ASSUME NEW r \in Rec, Opens(r) PROVE Ages
  BY <1>0, <1>5 DEF Opens, apiVars
<1>6. ASSUME NEW r \in Rec, NeverOpens(r) PROVE Ages
  BY <1>0, <1>6 DEF NeverOpens, apiVars
<1>7. ASSUME NEW r \in Rec, StartSends(r) PROVE Ages
  BY <1>0, <1>7 DEF StartSends, Start
<1> QED
  BY <1>1, <1>2, <1>3, <1>4, <1>5, <1>6, <1>7

\* What is on the way stays true of the past, and so does what was closed.
LEMMA AgedPast ==
  ASSUME IInv, Life, Ages
  PROVE  Past \subseteq Past' /\ wire \in Seq(Past')
<1>1. \A m \in Message : m.type = "stop" => m.rec \in Rec
  BY DEF Message
<1>2. Past \subseteq Past'
  BY <1>1 DEF Past, Ages
<1> QED
  BY <1>2, SeqGrows DEF Life

LEMMA SwitchLives ==
  ASSUME IInv, Life, rooms' <= 1,
         \/ RoomBegins \/ RoomEnds \/ StopAnswered
         \/ \E r \in Rec : Answers(r) \/ Opens(r) \/ NeverOpens(r) \/ StartSends(r)
  PROVE  Life'
<1>1. Ages /\ Past \subseteq Past' /\ wire \in Seq(Past')
  BY SwitchAges, AgedPast
<1>2. wire' \in Seq(Past')
  <2>0. /\ Event("create") \in Past'
        /\ \A r \in Rec, type \in {"start", "ok", "err", "norecord", "unknown"} :
             About(type, r) \in Past'
        /\ \A r \in Rec : Gone(r)' => About("stop", r) \in Past'
        /\ Over' => Event("destroy") \in Past'
    BY Messages DEF Past
  <2>1. CASE RoomBegins
    BY <1>1, <2>0, <2>1 DEF RoomBegins
  <2>2. CASE RoomEnds
    <3>1. Event("destroy") \in Past' /\ \A r \in Running : About("stop", r) \in Past'
      <4>1. Over'
        BY <2>2 DEF RoomEnds, Over, Life
      <4> QED
        BY <2>0, <4>1 DEF Gone, Running
    <3> HIDE DEF Past
    <3> DEFINE Q == Past'
    <3> HIDE DEF Q
    <3>2. wire \in Seq(Q) /\ Event("destroy") \in Q /\ \A r \in Running : About("stop", r) \in Q
      BY <1>1, <3>1 DEF Q
    <3> DEFINE over == << Event("destroy") >>
    <3>3. \A s \in Seq(Q) : /\ s \o over \in Seq(Q)
                           /\ \A r \in Running : s \o << About("stop", r) >> \in Seq(Q)
      BY <3>2, SeqJoins
    <3>4. \/ wire' = wire \o over
          \/ \E r \in Running :
               \/ wire' = wire \o << About("stop", r) >> \o over
               \/ wire' = wire \o over \o << About("stop", r) >>
          \/ \E r, q \in Running :
               wire' = wire \o << About("stop", r) >> \o over \o << About("stop", q) >>
      BY <2>2 DEF RoomEnds
    <3> HIDE DEF over
    <3>5. wire' \in Seq(Q)
      BY <3>2, <3>3, <3>4
    <3> QED
      BY <3>5 DEF Q
  <2>3. CASE StopAnswered
    <3>1. \A r \in Running : Stopped({r}) => About("stop", r) \in Past'
      BY <2>0 DEF Stopped, Gone, Running
    <3>2. stop \in Rec
      BY <2>3 DEF StopAnswered, IInv, TypeOK
    <3> DEFINE Q == Past'
    <3> HIDE DEF Q
    <3>3. /\ wire \in Seq(Q)
          /\ \A r \in Running : Stopped({r}) => About("stop", r) \in Q
          /\ About("norecord", stop) \in Q /\ About("unknown", stop) \in Q
      BY <1>1, <2>0, <3>1, <3>2 DEF Q
    <3>4. \/ /\ stop \in Running /\ Stopped({stop})
             /\ wire' = wire \o << About("norecord", stop), About("stop", stop) >>
          \/ wire' = Append(wire, About("unknown", stop))
          \/ \E r \in Running : /\ Stopped({r})
               /\ wire' = wire \o << About("stop", r), About("unknown", stop) >>
      BY <2>3 DEF StopAnswered
    <3>5. \A r \in Running : Stopped({r}) =>
            wire \o << About("stop", r), About("unknown", stop) >> \in Seq(Q)
      BY <3>3, SeqJoins
    <3>6. stop \in Running /\ Stopped({stop}) =>
            wire \o << About("norecord", stop), About("stop", stop) >> \in Seq(Q)
      BY <3>3, SeqJoins
    <3>7. Append(wire, About("unknown", stop)) \in Seq(Q)
      BY <3>3
    <3>8. wire' \in Seq(Q)
      BY <3>4, <3>5, <3>6, <3>7, Zenon
    <3> QED
      BY <3>8 DEF Q
  <2>4. ASSUME NEW r \in Rec, Answers(r) PROVE wire' \in Seq(Past')
    BY <1>1, <2>0, <2>4 DEF Answers
  <2>5. ASSUME NEW r \in Rec, Opens(r) PROVE wire' \in Seq(Past')
    BY <1>1, <2>0, <2>5 DEF Opens
  <2>6. ASSUME NEW r \in Rec, NeverOpens(r) \/ StartSends(r) PROVE wire' \in Seq(Past')
    BY <1>1, <2>6 DEF NeverOpens, StartSends
  <2> QED
    BY <2>1, <2>2, <2>3, <2>4, <2>5, <2>6
<1>3. UNCHANGED <<closes, row, scanned>>
  BY DEF RoomBegins, RoomEnds, StopAnswered, Answers, Opens, NeverOpens, StartSends, dbVars
<1>4. closes \subseteq Rec
  BY DEF IInv, TypeOK
<1> QED
  BY <1>1, <1>2, <1>3, <1>4 DEF Life, Ages

\* What the backend does changes nothing that is past; it only learns of it.
LEMMA LifeKept ==
  ASSUME IInv, Life, UNCHANGED fsVars,
         wire' = wire \/ wire' = << >> \/ (wire # << >> /\ wire' = Tail(wire)),
         \A r \in Rec : start'[r] \in {"none", "checked"} => start[r] \in {"none", "checked"},
         \A r \in closes' : Gone(r),
         \A r \in Rec : row'[r] = "COMPLETED" => r \in scanned' \/ Gone(r)
  PROVE  Life'
<1>1. (\A r \in Rec : Gone(r)' <=> Gone(r)) /\ Past' = Past /\ \A r : Gone(r) => Gone(r)'
  BY DEF fsVars, Gone, Over, Past
<1>2. wire' \in Seq(Past)
  <2>1. wire \in Seq(Past) /\ << >> \in Seq(Past)
    BY EmptySeq DEF Life
  <2> HIDE DEF Past
  <2>2. wire # << >> => Tail(wire) \in Seq(Past)
    BY <2>1, HeadTailProperties
  <2> QED
    BY <2>1, <2>2
<1>3. wire' \in Seq(Past')
  BY <1>1, <1>2
<1> QED
  BY <1>1, <1>3 DEF Life, fsVars

\* The event that is handled tells of something past.
LEMMA ReceivedPast ==
  ASSUME Life
  PROVE  /\ \A r \in Rec : Receive("stop", r) => Gone(r)
         /\ ReceiveEvent("destroy") => Over
<1>1. wire # << >> => Head(wire) \in Past
  BY HeadTailProperties DEF Life
<1> QED
  BY <1>1 DEF Receive, ReceiveEvent, About, Event, Past

LEMMA BackendLives ==
  ASSUME IInv, Life,
         \/ StartTimesOut \/ StopSends \/ StopFails \/ OnCreate \/ OnDestroy
         \/ Seed \/ LinkDrops \/ Restart
         \/ \E r \in Rec :
              \/ StartChecks(r) \/ StartAccepted(r) \/ StartFails(r) \/ AnswerDropped(r)
              \/ Poll(r) \/ StopDone(r) \/ OnStart(r) \/ OnStop(r)
              \/ Upsert(r) \/ Close(r) \/ Scan(r)
  PROVE  Life'
<1>0. /\ start \in [Rec -> {"none", "checked", "sent", "answered", "done"}]
      /\ row \in [Rec -> {"none", "RECORDING", "COMPLETED"}]
      /\ entry \in Entry
  BY DEF IInv, TypeOK
<1>1. UNCHANGED fsVars
  BY DEF StartTimesOut, StopSends, StopFails, OnCreate, OnDestroy, Seed, LinkDrops,
         Restart, StartChecks, StartAccepted, StartFails, AnswerDropped, Poll,
         StopDone, OnStart, OnStop, Upsert, Close, Scan
<1>2. wire' = wire \/ wire' = << >> \/ (wire # << >> /\ wire' = Tail(wire))
  BY DEF StartTimesOut, StopSends, StopFails, OnCreate, OnDestroy, Seed, LinkDrops,
         Restart, StartChecks, StartAccepted, StartFails, AnswerDropped, Poll,
         StopDone, OnStart, OnStop, Upsert, Close, Scan, Receive, ReceiveEvent
<1>3. \A q \in Rec : start'[q] \in {"none", "checked"} => start[q] \in {"none", "checked"}
  <2> SUFFICES ASSUME NEW q \in Rec, start'[q] \in {"none", "checked"}, start'[q] # start[q]
               PROVE  start[q] \in {"none", "checked"}
    OBVIOUS
  <2>1. \/ \E r \in Rec : \/ Start(r, "none", "checked")
                          \/ start' = [start EXCEPT ![r] = "done"]
        \/ start' = [r \in Rec |-> IF start[r] = "none" THEN "none" ELSE "done"]
    BY DEF StartTimesOut, StopSends, StopFails, OnCreate, OnDestroy, Seed, LinkDrops,
           Restart, StartChecks, StartAccepted, StartFails, AnswerDropped, Poll,
           StopDone, OnStart, OnStop, Upsert, Close, Scan, apiVars, Rec
  <2> QED
    BY <1>0, <2>1 DEF Start
<1>4. \A r \in closes' : Gone(r)
  <2>1. CASE OnDestroy
    BY <2>1, ReceivedPast DEF OnDestroy, Gone, Life
  <2>2. ASSUME NEW r \in Rec, OnStop(r) PROVE \A q \in closes' : Gone(q)
    BY <2>2, ReceivedPast DEF OnStop, Life
  <2>3. CASE closes' \subseteq closes
    BY <2>3 DEF Life
  <2> QED
    BY <2>1, <2>2, <2>3
       DEF StartTimesOut, StopSends, StopFails, OnCreate, Seed, LinkDrops,
           Restart, StartChecks, StartAccepted, StartFails, AnswerDropped, Poll,
           StopDone, OnStart, Upsert, Close, Scan, dbVars
<1>5. \A q \in Rec : row'[q] = "COMPLETED" => q \in scanned' \/ Gone(q)
  <2>1. ASSUME NEW r \in Rec, Upsert(r) PROVE \A q \in Rec : row'[q] = "COMPLETED" => q \in scanned' \/ Gone(q)
    BY <1>0, <2>1 DEF Upsert, Inserted, NoRow, Life
  <2>2. ASSUME NEW r \in Rec, Close(r) PROVE \A q \in Rec : row'[q] = "COMPLETED" => q \in scanned' \/ Gone(q)
    BY <1>0, <2>2 DEF Close, NoRow, Life
  <2>3. ASSUME NEW r \in Rec, Scan(r) PROVE \A q \in Rec : row'[q] = "COMPLETED" => q \in scanned' \/ Gone(q)
    BY <1>0, <2>3 DEF Scan, Life
  <2>4. CASE UNCHANGED <<row, scanned>>
    BY <2>4 DEF Life
  <2> QED
    BY <2>1, <2>2, <2>3, <2>4
       DEF StartTimesOut, StopSends, StopFails, OnCreate, OnDestroy, Seed, LinkDrops,
           Restart, StartChecks, StartAccepted, StartFails, AnswerDropped, Poll,
           StopDone, OnStart, OnStop, dbVars
<1> QED
  BY <1>1, <1>2, <1>3, <1>4, <1>5, LifeKept

LEMMA InitLives == Init => OneLife
<1> SUFFICES ASSUME Init PROVE Life
  BY DEF OneLife
<1>1. wire \in Seq(Past)
  BY EmptySeq DEF Init
<1> QED
  BY <1>1 DEF Init, Life

LEMMA OneLifeStep == IInv /\ OneLife /\ [Next]_vars => OneLife'
<1> SUFFICES ASSUME IInv, OneLife, [Next]_vars, rooms' <= 1 PROVE Life'
  BY DEF OneLife
<1>1. Life
  <2>0. rooms \in Nat
    BY DEF IInv, TypeOK
  <2>1. CASE RoomBegins
    BY <2>0, <2>1 DEF RoomBegins, OneLife
  <2>2. CASE ~RoomBegins
    <3>1. ASSUME NEW r \in Rec, RecStep(r) PROVE rooms' = rooms
      BY <3>1 DEF RecStep, fsVars, Answers, Opens, NeverOpens, StartChecks,
             StartSends, StartAccepted, StartFails, AnswerDropped, Poll, StopDone,
             OnStart, OnStop, Upsert, Close, Scan
    <3>2. rooms' = rooms
      BY <2>2, <3>1 DEF Next, vars, fsVars, RoomEnds, StartTimesOut, StopSends,
             StopAnswered, StopFails, OnCreate, OnDestroy, Seed, LinkDrops, Restart
    <3> QED
      BY <2>0, <3>2 DEF OneLife
  <2> QED
    BY <2>1, <2>2
<1>2. CASE \E r \in Rec : RecStep(r)
  BY <1>1, <1>2, SwitchLives, BackendLives DEF RecStep
<1>3. CASE \/ RoomBegins \/ RoomEnds \/ StartTimesOut \/ StopSends \/ StopAnswered
           \/ StopFails \/ OnCreate \/ OnDestroy \/ Seed \/ LinkDrops \/ Restart
  BY <1>1, <1>3, SwitchLives, BackendLives
<1>4. CASE UNCHANGED vars
  BY <1>1, <1>4, LifeKept DEF vars, fsVars, apiVars, dbVars, Life
<1> QED
  BY <1>2, <1>3, <1>4 DEF Next

\* While the room lives once, only the scan completes the row of a recording
\* that still runs, whatever is stopped, lost or late: closeRecording is given
\* paths of recordings that are over.
THEOREM OnlyScanAhead == Spec => []CompletedIsStopped
<1>1. IInv /\ OneLife => CompletedIsStopped
  BY DEF OneLife, Life, CompletedIsStopped, Gone, Over
<1> QED
  BY InitHolds, StepHolds, InitLives, OneLifeStep, <1>1, PTL DEF Spec

=============================================================================
