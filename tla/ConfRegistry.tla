---------------------------- MODULE ConfRegistry ----------------------------
(***************************************************************************)
(* The conference registry of services/eslService.js: the backend's copy   *)
(* of FreeSWITCH's rooms, kept by the events of one ESL link, rebuilt by   *)
(* seedConferenceRegistry from the answers to two kinds of command, and    *)
(* the completion of ACTIVE incidents that hangs on it (conference-destroy,*)
(* the seed and the 30 s sweep).  FreeSWITCH answers a command later than  *)
(* it has evaluated it; events and answers share one ordered wire.  The    *)
(* Lua script's own completion is left out: these are the paths for when   *)
(* it does not come.  FreeSWITCH, the link and the arrival of calls are    *)
(* external.  An incident bears the name of the caller who opened it.      *)
(***************************************************************************)
EXTENDS Naturals, Sequences, FiniteSets

CONSTANTS
  Room,
  PerRoom,    \* callers of each room
  Seeder,     \* seeds that may run at once (start, interval, on demand)
  MaxFaults   \* bound on lost links, restarts and failed commands

Member == Room \X (1..PerRoom)
RoomOf(m) == m[1]
Of(r, S) == {m \in S : RoomOf(m) = r}
RoomsOf(S) == {RoomOf(m) : m \in S}

ASSUME ConfAssumption == PerRoom \in Nat /\ MaxFaults \in Nat

VARIABLES
  place,       \* where FreeSWITCH has each member: new, in, left
  active,      \* incidents whose status is ACTIVE
  link,        \* isConn
  conn,        \* the connection in use: dialing, up, broken (unnoticed), down
  retry,       \* retryTimer is set
  stray,       \* the end event of a connection given up is to come
  wire,        \* what FreeSWITCH has sent on the connection
  known,       \* keys of conferenceRegistry
  registered,  \* members of its entries
  todo,        \* destroyed rooms whose reconciliation is awaited
  seed,        \* seedConferenceRegistry, of each seeder
  sweep,       \* reconcileAllActiveIncidents
  faults

linkVars == <<link, conn, retry, stray>>
vars == <<place, active, linkVars, wire, known, registered, todo, seed, sweep, faults>>

Inside == {m \in Member : place[m] = "in"}

\* A seed: the command it waits for, the rooms it still asks for, the members
\* it has been told, the rooms it has been told, and the room it reconciles.
Seed == [pc : {"idle", "list", "ask", "apply", "drop", "reconcile"},
         asked : {"no", "sent", "evaluated"}, answer : SUBSET Member,
         left : SUBSET Room, got : SUBSET Member, rooms : SUBSET Room,
         at : SUBSET Room]
NoSeed == [pc |-> "idle", asked |-> "no", answer |-> {}, left |-> {},
           got |-> {}, rooms |-> {}, at |-> {}]

\* The sweep: the rows it still goes through, and those counted empty.
NoSweep == [rows |-> {}, empty |-> {}]

Message == [type : {"create", "destroy"}, room : Room]
           \cup [type : {"add", "del"}, member : Member]
           \cup [type : {"answer"}, seeder : Seeder]

TypeOK ==
  /\ place \in [Member -> {"new", "in", "left"}]
  /\ active \subseteq Member
  /\ link \in BOOLEAN /\ retry \in BOOLEAN /\ stray \in BOOLEAN
  /\ conn \in {"dialing", "up", "broken", "down"}
  /\ wire \in Seq(Message)
  /\ known \subseteq Room
  /\ registered \subseteq {m \in Member : RoomOf(m) \in known}
  /\ todo \subseteq Room
  /\ seed \in [Seeder -> Seed]
  /\ sweep \in [rows : SUBSET Member, empty : SUBSET Member]
  /\ sweep.empty \subseteq sweep.rows
  /\ faults \in 0..MaxFaults

Init ==
  /\ place = [m \in Member |-> "new"]
  /\ active = {}
  /\ link = FALSE /\ conn = "dialing" /\ retry = FALSE /\ stray = FALSE
  /\ wire = << >>
  /\ known = {} /\ registered = {}
  /\ todo = {}
  /\ seed = [s \in Seeder |-> NoSeed]
  /\ sweep = NoSweep
  /\ faults = 0

Answer(s) == [type |-> "answer", seeder |-> s]
Linked == conn = "up"
AnswerDue(s) ==
  \/ Linked /\ seed[s].asked # "no"
  \/ \E i \in DOMAIN wire : wire[i] = Answer(s)

Fault == faults < MaxFaults /\ faults' = faults + 1
Send(events) == wire' = IF Linked THEN wire \o events ELSE wire

-----------------------------------------------------------------------------
(* FreeSWITCH.  The first member creates the room and, before it, ring-all  *)
(* has inserted the incident; the last one to leave destroys the room.     *)

Join(m) ==
  /\ place[m] = "new"
  /\ place' = [place EXCEPT ![m] = "in"]
  /\ LET r == RoomOf(m)
         added == << [type |-> "add", member |-> m] >> IN
     IF Of(r, Inside) = {}
     THEN /\ active' = active \cup {m}
          /\ Send(<< [type |-> "create", room |-> r] >> \o added)
     ELSE /\ UNCHANGED active
          /\ Send(added)
  /\ UNCHANGED <<linkVars, known, registered, todo, seed, sweep, faults>>

Leave(m) ==
  /\ place[m] = "in"
  /\ place' = [place EXCEPT ![m] = "left"]
  /\ LET removed == << [type |-> "del", member |-> m] >> IN
     Send(IF Of(RoomOf(m), Inside) = {m}
          THEN removed \o << [type |-> "destroy", room |-> RoomOf(m)] >>
          ELSE removed)
  /\ UNCHANGED <<active, linkVars, known, registered, todo, seed, sweep, faults>>

\* A command is evaluated; its answer leaves some time later.
Evaluate(s) ==
  /\ Linked /\ seed[s].asked = "sent"
  /\ seed' = [seed EXCEPT ![s].asked = "evaluated", ![s].answer = Inside]
  /\ UNCHANGED <<place, active, linkVars, wire, known, registered, todo, sweep, faults>>

Reply(s) ==
  /\ Linked /\ seed[s].asked = "evaluated"
  /\ seed' = [seed EXCEPT ![s].asked = "no"]
  /\ wire' = Append(wire, Answer(s))
  /\ UNCHANGED <<place, active, linkVars, known, registered, todo, sweep, faults>>

-----------------------------------------------------------------------------
(* The events of conference::maintenance. *)

Receive(type) ==
  /\ wire # << >> /\ Head(wire).type = type
  /\ wire' = Tail(wire)

OnCreate ==
  /\ Receive("create")
  /\ known' = known \cup {Head(wire).room}
  /\ UNCHANGED <<place, active, linkVars, registered, todo, seed, sweep, faults>>

OnDestroy ==
  /\ Receive("destroy")
  /\ LET r == Head(wire).room IN
     /\ known' = known \ {r}
     /\ registered' = registered \ Of(r, Member)
     /\ todo' = todo \cup {r}
  /\ UNCHANGED <<place, active, linkVars, seed, sweep, faults>>

\* A slip: the entry is expected to be there already.
OnAddNoEntry ==
  /\ Receive("add")
  /\ registered' = registered \cup {Head(wire).member}
  /\ UNCHANGED <<place, active, linkVars, known, todo, seed, sweep, faults>>

OnAdd ==
  /\ Receive("add")
  /\ LET m == Head(wire).member IN
     /\ known' = known \cup {RoomOf(m)}
     /\ registered' = registered \cup {m}
  /\ UNCHANGED <<place, active, linkVars, todo, seed, sweep, faults>>

OnDel ==
  /\ Receive("del")
  /\ registered' = registered \ {Head(wire).member}
  /\ UNCHANGED <<place, active, linkVars, known, todo, seed, sweep, faults>>

\* reconcileOrphanedIncident: every ACTIVE incident of the room.
Reconcile(r) == active' = active \ Of(r, active)

DestroyReconciles(r) ==
  /\ r \in todo /\ todo' = todo \ {r}
  /\ Reconcile(r)
  /\ UNCHANGED <<place, linkVars, wire, known, registered, seed, sweep, faults>>

-----------------------------------------------------------------------------
(* seedConferenceRegistry: conference list, then xml_list room by room. *)

\* A command to a connection that is not up gets no answer.
Sent == IF Linked THEN "sent" ELSE "no"
SetSeed(s, v) == seed' = [seed EXCEPT ![s] = v]

SeedStart(s) ==
  /\ link /\ seed[s].pc = "idle"
  /\ SetSeed(s, [NoSeed EXCEPT !.pc = "list", !.asked = Sent])
  /\ UNCHANGED <<place, active, linkVars, wire, known, registered, todo, sweep, faults>>

\* The next command; it fails at once without a link.
AskNext(s, left, got, rooms) ==
  LET told == [seed[s] EXCEPT !.left = left, !.got = got, !.rooms = rooms,
                              !.answer = {}, !.asked = "no"] IN
  SetSeed(s, [told EXCEPT
    !.pc = IF left = {} THEN "apply" ELSE "ask",
    !.asked = IF left # {} /\ link THEN Sent ELSE "no"])

SeedHears(s) ==
  /\ Receive("answer") /\ Head(wire).seeder = s
  /\ \/ seed[s].pc = "list" /\ AskNext(s, RoomsOf(seed[s].answer), {}, {})
     \/ seed[s].pc = "ask" /\ \E r \in seed[s].left :
          LET heard == Of(r, seed[s].answer) IN
          AskNext(s, seed[s].left \ {r}, seed[s].got \cup heard,
                  seed[s].rooms \cup RoomsOf(heard))
  /\ UNCHANGED <<place, active, linkVars, known, registered, todo, sweep, faults>>

\* An answer that comes after its command was given up finds nobody.
AnswerDropped(s) ==
  \/ (\A i \in DOMAIN wire : wire[i] # Answer(s)) /\ UNCHANGED wire
  \/ \E i \in DOMAIN wire :
       /\ wire[i] = Answer(s)
       /\ wire' = SubSeq(wire, 1, i - 1) \o SubSeq(wire, i + 1, Len(wire))

\* The timer of eslCommandTimeout, also when a connection took the answer
\* along: no names, or one room fewer.
SeedFails(s) ==
  /\ seed[s].pc \in {"list", "ask"}
  /\ IF AnswerDue(s) THEN Fault ELSE UNCHANGED faults
  /\ AnswerDropped(s)
  /\ \/ seed[s].pc = "list" /\ AskNext(s, {}, {}, {})
     \/ seed[s].pc = "ask" /\ \E r \in seed[s].left :
          AskNext(s, seed[s].left \ {r}, seed[s].got, seed[s].rooms)
  /\ UNCHANGED <<place, active, linkVars, known, registered, todo, sweep>>

\* A slip: nothing is cleaned when FreeSWITCH reports no conference.
SeedAppliesUnlessEmpty(s) ==
  /\ seed[s].pc = "apply"
  /\ LET told == seed[s] IN
     /\ known' = known \cup told.rooms
     /\ registered' = told.got \cup {m \in registered : RoomOf(m) \notin told.rooms}
     /\ SetSeed(s, IF told.rooms = {} THEN NoSeed ELSE [told EXCEPT !.pc = "drop"])
  /\ UNCHANGED <<place, active, linkVars, wire, todo, sweep, faults>>

\* The rooms it was told of get exactly the members it was told.
SeedApplies(s) ==
  /\ seed[s].pc = "apply"
  /\ LET told == seed[s] IN
     /\ known' = known \cup told.rooms
     /\ registered' = told.got \cup {m \in registered : RoomOf(m) \notin told.rooms}
     /\ SetSeed(s, [told EXCEPT !.pc = "drop"])
  /\ UNCHANGED <<place, active, linkVars, wire, todo, sweep, faults>>

\* The others go one by one, the entries added meanwhile too, each with the
\* completion of its incidents awaited.
SeedDrops(s, r) ==
  /\ seed[s].pc = "drop" /\ r \in known \ seed[s].rooms
  /\ known' = known \ {r}
  /\ registered' = registered \ Of(r, Member)
  /\ SetSeed(s, [seed[s] EXCEPT !.pc = "reconcile", !.at = {r}])
  /\ UNCHANGED <<place, active, linkVars, wire, todo, sweep, faults>>

SeedReconciles(s) ==
  /\ seed[s].pc = "reconcile"
  /\ \E r \in seed[s].at : Reconcile(r)
  /\ SetSeed(s, [seed[s] EXCEPT !.pc = "drop", !.at = {}])
  /\ UNCHANGED <<place, linkVars, wire, known, registered, todo, sweep, faults>>

SeedEnds(s) ==
  /\ seed[s].pc = "drop" /\ known \subseteq seed[s].rooms
  /\ SetSeed(s, NoSeed)
  /\ UNCHANGED <<place, active, linkVars, wire, known, registered, todo, sweep, faults>>

-----------------------------------------------------------------------------
(* reconcileAllActiveIncidents, every 30 s: the link is looked at once. *)

\* A slip: it goes through the rooms of the registry.
SweepStartKnown ==
  /\ link /\ sweep = NoSweep /\ active # {}
  /\ sweep' = [NoSweep EXCEPT !.rows = {m \in active : RoomOf(m) \in known}]
  /\ UNCHANGED <<place, active, linkVars, wire, known, registered, todo, seed, faults>>

SweepStart ==
  /\ link /\ sweep = NoSweep /\ active # {}
  /\ sweep' = [NoSweep EXCEPT !.rows = active]
  /\ UNCHANGED <<place, active, linkVars, wire, known, registered, todo, seed, faults>>

\* getConferenceMemberCount is 0 for an empty room, and whenever it fails.
SweepCount(m) ==
  /\ m \in sweep.rows /\ sweep.empty = {}
  /\ \/ /\ link /\ Linked /\ Of(RoomOf(m), Inside) # {}
        /\ sweep' = [sweep EXCEPT !.rows = @ \ {m}]
        /\ UNCHANGED faults
     \/ /\ sweep' = [sweep EXCEPT !.empty = {m}]
        /\ IF link /\ Linked /\ Of(RoomOf(m), Inside) # {} THEN Fault ELSE UNCHANGED faults
  /\ UNCHANGED <<place, active, linkVars, wire, known, registered, todo, seed>>

SweepCompletes ==
  /\ sweep.empty # {}
  /\ active' = active \ sweep.empty
  /\ sweep' = [rows |-> sweep.rows \ sweep.empty, empty |-> {}]
  /\ UNCHANGED <<place, linkVars, wire, known, registered, todo, seed, faults>>

-----------------------------------------------------------------------------
(* connect(), its three handlers and the process.  The handlers belong to a  *)
(* connection, but isConn and retryTimer are shared by all of them.  A      *)
(* connection that was told to end does not complete its handshake.  Two    *)
(* orders of time count as faults when they are broken: the end event of a  *)
(* connection comes before the handshake of the next one is over, and a     *)
(* handshake is over before the back-off.                                   *)

Rest == <<place, active, known, registered, todo, sweep>>

\* What was on the wire, and what FreeSWITCH was asked, is lost.
NotAsked(s) == [seed[s] EXCEPT !.asked = "no", !.answer = {}]
Cut == wire' = << >> /\ seed' = [s \in Seeder |-> NotAsked(s)]

Breaks ==
  /\ conn = "up" /\ Fault
  /\ conn' = "broken" /\ Cut
  /\ UNCHANGED <<Rest, link, retry, stray>>

Ready ==
  /\ conn = "dialing"
  /\ conn' = "up" /\ link' = TRUE /\ retry' = FALSE
  /\ IF stray THEN Fault ELSE UNCHANGED faults
  /\ UNCHANGED <<Rest, wire, seed, stray>>

\* The end event of the connection in use.
OnEnd ==
  /\ conn = "broken"
  /\ conn' = "down" /\ link' = FALSE /\ retry' = TRUE
  /\ UNCHANGED <<Rest, wire, seed, stray, faults>>

\* A slip: an error is only logged, and an end awaited.
OnErrorLogged ==
  /\ \/ conn = "broken" /\ stray' \in {stray, TRUE} /\ UNCHANGED faults
     \/ conn = "dialing" /\ Fault /\ UNCHANGED stray
  /\ conn' = "down"
  /\ UNCHANGED <<Rest, wire, seed, link, retry>>

\* Its error event: a refused handshake, or a connection that breaks, whose
\* end event may follow, late or never.  isConn stays as it is.
OnError ==
  /\ \/ conn = "broken" /\ stray' \in {stray, TRUE} /\ UNCHANGED faults
     \/ conn = "dialing" /\ Fault /\ UNCHANGED stray
  /\ conn' = "down" /\ retry' = TRUE
  /\ UNCHANGED <<Rest, wire, seed, link>>

\* The end of a connection given up before, replaced already or not.
OnStrayEnd ==
  /\ stray /\ stray' = FALSE
  /\ link' = FALSE /\ retry' = TRUE
  /\ UNCHANGED <<Rest, wire, seed, conn, faults>>

\* The timer of scheduleReconnect ends the connection in use and dials anew.
Connect ==
  /\ retry /\ retry' = FALSE
  /\ IF conn = "dialing" THEN Fault ELSE UNCHANGED faults
  /\ conn' = "dialing" /\ Cut
  /\ stray' = (stray \/ conn # "down")
  /\ UNCHANGED <<Rest, link>>

Restart ==
  /\ Fault
  /\ link' = FALSE /\ conn' = "dialing" /\ retry' = FALSE /\ stray' = FALSE
  /\ wire' = << >>
  /\ known' = {} /\ registered' = {} /\ todo' = {}
  /\ seed' = [s \in Seeder |-> NoSeed]
  /\ sweep' = NoSweep
  /\ UNCHANGED <<place, active>>

-----------------------------------------------------------------------------
Event == OnCreate \/ OnDestroy \/ OnAdd \/ OnDel

SeedStep(s) ==
  \/ SeedHears(s) \/ SeedApplies(s) \/ SeedReconciles(s) \/ SeedEnds(s)
  \/ \E r \in Room : SeedDrops(s, r)

Next ==
  \/ \E m \in Member : Join(m) \/ Leave(m) \/ SweepCount(m)
  \/ \E s \in Seeder :
       Evaluate(s) \/ Reply(s) \/ SeedStart(s) \/ SeedFails(s) \/ SeedStep(s)
  \/ \E r \in Room : DestroyReconciles(r)
  \/ Event \/ SweepStart \/ SweepCompletes
  \/ Breaks \/ Ready \/ OnEnd \/ OnError \/ OnStrayEnd \/ Connect \/ Restart

\* FreeSWITCH answers, timers and intervals fire, and the link is remade.
Fairness ==
  /\ WF_vars(Event)
  /\ WF_vars(~stray /\ Ready) /\ WF_vars(OnEnd \/ (conn = "broken" /\ OnError))
  /\ WF_vars(OnStrayEnd) /\ WF_vars(conn # "dialing" /\ Connect)
  /\ WF_vars(SweepStart) /\ WF_vars(SweepCompletes)
  /\ \A m \in Member : WF_vars(SweepCount(m))
  /\ \A r \in Room : WF_vars(DestroyReconciles(r))
  /\ \A s \in Seeder :
       /\ WF_vars(Evaluate(s)) /\ WF_vars(Reply(s)) /\ WF_vars(SeedStart(s))
       /\ WF_vars(SeedStep(s)) /\ WF_vars(~AnswerDue(s) /\ SeedFails(s))

Spec == Init /\ [][Next]_vars /\ Fairness

-----------------------------------------------------------------------------
(* Properties *)

\* Whichever of the handlers of the old and the new connection ran last, a
\* connection that is down, or that isConn says is down, is about to be
\* replaced: the one retryTimer they share is not lost between them.
ReconnectPending ==
  conn = "down" \/ (conn = "up" /\ ~link) => retry

\* Once calls stop coming and going the registry becomes, and stays, what
\* FreeSWITCH has, whatever events were lost, whichever answers were overtaken
\* by events, and wherever the link or the process went down.
RegistryConverges == <>[](known = RoomsOf(Inside) /\ registered = Inside)

\* The incident of a room that stays empty does not stay ACTIVE, also when
\* the event that said so was lost, or the process stopped between the
\* deletion of the entry and the completion.
EmptyRoomsSettle ==
  \A r \in Room : <>[](Of(r, Inside) = {}) => <>[](Of(r, active) = {})

=============================================================================
