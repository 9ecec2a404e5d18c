------------------------------- MODULE ErsRing -------------------------------
(***************************************************************************)
(* The ring loop of services/ersRingService.js on top of the emergency      *)
(* calls of ErsIncident: startRingAll starts at most one loop per room;     *)
(* the loop dials every responder in waves and polls the live member count  *)
(* of the room until somebody has joined the caller, or the room is empty,  *)
(* or the time is up.  stopRingAll, which would end it otherwise, is called *)
(* nowhere in the backend.                                                  *)
(*                                                                         *)
(* Time.  A caller enters the room (below a second) before the first poll   *)
(* (3 s) and the deadline (at least 10 s) of the loop started for him.      *)
(***************************************************************************)
EXTENDS ErsIncident

VARIABLES
  ring,  \* activeRings: the loop of each room
  legs   \* are responders' phones ringing for the room?

ringVars == <<vars, ring, legs>>

\* Before its first count, or between waves; caller is the one it rings for.
Loop == [pc : {"off", "start", "wait"}, caller : Caller \cup {NoCaller}]
NoLoop == [pc |-> "off", caller |-> NoCaller]

RingInit ==
  /\ Init
  /\ ring = [t \in Tier |-> NoLoop]
  /\ legs = [t \in Tier |-> FALSE]

-----------------------------------------------------------------------------
SetLoop(t, l) == ring' = [ring EXCEPT ![t] = l]

\* A no-op while a loop is active for the room.
StartRingAll(t, c) ==
  IF ring[t].pc = "off" THEN SetLoop(t, [pc |-> "start", caller |-> c])
  ELSE UNCHANGED ring

\* The two endpoints that start a loop; a completion that promotes does not.
RingAllCreateRings(c) ==
  /\ RingAllCreate(c) /\ StartRingAll(call[c].tier, c)
  /\ UNCHANGED legs

PollPromoteRings(c) ==
  /\ PollPromote(c)
  /\ IF call'[c].pc = "bridging" THEN StartRingAll(call[c].tier, c)
     ELSE UNCHANGED ring
  /\ UNCHANGED legs

\* A wave: every responder is dialled, unless someone has joined the caller.
RingWave(t) ==
  /\ \/ ring[t].pc = "start" /\ Seen(t) <= 1
     \/ ring[t].pc = "wait" /\ Seen(t) = 1
  /\ SetLoop(t, [ring[t] EXCEPT !.pc = "wait"])
  /\ legs' = [legs EXCEPT ![t] = @ \/ link = "up"]
  /\ UNCHANGED vars

\* The caller a loop was started for is in the room when it polls.
Entered(t) == ring[t].caller = NoCaller \/ call[ring[t].caller].pc # "bridging"

\* Answered, or, after a wave, seen empty.
RingStops(t) ==
  /\ \/ ring[t].pc # "off" /\ Seen(t) > 1
     \/ ring[t].pc = "wait" /\ Seen(t) = 0 /\ Entered(t)
  /\ SetLoop(t, NoLoop)
  /\ UNCHANGED <<vars, legs>>

\* A slip: a deadline that is tested only while nobody is in the room.
RingTimesOutEmpty(t) ==
  /\ ring[t].pc = "wait" /\ Entered(t) /\ Seen(t) = 0
  /\ SetLoop(t, NoLoop)
  /\ UNCHANGED <<vars, legs>>

\* ring_timeout_seconds, or two hours.
RingTimesOut(t) ==
  /\ ring[t].pc = "wait" /\ Entered(t)
  /\ SetLoop(t, NoLoop)
  /\ UNCHANGED <<vars, legs>>

\* A responder answers, whoever is in the room by then.
ResponderJoins(t) ==
  /\ legs[t]
  /\ others' = [others EXCEPT ![t] = TRUE]
  /\ legs' = [legs EXCEPT ![t] = FALSE]
  /\ UNCHANGED <<call, incident, row, destroyed, jobs, health, ring>>

\* Nobody answers.
LegsEnd(t) ==
  /\ legs[t]
  /\ legs' = [legs EXCEPT ![t] = FALSE]
  /\ UNCHANGED <<vars, ring>>

RingCrash ==
  /\ Crash
  /\ ring' = [t \in Tier |-> NoLoop]
  /\ UNCHANGED legs

-----------------------------------------------------------------------------
LoopStep(t) == RingWave(t) \/ RingStops(t)
LegStep(t) == ResponderJoins(t) \/ LegsEnd(t)

\* The steps of ErsIncident that leave the loops alone.
Quietly(A) == A /\ UNCHANGED <<ring, legs>>

CallStep(c) ==
  \/ RingAllCreateRings(c) \/ PollPromoteRings(c)
  \/ Quietly(RingAllCheck(c)) \/ Quietly(RequestFails(c))
  \/ Quietly(\E u \in Caller \cup {NoCaller} : RingAllRejoin(c, u))
  \/ Quietly(PollReady(c)) \/ Quietly(PollCancelled(c)) \/ Quietly(PollSeesFree(c))
  \/ Quietly(RoomStep(c)) \/ Quietly(\E p \in 0..N : Enqueue({c}, p))

RingNext ==
  \/ \E c \in Caller :
       CallStep(c) \/ Quietly(Dial(c)) \/ Quietly(GiveUp(c))
       \/ Quietly(RowStep(c)) \/ Quietly(OperatorCancel(c))
  \/ \E t \in Tier :
       \/ LoopStep(t) \/ RingTimesOut(t) \/ LegStep(t)
       \/ Quietly(OthersLeave(t)) \/ Quietly(ReconcileStep(t))
  \/ Quietly(SweepStep) \/ RingCrash
  \/ Quietly(Restart) \/ Quietly(LinkDrops) \/ Quietly(LinkReturns)

\* Requests are served, calls and phones end, loops and timers go on, the
\* process is restarted and the ESL client reconnects.
RingFairness ==
  /\ \A c \in Caller :
       /\ WF_ringVars(CallStep(c)) /\ WF_ringVars(Quietly(RowStep(c)))
  /\ \A t \in Tier :
       /\ WF_ringVars(LoopStep(t)) /\ WF_ringVars(RingTimesOut(t))
       /\ WF_ringVars(LegStep(t)) /\ WF_ringVars(Quietly(OthersLeave(t)))
       /\ WF_ringVars(Quietly(ReconcileStep(t)))
  /\ WF_ringVars(Quietly(SweepStep))
  /\ WF_ringVars(Quietly(Restart)) /\ WF_ringVars(Quietly(LinkReturns))

RingSpec == RingInit /\ [][RingNext]_ringVars
RingFairSpec == RingSpec /\ RingFairness

-----------------------------------------------------------------------------
(* Properties *)

\* When the last caller has gone, the phones stop ringing: a responder left alone
\* in the room looks to the loop like a caller who waits, and the loop goes on
\* dialling the others for him, but its deadline ends that.
RingingEnds ==
  (\A c \in Caller : call[c].pc = "done")
    ~> \A t \in Tier : ring[t].pc = "off" /\ ~legs[t]

\* Every incident ends, also after a crash or a lost conference-destroy.
IncidentsEnd ==
  \A c \in Caller : incident[c].status = "ACTIVE" ~> incident[c].status # "ACTIVE"

\* Nobody holds for ever: a caller who waits is sent to a room, or stops waiting.
WaitersServed ==
  \A c \in Caller : call[c].pc = "waiting" ~> call[c].pc \in {"bridging", "done"}

=============================================================================
