------------------------- MODULE ConfRegistryProofs -------------------------
(***************************************************************************)
(* Proof that the ESL client never gives up, and of the types, for every   *)
(* set of rooms, of callers and of seeds, and every number of faults.      *)
(* ReconnectPending is inductive as it stands; what needs looking at are   *)
(* the seven steps of connections and of the process, as events, seeds and *)
(* sweeps leave isConn, the connection and the timer alone.  That the      *)
(* members of the registry are in entries of it rests on the seed: the     *)
(* members it has been told are of rooms it has been told.                 *)
(***************************************************************************)
EXTENDS ConfRegistry, SequenceTheorems, TLAPS

LinkStep ==
  Breaks \/ Ready \/ OnEnd \/ OnError \/ OnStrayEnd \/ Connect \/ Restart

\* Calls, events, seeds and sweeps leave the connection as it is.
LEMMA OthersKeepLink == [Next]_vars => LinkStep \/ UNCHANGED linkVars
<1> SUFFICES ASSUME [Next]_vars PROVE LinkStep \/ UNCHANGED linkVars
  OBVIOUS
<1>1. ASSUME NEW m \in Member, Join(m) \/ Leave(m) \/ SweepCount(m)
      PROVE  UNCHANGED linkVars
  BY <1>1, Zenon DEF Join, Leave, SweepCount
<1>2. ASSUME NEW s \in Seeder, Evaluate(s) \/ Reply(s) \/ SeedStart(s) \/ SeedFails(s)
      PROVE  UNCHANGED linkVars
  BY <1>2, Zenon DEF Evaluate, Reply, SeedStart, SeedFails
<1>3. ASSUME NEW s \in Seeder, SeedStep(s) PROVE UNCHANGED linkVars
  BY <1>3, Zenon DEF SeedStep, SeedHears, SeedApplies, SeedDrops, SeedReconciles, SeedEnds
<1>4. ASSUME NEW r \in Room, DestroyReconciles(r) PROVE UNCHANGED linkVars
  BY <1>4, Zenon DEF DestroyReconciles
<1>5. CASE Event
  BY <1>5, Zenon DEF Event, OnCreate, OnDestroy, OnAdd, OnDel
<1>6. CASE SweepStart \/ SweepCompletes
  BY <1>6, Zenon DEF SweepStart, SweepCompletes
<1>7. CASE UNCHANGED vars
  BY <1>7, Zenon DEF vars
<1> QED
  BY <1>1, <1>2, <1>3, <1>4, <1>5, <1>6, <1>7 DEF Next, LinkStep

LEMMA PendingStep == ReconnectPending /\ [Next]_vars => ReconnectPending'
<1> SUFFICES ASSUME ReconnectPending, [Next]_vars PROVE ReconnectPending'
  OBVIOUS
<1>1. CASE UNCHANGED linkVars
  BY <1>1 DEF linkVars, ReconnectPending
\* What breaks is not yet down, and who dials is not down either.
<1>2. CASE Breaks \/ Connect \/ Restart
  BY <1>2 DEF Breaks, Connect, Restart, ReconnectPending
\* The one step that clears the timer of another connection also sets isConn.
<1>3. CASE Ready
  BY <1>3 DEF Ready, ReconnectPending
<1>4. CASE OnEnd \/ OnError \/ OnStrayEnd
  BY <1>4 DEF OnEnd, OnError, OnStrayEnd, ReconnectPending
<1> QED
  BY <1>1, <1>2, <1>3, <1>4, OthersKeepLink DEF LinkStep

\* A connection that is down, or that isConn says is down, is always about to
\* be replaced: connect's handlers, of the connection in use and of those it
\* replaced, never leave the backend without retryTimer or a handshake.
THEOREM AlwaysReconnects == Spec => []ReconnectPending
<1>1. Init => ReconnectPending
  BY DEF Init, ReconnectPending
<1>2. ReconnectPending /\ [Next]_vars => ReconnectPending'
  BY PendingStep
<1> QED
  BY <1>1, <1>2, PTL DEF Spec

-----------------------------------------------------------------------------
(* The types. *)

\* A seed has been told the room of each member it has been told.
ToldRooms ==
  \A s \in Seeder : \A m \in seed[s].got : RoomOf(m) \in seed[s].rooms

TypeInv == TypeOK /\ ToldRooms

LEMMA Members ==
  /\ \A m \in Member : RoomOf(m) \in Room
  /\ \A S \in SUBSET Member : RoomsOf(S) \in SUBSET Room
  /\ \A r \in Room, S \in SUBSET Member :
       Of(r, S) \in SUBSET S /\ \A m \in S : m \in Of(r, S) <=> RoomOf(m) = r
  /\ Inside \in SUBSET Member
BY DEF Member, RoomOf, RoomsOf, Of, Inside

LEMMA Messages ==
  /\ \A r \in Room : /\ [type |-> "create", room |-> r] \in Message
                    /\ [type |-> "destroy", room |-> r] \in Message
  /\ \A m \in Member : /\ [type |-> "add", member |-> m] \in Message
                      /\ [type |-> "del", member |-> m] \in Message
  /\ \A s \in Seeder : Answer(s) \in Message
  /\ \A e \in Message : /\ e.type \in {"create", "destroy"} => e.room \in Room
                       /\ e.type \in {"add", "del"} => e.member \in Member
BY DEF Message, Answer

LEMMA Seeds ==
  /\ NoSeed \in Seed /\ NoSeed.got = {}
  /\ \A s : Sent \in {"sent", "no"}
BY DEF NoSeed, Seed, Sent

LEMMA RoomEvents ==
  ASSUME NEW e \in Message, e.type = "create" \/ e.type = "destroy"
  PROVE  e.room \in Room
BY DEF Message

\* What is received, and the rest of the wire.
LEMMA Received ==
  ASSUME TypeOK, NEW type, Receive(type)
  PROVE  /\ wire' \in Seq(Message) /\ Head(wire) \in Message
         /\ Head(wire).type = type
<1>1. wire \in Seq(Message) /\ wire # << >> /\ wire' = Tail(wire)
  BY DEF TypeOK, Receive
<1> QED
  BY <1>1, HeadTailProperties DEF Receive

\* What is sent, by a link that is up.
LEMMA Sends ==
  ASSUME TypeOK, NEW es \in Seq(Message), Send(es)
  PROVE  wire' \in Seq(Message)
BY ConcatProperties DEF TypeOK, Send

LEMMA Dropped ==
  ASSUME TypeOK, NEW s \in Seeder, AnswerDropped(s)
  PROVE  wire' \in Seq(Message)
<1>1. wire \in Seq(Message) /\ Len(wire) \in Nat /\ DOMAIN wire = 1..Len(wire)
  BY DEF TypeOK
<1>2. ASSUME NEW i \in 1..Len(wire)
      PROVE  SubSeq(wire, 1, i - 1) \o SubSeq(wire, i + 1, Len(wire)) \in Seq(Message)
  <2>1. /\ SubSeq(wire, 1, i - 1) \in Seq(Message)
        /\ SubSeq(wire, i + 1, Len(wire)) \in Seq(Message)
    BY <1>1
  <2> QED
    BY <2>1, ConcatProperties
<1> QED
  BY <1>1, <1>2 DEF AnswerDropped

\* A seed's next record, whatever it goes on to ask.
LEMMA Asks ==
  ASSUME TypeOK, NEW s \in Seeder, NEW left \in SUBSET Room,
         NEW got \in SUBSET Member, NEW rooms \in SUBSET Room,
         \A m \in got : RoomOf(m) \in rooms, ToldRooms,
         AskNext(s, left, got, rooms)
  PROVE  seed' \in [Seeder -> Seed] /\ ToldRooms'
<1> DEFINE v == [seed[s] EXCEPT !.left = left, !.got = got, !.rooms = rooms,
                               !.answer = {},
                               !.pc = IF left = {} THEN "apply" ELSE "ask",
                               !.asked = IF left # {} /\ link THEN Sent ELSE "no"]
<1>0. seed \in [Seeder -> Seed] /\ seed[s] \in Seed
  BY DEF TypeOK
<1>1. v \in Seed /\ v.got = got /\ v.rooms = rooms
  BY <1>0, Seeds DEF Seed
<1>2. seed' = [seed EXCEPT ![s] = v]
  BY <1>0 DEF AskNext, SetSeed, Seed
<1> HIDE DEF v
<1> QED
  BY <1>0, <1>1, <1>2 DEF ToldRooms

\* Any other step of a seed keeps what it was told, or forgets it.
LEMMA SeedMoves ==
  ASSUME TypeOK, ToldRooms, NEW s \in Seeder, NEW v \in Seed,
         seed' = [seed EXCEPT ![s] = v],
         v.got = {} \/ (v.got = seed[s].got /\ v.rooms = seed[s].rooms)
  PROVE  seed' \in [Seeder -> Seed] /\ ToldRooms'
BY DEF TypeOK, ToldRooms

LEMMA SwitchTyped ==
  ASSUME TypeInv, \E m \in Member : Join(m) \/ Leave(m)
  PROVE  TypeInv'
<1> PICK m \in Member : Join(m) \/ Leave(m)
  OBVIOUS
<1>0. RoomOf(m) \in Room /\ TypeOK
  BY Members DEF TypeInv
<1>1. CASE Join(m)
  <2> DEFINE create == [type |-> "create", room |-> RoomOf(m)]
             add == [type |-> "add", member |-> m]
  <2>1. create \in Message /\ add \in Message
    BY <1>0, Messages
  <2> HIDE DEF create, add
  <2>2. << add >> \in Seq(Message) /\ << create >> \o << add >> \in Seq(Message)
    BY <2>1, ConcatProperties
  <2>3. Send(<< add >>) \/ Send(<< create >> \o << add >>)
    BY <1>1 DEF Join, create, add
  <2>4. wire' \in Seq(Message)
    BY <1>0, <2>2, <2>3, Sends
  <2>5. /\ place' \in [Member -> {"new", "in", "left"}] /\ active' \subseteq Member
        /\ UNCHANGED <<link, conn, retry, stray, known, registered, todo, seed, sweep, faults>>
    BY <1>0, <1>1 DEF Join, TypeOK, linkVars
  <2> QED
    BY <2>4, <2>5 DEF TypeInv, TypeOK, ToldRooms
<1>2. CASE Leave(m)
  <2> DEFINE del == [type |-> "del", member |-> m]
             destroy == [type |-> "destroy", room |-> RoomOf(m)]
  <2>1. del \in Message /\ destroy \in Message
    BY <1>0, Messages
  <2> HIDE DEF del, destroy
  <2>2. << del >> \in Seq(Message) /\ << del >> \o << destroy >> \in Seq(Message)
    BY <2>1, ConcatProperties
  <2>3. Send(<< del >>) \/ Send(<< del >> \o << destroy >>)
    BY <1>2 DEF Leave, del, destroy
  <2>4. wire' \in Seq(Message)
    BY <1>0, <2>2, <2>3, Sends
  <2>5. /\ place' \in [Member -> {"new", "in", "left"}]
        /\ UNCHANGED <<active, link, conn, retry, stray, known, registered, todo, seed, sweep, faults>>
    BY <1>0, <1>2 DEF Leave, TypeOK, linkVars
  <2> QED
    BY <2>4, <2>5 DEF TypeInv, TypeOK, ToldRooms
<1> QED
  BY <1>1, <1>2

LEMMA EventTyped ==
  ASSUME TypeInv, Event
  PROVE  TypeInv'
<1>0. TypeOK /\ ToldRooms
  BY DEF TypeInv
<1>1. CASE OnCreate
  <2>0. wire' \in Seq(Message) /\ Head(wire) \in Message /\ Head(wire).type = "create"
    BY <1>0, <1>1, Received DEF OnCreate
  <2>1. wire' \in Seq(Message) /\ Head(wire).room \in Room
    BY <2>0, RoomEvents, Zenon
  <2> QED
    BY <1>0, <1>1, <2>1 DEF OnCreate, linkVars, TypeInv, TypeOK, ToldRooms
<1>2. CASE OnDestroy
  <2>0. wire' \in Seq(Message) /\ Head(wire) \in Message /\ Head(wire).type = "destroy"
    BY <1>0, <1>2, Received DEF OnDestroy
  <2>1. wire' \in Seq(Message) /\ Head(wire).room \in Room
    BY <2>0, RoomEvents, Zenon
  <2>2. registered' \subseteq {m \in Member : RoomOf(m) \in known'}
    BY <1>0, <1>2, <2>1, Members DEF OnDestroy, TypeOK
  <2> QED
    BY <1>0, <1>2, <2>1, <2>2 DEF OnDestroy, linkVars, TypeInv, TypeOK, ToldRooms
<1>3. CASE OnAdd
  <2>1. wire' \in Seq(Message) /\ Head(wire).member \in Member
    BY <1>0, <1>3, Received, Messages DEF OnAdd
  <2>2. RoomOf(Head(wire).member) \in Room
    BY <2>1, Members
  <2> QED
    BY <1>0, <1>3, <2>1, <2>2 DEF OnAdd, linkVars, TypeInv, TypeOK, ToldRooms
<1>4. CASE OnDel
  <2>1. wire' \in Seq(Message)
    BY <1>0, <1>4, Received DEF OnDel
  <2> QED
    BY <1>0, <1>4, <2>1 DEF OnDel, linkVars, TypeInv, TypeOK, ToldRooms
<1> QED
  BY <1>1, <1>2, <1>3, <1>4 DEF Event

LEMMA SeedTyped ==
  ASSUME TypeInv, NEW s \in Seeder,
         Evaluate(s) \/ Reply(s) \/ SeedStart(s) \/ SeedFails(s) \/ SeedStep(s)
  PROVE  TypeInv'
<1>0. TypeOK /\ ToldRooms /\ seed \in [Seeder -> Seed] /\ seed[s] \in Seed
  BY DEF TypeInv, TypeOK
<1>1. CASE Evaluate(s)
  <2> DEFINE v == [seed[s] EXCEPT !.asked = "evaluated", !.answer = Inside]
  <2>1. v \in Seed /\ v.got = seed[s].got /\ v.rooms = seed[s].rooms
    BY <1>0, Members DEF Seed
  <2>2. seed' = [seed EXCEPT ![s] = v]
    BY <1>0, <1>1 DEF Evaluate, Seed
  <2> HIDE DEF v
  <2>3. seed' \in [Seeder -> Seed] /\ ToldRooms'
    BY <1>0, <2>1, <2>2, SeedMoves
  <2> QED
    BY <1>0, <1>1, <2>3 DEF Evaluate, linkVars, TypeInv, TypeOK
<1>2. CASE Reply(s)
  <2> DEFINE v == [seed[s] EXCEPT !.asked = "no"]
  <2>1. v \in Seed /\ v.got = seed[s].got /\ v.rooms = seed[s].rooms
    BY <1>0 DEF Seed
  <2>2. seed' = [seed EXCEPT ![s] = v]
    BY <1>0, <1>2 DEF Reply
  <2> HIDE DEF v
  <2>3. seed' \in [Seeder -> Seed] /\ ToldRooms'
    BY <1>0, <2>1, <2>2, SeedMoves
  <2>4. wire' \in Seq(Message)
    BY <1>0, <1>2, Messages, AppendProperties DEF Reply, TypeOK
  <2> QED
    BY <1>0, <1>2, <2>3, <2>4 DEF Reply, linkVars, TypeInv, TypeOK
<1>3. CASE SeedStart(s)
  <2> DEFINE v == [NoSeed EXCEPT !.pc = "list", !.asked = Sent]
  <2>1. v \in Seed /\ v.got = {}
    BY Seeds DEF Seed
  <2>2. seed' = [seed EXCEPT ![s] = v]
    BY <1>3 DEF SeedStart, SetSeed
  <2> HIDE DEF v
  <2>3. seed' \in [Seeder -> Seed] /\ ToldRooms'
    BY <1>0, <2>1, <2>2, SeedMoves
  <2> QED
    BY <1>0, <1>3, <2>3 DEF SeedStart, linkVars, TypeInv, TypeOK
<1>4. CASE SeedFails(s)
  <2>1. wire' \in Seq(Message)
    BY <1>0, <1>4, Dropped DEF SeedFails
  <2>2. faults' \in 0..MaxFaults
    BY <1>0, <1>4, ConfAssumption DEF SeedFails, Fault, TypeOK, ConfAssumption
  <2>3. seed' \in [Seeder -> Seed] /\ ToldRooms'
    <3>1. CASE AskNext(s, {}, {}, {})
      BY <1>0, <3>1, Asks
    <3>2. ASSUME NEW r \in seed[s].left,
                 AskNext(s, seed[s].left \ {r}, seed[s].got, seed[s].rooms)
          PROVE  seed' \in [Seeder -> Seed] /\ ToldRooms'
      <4>1. /\ seed[s].left \ {r} \in SUBSET Room /\ seed[s].got \in SUBSET Member
            /\ seed[s].rooms \in SUBSET Room
            /\ \A m \in seed[s].got : RoomOf(m) \in seed[s].rooms
        BY <1>0 DEF Seed, ToldRooms
      <4> QED
        BY <1>0, <3>2, <4>1, Asks
    <3> QED
      BY <1>4, <3>1, <3>2 DEF SeedFails
  <2> QED
    BY <1>0, <1>4, <2>1, <2>2, <2>3 DEF SeedFails, linkVars, TypeInv, TypeOK
<1>5. CASE SeedHears(s)
  <2>1. wire' \in Seq(Message)
    BY <1>0, <1>5, Received DEF SeedHears
  <2>2. seed' \in [Seeder -> Seed] /\ ToldRooms'
    <3>0. seed[s].answer \in SUBSET Member /\ seed[s].left \in SUBSET Room
          /\ seed[s].got \in SUBSET Member /\ seed[s].rooms \in SUBSET Room
          /\ \A m \in seed[s].got : RoomOf(m) \in seed[s].rooms
      BY <1>0 DEF Seed, ToldRooms
    <3>1. CASE AskNext(s, RoomsOf(seed[s].answer), {}, {})
      BY <1>0, <3>0, <3>1, Members, Asks
    <3>2. ASSUME NEW r \in seed[s].left, NEW heard, heard = Of(r, seed[s].answer),
                 AskNext(s, seed[s].left \ {r}, seed[s].got \cup heard,
                         seed[s].rooms \cup RoomsOf(heard))
          PROVE  seed' \in [Seeder -> Seed] /\ ToldRooms'
      <4>1. heard \in SUBSET Member
        BY <3>0, <3>2, Members
      <4>2. /\ seed[s].left \ {r} \in SUBSET Room /\ seed[s].got \cup heard \in SUBSET Member
            /\ seed[s].rooms \cup RoomsOf(heard) \in SUBSET Room
        BY <3>0, <4>1, Members
      <4>3. \A m \in seed[s].got \cup heard : RoomOf(m) \in seed[s].rooms \cup RoomsOf(heard)
        BY <3>0 DEF RoomsOf
      <4> QED
        BY <1>0, <3>2, <4>2, <4>3, Asks
    <3> QED
      BY <1>5, <3>1, <3>2 DEF SeedHears
  <2> QED
    BY <1>0, <1>5, <2>1, <2>2 DEF SeedHears, linkVars, TypeInv, TypeOK
<1>6. CASE SeedApplies(s)
  <2> DEFINE v == [seed[s] EXCEPT !.pc = "drop"]
  <2>1. v \in Seed /\ v.got = seed[s].got /\ v.rooms = seed[s].rooms
    BY <1>0 DEF Seed
  <2>2. seed' = [seed EXCEPT ![s] = v]
    BY <1>6 DEF SeedApplies, SetSeed
  <2> HIDE DEF v
  <2>3. seed' \in [Seeder -> Seed] /\ ToldRooms'
    BY <1>0, <2>1, <2>2, SeedMoves
  <2>4. /\ known' = known \cup seed[s].rooms
        /\ registered' = seed[s].got \cup {m \in registered : RoomOf(m) \notin seed[s].rooms}
    BY <1>6 DEF SeedApplies
  <2>5. /\ seed[s].got \in SUBSET Member /\ seed[s].rooms \in SUBSET Room
        /\ \A m \in seed[s].got : RoomOf(m) \in seed[s].rooms
    BY <1>0 DEF Seed, ToldRooms
  <2>6. known' \subseteq Room /\ registered' \subseteq {m \in Member : RoomOf(m) \in known'}
    BY <1>0, <2>4, <2>5 DEF TypeOK
  <2> QED
    BY <1>0, <1>6, <2>3, <2>6 DEF SeedApplies, linkVars, TypeInv, TypeOK
<1>7. ASSUME NEW r \in Room, SeedDrops(s, r) PROVE TypeInv'
  <2> DEFINE v == [seed[s] EXCEPT !.pc = "reconcile", !.at = {r}]
  <2>1. v \in Seed /\ v.got = seed[s].got /\ v.rooms = seed[s].rooms
    BY <1>0 DEF Seed
  <2>2. seed' = [seed EXCEPT ![s] = v]
    BY <1>7 DEF SeedDrops, SetSeed
  <2> HIDE DEF v
  <2>3. seed' \in [Seeder -> Seed] /\ ToldRooms'
    BY <1>0, <2>1, <2>2, SeedMoves
  <2>4. known' \subseteq Room /\ registered' \subseteq {m \in Member : RoomOf(m) \in known'}
    BY <1>0, <1>7, Members DEF SeedDrops, TypeOK
  <2> QED
    BY <1>0, <1>7, <2>3, <2>4 DEF SeedDrops, linkVars, TypeInv, TypeOK
<1>8. CASE SeedReconciles(s)
  <2> DEFINE v == [seed[s] EXCEPT !.pc = "drop", !.at = {}]
  <2>1. v \in Seed /\ v.got = seed[s].got /\ v.rooms = seed[s].rooms
    BY <1>0 DEF Seed
  <2>2. seed' = [seed EXCEPT ![s] = v]
    BY <1>8 DEF SeedReconciles, SetSeed
  <2> HIDE DEF v
  <2>3. seed' \in [Seeder -> Seed] /\ ToldRooms'
    BY <1>0, <2>1, <2>2, SeedMoves
  <2>4. active' \subseteq Member
    BY <1>0, <1>8 DEF SeedReconciles, Reconcile, TypeOK
  <2> QED
    BY <1>0, <1>8, <2>3, <2>4 DEF SeedReconciles, linkVars, TypeInv, TypeOK
<1>9. CASE SeedEnds(s)
  <2>1. seed' \in [Seeder -> Seed] /\ ToldRooms'
    BY <1>0, <1>9, Seeds, SeedMoves DEF SeedEnds, SetSeed
  <2> QED
    BY <1>0, <1>9, <2>1 DEF SeedEnds, linkVars, TypeInv, TypeOK
<1> QED
  BY <1>1, <1>2, <1>3, <1>4, <1>5, <1>6, <1>7, <1>8, <1>9 DEF SeedStep

LEMMA SweepTyped ==
  ASSUME TypeInv,
         \/ SweepStart \/ SweepCompletes
         \/ \E m \in Member : SweepCount(m)
         \/ \E r \in Room : DestroyReconciles(r)
  PROVE  TypeInv'
<1>0. /\ TypeOK /\ ToldRooms
      /\ sweep \in [rows : SUBSET Member, empty : SUBSET Member]
      /\ sweep.empty \subseteq sweep.rows /\ active \subseteq Member
  BY DEF TypeInv, TypeOK
<1>1. CASE SweepStart
  BY <1>0, <1>1 DEF SweepStart, NoSweep, linkVars, TypeInv, TypeOK, ToldRooms
<1>2. CASE SweepCompletes
  BY <1>0, <1>2 DEF SweepCompletes, linkVars, TypeInv, TypeOK, ToldRooms
<1>3. ASSUME NEW m \in Member, SweepCount(m) PROVE TypeInv'
  <2>1. faults' \in 0..MaxFaults
    BY <1>0, <1>3, ConfAssumption DEF SweepCount, Fault, TypeOK, ConfAssumption
  <2>2. /\ sweep' \in [rows : SUBSET Member, empty : SUBSET Member]
        /\ sweep'.empty \subseteq sweep'.rows
    BY <1>0, <1>3 DEF SweepCount
  <2> QED
    BY <1>0, <1>3, <2>1, <2>2 DEF SweepCount, linkVars, TypeInv, TypeOK, ToldRooms
<1>4. ASSUME NEW r \in Room, DestroyReconciles(r) PROVE TypeInv'
  BY <1>0, <1>4 DEF DestroyReconciles, Reconcile, linkVars, TypeInv, TypeOK, ToldRooms
<1> QED
  BY <1>1, <1>2, <1>3, <1>4

\* A connection that breaks or is replaced takes the answers along, and
\* leaves what the seeds were told.
LEMMA Cuts ==
  ASSUME TypeInv, Cut
  PROVE  wire' \in Seq(Message) /\ seed' \in [Seeder -> Seed] /\ ToldRooms'
<1>0. seed \in [Seeder -> Seed] /\ ToldRooms
  BY DEF TypeInv, TypeOK
<1>1. wire' \in Seq(Message)
  BY DEF Cut
<1>2. ASSUME NEW s \in Seeder
      PROVE  /\ NotAsked(s) \in Seed
             /\ NotAsked(s).got = seed[s].got /\ NotAsked(s).rooms = seed[s].rooms
  BY <1>0 DEF NotAsked, Seed
<1>3. seed' = [s \in Seeder |-> NotAsked(s)]
  BY DEF Cut
<1> QED
  BY <1>0, <1>1, <1>2, <1>3 DEF ToldRooms

LEMMA LinkTyped ==
  ASSUME TypeInv, LinkStep
  PROVE  TypeInv'
<1>0. TypeOK /\ ToldRooms
  BY DEF TypeInv
<1>1. ASSUME Fault \/ UNCHANGED faults PROVE faults' \in 0..MaxFaults
  BY <1>0, <1>1, ConfAssumption DEF Fault, TypeOK, ConfAssumption
<1>2. CASE Breaks
  <2>1. /\ wire' \in Seq(Message) /\ seed' \in [Seeder -> Seed] /\ ToldRooms'
        /\ faults' \in 0..MaxFaults
    BY <1>1, <1>2, Cuts DEF Breaks
  <2> QED
    BY <1>0, <1>2, <2>1 DEF Breaks, Rest, TypeInv, TypeOK
<1>3. CASE Ready
  <2>1. faults' \in 0..MaxFaults
    BY <1>1, <1>3 DEF Ready
  <2> QED
    BY <1>0, <1>3, <2>1 DEF Ready, Rest, TypeInv, TypeOK, ToldRooms
<1>4. CASE OnEnd
  BY <1>0, <1>4 DEF OnEnd, Rest, TypeInv, TypeOK, ToldRooms
<1>5. CASE OnError
  <2>1. faults' \in 0..MaxFaults /\ stray' \in BOOLEAN
    BY <1>0, <1>1, <1>5 DEF OnError, TypeOK
  <2> QED
    BY <1>0, <1>5, <2>1 DEF OnError, Rest, TypeInv, TypeOK, ToldRooms
<1>6. CASE OnStrayEnd
  BY <1>0, <1>6 DEF OnStrayEnd, Rest, TypeInv, TypeOK, ToldRooms
<1>7. CASE Connect
  <2>1. /\ wire' \in Seq(Message) /\ seed' \in [Seeder -> Seed] /\ ToldRooms'
        /\ faults' \in 0..MaxFaults
    BY <1>1, <1>7, Cuts DEF Connect
  <2> QED
    BY <1>0, <1>7, <2>1 DEF Connect, Rest, TypeInv, TypeOK
<1>8. CASE Restart
  <2>1. faults' \in 0..MaxFaults
    BY <1>1, <1>8 DEF Restart
  <2>2. seed' \in [Seeder -> Seed] /\ ToldRooms'
    BY <1>8, Seeds DEF Restart, ToldRooms
  <2>3. wire' \in Seq(Message)
    BY <1>8 DEF Restart
  <2> QED
    BY <1>0, <1>8, <2>1, <2>2, <2>3 DEF Restart, NoSweep, TypeInv, TypeOK
<1> QED
  BY <1>2, <1>3, <1>4, <1>5, <1>6, <1>7, <1>8 DEF LinkStep

LEMMA TypeStep == TypeInv /\ [Next]_vars => TypeInv'
<1> SUFFICES ASSUME TypeInv, [Next]_vars PROVE TypeInv'
  OBVIOUS
<1>1. CASE UNCHANGED vars
  BY <1>1 DEF vars, linkVars, TypeInv, TypeOK, ToldRooms
<1>2. ASSUME NEW m \in Member, Join(m) \/ Leave(m) PROVE TypeInv'
  BY <1>2, SwitchTyped
<1>3. ASSUME NEW s \in Seeder,
             Evaluate(s) \/ Reply(s) \/ SeedStart(s) \/ SeedFails(s) \/ SeedStep(s)
      PROVE  TypeInv'
  BY <1>3, SeedTyped
<1>4. CASE \/ SweepStart \/ SweepCompletes
           \/ \E m \in Member : SweepCount(m)
           \/ \E r \in Room : DestroyReconciles(r)
  BY <1>4, SweepTyped
<1> QED
  BY <1>1, <1>2, <1>3, <1>4, EventTyped, LinkTyped, Zenon DEF Next, LinkStep

\* The registry keeps its shape under every event, answer, sweep, lost link
\* and restart: a member is registered only in a room that has an entry, as
\* the seed enters the members of the rooms it enters and no others, and
\* an entry goes with all its members.
THEOREM TypeCorrect == Spec => []TypeOK
<1>1. Init => TypeInv
  <2>1. Init => wire \in Seq(Message)
    BY DEF Init
  <2> QED
    <3> SUFFICES ASSUME Init PROVE TypeInv
      OBVIOUS
    <3>1. seed \in [Seeder -> Seed] /\ ToldRooms
      BY Seeds DEF Init, ToldRooms
    <3>2. sweep = NoSweep /\ faults \in 0..MaxFaults
      BY ConfAssumption DEF Init, ConfAssumption
    <3>3. /\ sweep \in [rows : SUBSET Member, empty : SUBSET Member]
          /\ sweep.empty \subseteq sweep.rows
      BY <3>2 DEF NoSweep
    <3>4. place \in [Member -> {"new", "in", "left"}]
      BY DEF Init
    <3> QED
      BY <2>1, <3>1, <3>2, <3>3, <3>4 DEF Init, TypeInv, TypeOK
<1>2. TypeInv /\ [Next]_vars => TypeInv'
  BY TypeStep
<1>3. TypeInv => TypeOK
  BY DEF TypeInv
<1> QED
  BY <1>1, <1>2, <1>3, PTL DEF Spec

=============================================================================
