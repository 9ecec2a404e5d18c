------------------------------ MODULE IvrDeploy ------------------------------
(***************************************************************************)
(* deploymentEngine: deployFlow and redeployAll regenerate the one dialplan *)
(* file of all published flows and have FreeSWITCH reload it, under a      *)
(* promise-chain lock; deployFlow then verifies and records what it did.   *)
(* The contents of the tables, of the file and of FreeSWITCH are told      *)
(* apart by revision.  FreeSWITCH and the file system are external.        *)
(***************************************************************************)
EXTENDS Naturals, Sequences

CONSTANTS
  Flow,         \* the requests that run deployFlow, all for one flow
  All,          \* ... that run redeployAll
  MaxRevision,  \* bound on changes of the tables
  MaxFaults     \* bound on restarts and failures

Request == Flow \cup All

ASSUME IvrDeployAssumption ==
  Flow \cap All = {} /\ MaxRevision \in Nat /\ MaxFaults \in Nat

VARIABLES
  revision,  \* of the bindings and published versions
  pc,        \* where each request is
  want,      \* the revision it has fetched, 0 before
  snap,      \* the revision of the bindings it has read under the lock
  queue,     \* the lock: its holder and those behind it
  tmp,       \* the temporary file, 0 if there is none
  disk,      \* enrs_ivr.xml
  loaded,    \* what FreeSWITCH has loaded
  recorded,  \* last_deployed_version of the flow
  refused,   \* history: the requests whose reload FreeSWITCH answered and did not do
  faults

requests == <<pc, want, snap, queue>>
files == <<tmp, disk, loaded>>
vars == <<revision, requests, files, recorded, refused, faults>>

Ended == {"ok", "warned", "nothing", "failed", "lost"}
Locked == {"queued", "read", "wrote", "renamed"}
Steps == {"new", "fetched", "reloaded", "offline", "verified", "failing"}
         \cup Locked \cup Ended

TypeOK ==
  /\ revision \in Nat /\ faults \in 0..MaxFaults
  /\ pc \in [Request -> Steps]
  /\ want \in [Request -> 0..revision] /\ snap \in [Request -> 0..revision]
  /\ queue \in Seq(Request)
  /\ \A r \in Request : pc[r] \in Locked <=> \E i \in DOMAIN queue : queue[i] = r
  /\ tmp \in 0..revision /\ disk \in 0..revision
  /\ loaded \in 0..disk /\ recorded \in 0..revision
  /\ refused \subseteq Request

Init ==
  /\ revision = 1
  /\ pc = [r \in Request |-> "new"]
  /\ want = [r \in Request |-> 0] /\ snap = [r \in Request |-> 0]
  /\ queue = << >>
  /\ tmp = 0 /\ disk = 0 /\ loaded = 0 /\ recorded = 0
  /\ refused = {} /\ faults = 0

Fault == faults < MaxFaults /\ faults' = faults + 1
Moves(r, from, to) == pc[r] = from /\ pc' = [pc EXCEPT ![r] = to]
Holds(r) == queue # << >> /\ Head(queue) = r

-----------------------------------------------------------------------------
(* Up to the lock. *)

\* The published version of the flow, or the flows that are bound.
Fetch(r) ==
  /\ Moves(r, "new", "fetched")
  /\ want' = [want EXCEPT ![r] = revision]
  /\ UNCHANGED <<revision, snap, queue, files, recorded, refused, faults>>

\* The graph, the directories and the Lua executor; then the lock is asked
\* for, which queues behind whoever asked before.  redeployAll is done when no
\* flow is bound.
Prepare(r) ==
  /\ \/ /\ Moves(r, "fetched", "queued")
        /\ queue' = Append(queue, r) /\ UNCHANGED faults
     \/ /\ r \in Flow /\ Moves(r, "fetched", "failing")
        /\ Fault /\ UNCHANGED queue
     \/ /\ r \in All /\ Moves(r, "fetched", "nothing")
        /\ UNCHANGED <<queue, faults>>
  /\ UNCHANGED <<revision, want, snap, files, recorded, refused>>

-----------------------------------------------------------------------------
(* Under the lock. *)

\* A slip: the bindings are read before the lock is held.
ReadBindingsEarly(r) ==
  /\ Moves(r, "queued", "read")
  /\ snap' = [snap EXCEPT ![r] = revision]
  /\ UNCHANGED <<revision, want, queue, files, recorded, refused, faults>>

ReadBindings(r) ==
  /\ Holds(r) /\ Moves(r, "queued", "read")
  /\ snap' = [snap EXCEPT ![r] = revision]
  /\ UNCHANGED <<revision, want, queue, files, recorded, refused, faults>>

WriteTmp(r) ==
  /\ Holds(r) /\ Moves(r, "read", "wrote")
  /\ tmp' = snap[r]
  /\ UNCHANGED <<revision, want, snap, queue, disk, loaded, recorded, refused, faults>>

Rename(r) ==
  /\ Holds(r) /\ Moves(r, "wrote", "renamed")
  /\ disk' = tmp /\ tmp' = 0
  /\ UNCHANGED <<revision, want, snap, queue, loaded, recorded, refused, faults>>

\* A slip: the failed holder stays at the head of the chain.
FailLockedPoisons(r) ==
  /\ Holds(r) /\ pc[r] \in {"queued", "read", "wrote"}
  /\ Moves(r, pc[r], "failing")
  /\ Fault
  /\ UNCHANGED <<revision, want, snap, queue, files, recorded, refused>>

\* The database or the file system fails the holder; the chain goes on.
FailLocked(r) ==
  /\ Holds(r) /\ pc[r] \in {"queued", "read", "wrote"}
  /\ Moves(r, pc[r], "failing")
  /\ queue' = Tail(queue)
  /\ Fault
  /\ UNCHANGED <<revision, want, snap, files, recorded, refused>>

\* reloadxml, and the lock is given up.  Any answer counts as done, except one
\* that says "fail" to deployFlow.  That one, no connection, and an answer that
\* comes too late or never, are a warning.
Reload(r) ==
  /\ Holds(r) /\ queue' = Tail(queue)
  /\ \/ /\ Moves(r, "renamed", "reloaded") /\ loaded' = disk
        /\ UNCHANGED <<refused, faults>>
     \/ /\ Moves(r, "renamed", "reloaded") /\ refused' = refused \cup {r}
        /\ Fault /\ UNCHANGED loaded
     \/ /\ Moves(r, "renamed", "offline") /\ loaded' \in {loaded, disk}
        /\ Fault /\ UNCHANGED refused
  /\ UNCHANGED <<revision, want, snap, tmp, disk, recorded>>

-----------------------------------------------------------------------------
(* After the lock. *)

\* The extensions of the numbers bound by now are looked for by name: one bound
\* since what is loaded was generated is not found, those that an older dialplan
\* has too are, and there may be none to look for.
Verify(r) ==
  /\ r \in Flow
  /\ \/ Moves(r, "reloaded", "verified") /\ UNCHANGED faults
     \/ Moves(r, "reloaded", "failing") /\ loaded < revision /\ UNCHANGED faults
     \/ Moves(r, "reloaded", "failing") /\ Fault
  /\ UNCHANGED <<revision, want, snap, queue, files, recorded, refused>>

\* A slip: the newest version is recorded, not the fetched one.
RecordNewest(r) ==
  /\ r \in Flow
  /\ \/ Moves(r, "verified", "ok") \/ Moves(r, "offline", "warned")
  /\ recorded' = revision
  /\ UNCHANGED <<revision, want, snap, queue, files, refused, faults>>

\* With the connection down the deployment is recorded as a success too.
Record(r) ==
  /\ r \in Flow
  /\ \/ Moves(r, "verified", "ok") \/ Moves(r, "offline", "warned")
  /\ recorded' = want[r]
  /\ UNCHANGED <<revision, want, snap, queue, files, refused, faults>>

RecordFails(r) ==
  /\ r \in Flow /\ Fault
  /\ Moves(r, "verified", "failing") \/ Moves(r, "offline", "failing")
  /\ UNCHANGED <<revision, want, snap, queue, files, recorded, refused>>

\* The failure is recorded, as far as it can be, and reported.
Fail(r) ==
  /\ Moves(r, "failing", "failed")
  /\ UNCHANGED <<revision, want, snap, queue, files, recorded, refused, faults>>

\* redeployAll only reports.
Report(r) ==
  /\ r \in All
  /\ Moves(r, "reloaded", "ok") \/ Moves(r, "offline", "warned")
  /\ UNCHANGED <<revision, want, snap, queue, files, recorded, refused, faults>>

-----------------------------------------------------------------------------
(* The others. *)

\* publish, bind, unbind and delete of flows; none of them deploys.
Change ==
  /\ revision < MaxRevision /\ revision' = revision + 1
  /\ UNCHANGED <<requests, files, recorded, refused, faults>>

\* FreeSWITCH starts, or another part of the backend has it reload.
LoadsElsewhere ==
  /\ loaded' = disk
  /\ UNCHANGED <<revision, requests, tmp, disk, recorded, refused, faults>>

\* The backend restarts: the lock and the requests are gone, the files stay.
Restart ==
  /\ Fault
  /\ pc' = [r \in Request |-> IF pc[r] \in Ended \cup {"new"} THEN pc[r] ELSE "lost"]
  /\ queue' = << >>
  /\ UNCHANGED <<revision, want, snap, files, recorded, refused>>

-----------------------------------------------------------------------------
Step(r) ==
  \/ Prepare(r)
  \/ ReadBindings(r) \/ WriteTmp(r) \/ Rename(r) \/ FailLocked(r) \/ Reload(r)
  \/ Verify(r) \/ Record(r) \/ RecordFails(r) \/ Fail(r) \/ Report(r)

Next ==
  \/ \E r \in Request : Fetch(r) \/ Step(r)
  \/ Change \/ LoadsElsewhere \/ Restart

\* Queries, file operations and commands end, each within a timeout.
Spec == Init /\ [][Next]_vars /\ \A r \in Request : WF_vars(Step(r))

-----------------------------------------------------------------------------
(* Properties *)

Answer(r) ==
  CASE pc[r] \in {"ok", "warned", "nothing"} -> pc[r]
    [] pc[r] \in {"failed", "lost"} -> "failed"
    [] OTHER -> "none"

D == INSTANCE Dialplan WITH
       written <- disk, asked <- want, answer <- [r \in Request |-> Answer(r)]

\* The engine implements Dialplan: concurrent deployments, restarts and reloads
\* from elsewhere never take the file or FreeSWITCH back to an older dialplan,
\* and success means that the published version, and the bindings, are in the
\* file, and loaded if FreeSWITCH does what it answers.
ImplementsDialplan == D!Spec

\* Every deployment ends, although others before it in the lock fail.
RequestsAnswered == D!Answered

\* The version the flow shows as deployed is in the file, or a newer one is,
\* also when FreeSWITCH was offline and two deployments record out of order.
RecordedIsOnDisk == recorded <= disk

=============================================================================
