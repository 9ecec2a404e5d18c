------------------------------- MODULE DbPool -------------------------------
(***************************************************************************)
(* The database pool of db/pool.js and the transactions that run on it.    *)
(* A "ring" request is POST /ring-all: inside withTransaction it takes the *)
(* advisory lock of its configuration and then asks the pool for a second  *)
(* client, because tierLiveStatus uses query() and not the transaction's   *)
(* tq().  A "plain" request is one query().  The queue of the pool, its    *)
(* timer and what PostgreSQL does with a failed statement are external.    *)
(***************************************************************************)
EXTENDS Naturals, Sequences, FiniteSets

CONSTANTS
  Ring,        \* ring-all requests, all for one configuration
  Plain,       \* requests that run one statement
  MaxClients,  \* max of the pool (20)
  MaxFaults,   \* bound on failing statements
  Nobody

Request == Ring \cup Plain

ASSUME PoolAssumption ==
  /\ Ring \cap Plain = {} /\ Nobody \notin Request
  /\ IsFiniteSet(Request) /\ MaxClients \in Nat \ {0} /\ MaxFaults \in Nat

VARIABLES
  pc,      \* what each request does next
  queue,   \* requests waiting for a client, oldest first
  held,    \* how many clients each request holds
  tx,      \* its transaction: none, open, aborted, committed, undone
  lock,    \* holder of the advisory lock
  caught,  \* requests that swallowed the failure of a statement
  faults

vars == <<pc, queue, held, tx, lock, caught, faults>>

Waiting == {"queued", "nested"}    \* in the pool's queue
Ended == {"ok", "failed"}
Step == {"new", "begin", "lock", "live", "asked", "write", "commit",
         "rollback", "release"} \cup Waiting \cup Ended

\* A transaction PostgreSQL still keeps open on its connection.
Open == {"open", "aborted"}

TypeOK ==
  /\ pc \in [Request -> Step]
  /\ queue \in Seq(Request)
  /\ held \in [Request -> 0..2]
  /\ tx \in [Request -> {"none", "committed", "undone"} \cup Open]
  /\ lock \in Request \cup {Nobody}
  /\ caught \subseteq Request
  /\ faults \in 0..MaxFaults

Init ==
  /\ pc = [r \in Request |-> "new"]
  /\ queue = << >>
  /\ held = [r \in Request |-> 0]
  /\ tx = [r \in Request |-> "none"]
  /\ lock = Nobody
  /\ caught = {}
  /\ faults = 0

-----------------------------------------------------------------------------
Go(r, from, to) == pc[r] = from /\ pc' = [pc EXCEPT ![r] = to]
SetTx(r, s) == tx' = [tx EXCEPT ![r] = s]
Fault == faults < MaxFaults /\ faults' = faults + 1

\* Clients in use; Ring requests may hold two.
InUse == Cardinality({r \in Request : held[r] >= 1})
         + Cardinality({r \in Request : held[r] = 2})
Full == InUse >= MaxClients

LeaveQueue(r) ==
  \E i \in DOMAIN queue :
    /\ queue[i] = r
    /\ queue' = SubSeq(queue, 1, i - 1) \o SubSeq(queue, i + 1, Len(queue))

\* pool.connect() and pool.query(): both wait in the pool's queue.
Ask(r) ==
  /\ \/ Go(r, "new", "queued")
     \/ Go(r, "live", "nested")
  /\ queue' = Append(queue, r)
  /\ UNCHANGED <<held, tx, lock, caught, faults>>

\* A client is idle or may be opened: the oldest request gets it.
Grant(r) ==
  /\ queue # << >> /\ r = Head(queue) /\ ~Full
  /\ queue' = Tail(queue)
  /\ \/ Go(r, "nested", "asked")
     \/ r \in Ring /\ Go(r, "queued", "begin")
     \/ r \in Plain /\ Go(r, "queued", "asked")
  /\ held' = [held EXCEPT ![r] = @ + 1]
  /\ UNCHANGED <<tx, lock, caught, faults>>

\* A slip: only a first client is waited for with a timer.
TimeOutFirst(r) ==
  /\ Full
  /\ Go(r, "queued", "failed")
  /\ LeaveQueue(r)
  /\ UNCHANGED <<held, tx, lock, caught, faults>>

\* connectionTimeoutMillis: inside a transaction the error is caught by it.
TimeOut(r) ==
  /\ Full
  /\ Go(r, "queued", "failed") \/ Go(r, "nested", "rollback")
  /\ LeaveQueue(r)
  /\ UNCHANGED <<held, tx, lock, caught, faults>>

\* query() gives its client back whether or not the statement failed.
QueryEnds(r) ==
  /\ \/ r \in Plain /\ Go(r, "asked", "ok") /\ UNCHANGED faults
     \/ r \in Plain /\ Go(r, "asked", "failed") /\ Fault
     \/ r \in Ring /\ Go(r, "asked", "write") /\ UNCHANGED faults
     \/ r \in Ring /\ Go(r, "asked", "rollback") /\ Fault
  /\ held' = [held EXCEPT ![r] = @ - 1]
  /\ UNCHANGED <<queue, tx, lock, caught>>

Begin(r) ==
  /\ \/ Go(r, "begin", "lock") /\ SetTx(r, "open") /\ UNCHANGED faults
     \/ Go(r, "begin", "rollback") /\ Fault /\ UNCHANGED tx
  /\ UNCHANGED <<queue, held, lock, caught>>

\* pg_advisory_xact_lock blocks, without a time limit, while another holds it.
TakeLock(r) ==
  /\ \/ /\ lock = Nobody /\ lock' = r
        /\ Go(r, "lock", "live") /\ UNCHANGED <<tx, faults>>
     \/ /\ Go(r, "lock", "rollback") /\ SetTx(r, "aborted") /\ Fault
        /\ UNCHANGED lock
  /\ UNCHANGED <<queue, held, caught>>

\* The tier is occupied: nothing is written.
Occupied(r) ==
  /\ Go(r, "write", "commit")
  /\ UNCHANGED <<queue, held, tx, lock, caught, faults>>

\* The incident is inserted, then its first participant: a failure of the
\* first aborts the transaction and throws; one of the second is caught.
Write(r) ==
  /\ \/ Go(r, "write", "commit") /\ UNCHANGED <<tx, caught, faults>>
     \/ Go(r, "write", "rollback") /\ SetTx(r, "aborted") /\ Fault /\ UNCHANGED caught
     \/ /\ Go(r, "write", "commit") /\ SetTx(r, "aborted") /\ Fault
        /\ caught' = caught \cup {r}
  /\ UNCHANGED <<queue, held, lock>>

\* The lock of a transaction goes with it.
Unlock(r) == lock' = IF lock = r THEN Nobody ELSE lock

\* COMMIT of an aborted transaction undoes it and reports no error; one that
\* fails has undone it too, and the catch then sends ROLLBACK for nothing.
Commit(r) ==
  /\ \/ /\ Go(r, "commit", "release") /\ UNCHANGED faults
        /\ SetTx(r, IF tx[r] = "aborted" THEN "undone" ELSE "committed")
     \/ Go(r, "commit", "rollback") /\ SetTx(r, "undone") /\ Fault
  /\ Unlock(r)
  /\ UNCHANGED <<queue, held, caught>>

\* A slip: the error is passed on without a ROLLBACK.
RethrowOnly(r) ==
  /\ Go(r, "rollback", "failed")
  /\ held' = [held EXCEPT ![r] = @ - 1]
  /\ UNCHANGED <<queue, tx, lock, caught, faults>>

\* A slip: ROLLBACK, but release only after a COMMIT.
RollbackKeeps(r) ==
  /\ Go(r, "rollback", "failed")
  /\ SetTx(r, "undone")
  /\ Unlock(r)
  /\ UNCHANGED <<queue, held, caught, faults>>

\* A slip: released by catch and by finally.
RollbackTwice(r) ==
  /\ Go(r, "rollback", "failed")
  /\ SetTx(r, "undone")
  /\ Unlock(r)
  /\ held' = [held EXCEPT ![r] = @ - 2]
  /\ UNCHANGED <<queue, caught, faults>>

\* catch: ROLLBACK and rethrow; finally: release.
Rollback(r) ==
  /\ Go(r, "rollback", "failed")
  /\ SetTx(r, "undone")
  /\ Unlock(r)
  /\ held' = [held EXCEPT ![r] = @ - 1]
  /\ UNCHANGED <<queue, caught, faults>>

\* A slip: an error of COMMIT is not noticed.
ReleaseAnyway(r) ==
  /\ Go(r, "release", "ok") \/ Go(r, "rollback", "ok")
  /\ held' = [held EXCEPT ![r] = @ - 1]
  /\ UNCHANGED <<queue, tx, lock, caught, faults>>

Release(r) ==
  /\ Go(r, "release", "ok")
  /\ held' = [held EXCEPT ![r] = @ - 1]
  /\ UNCHANGED <<queue, tx, lock, caught, faults>>

-----------------------------------------------------------------------------
Serve(r) ==
  \/ Ask(r) \/ Grant(r) \/ QueryEnds(r) \/ Begin(r) \/ TakeLock(r)
  \/ Occupied(r) \/ Write(r) \/ Commit(r) \/ Rollback(r) \/ Release(r)

Next == \E r \in Request : Serve(r) \/ TimeOut(r)

\* PostgreSQL answers, the event loop goes on and the pool's timers fire; no
\* failure is owed to a request that waits for the lock.
Fairness ==
  \A r \in Request : WF_vars(Serve(r) /\ UNCHANGED faults) /\ WF_vars(TimeOut(r))

Spec == Init /\ [][Next]_vars
FairSpec == Spec /\ Fairness

-----------------------------------------------------------------------------
(* Properties *)

\* withTransaction leaves no connection in the pool with a transaction, and
\* so a lock, of a request that has ended.
ReleasedClean ==
  \A r \in Request : held[r] = 0 => tx[r] \notin Open /\ lock # r

\* No client is lost: the pool is never over its limit, and a request that
\* has ended, however it ended, has given back every client it was given.
NoClientLost ==
  /\ InUse <= MaxClients
  /\ \A r \in Request : pc[r] \in Ended => held[r] = 0

\* A request is told that it succeeded only if its transaction is committed,
\* unless it has caught the failure of a statement: then COMMIT undoes it.
SuccessIsCommitted ==
  \A r \in Ring : pc[r] = "ok" => tx[r] = "committed" \/ r \in caught

\* Requests inside transactions that wait for each other's clients, and for
\* the lock one of them holds, are set free by the pool's timer.
RequestsEnd == \A r \in Request : <>(pc[r] \in Ended)

=============================================================================
