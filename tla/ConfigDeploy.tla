---------------------------- MODULE ConfigDeploy ----------------------------
(***************************************************************************)
(* DeploymentManager: deploy and rollback of one FreeSWITCH configuration  *)
(* file, with VersionManager's rows of one tenant and provider.  Nothing   *)
(* orders concurrent jobs; the file, what FreeSWITCH has loaded and the    *)
(* table of versions change one after the other and can be left apart.     *)
(* Each deployment writes a content of its own.  The transaction of        *)
(* createVersion is taken statement by statement, under READ COMMITTED.    *)
(***************************************************************************)
EXTENDS Naturals, Sequences, FiniteSets

CONSTANTS
  Deploy,    \* deployments
  Rollback,  \* rollbacks
  MaxFaults  \* bound on restarts and failures

Job == Deploy \cup Rollback

ASSUME ConfigDeployAssumption ==
  Deploy \cap Rollback = {} /\ IsFiniteSet(Job) /\ MaxFaults \in Nat

VARIABLES
  disk,      \* content of the file
  loaded,    \* content FreeSWITCH has loaded
  seen,      \* history: contents it has ever loaded
  versions,  \* committed rows of config_versions, by version number
  pc,        \* where each job is
  base,      \* the content it has found in the file
  goal,      \* the content it writes
  backup,    \* the content it has backed up, or "none"
  locks,     \* the rows its UPDATE is to change, then has changed
  num,       \* the version number it has computed
  alone,     \* history: no other job or editor has been at work meanwhile
  faults

jobVars == <<base, goal, backup, locks, num>>
vars == <<disk, loaded, seen, versions, pc, jobVars, alone, faults>>

Content == Deploy \cup {"shipped", "edited"}
Version == [content : Content, by : Job, active : BOOLEAN]
Ended == {"ok", "failed", "stuck", "lost"}
InTx == {"updating", "updated", "numbered", "inserted"}
Busy == {"read", "saved", "written", "applied", "verifying", "failing"} \cup InTx

TypeOK ==
  /\ disk \in Content /\ loaded \in Content /\ seen \in SUBSET Content
  /\ versions \in Seq(Version) /\ Len(versions) <= Cardinality(Job)
  /\ pc \in [Job -> {"new"} \cup Busy \cup Ended]
  /\ base \in [Job -> Content] /\ goal \in [Job -> Content]
  /\ backup \in [Job -> Content \cup {"none"}]
  /\ locks \in [Job -> SUBSET (1..Cardinality(Job))]
  /\ num \in [Job -> 0..Cardinality(Job)]
  /\ \A j \in Job : pc[j] \notin InTx => locks[j] = {} /\ num[j] = 0
  /\ alone \in [Job -> BOOLEAN]
  /\ faults \in 0..MaxFaults

Init ==
  /\ disk = "shipped" /\ loaded = "shipped" /\ seen = {"shipped"}
  /\ versions = << >>
  /\ pc = [j \in Job |-> "new"]
  /\ base = [j \in Job |-> "shipped"] /\ goal = [j \in Job |-> "shipped"]
  /\ backup = [j \in Job |-> "none"]
  /\ locks = [j \in Job |-> {}] /\ num = [j \in Job |-> 0]
  /\ alone = [j \in Job |-> TRUE]
  /\ faults = 0

Fault == faults < MaxFaults /\ faults' = faults + 1
Moves(j, from, to) == pc[j] = from /\ pc' = [pc EXCEPT ![j] = to]
Working == {j \in Job : pc[j] \in Busy}

\* The local variables of the jobs of R are gone.
Forget(R) ==
  /\ base' = [j \in Job |-> IF j \in R THEN "shipped" ELSE base[j]]
  /\ goal' = [j \in Job |-> IF j \in R THEN "shipped" ELSE goal[j]]
  /\ backup' = [j \in Job |-> IF j \in R THEN "none" ELSE backup[j]]
  /\ locks' = [j \in Job |-> IF j \in R THEN {} ELSE locks[j]]
  /\ num' = [j \in Job |-> IF j \in R THEN 0 ELSE num[j]]

\* A job that is joined by another is not alone, nor is the other.
Joins(j) ==
  alone' = [k \in Job |-> alone[k] /\ (IF k = j THEN Working = {} ELSE k \notin Working)]

-----------------------------------------------------------------------------
(* Both pipelines, up to the write. *)

\* The file is read and, if the page sent the checksum it had loaded, must not
\* have changed; then the changes are applied to what was read.
Read(j) ==
  /\ j \in Deploy /\ Moves(j, "new", "read") /\ Joins(j)
  /\ base' = [base EXCEPT ![j] = disk]
  /\ goal' = [goal EXCEPT ![j] = j]
  /\ UNCHANGED <<disk, loaded, seen, versions, backup, locks, num, faults>>

\* A rollback takes its content from a version; it needs no checksum.
Choose(j) ==
  /\ j \in Rollback /\ Moves(j, "new", "read") /\ Joins(j)
  /\ base' = [base EXCEPT ![j] = disk]
  /\ \E i \in DOMAIN versions : goal' = [goal EXCEPT ![j] = versions[i].content]
  /\ UNCHANGED <<disk, loaded, seen, versions, backup, locks, num, faults>>

\* The drift check, parsing, validation or the hook refuses.
Refuse(j) ==
  /\ Moves(j, "read", "failed") /\ Forget({j}) /\ Fault
  /\ UNCHANGED <<disk, loaded, seen, versions, alone>>

Backup(j) ==
  /\ Moves(j, "read", "saved")
  /\ backup' = [backup EXCEPT ![j] = disk]
  /\ UNCHANGED <<disk, loaded, seen, versions, base, goal, locks, num, alone, faults>>

\* The temporary file is renamed: readers see the old content or the new.
\* A deployment then has it loaded, a rollback first makes its version.
Write(j) ==
  /\ Moves(j, "saved", IF j \in Deploy THEN "written" ELSE "applied")
  /\ disk' = goal[j]
  /\ UNCHANGED <<loaded, seen, versions, jobVars, alone, faults>>

-----------------------------------------------------------------------------
(* FreeSWITCH. *)

Loads == loaded' = disk /\ seen' = seen \cup {disk}

\* A slip: the result of the command is not looked at, as in rollback.
ApplyUnchecked(j) ==
  /\ j \in Deploy /\ Moves(j, "written", "applied")
  /\ (Loads /\ UNCHANGED faults) \/ (Fault /\ UNCHANGED <<loaded, seen>>)
  /\ UNCHANGED <<disk, versions, jobVars, alone>>

\* The strategy of a deployment; a command that reports failure ends it.
Apply(j) ==
  /\ j \in Deploy
  /\ \/ Moves(j, "written", "applied") /\ Loads /\ UNCHANGED faults
     \/ Moves(j, "written", "failing") /\ Fault /\ UNCHANGED <<loaded, seen>>
  /\ UNCHANGED <<disk, versions, jobVars, alone>>

\* That of a rollback, after its version: a reported failure goes unnoticed.
ApplyRollback(j) ==
  /\ j \in Rollback /\ Moves(j, "verifying", "ok") /\ Forget({j})
  /\ (Loads /\ UNCHANGED faults) \/ (Fault /\ UNCHANGED <<loaded, seen>>)
  /\ UNCHANGED <<disk, versions, alone>>

-----------------------------------------------------------------------------
(* createVersion, one transaction. *)

Released(j) == locks' = [locks EXCEPT ![j] = {}] /\ num' = [num EXCEPT ![j] = 0]

\* The rows its snapshot shows as active.
Deactivate(j) ==
  /\ Moves(j, "applied", "updating")
  /\ locks' = [locks EXCEPT ![j] = {i \in DOMAIN versions : versions[i].active}]
  /\ UNCHANGED <<disk, loaded, seen, versions, base, goal, backup, num, alone, faults>>

Deactivating(j) ==
  [i \in DOMAIN versions |-> [versions[i] EXCEPT !.active = @ /\ i \notin locks[j]]]

\* A slip: the old version is deactivated outside the transaction.
DeactivatedAtOnce(j) ==
  /\ Moves(j, "updating", "updated")
  /\ \A k \in Job \ {j} :
       pc[k] \in InTx \ {"updating"} => locks[j] \cap locks[k] = {}
  /\ versions' = Deactivating(j)
  /\ UNCHANGED <<disk, loaded, seen, jobVars, alone, faults>>

\* It waits for a transaction that has changed one of them, and skips those
\* that are no longer active then; a row inserted meanwhile is not seen.
Deactivated(j) ==
  /\ Moves(j, "updating", "updated")
  /\ \A k \in Job \ {j} :
       pc[k] \in InTx \ {"updating"} => locks[j] \cap locks[k] = {}
  /\ locks' = [locks EXCEPT ![j] = {i \in @ : versions[i].active}]
  /\ UNCHANGED <<disk, loaded, seen, versions, base, goal, backup, num, alone, faults>>

Number(j) ==
  /\ Moves(j, "updated", "numbered")
  /\ num' = [num EXCEPT ![j] = Len(versions) + 1]
  /\ UNCHANGED <<disk, loaded, seen, versions, base, goal, backup, locks, alone, faults>>

Taken(j) == num[j] \in DOMAIN versions

\* The unique index lets one of two equal numbers in.
Insert(j) ==
  /\ ~Taken(j)
  /\ \A k \in Job \ {j} : pc[k] = "inserted" => num[k] # num[j]
  /\ Moves(j, "numbered", "inserted")
  /\ UNCHANGED <<disk, loaded, seen, versions, jobVars, alone, faults>>

Row(j) == [content |-> goal[j], by |-> j, active |-> TRUE]

Commit(j) ==
  /\ Moves(j, "inserted", "verifying")
  /\ versions' = [i \in DOMAIN versions \cup {num[j]} |->
                   IF i = num[j] THEN Row(j) ELSE Deactivating(j)[i]]
  /\ Released(j)
  /\ UNCHANGED <<disk, loaded, seen, base, goal, backup, alone, faults>>

-----------------------------------------------------------------------------
(* The end. *)

\* A slip: the transaction is not rolled back.
ThrowsOpen(j) ==
  /\ \/ pc[j] \in {"saved", "applied"} \cup InTx /\ Fault
     \/ pc[j] = "numbered" /\ Taken(j) /\ UNCHANGED faults
     \/ pc[j] = "verifying" /\ Fault
  /\ Moves(j, pc[j], "failing")
  /\ UNCHANGED <<disk, loaded, seen, versions, jobVars, alone>>

\* The write, a statement, or what follows the version throws: the
\* verification of a deployment, the strategy of a rollback.
Throws(j) ==
  /\ \/ pc[j] \in {"saved", "applied"} \cup InTx /\ Fault
     \/ pc[j] = "numbered" /\ Taken(j) /\ UNCHANGED faults
     \/ pc[j] = "verifying" /\ Fault
  /\ Moves(j, pc[j], "failing") /\ Released(j)
  /\ UNCHANGED <<disk, loaded, seen, versions, base, goal, backup, alone>>

Finish(j) ==
  /\ j \in Deploy /\ Moves(j, "verifying", "ok") /\ Forget({j})
  /\ UNCHANGED <<disk, loaded, seen, versions, alone, faults>>

\* A slip: the file is put back only when it is FreeSWITCH that has refused.
RestoreAfterApply(j) ==
  /\ j \in Deploy /\ Moves(j, "failing", "failed") /\ Forget({j})
  /\ disk' = IF goal[j] \in seen THEN disk ELSE backup[j]
  /\ UNCHANGED <<loaded, seen, versions, alone, faults>>

\* A deployment that has a backup puts it back, and does not have it loaded.
Restore(j) ==
  /\ j \in Deploy /\ Forget({j})
  /\ \/ Moves(j, "failing", "failed") /\ disk' = backup[j] /\ UNCHANGED faults
     \/ Moves(j, "failing", "stuck") /\ Fault /\ UNCHANGED disk
  /\ UNCHANGED <<loaded, seen, versions, alone>>

\* A rollback that fails leaves everything as it is.
GiveUp(j) ==
  /\ j \in Rollback /\ Moves(j, "failing", "failed") /\ Forget({j})
  /\ UNCHANGED <<disk, loaded, seen, versions, alone, faults>>

-----------------------------------------------------------------------------
(* The others. *)

\* Somebody edits the file by hand.
Edit ==
  /\ disk' = "edited" /\ disk # "edited"
  /\ alone' = [j \in Job |-> alone[j] /\ j \notin Working]
  /\ UNCHANGED <<loaded, seen, versions, pc, jobVars, faults>>

\* FreeSWITCH starts, or some other part of the system has it reload.
LoadsElsewhere ==
  /\ Loads
  /\ UNCHANGED <<disk, versions, pc, jobVars, alone, faults>>

\* The backend restarts.
Restart ==
  /\ Fault
  /\ pc' = [j \in Job |-> IF j \in Working THEN "lost" ELSE pc[j]]
  /\ Forget(Working)
  /\ UNCHANGED <<disk, loaded, seen, versions, alone>>

JobStep(j) ==
  \/ Read(j) \/ Choose(j) \/ Refuse(j) \/ Backup(j) \/ Write(j)
  \/ Apply(j) \/ ApplyRollback(j)
  \/ Deactivate(j) \/ Deactivated(j) \/ Number(j) \/ Insert(j) \/ Commit(j)
  \/ Throws(j) \/ Finish(j) \/ Restore(j) \/ GiveUp(j)

Next ==
  \/ \E j \in Job : JobStep(j)
  \/ Edit \/ LoadsElsewhere \/ Restart

Spec == Init /\ [][Next]_vars

-----------------------------------------------------------------------------
(* Properties *)

\* The newest version is active, however deployments and rollbacks overlap,
\* fail or are cut off between the statements that make it.
NewestActive ==
  versions # << >> => versions[Len(versions)].active

\* The version of a deployment that no other job or editor disturbed is one
\* FreeSWITCH has loaded: a reload that failed leaves no version behind.
VersionsWereLoaded ==
  \A i \in DOMAIN versions :
    LET v == versions[i] IN v.by \in Deploy /\ alone[v.by] => v.content \in seen

\* A deployment that fails undisturbed leaves the file as it found it, at
\* whichever step it fails.
FailureRestores ==
  [][\A j \in Deploy :
       pc[j] # "failed" /\ pc'[j] = "failed" /\ alone[j] => disk' = base[j]]_vars

=============================================================================
