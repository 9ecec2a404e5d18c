------------------------- MODULE ConfigDeployProofs -------------------------
(***************************************************************************)
(* ConfigDeploy for any number of deployments, rollbacks and faults.  The  *)
(* inductive invariant says two things.  Numbers: at most one transaction  *)
(* holds an uncommitted version, and it bears the next number, so that the *)
(* row it commits is the newest.  Undisturbed: as long as a job is alone   *)
(* the file and its backup are what it believes they are.  The versions    *)
(* are as many as the jobs that committed one, hence no more than the jobs. *)
(***************************************************************************)
EXTENDS ConfigDeploy, FiniteSetTheorems, SequenceTheorems, TLAPS

Steps == {"new"} \cup Busy \cup Ended

Types ==
  /\ disk \in Content /\ loaded \in Content /\ seen \in SUBSET Content
  /\ versions \in Seq(Version)
  /\ pc \in [Job -> Steps]
  /\ base \in [Job -> Content] /\ goal \in [Job -> Content]
  /\ backup \in [Job -> Content \cup {"none"}]
  /\ \A j \in Job : pc[j] \in Busy \ {"read"} => backup[j] \in Content
  /\ locks \in [Job -> SUBSET Nat] /\ num \in [Job -> Nat]
  /\ alone \in [Job -> BOOLEAN]
  /\ faults \in 0..MaxFaults

Numbers ==
  /\ \A j \in Job : pc[j] = "numbered" => num[j] \in 1..Len(versions) + 1
  /\ \A j \in Job : pc[j] = "inserted" => num[j] = Len(versions) + 1
  /\ \A j, k \in Job : pc[j] = "inserted" /\ pc[k] = "inserted" => j = k

Undisturbed(j) ==
  alone[j] /\ pc[j] \in Busy =>
    /\ \A k \in Job : pc[k] \in Busy => k = j
    /\ pc[j] = "read" => disk = base[j]
    /\ pc[j] # "read" => backup[j] = base[j]
    /\ pc[j] = "written" => disk = goal[j]
    /\ j \in Deploy /\ pc[j] \in {"applied", "verifying"} \cup InTx => goal[j] \in seen

IInv ==
  /\ Types /\ Numbers /\ NewestActive /\ VersionsWereLoaded
  /\ \A j \in Job : Undisturbed(j)

USE ConfigDeployAssumption

LEMMA InitHolds == Init => IInv
<1> SUFFICES ASSUME Init PROVE IInv
  OBVIOUS
<1>1. Types
  BY EmptySeq DEF Init, Types, Steps, Content, Busy, InTx
<1>2. Numbers /\ NewestActive
  BY DEF Init, Numbers, NewestActive
<1>3. VersionsWereLoaded
  BY DEF Init, VersionsWereLoaded
<1>4. \A j \in Job : Undisturbed(j)
  BY DEF Init, Undisturbed, Busy, InTx
<1> QED
  BY <1>1, <1>2, <1>3, <1>4 DEF IInv

-----------------------------------------------------------------------------
(* The commit of a version. *)

\* The uncommitted version is the next, so the commit appends it.
LEMMA CommitAppends ==
  ASSUME Types, Numbers, NEW j \in Job, Commit(j)
  PROVE  /\ versions' \in Seq(Version) /\ Len(versions') = Len(versions) + 1
         /\ versions'[Len(versions) + 1] = Row(j)
         /\ \A i \in 1..Len(versions) :
              versions'[i].content = versions[i].content /\ versions'[i].by = versions[i].by
<1> DEFINE n == Len(versions)
<1>1. n \in Nat /\ DOMAIN versions = 1..n /\ \A i \in 1..n : versions[i] \in Version
  BY DEF Types
<1>2. num[j] = n + 1
  BY DEF Commit, Moves, Numbers
<1>3. DOMAIN versions \cup {num[j]} = 1..(n + 1)
  BY <1>1, <1>2
<1>4. versions' = [i \in 1..(n + 1) |-> IF i = n + 1 THEN Row(j) ELSE Deactivating(j)[i]]
  BY <1>2, <1>3 DEF Commit
<1>5. Row(j) \in Version
  BY DEF Row, Version, Types
<1>6. \A i \in 1..n : /\ Deactivating(j)[i] \in Version
                      /\ Deactivating(j)[i].content = versions[i].content
                      /\ Deactivating(j)[i].by = versions[i].by
  BY <1>1 DEF Deactivating, Version
<1>7. versions' \in [1..(n + 1) -> Version]
  BY <1>1, <1>4, <1>5, <1>6
<1>8. versions' \in Seq(Version)
  BY <1>1, <1>7, SeqDef
<1>9. Len(versions') = n + 1
  <2>1. Len(versions') \in Nat /\ DOMAIN versions' = 1..Len(versions')
    BY <1>8, LenProperties
  <2>2. DOMAIN versions' = 1..(n + 1)
    BY <1>4
  <2>3. \A m \in Nat : 1..m = 1..(n + 1) => m = n + 1
    <3> SUFFICES ASSUME NEW m \in Nat, 1..m = 1..(n + 1) PROVE m = n + 1
      OBVIOUS
    <3> HIDE DEF n
    <3>1. n + 1 \in 1..m
      BY <1>1
    <3>2. m \in 1..(n + 1)
      BY <1>1, <3>1
    <3> QED
      BY <1>1, <3>1, <3>2
  <2> QED
    BY <2>1, <2>2, <2>3
<1> QED
  BY <1>1, <1>4, <1>6, <1>8, <1>9

-----------------------------------------------------------------------------
(* Each part is kept. *)

LEMMA StepNames ==
  /\ Busy \subseteq Steps /\ Ended \subseteq Steps /\ InTx \subseteq Busy
  /\ InTx = {"updating", "updated", "numbered", "inserted"}
  /\ Busy = {"read", "saved", "written", "applied", "verifying", "failing"} \cup InTx
  /\ Ended = {"ok", "failed", "stuck", "lost"}
  /\ {"new", "read", "saved", "written", "applied", "verifying", "failing"} \subseteq Steps
BY DEF Steps, Busy, Ended, InTx

LEMMA TypesKept ==
  ASSUME Types, Numbers, [Next]_vars
  PROVE  Types'
<1> USE StepNames DEF Types, Fault
<1>1. ASSUME NEW j \in Job, Read(j) PROVE Types'
  BY <1>1 DEF Read, Moves, Joins, Content
<1>2. ASSUME NEW j \in Job, Choose(j) PROVE Types'
  <2>1. PICK i \in DOMAIN versions : goal' = [goal EXCEPT ![j] = versions[i].content]
    BY <1>2 DEF Choose
  <2>2. versions[i].content \in Content
    <3>1. versions[i] \in Version
      BY <2>1
    <3> QED
      BY <3>1 DEF Version
  <2>3. goal' \in [Job -> Content]
    BY <2>1, <2>2
  <2> QED
    BY <1>2, <2>3 DEF Choose, Moves, Joins
<1>3. ASSUME NEW j \in Job, Refuse(j) PROVE Types'
  BY <1>3 DEF Refuse, Moves, Forget, Content
<1>4. ASSUME NEW j \in Job, Backup(j) PROVE Types'
  BY <1>4 DEF Backup, Moves
<1>5. ASSUME NEW j \in Job, Write(j) PROVE Types'
  BY <1>5 DEF Write, Moves, jobVars
<1>6. ASSUME NEW j \in Job, Apply(j) PROVE Types'
  <2>1. seen' \in SUBSET Content /\ loaded' \in Content /\ faults' \in 0..MaxFaults
    BY <1>6 DEF Apply, Loads
  <2>2. /\ pc' \in [Job -> Steps] /\ pc[j] = "written"
        /\ \A k \in Job : pc'[k] \in Busy \ {"read"} => pc[k] \in Busy \ {"read"}
    BY <1>6 DEF Apply, Moves
  <2> QED
    BY <1>6, <2>1, <2>2 DEF Apply, jobVars
<1>7. ASSUME NEW j \in Job, ApplyRollback(j) PROVE Types'
  <2>1. seen' \in SUBSET Content /\ loaded' \in Content /\ faults' \in 0..MaxFaults
    BY <1>7 DEF ApplyRollback, Loads
  <2> QED
    BY <1>7, <2>1 DEF ApplyRollback, Moves, Forget, Content
<1>8. ASSUME NEW j \in Job, Deactivate(j) PROVE Types'
  BY <1>8 DEF Deactivate, Moves
<1>9. ASSUME NEW j \in Job, Deactivated(j) PROVE Types'
  BY <1>9 DEF Deactivated, Moves
<1>10. ASSUME NEW j \in Job, Number(j) PROVE Types'
  BY <1>10 DEF Number, Moves
<1>11. ASSUME NEW j \in Job, Insert(j) PROVE Types'
  BY <1>11 DEF Insert, Moves, jobVars
<1>12. ASSUME NEW j \in Job, Commit(j) PROVE Types'
  BY <1>12, CommitAppends DEF Commit, Moves, Released
<1>13. ASSUME NEW j \in Job, Throws(j) PROVE Types'
  BY <1>13 DEF Throws, Moves, Released
<1>14. ASSUME NEW j \in Job, Finish(j) PROVE Types'
  BY <1>14 DEF Finish, Moves, Forget, Content
<1>15. ASSUME NEW j \in Job, Restore(j) PROVE Types'
  <2>1. disk' \in Content /\ faults' \in 0..MaxFaults
    BY <1>15 DEF Restore, Moves
  <2>2. pc' \in [Job -> Steps] /\ \A k \in Job : k # j => pc'[k] = pc[k]
    BY <1>15 DEF Restore, Moves
  <2>3. pc'[j] \notin Busy
    BY <1>15 DEF Restore, Moves
  <2> QED
    BY <1>15, <2>1, <2>2, <2>3 DEF Restore, Forget, Content
<1>16. ASSUME NEW j \in Job, GiveUp(j) PROVE Types'
  BY <1>16 DEF GiveUp, Moves, Forget, Content
<1>17. CASE Edit
  BY <1>17 DEF Edit, jobVars, Content
<1>18. CASE LoadsElsewhere
  BY <1>18 DEF LoadsElsewhere, Loads, jobVars
<1>19. CASE Restart
  BY <1>19 DEF Restart, Forget, Content
<1>20. CASE UNCHANGED vars
  BY <1>20 DEF vars, jobVars
<1> QED
  BY <1>1, <1>2, <1>3, <1>4, <1>5, <1>6, <1>7, <1>8, <1>9, <1>10, <1>11, <1>12, <1>13, <1>14, <1>15, <1>16, <1>17, <1>18, <1>19, <1>20 DEF Next, JobStep

\* Only a commit changes the table of versions.
LEMMA OtherSteps ==
  ASSUME Types, Numbers, [Next]_vars
  PROVE  /\ UNCHANGED versions \/ \E j \in Job : Commit(j)
         /\ seen \subseteq seen'
         /\ \A j \in Job : alone'[j] => alone[j]
<1> USE DEF Types, jobVars
<1>1. CASE \E j \in Job : JobStep(j)
  <2> SUFFICES ASSUME NEW j \in Job, JobStep(j)
               PROVE  /\ UNCHANGED versions \/ \E k \in Job : Commit(k)
                      /\ seen \subseteq seen'
                      /\ \A k \in Job : alone'[k] => alone[k]
    BY <1>1
  <2>1. CASE Read(j) \/ Choose(j)
    BY <2>1 DEF Read, Choose, Joins
  <2>2. CASE Refuse(j) \/ Backup(j) \/ Write(j) \/ Throws(j)
    BY <2>2 DEF Refuse, Backup, Write, Throws
  <2>3. CASE Apply(j) \/ ApplyRollback(j)
    BY <2>3 DEF Apply, ApplyRollback, Loads
  <2>4. CASE Deactivate(j) \/ Deactivated(j) \/ Number(j) \/ Insert(j)
    BY <2>4 DEF Deactivate, Deactivated, Number, Insert
  <2>5. CASE Commit(j)
    BY <2>5 DEF Commit
  <2>6. CASE Finish(j) \/ Restore(j) \/ GiveUp(j)
    BY <2>6 DEF Finish, Restore, GiveUp
  <2> QED
    BY <2>1, <2>2, <2>3, <2>4, <2>5, <2>6 DEF JobStep
<1>2. CASE Edit \/ LoadsElsewhere \/ Restart \/ UNCHANGED vars
  BY <1>2 DEF Edit, LoadsElsewhere, Loads, Restart, vars
<1> QED
  BY <1>1, <1>2 DEF Next

\* A number is at most the next one; inserting it needs it to be the next, and
\* the unique index makes the inserter the only one.
LEMMA NumbersKept ==
  ASSUME Types, Numbers, [Next]_vars
  PROVE  Numbers'
<1> USE StepNames DEF Types, Numbers
<1>0. Len(versions) \in Nat /\ DOMAIN versions = 1..Len(versions)
  OBVIOUS
<1>1. ASSUME NEW j \in Job, Number(j) PROVE Numbers'
  BY <1>0, <1>1 DEF Number, Moves
<1>2. ASSUME NEW j \in Job, Insert(j) PROVE Numbers'
  <2>1. num[j] = Len(versions) + 1
    BY <1>0, <1>2 DEF Insert, Moves, Taken
  <2>2. \A k \in Job : pc[k] # "inserted"
    BY <1>2, <2>1 DEF Insert, Moves
  <2> QED
    BY <1>0, <1>2, <2>1, <2>2 DEF Insert, Moves, jobVars
<1>3. ASSUME NEW j \in Job, Commit(j) PROVE Numbers'
  <2>1. Len(versions') = Len(versions) + 1
    BY <1>3, CommitAppends
  <2>2. \A k \in Job : pc'[k] # "inserted" /\ (pc'[k] = "numbered" => k # j /\ pc[k] = "numbered")
    BY <1>3 DEF Commit, Moves
  <2>3. \A k \in Job : k # j => num'[k] = num[k]
    BY <1>3 DEF Commit, Released
  <2> QED
    BY <1>0, <2>1, <2>2, <2>3
<1>4. ASSUME NEW j \in Job,
             \/ Read(j) \/ Choose(j) \/ Backup(j) \/ Write(j) \/ Apply(j)
             \/ Deactivate(j) \/ Deactivated(j)
      PROVE  Numbers'
  <2>1. versions' = versions /\ num' = num
    BY <1>4 DEF Read, Choose, Backup, Write, Apply, Deactivate, Deactivated, jobVars
  <2>2. \A k \in Job : pc'[k] \in {"numbered", "inserted"} => pc[k] = pc'[k]
    BY <1>4 DEF Read, Choose, Backup, Write, Apply, Deactivate, Deactivated, Moves
  <2> QED
    BY <2>1, <2>2
<1>5. ASSUME NEW j \in Job,
             \/ Refuse(j) \/ ApplyRollback(j) \/ Throws(j) \/ Finish(j)
             \/ Restore(j) \/ GiveUp(j)
      PROVE  Numbers'
  <2>1. versions' = versions /\ \A k \in Job : k # j => num'[k] = num[k]
    BY <1>5 DEF Refuse, ApplyRollback, Throws, Released, Finish, Restore, GiveUp, Forget
  <2>2. \A k \in Job : pc'[k] \in {"numbered", "inserted"} => k # j /\ pc[k] = pc'[k]
    BY <1>5 DEF Refuse, ApplyRollback, Throws, Finish, Restore, GiveUp, Moves
  <2> QED
    BY <2>1, <2>2
<1>6. CASE Edit \/ LoadsElsewhere \/ UNCHANGED vars
  BY <1>6 DEF Edit, LoadsElsewhere, vars, jobVars
<1>7. CASE Restart
  <2>1. \A k \in Job : pc'[k] \notin {"numbered", "inserted"}
    BY <1>7 DEF Restart, Working
  <2> QED
    BY <2>1
<1> QED
  BY <1>1, <1>2, <1>3, <1>4, <1>5, <1>6, <1>7 DEF Next, JobStep

LEMMA NewestKept ==
  ASSUME Types, Numbers, NewestActive, [Next]_vars
  PROVE  NewestActive'
<1>1. CASE UNCHANGED versions
  BY <1>1 DEF NewestActive
<1>2. ASSUME NEW j \in Job, Commit(j) PROVE NewestActive'
  <2>1. Len(versions') = Len(versions) + 1 /\ versions'[Len(versions) + 1] = Row(j)
    BY <1>2, CommitAppends
  <2>2. Row(j).active
    BY DEF Row
  <2>3. versions'[Len(versions')].active
    BY <2>1, <2>2
  <2> QED
    BY <2>3 DEF NewestActive
<1> QED
  BY <1>1, <1>2, OtherSteps

LEMMA LoadedKept ==
  ASSUME Types, Numbers, VersionsWereLoaded, \A j \in Job : Undisturbed(j), [Next]_vars
  PROVE  VersionsWereLoaded'
<1>1. CASE UNCHANGED versions
  <2>1. \A i \in DOMAIN versions : versions[i] \in Version
    BY DEF Types
  <2> QED
    BY <1>1, <2>1, OtherSteps DEF VersionsWereLoaded, Version
<1>2. ASSUME NEW j \in Job, Commit(j) PROVE VersionsWereLoaded'
  <2>1. Len(versions) \in Nat /\ DOMAIN versions = 1..Len(versions)
    BY DEF Types
  <2>2. DOMAIN versions' = 1..(Len(versions) + 1)
    BY <1>2, <2>1, CommitAppends
  <2>3. SUFFICES ASSUME NEW i \in 1..(Len(versions) + 1),
                        versions'[i].by \in Deploy, alone'[versions'[i].by]
                 PROVE  versions'[i].content \in seen'
    BY <2>2 DEF VersionsWereLoaded
  <2>4. seen' = seen /\ alone' = alone
    BY <1>2 DEF Commit
  <2>5. CASE i = Len(versions) + 1
    <3>1. versions'[i].content = goal[j] /\ versions'[i].by = j
      <4>1. versions'[i] = Row(j)
        BY <1>2, <2>5, CommitAppends
      <4> QED
        BY <4>1 DEF Row
    <3>2. pc[j] \in InTx /\ pc[j] \in Busy
      BY <1>2, StepNames DEF Commit, Moves
    <3> QED
      BY <2>3, <2>4, <3>1, <3>2 DEF Undisturbed
  <2>6. CASE i # Len(versions) + 1
    <3>1. i \in 1..Len(versions)
      BY <2>1, <2>6
    <3>2. versions'[i].content = versions[i].content /\ versions'[i].by = versions[i].by
      BY <1>2, <3>1, CommitAppends
    <3> QED
      BY <2>1, <2>3, <2>4, <3>1, <3>2 DEF VersionsWereLoaded
  <2> QED
    BY <2>5, <2>6
<1> QED
  BY <1>1, <1>2, OtherSteps

-----------------------------------------------------------------------------
(* A job that is alone. *)

\* What a job at work does to the others: none of them is alone.
LEMMA AloneAtWork ==
  ASSUME Types, \A j \in Job : Undisturbed(j), NEW j \in Job, pc[j] \in Busy,
         NEW k \in Job, k # j, alone[k]
  PROVE  pc[k] \notin Busy
BY DEF Undisturbed

LEMMA JobUndisturbed ==
  ASSUME Types, \A j \in Job : Undisturbed(j), NEW j \in Job, JobStep(j), NEW k \in Job
  PROVE  Undisturbed(k)'
<1> USE StepNames DEF Types
<1>1. CASE Read(j) \/ Choose(j)
  <2>1. /\ pc[j] = "new" /\ pc'[j] = "read" /\ disk' = disk /\ base'[j] = disk
        /\ \A i \in Job : i # j => pc'[i] = pc[i]
    BY <1>1 DEF Read, Choose, Moves
  <2>2. alone'[k] => IF k = j THEN Working = {} ELSE k \notin Working
    BY <1>1 DEF Read, Choose, Joins
  <2>3. CASE k = j
    BY <2>1, <2>2, <2>3 DEF Undisturbed, Working
  <2>4. CASE k # j
    BY <2>1, <2>2, <2>4 DEF Undisturbed, Working
  <2> QED
    BY <2>3, <2>4
<1>2. CASE ~(Read(j) \/ Choose(j))
  <2>1. /\ pc[j] \in Busy /\ alone' = alone
        /\ pc'[j] \in Busy \cup Ended
        /\ \A i \in Job : i # j => pc'[i] = pc[i]
    <3>1. CASE Refuse(j) \/ Backup(j) \/ Write(j) \/ Throws(j)
      BY <3>1 DEF Refuse, Backup, Write, Throws, Moves
    <3>2. CASE Apply(j) \/ ApplyRollback(j)
      BY <3>2 DEF Apply, ApplyRollback, Moves
    <3>3. CASE Deactivate(j) \/ Deactivated(j) \/ Number(j) \/ Insert(j) \/ Commit(j)
      BY <3>3 DEF Deactivate, Deactivated, Number, Insert, Commit, Moves
    <3>4. CASE Finish(j) \/ Restore(j) \/ GiveUp(j)
      BY <3>4 DEF Finish, Restore, GiveUp, Moves
    <3> QED
      BY <1>2, <3>1, <3>2, <3>3, <3>4 DEF JobStep
  <2>2. CASE k # j
    <3> SUFFICES ASSUME alone'[k], pc'[k] \in Busy PROVE FALSE
      BY DEF Undisturbed
    <3> QED
      BY <2>1, <2>2, AloneAtWork
  <2>3. CASE k = j
    <3> SUFFICES ASSUME alone'[j], pc'[j] \in Busy PROVE Undisturbed(j)'
      BY <2>3 DEF Undisturbed
    <3>1. /\ \A i \in Job : pc'[i] \in Busy => i = j
          /\ Undisturbed(j) /\ alone[j]
      BY <2>1 DEF Undisturbed
    <3>2. CASE Backup(j)
      BY <2>1, <3>1, <3>2 DEF Undisturbed, Backup, Moves
    <3>3. CASE Write(j)
      BY <2>1, <3>1, <3>3 DEF Undisturbed, Write, Moves, jobVars
    <3>4. CASE Apply(j)
      <4>1. pc[j] = "written" /\ disk = goal[j] /\ backup[j] = base[j]
        BY <2>1, <3>1, <3>4 DEF Apply, Moves, Undisturbed
      <4>2. base' = base /\ goal' = goal /\ backup' = backup
        BY <3>4 DEF Apply, jobVars
      <4>3. \/ pc'[j] = "applied" /\ goal[j] \in seen'
            \/ pc'[j] = "failing"
        BY <3>4, <4>1 DEF Apply, Moves, Loads
      <4> QED
        BY <3>1, <4>1, <4>2, <4>3 DEF Undisturbed
    <3>5. CASE Deactivate(j) \/ Deactivated(j) \/ Number(j) \/ Insert(j) \/ Commit(j)
      <4>1. /\ base' = base /\ goal' = goal /\ backup' = backup /\ seen' = seen
            /\ pc[j] \in {"applied"} \cup InTx
            /\ pc'[j] \in {"verifying"} \cup InTx
        BY <3>5 DEF Deactivate, Deactivated, Number, Insert, Commit, Moves, jobVars
      <4> QED
        BY <2>1, <3>1, <4>1 DEF Undisturbed
    <3>6. CASE Throws(j)
      <4>1. /\ base' = base /\ backup' = backup /\ pc[j] # "read"
            /\ pc'[j] = "failing"
        BY <3>6 DEF Throws, Moves
      <4> QED
        BY <2>1, <3>1, <4>1 DEF Undisturbed
    <3>7. CASE Refuse(j) \/ ApplyRollback(j) \/ Finish(j) \/ Restore(j) \/ GiveUp(j)
      <4>1. pc'[j] \in Ended
        BY <3>7 DEF Refuse, ApplyRollback, Finish, Restore, GiveUp, Moves
      <4> QED
        BY <4>1
    <3> QED
      BY <1>2, <3>2, <3>3, <3>4, <3>5, <3>6, <3>7 DEF JobStep
  <2> QED
    BY <2>2, <2>3
<1> QED
  BY <1>1, <1>2

LEMMA UndisturbedKept ==
  ASSUME Types, \A j \in Job : Undisturbed(j), [Next]_vars, NEW k \in Job
  PROVE  Undisturbed(k)'
<1>1. ASSUME NEW j \in Job, JobStep(j) PROVE Undisturbed(k)'
  BY <1>1, JobUndisturbed
<1>2. CASE Edit
  BY <1>2 DEF Edit, Undisturbed, Working
<1>3. CASE LoadsElsewhere
  BY <1>3 DEF LoadsElsewhere, Loads, Undisturbed, jobVars
<1>4. CASE Restart
  <2>1. pc'[k] \notin Busy
    BY <1>4, StepNames DEF Restart, Working, Types
  <2> QED
    BY <2>1 DEF Undisturbed
<1>5. CASE UNCHANGED vars
  BY <1>5 DEF vars, jobVars, Undisturbed
<1> QED
  BY <1>1, <1>2, <1>3, <1>4, <1>5 DEF Next

(* The sizes.  A job commits one version at most, so there are no more       *)
(* versions than jobs, and what a transaction locks or numbers is among them *)
(* or next to them.                                                          *)

Through == {j \in Job : pc[j] \in {"verifying", "failing"} \cup Ended}

Sizes ==
  /\ Len(versions) <= Cardinality(Through)
  /\ \A j \in Job : locks[j] \subseteq 1..Len(versions)
  /\ \A j \in Job : pc[j] \notin InTx => locks[j] = {}
  /\ \A j \in Job : pc[j] \notin {"numbered", "inserted"} => num[j] = 0

LEMMA JobsCounted ==
  ASSUME NEW S \in SUBSET Job, NEW T \in SUBSET Job, S \subseteq T
  PROVE  /\ Cardinality(S) \in Nat /\ Cardinality(T) \in Nat /\ Cardinality(Job) \in Nat
         /\ Cardinality(S) <= Cardinality(T) /\ Cardinality(T) <= Cardinality(Job)
         /\ \A j \in T \ S : Cardinality(S) + 1 <= Cardinality(T)
<1>1. IsFiniteSet(Job) /\ IsFiniteSet(S) /\ IsFiniteSet(T)
  BY FS_Subset
<1>2. ASSUME NEW j \in T \ S PROVE Cardinality(S) + 1 <= Cardinality(T)
  <2>1. Cardinality(S \cup {j}) = Cardinality(S) + 1
    BY <1>1, FS_AddElement
  <2>2. Cardinality(S \cup {j}) <= Cardinality(T)
    BY <1>1, FS_Subset
  <2> QED
    BY <2>1, <2>2
<1> QED
  BY <1>1, <1>2, FS_Subset, FS_CardinalityType

\* A step of a job that does not commit.
LEMMA SizesStay ==
  ASSUME Types, Sizes, UNCHANGED versions, NEW j \in Job,
         \A k \in Job : k # j => UNCHANGED <<pc[k], locks[k], num[k]>>,
         j \in Through => j \in Through',
         locks'[j] \subseteq 1..Len(versions),
         pc'[j] \notin InTx => locks'[j] = {},
         pc'[j] \notin {"numbered", "inserted"} => num'[j] = 0
  PROVE  Sizes'
<1>1. Through \in SUBSET Job /\ Through' \in SUBSET Job /\ Through \subseteq Through'
  BY DEF Through
<1>2. /\ Cardinality(Through) <= Cardinality(Through')
      /\ Cardinality(Through) \in Nat /\ Cardinality(Through') \in Nat
  BY <1>1, JobsCounted, Zenon
<1>3. Len(versions) \in Nat
  BY DEF Types
<1> QED
  BY <1>2, <1>3 DEF Sizes

LEMMA SizesKept ==
  ASSUME Types, Numbers, Sizes, [Next]_vars
  PROVE  Sizes'
<1> USE StepNames DEF Moves
<1>0. /\ pc \in [Job -> Steps] /\ locks \in [Job -> SUBSET Nat] /\ num \in [Job -> Nat]
      /\ versions \in Seq(Version) /\ Len(versions) \in Nat /\ DOMAIN versions = 1..Len(versions)
  BY DEF Types
<1>1. ASSUME NEW j \in Job,
             \/ Read(j) \/ Choose(j) \/ Backup(j) \/ Write(j) \/ Apply(j) \/ Insert(j)
      PROVE  Sizes'
  <2>1. UNCHANGED <<versions, locks, num>>
    BY <1>1 DEF Read, Choose, Backup, Write, Apply, Insert, jobVars
  <2>2. /\ \A k \in Job : k # j => pc'[k] = pc[k]
        /\ j \notin Through
        /\ pc[j] \notin InTx => pc'[j] \notin InTx
        /\ pc[j] \in {"numbered", "inserted"} => pc'[j] \in {"numbered", "inserted"}
        /\ pc[j] \in InTx => pc'[j] \in InTx
        /\ pc'[j] \in {"numbered", "inserted"} => pc[j] \in {"numbered", "inserted"}
    BY <1>0, <1>1 DEF Read, Choose, Backup, Write, Apply, Insert, Through
  <2> QED
    BY <1>0, <2>1, <2>2, SizesStay DEF Sizes
<1>2. ASSUME NEW j \in Job,
             Refuse(j) \/ ApplyRollback(j) \/ Finish(j) \/ Restore(j) \/ GiveUp(j)
      PROVE  Sizes'
  <2>1. UNCHANGED versions /\ Forget({j})
    BY <1>2 DEF Refuse, ApplyRollback, Finish, Restore, GiveUp
  <2>2. /\ \A k \in Job : k # j => pc'[k] = pc[k]
        /\ pc'[j] \in Ended
    BY <1>0, <1>2 DEF Refuse, ApplyRollback, Finish, Restore, GiveUp
  <2> QED
    BY <1>0, <2>1, <2>2, SizesStay DEF Forget, Through
<1>3. ASSUME NEW j \in Job, Deactivate(j) \/ Deactivated(j) \/ Number(j) PROVE Sizes'
  <2>1. /\ UNCHANGED versions /\ \A k \in Job : k # j => UNCHANGED <<pc[k], locks[k], num[k]>>
        /\ pc'[j] \in InTx /\ j \notin Through
    BY <1>0, <1>3 DEF Deactivate, Deactivated, Number, Through
  <2>2. locks'[j] \subseteq 1..Len(versions)
    BY <1>0, <1>3 DEF Deactivate, Deactivated, Number, Sizes
  <2>3. pc'[j] \notin {"numbered", "inserted"} => num'[j] = 0
    BY <1>0, <1>3 DEF Deactivate, Deactivated, Number, Sizes
  <2> QED
    BY <2>1, <2>2, <2>3, SizesStay
<1>4. ASSUME NEW j \in Job, Throws(j) PROVE Sizes'
  <2>1. /\ UNCHANGED versions /\ \A k \in Job : k # j => UNCHANGED <<pc[k], locks[k], num[k]>>
        /\ pc'[j] = "failing" /\ locks'[j] = {} /\ num'[j] = 0
    BY <1>0, <1>4 DEF Throws, Released
  <2> QED
    BY <2>1, SizesStay DEF Through
<1>5. ASSUME NEW j \in Job, Commit(j) PROVE Sizes'
  <2>1. Len(versions') = Len(versions) + 1
    BY <1>5, CommitAppends
  <2>2. /\ \A k \in Job : k # j => UNCHANGED <<pc[k], locks[k], num[k]>>
        /\ pc'[j] = "verifying" /\ locks'[j] = {} /\ num'[j] = 0
        /\ j \notin Through
    BY <1>0, <1>5 DEF Commit, Released, Through
  <2>3. Through \in SUBSET Job /\ Through' \in SUBSET Job /\ Through \subseteq Through'
        /\ j \in Through' \ Through
    BY <2>2 DEF Through
  <2>4. Len(versions') <= Cardinality(Through')
    <3>1. /\ Cardinality(Through) + 1 <= Cardinality(Through')
          /\ Cardinality(Through) \in Nat /\ Cardinality(Through') \in Nat
      BY <2>3, JobsCounted, Zenon
    <3> QED
      BY <1>0, <2>1, <3>1 DEF Sizes
  <2>5. 1..Len(versions) \subseteq 1..Len(versions')
    BY <1>0, <2>1
  <2> QED
    BY <2>2, <2>4, <2>5 DEF Sizes
<1>6. CASE Edit \/ LoadsElsewhere \/ UNCHANGED vars
  BY <1>6 DEF Edit, LoadsElsewhere, vars, jobVars, Sizes, Through
<1>7. CASE Restart
  <2>1. /\ UNCHANGED versions
        /\ \A k \in Job : IF k \in Working
             THEN pc'[k] = "lost" /\ locks'[k] = {} /\ num'[k] = 0
             ELSE UNCHANGED <<pc[k], locks[k], num[k]>>
    BY <1>7 DEF Restart, Forget
  <2>2. Through \in SUBSET Job /\ Through' \in SUBSET Job /\ Through \subseteq Through'
    BY <2>1 DEF Through
  <2>3. Len(versions) <= Cardinality(Through')
    BY <1>0, <2>2, JobsCounted DEF Sizes
  <2> QED
    BY <2>1, <2>3 DEF Sizes
<1> QED
  BY <1>1, <1>2, <1>3, <1>4, <1>5, <1>6, <1>7 DEF Next, JobStep

LEMMA InvHolds == Spec => []IInv
<1>1. IInv /\ [Next]_vars => IInv'
  BY TypesKept, NumbersKept, NewestKept, LoadedKept, UndisturbedKept DEF IInv
<1> QED
  BY InitHolds, <1>1, PTL DEF Spec

-----------------------------------------------------------------------------

\* However many deployments and rollbacks overlap, fail or are cut off, the
\* newest version of the file is marked active.
THEOREM NewestIsActive == Spec => []NewestActive
<1>1. IInv => NewestActive
  BY DEF IInv
<1> QED
  BY InvHolds, <1>1, PTL

\* The version an undisturbed deployment leaves behind was loaded by FreeSWITCH.
THEOREM LoadedBeforeRecorded == Spec => []VersionsWereLoaded
<1>1. IInv => VersionsWereLoaded
  BY DEF IInv
<1> QED
  BY InvHolds, <1>1, PTL

\* A deployment that ends as failed, and was not disturbed, leaves the file with
\* the content it found.
THEOREM FailuresRestore == Spec => FailureRestores
<1>1. ASSUME IInv, [Next]_vars, NEW j \in Deploy,
             pc[j] # "failed", pc'[j] = "failed", alone[j]
      PROVE  disk' = base[j]
  <2> USE StepNames DEF IInv, Types
  <2>1. j \in Job /\ Undisturbed(j)
    BY <1>1 DEF Job
  <2>2. PICK k \in Job : JobStep(k)
    BY <1>1, <2>1 DEF Next, Edit, LoadsElsewhere, Restart, vars
  <2>3. k = j
    BY <1>1, <2>1, <2>2 DEF JobStep, Read, Choose, Refuse, Backup, Write, Apply,
       ApplyRollback, Deactivate, Deactivated, Number, Insert, Commit, Throws,
       Finish, Restore, GiveUp, Moves
  <2>4. Refuse(j) \/ Restore(j)
    BY <1>1, <2>1, <2>2, <2>3, ConfigDeployAssumption DEF JobStep, Read, Choose,
       Backup, Write, Apply, ApplyRollback, Deactivate, Deactivated, Number,
       Insert, Commit, Throws, Finish, GiveUp, Moves
  <2>5. CASE Refuse(j)
    BY <1>1, <2>1, <2>5 DEF Refuse, Moves, Undisturbed
  <2>6. CASE Restore(j)
    BY <1>1, <2>1, <2>6 DEF Restore, Moves, Undisturbed
  <2> QED
    BY <2>4, <2>5, <2>6
<1>2. IInv /\ [Next]_vars =>
        \A j \in Deploy : pc[j] # "failed" /\ pc'[j] = "failed" /\ alone[j]
                           => disk' = base[j]
  BY <1>1
<1> QED
  BY InvHolds, <1>2, PTL DEF FailureRestores, Spec

\* Every reachable state is well typed: in particular there are no more
\* versions than jobs, and a job outside createVersion's transaction locks no
\* row and holds no number.
THEOREM TypeCorrect == Spec => []TypeOK
<1>1. Init => Sizes
  <2> SUFFICES ASSUME Init PROVE Sizes
    OBVIOUS
  <2>1. Len(versions) = 0 /\ Through \in SUBSET Job
    BY DEF Init, Through
  <2>2. Cardinality(Through) \in Nat
    BY <2>1, JobsCounted
  <2> QED
    BY <2>1, <2>2 DEF Init, Sizes
<1>2. IInv /\ Sizes /\ [Next]_vars => Sizes'
  BY SizesKept DEF IInv
<1>3. IInv /\ Sizes => TypeOK
  <2> SUFFICES ASSUME Types, Numbers, Sizes PROVE TypeOK
    BY DEF IInv
  <2>0. Through \in SUBSET Job
    BY DEF Through
  <2>1. /\ Len(versions) \in Nat /\ Cardinality(Job) \in Nat
        /\ Len(versions) <= Cardinality(Job)
    <3>1. /\ Cardinality(Through) <= Cardinality(Job) /\ Cardinality(Job) \in Nat
          /\ Cardinality(Through) \in Nat
      BY <2>0, JobsCounted, Zenon
    <3> QED
      BY <3>1 DEF Types, Sizes
  <2>2. locks \in [Job -> SUBSET (1..Cardinality(Job))]
    <3>1. 1..Len(versions) \subseteq 1..Cardinality(Job)
      BY <2>1
    <3> QED
      BY <3>1 DEF Types, Sizes
  <2>3. num \in [Job -> 0..Cardinality(Job)]
    <3> SUFFICES ASSUME NEW j \in Job PROVE num[j] \in 0..Cardinality(Job)
      BY DEF Types
    <3>1. CASE pc[j] \in {"numbered", "inserted"}
      <4>1. j \notin Through
        BY <3>1 DEF Through, Ended
      <4>2. Cardinality(Through) + 1 <= Cardinality(Job) /\ Cardinality(Through) \in Nat
        BY <2>0, <4>1, JobsCounted
      <4>3. num[j] \in 1..Len(versions) + 1
        BY <2>1, <3>1 DEF Numbers
      <4> QED
        BY <2>1, <4>2, <4>3 DEF Sizes
    <3> QED
      BY <2>1, <3>1 DEF Sizes
  <2>4. \A j \in Job : pc[j] \notin InTx => locks[j] = {} /\ num[j] = 0
    BY DEF Sizes, InTx
  <2> QED
    BY <2>1, <2>2, <2>3, <2>4 DEF Types, TypeOK, Steps
<1> QED
  BY InvHolds, <1>1, <1>2, <1>3, PTL DEF Spec

=============================================================================
