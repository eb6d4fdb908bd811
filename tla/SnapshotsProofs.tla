-------------------------- MODULE SnapshotsProofs --------------------------
(***************************************************************************)
(* Proofs about the snapshots, for any number of jobs, cleaners, failures  *)
(* and deaths and any retention limit.  Cleaners work beside the task and  *)
(* beside each other throughout.                                           *)
(*                                                                         *)
(* Replaced data is kept (LiveKept).  What retention keeps is kept         *)
(* (RetentionKept), so is the backup of an update in flight                *)
(* (InFlightBackup), and a rollback restores it (RollbackRestores): these  *)
(* except a copy a cleaner worked beside while it was made, or whose cp    *)
(* nested, and name it (doubted), for there the code loses the backup.     *)
(***************************************************************************)
EXTENDS SnapshotsProperties, FiniteSetTheorems, TLAPS

(***************************************************************************)
(* Whose turn it is: what the place the task stands at says about the job  *)
(* in flight.                                                              *)
(***************************************************************************)
Owned ==
  /\ pc # "idle" => current \in Jobs
  /\ pc \in UpdatePoints => stuck = 0
  /\ pc = "running" \/ pc \in RestorePoints => stuck = current /\ uses[current] \in Jobs
  /\ pc \in {"noted", "running"} => uses[current] = current

(***************************************************************************)
(* Data set out to be replaced is set aside before pgdata is touched, and  *)
(* stays so until the job that replaces it is done.                        *)
(***************************************************************************)
PastSafety ==
  {"stage", "staging", "wipe", "fill", "filling", "adoptRead", "adoptWrite", "restored"}

Kept ==
  /\ \A content \in replaced : Whole(content)
  /\ stuck = 0 \/ pc = "running" \/ pc \in PastSafety => replaced \subseteq safe
  /\ LiveKept

(***************************************************************************)
(* Retention.  Every entry is of an update that recorded one; each id is   *)
(* used once.                                                              *)
(***************************************************************************)
Unmade == {"copy", "copying", "rename", "recordRead", "recordWrite"}

Recorded ==
  /\ current < nextJob
  /\ \A job \in made : job < nextJob
  /\ pc \in Unmade => current \notin made

OnlyMade ==
  /\ index \cap Jobs \subseteq made
  /\ mine \cap Jobs \subseteq made
  /\ \A c \in Cleaners : seen[c] \cap Jobs \subseteq made

\* Until the job file names a copy beyond doubt, no cleaner is at work.
MadeAlone == pc \in Making /\ current \notin doubted => \A c \in Cleaners : cpc[c] = "idle"

\* So every reading of the index that somebody still goes by is younger than
\* the entry, and has it: neither a sweep nor a write of the index misses it.
Listed ==
  \A id \in made \ doubted : dir[id] # Absent =>
    /\ id \in index
    /\ pc \in {"recordWrite", "adoptWrite"} => id \in mine
    /\ \A c \in Cleaners :
         /\ cpc[c] \in {"protect", "remove", "delete", "sweep"} => id \in seen[c]
         /\ cpc[c] = "orphan" => id \notin drop[c]

\* A prune has chosen what enough later updates have replaced.
Chosen ==
  \A c \in Cleaners : cpc[c] = "remove" =>
    \A id \in drop[c] : Cardinality(Later(id)) >= KeepN

Retained == Recorded /\ OnlyMade /\ MadeAlone /\ Listed /\ Chosen

(***************************************************************************)
(* The backup an update depends on, from the moment the job file names it. *)
(***************************************************************************)
Needed(job) ==
  /\ job \in Jobs \ doubted /\ uses[job] = job
  /\ stuck = job \/ (pc = "noted" /\ current = job)

\* pgdata is there unless a restore is at work on it or has failed.
DataThere ==
  stuck = 0 \/ pc \in {"running", "adoptRead", "adoptWrite", "restored"} => pgdata # Absent

\* How far the copy of the update under way has come.
CopyOnTheWay ==
  pc \in Making \cup {"noted"} /\ current \notin doubted =>
    /\ original[current] # Absent
    /\ pc \in {"copying", "rename"} => tmp # Absent
    /\ pc = "copying" => original[current] = pgdata
    /\ pc = "rename" => tmp = original[current]
    /\ pc \in {"recordRead", "recordWrite", "note"} => dir[current] = original[current]
    /\ pc = "note" => current \in made

BackupThere ==
  \A job \in Jobs : Needed(job) =>
    job \in made /\ dir[job] = original[job] /\ original[job] # Absent

\* No cleaner has chosen it: what a reading has found in use, or finds.
CleanersHarmless ==
  \A c \in Cleaners, job \in Jobs : Needed(job) /\ cpc[c] \in Removing => job \notin drop[c]

BackupKept == DataThere /\ CopyOnTheWay /\ BackupThere /\ CleanersHarmless

\* How far the restore of a failed update has come.
RestoreOnTheWay ==
  /\ pc = "aside" => ~mounted
  /\ pc = "staging" /\ current \notin marred => stage = Holed
  /\ pc = "filling" => pgdata = Holed
  /\ pc \in RestorePoints /\ uses[current] = current /\ current \notin doubted \cup marred =>
       /\ pc \in {"wipe", "fill", "filling"} /\ mounted => stage = original[current]
       /\ pc \in {"adoptRead", "adoptWrite", "restored"} => pgdata = original[current]

\* The initial state is well-formed.
LEMMA InitSound ==
  ASSUME Init
  PROVE  TypeOK /\ Owned /\ Kept /\ Retained /\ BackupKept /\ RestoreOnTheWay
<1> USE SnapshotBounds, SnapshotSwitches
<1>1. TypeOK
  BY DEF Init, TypeOK, DataTypeOK, JobTypeOK, TaskTypeOK, CleanerTypeOK, HistoryTypeOK, Jobs, Contents, Points, CleanerPoints, Absent, Installed
<1>2. Owned
  BY DEF Init, Owned, UpdatePoints, RestorePoints
<1>3. Kept
  BY DEF Init, Kept, LiveKept, PastSafety
<1>4. Retained
  BY DEF Init, Retained, Recorded, OnlyMade, MadeAlone, Listed, Chosen, Unmade, Making
<1>5. BackupKept
  BY DEF Init, BackupKept, DataThere, CopyOnTheWay, BackupThere, CleanersHarmless, Needed,
         Jobs, Making, Absent, Installed, Removing
<1>6. RestoreOnTheWay
  BY DEF Init, RestoreOnTheWay, RestorePoints
<1> QED
  BY <1>1, <1>2, <1>3, <1>4, <1>5, <1>6

\* Every step keeps the types.
LEMMA TypesPreserved ==
  ASSUME TypeOK, Owned, Next \/ UNCHANGED vars
  PROVE  TypeOK'
<1>0. pc \in Making \cup Staged => current \in Jobs
  BY DEF Owned, Making, Staged
<1> USE SnapshotBounds, SnapshotSwitches DEF Task, Steps, Fails, dataVars, jobVars, taskVars, cleanerVars, boundVars, historyVars, TypeOK, DataTypeOK, JobTypeOK, TaskTypeOK, CleanerTypeOK, HistoryTypeOK, Owned, Jobs, Contents, Points, UpdatePoints, RestorePoints, CleanerPoints, Absent, Holed, Installed, Migrated, Aside
<1>1. CASE RequestUpdate
  <2>1. DataTypeOK'
    BY <1>1 DEF RequestUpdate
  <2>2. JobTypeOK'
    BY <1>1 DEF RequestUpdate
  <2>3. TaskTypeOK'
    BY <1>1 DEF RequestUpdate
  <2>4. CleanerTypeOK'
    BY <1>1 DEF RequestUpdate
  <2>5. HistoryTypeOK'
    BY <1>1 DEF RequestUpdate
  <2> QED
    BY <2>1, <2>2, <2>3, <2>4, <2>5
<1>2. CASE ForgetJob
  <2>1. DataTypeOK'
    BY <1>2 DEF ForgetJob
  <2>2. JobTypeOK'
    BY <1>2 DEF ForgetJob
  <2>3. TaskTypeOK'
    BY <1>2 DEF ForgetJob
  <2>4. CleanerTypeOK'
    BY <1>2 DEF ForgetJob
  <2>5. HistoryTypeOK'
    BY <1>2 DEF ForgetJob
  <2> QED
    BY <2>1, <2>2, <2>3, <2>4, <2>5
<1>3. CASE \E id \in Jobs : RequestRollback(id)
  <2>1. DataTypeOK'
    BY <1>3 DEF RequestRollback
  <2>2. JobTypeOK'
    BY <1>3 DEF RequestRollback
  <2>3. TaskTypeOK'
    BY <1>3 DEF RequestRollback
  <2>4. CleanerTypeOK'
    BY <1>3 DEF RequestRollback
  <2>5. HistoryTypeOK'
    BY <1>3 DEF RequestRollback
  <2> QED
    BY <2>1, <2>2, <2>3, <2>4, <2>5
<1>4. CASE BeginCopy
  <2>1. DataTypeOK'
    BY <1>4 DEF BeginCopy
  <2>2. JobTypeOK'
    BY <1>4 DEF BeginCopy
  <2>3. TaskTypeOK'
    BY <1>4 DEF BeginCopy
  <2>4. CleanerTypeOK'
    BY <1>4 DEF BeginCopy
  <2>5. HistoryTypeOK'
    <3>1. original' \in [Jobs -> Contents]
      BY <1>4 DEF BeginCopy
    <3>2. doubted' \subseteq Jobs
      BY <1>4 DEF BeginCopy
    <3>3. UNCHANGED <<failures, crashes, replaced, made, marred>>
      BY <1>4 DEF BeginCopy
    <3> QED
      BY <3>1, <3>2, <3>3
  <2> QED
    BY <2>1, <2>2, <2>3, <2>4, <2>5
<1>5. CASE EndCopy
  <2>1. DataTypeOK'
    BY <1>5 DEF EndCopy, Copied
  <2>2. JobTypeOK'
    BY <1>5 DEF EndCopy, Copied
  <2>3. TaskTypeOK'
    BY <1>5 DEF EndCopy, Copied
  <2>4. CleanerTypeOK'
    BY <1>5 DEF EndCopy, Copied
  <2>5. HistoryTypeOK'
    BY <1>5 DEF EndCopy, Copied
  <2> QED
    BY <2>1, <2>2, <2>3, <2>4, <2>5
<1>6. CASE NestCopy
  <2>1. DataTypeOK'
    BY <1>6 DEF NestCopy
  <2>2. JobTypeOK'
    BY <1>6 DEF NestCopy
  <2>3. TaskTypeOK'
    BY <1>6 DEF NestCopy
  <2>4. CleanerTypeOK'
    BY <1>6 DEF NestCopy
  <2>5. HistoryTypeOK'
    <3>1. failures' \in Nat
      BY <1>6 DEF NestCopy
    <3>2. doubted' \subseteq Jobs
      BY <1>0, <1>6 DEF NestCopy, Making
    <3>3. UNCHANGED <<crashes, original, replaced, made, marred>>
      BY <1>6 DEF NestCopy
    <3> QED
      BY <3>1, <3>2, <3>3
  <2> QED
    BY <2>1, <2>2, <2>3, <2>4, <2>5
<1>7. CASE CopyFails
  <2>1. DataTypeOK'
    BY <1>7 DEF CopyFails, GiveUp
  <2>2. JobTypeOK'
    BY <1>7 DEF CopyFails, GiveUp
  <2>3. TaskTypeOK'
    BY <1>7 DEF CopyFails, GiveUp
  <2>4. CleanerTypeOK'
    BY <1>7 DEF CopyFails, GiveUp
  <2>5. HistoryTypeOK'
    <3>1. failures' \in Nat
      BY <1>7 DEF CopyFails, GiveUp
    <3>2. UNCHANGED <<crashes, original, replaced, made, doubted, marred>>
      BY <1>7 DEF CopyFails, GiveUp
    <3> QED
      BY <3>1, <3>2
  <2> QED
    BY <2>1, <2>2, <2>3, <2>4, <2>5
<1>8. CASE Rename
  <2>1. DataTypeOK'
    <3>1. tmp' \in Contents
      BY <1>8 DEF Rename
    <3>3. dir' = dir \/ dir' = [dir EXCEPT ![current] = tmp]
      BY <1>8 DEF Rename
    <3>4. dir' \in [Jobs -> Contents]
      BY <3>3
    <3>2. UNCHANGED <<mounted, index, stage, safe, pgdata>>
      BY <1>8 DEF Rename
    <3> QED
      BY <3>1, <3>2, <3>4
  <2>2. JobTypeOK'
    BY <1>8 DEF Rename, GiveUp
  <2>3. TaskTypeOK'
    BY <1>8 DEF Rename, GiveUp
  <2>4. CleanerTypeOK'
    BY <1>8 DEF Rename, GiveUp
  <2>5. HistoryTypeOK'
    BY <1>8 DEF Rename, GiveUp
  <2> QED
    BY <2>1, <2>2, <2>3, <2>4, <2>5
<1>9. CASE RecordRead
  BY <1>9 DEF RecordRead
<1>10. CASE RecordWrite
  <2>1. DataTypeOK'
    BY <1>10 DEF RecordWrite
  <2>2. JobTypeOK'
    BY <1>10 DEF RecordWrite
  <2>3. TaskTypeOK'
    BY <1>10 DEF RecordWrite
  <2>4. CleanerTypeOK'
    BY <1>10 DEF RecordWrite
  <2>5. HistoryTypeOK'
    <3>1. made' \subseteq Jobs
      BY <1>10 DEF RecordWrite
    <3>2. UNCHANGED <<failures, crashes, original, replaced, doubted, marred>>
      BY <1>10 DEF RecordWrite
    <3> QED
      BY <3>1, <3>2
  <2> QED
    BY <2>1, <2>2, <2>3, <2>4, <2>5
<1>11. CASE Note
  BY <1>11 DEF Note
<1>12. CASE FailBeforeSwap
  <2>1. DataTypeOK'
    BY <1>12 DEF FailBeforeSwap, GiveUp
  <2>2. JobTypeOK'
    BY <1>12 DEF FailBeforeSwap, GiveUp
  <2>3. TaskTypeOK'
    BY <1>12 DEF FailBeforeSwap, GiveUp
  <2>4. CleanerTypeOK'
    BY <1>12 DEF FailBeforeSwap, GiveUp
  <2>5. HistoryTypeOK'
    BY <1>12 DEF FailBeforeSwap, GiveUp
  <2> QED
    BY <2>1, <2>2, <2>3, <2>4, <2>5
<1>13. CASE Swap
  <2>1. DataTypeOK'
    BY <1>13 DEF Swap
  <2>2. JobTypeOK'
    BY <1>13 DEF Swap
  <2>3. TaskTypeOK'
    BY <1>13 DEF Swap
  <2>4. CleanerTypeOK'
    BY <1>13 DEF Swap
  <2>5. HistoryTypeOK'
    BY <1>13 DEF Swap
  <2> QED
    BY <2>1, <2>2, <2>3, <2>4, <2>5
<1>14. CASE Succeed
  <2>1. DataTypeOK'
    BY <1>14 DEF Succeed
  <2>2. JobTypeOK'
    BY <1>14 DEF Succeed
  <2>3. TaskTypeOK'
    BY <1>14 DEF Succeed
  <2>4. CleanerTypeOK'
    BY <1>14 DEF Succeed
  <2>5. HistoryTypeOK'
    BY <1>14 DEF Succeed
  <2> QED
    BY <2>1, <2>2, <2>3, <2>4, <2>5
<1>15. CASE Unhealthy
  BY <1>15 DEF Unhealthy
<1>16. CASE RestoreCheck
  <2>1. DataTypeOK'
    BY <1>16 DEF RestoreCheck, HasTarget, Target
  <2>2. JobTypeOK'
    BY <1>16 DEF RestoreCheck, HasTarget, Target
  <2>3. TaskTypeOK'
    BY <1>16 DEF RestoreCheck, HasTarget, Target
  <2>4. CleanerTypeOK'
    BY <1>16 DEF RestoreCheck, HasTarget, Target
  <2>5. HistoryTypeOK'
    BY <1>16 DEF RestoreCheck, HasTarget, Target
  <2> QED
    BY <2>1, <2>2, <2>3, <2>4, <2>5
<1>17. CASE MoveAside
  BY <1>17 DEF MoveAside
<1>18. CASE SafetyCopy
  BY <1>18 DEF SafetyCopy
<1>19. CASE SafetyFails
  <2>1. DataTypeOK'
    BY <1>19 DEF SafetyFails, RestoreEnds
  <2>2. JobTypeOK'
    BY <1>19 DEF SafetyFails, RestoreEnds
  <2>3. TaskTypeOK'
    BY <1>19 DEF SafetyFails, RestoreEnds
  <2>4. CleanerTypeOK'
    BY <1>19 DEF SafetyFails, RestoreEnds
  <2>5. HistoryTypeOK'
    <3>1. failures' \in Nat
      BY <1>19 DEF SafetyFails
    <3>2. UNCHANGED <<crashes, original, replaced, made, doubted, marred>>
      BY <1>19 DEF SafetyFails
    <3> QED
      BY <3>1, <3>2
  <2> QED
    BY <2>1, <2>2, <2>3, <2>4, <2>5
<1>20. CASE BeginStage
  BY <1>20 DEF BeginStage
<1>21. CASE EndStage
  <2>1. DataTypeOK'
    BY <1>21 DEF EndStage, Copied, Target
  <2>2. JobTypeOK'
    BY <1>21 DEF EndStage, Copied, Target
  <2>3. TaskTypeOK'
    BY <1>21 DEF EndStage, Copied, Target
  <2>4. CleanerTypeOK'
    BY <1>21 DEF EndStage, Copied, Target
  <2>5. HistoryTypeOK'
    BY <1>21 DEF EndStage, Copied, Target
  <2> QED
    BY <2>1, <2>2, <2>3, <2>4, <2>5
<1>22. CASE StageFails
  <2>1. DataTypeOK'
    BY <1>22 DEF StageFails, CopyBreaks, RestoreEnds
  <2>2. JobTypeOK'
    BY <1>22 DEF StageFails, CopyBreaks, RestoreEnds
  <2>3. TaskTypeOK'
    BY <1>22 DEF StageFails, CopyBreaks, RestoreEnds
  <2>4. CleanerTypeOK'
    BY <1>22 DEF StageFails, CopyBreaks, RestoreEnds
  <2>5. HistoryTypeOK'
    <3>1. failures' \in Nat
      BY <1>22 DEF StageFails, CopyBreaks
    <3>2. UNCHANGED <<crashes, original, replaced, made, doubted, marred>>
      BY <1>22 DEF StageFails, CopyBreaks
    <3> QED
      BY <3>1, <3>2
  <2> QED
    BY <2>1, <2>2, <2>3, <2>4, <2>5
<1>23. CASE Wipe
  BY <1>23 DEF Wipe
<1>24. CASE WipeFails
  <2>1. DataTypeOK'
    BY <1>24 DEF WipeFails, RestoreEnds
  <2>2. JobTypeOK'
    BY <1>24 DEF WipeFails, RestoreEnds
  <2>3. TaskTypeOK'
    BY <1>24 DEF WipeFails, RestoreEnds
  <2>4. CleanerTypeOK'
    BY <1>24 DEF WipeFails, RestoreEnds
  <2>5. HistoryTypeOK'
    <3>1. failures' \in Nat
      BY <1>24 DEF WipeFails
    <3>2. UNCHANGED <<crashes, original, replaced, made, doubted, marred>>
      BY <1>24 DEF WipeFails
    <3> QED
      BY <3>1, <3>2
  <2> QED
    BY <2>1, <2>2, <2>3, <2>4, <2>5
<1>25. CASE BeginFill
  BY <1>25 DEF BeginFill
<1>26. CASE EndFill
  <2>1. DataTypeOK'
    BY <1>26 DEF EndFill, Copied, Source, Target
  <2>2. JobTypeOK'
    BY <1>26 DEF EndFill, Copied, Source, Target
  <2>3. TaskTypeOK'
    BY <1>26 DEF EndFill, Copied, Source, Target
  <2>4. CleanerTypeOK'
    BY <1>26 DEF EndFill, Copied, Source, Target
  <2>5. HistoryTypeOK'
    BY <1>26 DEF EndFill, Copied, Source, Target
  <2> QED
    BY <2>1, <2>2, <2>3, <2>4, <2>5
<1>27. CASE NestFill
  <2>1. DataTypeOK'
    BY <1>27 DEF NestFill
  <2>2. JobTypeOK'
    BY <1>27 DEF NestFill
  <2>3. TaskTypeOK'
    BY <1>27 DEF NestFill
  <2>4. CleanerTypeOK'
    BY <1>27 DEF NestFill
  <2>5. HistoryTypeOK'
    BY <1>27 DEF NestFill
  <2> QED
    BY <2>1, <2>2, <2>3, <2>4, <2>5
<1>28. CASE FillFails
  <2>1. DataTypeOK'
    <3>1. pgdata' \in Contents
      BY <1>28 DEF FillFails, PutBack
    <3>3. safe' \subseteq safe
      BY <1>28 DEF FillFails, PutBack
    <3>2. stage' = Absent /\ UNCHANGED <<mounted, index, dir, tmp>>
      BY <1>28 DEF FillFails
    <3> QED
      BY <3>1, <3>2, <3>3
  <2>2. JobTypeOK'
    BY <1>28 DEF FillFails, CopyBreaks, RestoreEnds, PutBack
  <2>3. TaskTypeOK'
    BY <1>28 DEF FillFails, CopyBreaks, RestoreEnds, PutBack
  <2>4. CleanerTypeOK'
    BY <1>28 DEF FillFails, CopyBreaks, RestoreEnds, PutBack
  <2>5. HistoryTypeOK'
    <3>1. failures' \in Nat
      BY <1>28 DEF FillFails, CopyBreaks
    <3>2. UNCHANGED <<crashes, original, replaced, made, doubted, marred>>
      BY <1>28 DEF FillFails, CopyBreaks
    <3> QED
      BY <3>1, <3>2
  <2> QED
    BY <2>1, <2>2, <2>3, <2>4, <2>5
<1>29. CASE AdoptRead
  BY <1>29 DEF AdoptRead
<1>30. CASE AdoptWrite
  <2>1. DataTypeOK'
    BY <1>30 DEF AdoptWrite
  <2>2. JobTypeOK'
    BY <1>30 DEF AdoptWrite
  <2>3. TaskTypeOK'
    BY <1>30 DEF AdoptWrite
  <2>4. CleanerTypeOK'
    BY <1>30 DEF AdoptWrite
  <2>5. HistoryTypeOK'
    BY <1>30 DEF AdoptWrite
  <2> QED
    BY <2>1, <2>2, <2>3, <2>4, <2>5
<1>31. CASE RestoreDone
  <2>1. DataTypeOK'
    BY <1>31 DEF RestoreDone
  <2>2. JobTypeOK'
    BY <1>31 DEF RestoreDone
  <2>3. TaskTypeOK'
    BY <1>31 DEF RestoreDone
  <2>4. CleanerTypeOK'
    BY <1>31 DEF RestoreDone
  <2>5. HistoryTypeOK'
    BY <1>31 DEF RestoreDone
  <2> QED
    BY <2>1, <2>2, <2>3, <2>4, <2>5
<1>32. CASE \E c \in Cleaners : PruneRead(c)
  <2>1. DataTypeOK'
    BY <1>32 DEF PruneRead, Cleans
  <2>2. JobTypeOK'
    BY <1>32 DEF PruneRead, Cleans
  <2>3. TaskTypeOK'
    BY <1>32 DEF PruneRead, Cleans
  <2>4. CleanerTypeOK'
    BY <1>32 DEF PruneRead, Cleans
  <2>5. HistoryTypeOK'
    <3>1. doubted' \subseteq Jobs
      BY <1>32, <1>0 DEF PruneRead, Cleans
    <3>2. failures' \in Nat
      BY <1>32 DEF PruneRead, Cleans
    <3>3. UNCHANGED <<crashes, original, replaced, made, marred>>
      BY <1>32 DEF PruneRead, Cleans
    <3> QED
      BY <3>1, <3>2, <3>3
  <2> QED
    BY <2>1, <2>2, <2>3, <2>4, <2>5
<1>33. CASE \E c \in Cleaners : Protect(c)
  <2>1. DataTypeOK'
    BY <1>33 DEF Protect, Cleans
  <2>2. JobTypeOK'
    BY <1>33 DEF Protect, Cleans
  <2>3. TaskTypeOK'
    BY <1>33 DEF Protect, Cleans
  <2>4. CleanerTypeOK'
    <3>1. PICK c \in Cleaners : Protect(c)
      BY <1>33
    <3>2. Excess(Eligible(seen[c])) \subseteq Jobs
      BY DEF Excess, Eligible
    <3> QED
      BY <3>1, <3>2 DEF Protect, Cleans
  <2>5. HistoryTypeOK'
    <3>1. doubted' \subseteq Jobs
      BY <1>33, <1>0 DEF Protect, Cleans
    <3>2. failures' \in Nat
      BY <1>33 DEF Protect, Cleans
    <3>3. UNCHANGED <<crashes, original, replaced, made, marred>>
      BY <1>33 DEF Protect, Cleans
    <3> QED
      BY <3>1, <3>2, <3>3
  <2> QED
    BY <2>1, <2>2, <2>3, <2>4, <2>5
<1>34. CASE \E c \in Cleaners : DropEntries(c)
  <2>1. DataTypeOK'
    <3>1. index' \subseteq 1 .. 2 * MaxJobs
      BY <1>34 DEF DropEntries, Cleans
    <3>2. UNCHANGED <<mounted, dir, tmp, stage, safe, pgdata>>
      BY <1>34 DEF DropEntries, Cleans
    <3> QED
      BY <3>1, <3>2
  <2>2. JobTypeOK'
    BY <1>34 DEF DropEntries, Cleans
  <2>3. TaskTypeOK'
    BY <1>34 DEF DropEntries, Cleans
  <2>4. CleanerTypeOK'
    BY <1>34 DEF DropEntries, Cleans
  <2>5. HistoryTypeOK'
    <3>1. doubted' \subseteq Jobs
      BY <1>34, <1>0 DEF DropEntries, Cleans
    <3>2. failures' \in Nat
      BY <1>34 DEF DropEntries, Cleans
    <3>3. UNCHANGED <<crashes, original, replaced, made, marred>>
      BY <1>34 DEF DropEntries, Cleans
    <3> QED
      BY <3>1, <3>2, <3>3
  <2> QED
    BY <2>1, <2>2, <2>3, <2>4, <2>5
<1>35. CASE \E c \in Cleaners : SweepRead(c)
  <2>1. DataTypeOK'
    BY <1>35 DEF SweepRead, Cleans
  <2>2. JobTypeOK'
    BY <1>35 DEF SweepRead, Cleans
  <2>3. TaskTypeOK'
    BY <1>35 DEF SweepRead, Cleans
  <2>4. CleanerTypeOK'
    BY <1>35 DEF SweepRead, Cleans
  <2>5. HistoryTypeOK'
    <3>1. doubted' \subseteq Jobs
      BY <1>35, <1>0 DEF SweepRead, Cleans
    <3>2. failures' \in Nat
      BY <1>35 DEF SweepRead, Cleans
    <3>3. UNCHANGED <<crashes, original, replaced, made, marred>>
      BY <1>35 DEF SweepRead, Cleans
    <3> QED
      BY <3>1, <3>2, <3>3
  <2> QED
    BY <2>1, <2>2, <2>3, <2>4, <2>5
<1>36. CASE \E c \in Cleaners : Sweep(c)
  <2>1. DataTypeOK'
    BY <1>36 DEF Sweep
  <2>2. JobTypeOK'
    BY <1>36 DEF Sweep
  <2>3. TaskTypeOK'
    BY <1>36 DEF Sweep
  <2>4. CleanerTypeOK'
    BY <1>36 DEF Sweep
  <2>5. HistoryTypeOK'
    <3>1. marred' \subseteq Jobs
      BY <1>36, <1>0 DEF Sweep
    <3>2. UNCHANGED <<failures, crashes, original, replaced, made, doubted>>
      BY <1>36 DEF Sweep
    <3> QED
      BY <3>1, <3>2
  <2> QED
    BY <2>1, <2>2, <2>3, <2>4, <2>5
<1>37. CASE \E c \in Cleaners, id \in Jobs : DeleteRead(c, id)
  <2>1. DataTypeOK'
    BY <1>37 DEF DeleteRead, Cleans
  <2>2. JobTypeOK'
    BY <1>37 DEF DeleteRead, Cleans
  <2>3. TaskTypeOK'
    BY <1>37 DEF DeleteRead, Cleans
  <2>4. CleanerTypeOK'
    BY <1>37 DEF DeleteRead, Cleans
  <2>5. HistoryTypeOK'
    <3>1. doubted' \subseteq Jobs
      BY <1>37, <1>0 DEF DeleteRead, Cleans
    <3>2. failures' \in Nat
      BY <1>37 DEF DeleteRead, Cleans
    <3>3. UNCHANGED <<crashes, original, replaced, made, marred>>
      BY <1>37 DEF DeleteRead, Cleans
    <3> QED
      BY <3>1, <3>2, <3>3
  <2> QED
    BY <2>1, <2>2, <2>3, <2>4, <2>5
<1>38. CASE \E c \in Cleaners, id \in Jobs : RemoveDir(c, id)
  <2>1. DataTypeOK'
    BY <1>38 DEF RemoveDir, Cleans
  <2>2. JobTypeOK'
    BY <1>38 DEF RemoveDir, Cleans
  <2>3. TaskTypeOK'
    BY <1>38 DEF RemoveDir, Cleans
  <2>4. CleanerTypeOK'
    BY <1>38 DEF RemoveDir, Cleans
  <2>5. HistoryTypeOK'
    <3>1. doubted' \subseteq Jobs
      BY <1>38, <1>0 DEF RemoveDir, Cleans
    <3>2. failures' \in Nat
      BY <1>38 DEF RemoveDir, Cleans
    <3>3. UNCHANGED <<crashes, original, replaced, made, marred>>
      BY <1>38 DEF RemoveDir, Cleans
    <3> QED
      BY <3>1, <3>2, <3>3
  <2> QED
    BY <2>1, <2>2, <2>3, <2>4, <2>5
<1>39. CASE \E c \in Cleaners, id \in Jobs : RemoveFails(c, id)
  <2>1. DataTypeOK'
    <3>1. dir' = dir \/ \E id \in Jobs : dir' = [dir EXCEPT ![id] = Holed]
      BY <1>39 DEF RemoveFails, Cleans
    <3>2. dir' \in [Jobs -> Contents]
      <4>1. dir \in [Jobs -> Contents] /\ Holed \in Contents
        OBVIOUS
      <4> HIDE DEF Jobs, Contents, Holed
      <4> QED
        BY <3>1, <4>1
    <3>3. UNCHANGED <<mounted, index, tmp, stage, safe, pgdata>>
      BY <1>39 DEF RemoveFails, Cleans
    <3> QED
      BY <3>2, <3>3
  <2>2. JobTypeOK'
    BY <1>39 DEF RemoveFails, Cleans
  <2>3. TaskTypeOK'
    BY <1>39 DEF RemoveFails, Cleans
  <2>4. CleanerTypeOK'
    BY <1>39 DEF RemoveFails, Cleans
  <2>5. HistoryTypeOK'
    <3>1. doubted' \subseteq Jobs
      BY <1>39, <1>0 DEF RemoveFails, Cleans
    <3>2. failures' \in Nat
      BY <1>39 DEF RemoveFails, Cleans
    <3>3. UNCHANGED <<crashes, original, replaced, made, marred>>
      BY <1>39 DEF RemoveFails, Cleans
    <3> QED
      BY <3>1, <3>2, <3>3
  <2> QED
    BY <2>1, <2>2, <2>3, <2>4, <2>5
<1>40. CASE Crash
  <2>1. DataTypeOK'
    BY <1>40 DEF Crash, BeingRemoved
  <2>2. JobTypeOK'
    BY <1>40 DEF Crash, BeingRemoved
  <2>3. TaskTypeOK'
    BY <1>40 DEF Crash, BeingRemoved
  <2>4. CleanerTypeOK'
    BY <1>40 DEF Crash, BeingRemoved
  <2>5. HistoryTypeOK'
    <3>1. crashes' \in Nat
      BY <1>40 DEF Crash
    <3>2. UNCHANGED <<failures, original, replaced, made, doubted, marred>>
      BY <1>40 DEF Crash
    <3> QED
      BY <3>1, <3>2
  <2> QED
    BY <2>1, <2>2, <2>3, <2>4, <2>5
<1>41. CASE UNCHANGED vars
  BY <1>41 DEF vars
<1> QED
  BY <1>1, <1>2, <1>3, <1>4, <1>5, <1>6, <1>7, <1>8, <1>9, <1>10, <1>11, <1>12, <1>13,
      <1>14, <1>15, <1>16, <1>17, <1>18, <1>19, <1>20, <1>21, <1>22, <1>23, <1>24,
      <1>25, <1>26, <1>27, <1>28, <1>29, <1>30, <1>31, <1>32, <1>33, <1>34, <1>35,
      <1>36, <1>37, <1>38, <1>39, <1>40, <1>41 DEF Next, Requests, CopySteps,
      RestoreSteps, CleanerSteps

\* Every step keeps the job in flight the task's own.
LEMMA OwnerPreserved ==
  ASSUME TypeOK, Owned, Next \/ UNCHANGED vars
  PROVE  Owned'
<1> USE DEF Task, Steps, Fails, dataVars, jobVars, taskVars, cleanerVars, boundVars, historyVars, TypeOK, DataTypeOK, JobTypeOK, TaskTypeOK, CleanerTypeOK, HistoryTypeOK, Owned, Jobs, Points, UpdatePoints, RestorePoints
<1>1. CASE RequestUpdate
  BY <1>1 DEF RequestUpdate
<1>2. CASE ForgetJob
  BY <1>2 DEF ForgetJob
<1>3. CASE \E id \in Jobs : RequestRollback(id)
  BY <1>3 DEF RequestRollback
<1>4. CASE BeginCopy
  BY <1>4 DEF BeginCopy
<1>5. CASE EndCopy
  BY <1>5 DEF EndCopy, Copied
<1>6. CASE NestCopy
  BY <1>6 DEF NestCopy
<1>7. CASE CopyFails
  BY <1>7 DEF CopyFails, GiveUp
<1>8. CASE Rename
  BY <1>8 DEF Rename, GiveUp
<1>9. CASE RecordRead
  BY <1>9 DEF RecordRead
<1>10. CASE RecordWrite
  BY <1>10 DEF RecordWrite
<1>11. CASE Note
  BY <1>11 DEF Note
<1>12. CASE FailBeforeSwap
  BY <1>12 DEF FailBeforeSwap, GiveUp
<1>13. CASE Swap
  BY <1>13 DEF Swap
<1>14. CASE Succeed
  BY <1>14 DEF Succeed
<1>15. CASE Unhealthy
  BY <1>15 DEF Unhealthy
<1>16. CASE RestoreCheck
  BY <1>16 DEF RestoreCheck, HasTarget, Target
<1>17. CASE MoveAside
  BY <1>17 DEF MoveAside
<1>18. CASE SafetyCopy
  BY <1>18 DEF SafetyCopy
<1>19. CASE SafetyFails
  BY <1>19 DEF SafetyFails, RestoreEnds
<1>20. CASE BeginStage
  BY <1>20 DEF BeginStage
<1>21. CASE EndStage
  BY <1>21 DEF EndStage, Copied, Target
<1>22. CASE StageFails
  BY <1>22 DEF StageFails, CopyBreaks, RestoreEnds
<1>23. CASE Wipe
  BY <1>23 DEF Wipe
<1>24. CASE WipeFails
  BY <1>24 DEF WipeFails, RestoreEnds
<1>25. CASE BeginFill
  BY <1>25 DEF BeginFill
<1>26. CASE EndFill
  BY <1>26 DEF EndFill, Copied, Source, Target
<1>27. CASE NestFill
  BY <1>27 DEF NestFill
<1>28. CASE FillFails
  BY <1>28 DEF FillFails, CopyBreaks, RestoreEnds, PutBack
<1>29. CASE AdoptRead
  BY <1>29 DEF AdoptRead
<1>30. CASE AdoptWrite
  BY <1>30 DEF AdoptWrite
<1>31. CASE RestoreDone
  BY <1>31 DEF RestoreDone
<1>32. CASE \E c \in Cleaners : PruneRead(c)
  BY <1>32 DEF PruneRead, Cleans
<1>33. CASE \E c \in Cleaners : Protect(c)
  BY <1>33 DEF Protect, Cleans
<1>34. CASE \E c \in Cleaners : DropEntries(c)
  BY <1>34 DEF DropEntries, Cleans
<1>35. CASE \E c \in Cleaners : SweepRead(c)
  BY <1>35 DEF SweepRead, Cleans
<1>36. CASE \E c \in Cleaners : Sweep(c)
  BY <1>36 DEF Sweep
<1>37. CASE \E c \in Cleaners, id \in Jobs : DeleteRead(c, id)
  BY <1>37 DEF DeleteRead, Cleans
<1>38. CASE \E c \in Cleaners, id \in Jobs : RemoveDir(c, id)
  BY <1>38 DEF RemoveDir, Cleans
<1>39. CASE \E c \in Cleaners, id \in Jobs : RemoveFails(c, id)
  BY <1>39 DEF RemoveFails, Cleans
<1>40. CASE Crash
  BY <1>40 DEF Crash, BeingRemoved
<1>41. CASE UNCHANGED vars
  BY <1>41 DEF vars
<1> QED
  BY <1>1, <1>2, <1>3, <1>4, <1>5, <1>6, <1>7, <1>8, <1>9, <1>10, <1>11, <1>12, <1>13,
      <1>14, <1>15, <1>16, <1>17, <1>18, <1>19, <1>20, <1>21, <1>22, <1>23, <1>24,
      <1>25, <1>26, <1>27, <1>28, <1>29, <1>30, <1>31, <1>32, <1>33, <1>34, <1>35,
      <1>36, <1>37, <1>38, <1>39, <1>40, <1>41 DEF Next, Requests, CopySteps,
      RestoreSteps, CleanerSteps

\* Every step keeps what was set out to be replaced.
LEMMA KeptPreserved ==
  ASSUME TypeOK, Owned, Kept, Next \/ UNCHANGED vars
  PROVE  Kept'
<1> USE DEF Task, Steps, Fails, dataVars, jobVars, taskVars, cleanerVars, boundVars, historyVars, TypeOK, Owned, Kept, LiveKept, PastSafety, Jobs, Points, UpdatePoints, RestorePoints, Whole, Absent, Holed, Installed, Contents
<1>1. CASE RequestUpdate
  BY <1>1 DEF RequestUpdate
<1>2. CASE ForgetJob
  BY <1>2 DEF ForgetJob
<1>3. CASE \E id \in Jobs : RequestRollback(id)
  BY <1>3 DEF RequestRollback
<1>4. CASE BeginCopy
  BY <1>4 DEF BeginCopy
<1>5. CASE EndCopy
  BY <1>5 DEF EndCopy, Copied
<1>6. CASE NestCopy
  BY <1>6 DEF NestCopy
<1>7. CASE CopyFails
  BY <1>7 DEF CopyFails, GiveUp
<1>8. CASE Rename
  BY <1>8 DEF Rename, GiveUp
<1>9. CASE RecordRead
  BY <1>9 DEF RecordRead
<1>10. CASE RecordWrite
  BY <1>10 DEF RecordWrite
<1>11. CASE Note
  BY <1>11 DEF Note
<1>12. CASE FailBeforeSwap
  BY <1>12 DEF FailBeforeSwap, GiveUp
<1>13. CASE Swap
  BY <1>13 DEF Swap
<1>14. CASE Succeed
  BY <1>14 DEF Succeed
<1>15. CASE Unhealthy
  BY <1>15 DEF Unhealthy
<1>16. CASE RestoreCheck
  BY <1>16 DEF RestoreCheck, HasTarget, Target
<1>17. CASE MoveAside
  BY <1>17 DEF MoveAside
<1>18. CASE SafetyCopy
  BY <1>18 DEF SafetyCopy
<1>19. CASE SafetyFails
  BY <1>19 DEF SafetyFails, RestoreEnds
<1>20. CASE BeginStage
  BY <1>20 DEF BeginStage
<1>21. CASE EndStage
  BY <1>21 DEF EndStage, Copied, Target
<1>22. CASE StageFails
  BY <1>22 DEF StageFails, CopyBreaks, RestoreEnds
<1>23. CASE Wipe
  BY <1>23 DEF Wipe
<1>24. CASE WipeFails
  BY <1>24 DEF WipeFails, RestoreEnds
<1>25. CASE BeginFill
  BY <1>25 DEF BeginFill
<1>26. CASE EndFill
  BY <1>26 DEF EndFill, Copied, Source, Target
<1>27. CASE NestFill
  BY <1>27 DEF NestFill
<1>28. CASE FillFails
  BY <1>28 DEF FillFails, CopyBreaks, RestoreEnds, PutBack
<1>29. CASE AdoptRead
  BY <1>29 DEF AdoptRead
<1>30. CASE AdoptWrite
  BY <1>30 DEF AdoptWrite
<1>31. CASE RestoreDone
  BY <1>31 DEF RestoreDone
<1>32. CASE \E c \in Cleaners : PruneRead(c)
  BY <1>32 DEF PruneRead, Cleans
<1>33. CASE \E c \in Cleaners : Protect(c)
  BY <1>33 DEF Protect, Cleans
<1>34. CASE \E c \in Cleaners : DropEntries(c)
  BY <1>34 DEF DropEntries, Cleans
<1>35. CASE \E c \in Cleaners : SweepRead(c)
  BY <1>35 DEF SweepRead, Cleans
<1>36. CASE \E c \in Cleaners : Sweep(c)
  BY <1>36 DEF Sweep
<1>37. CASE \E c \in Cleaners, id \in Jobs : DeleteRead(c, id)
  BY <1>37 DEF DeleteRead, Cleans
<1>38. CASE \E c \in Cleaners, id \in Jobs : RemoveDir(c, id)
  BY <1>38 DEF RemoveDir, Cleans
<1>39. CASE \E c \in Cleaners, id \in Jobs : RemoveFails(c, id)
  BY <1>39 DEF RemoveFails, Cleans
<1>40. CASE Crash
  BY <1>40 DEF Crash, BeingRemoved
<1>41. CASE UNCHANGED vars
  BY <1>41 DEF vars
<1> QED
  BY <1>1, <1>2, <1>3, <1>4, <1>5, <1>6, <1>7, <1>8, <1>9, <1>10, <1>11, <1>12, <1>13,
      <1>14, <1>15, <1>16, <1>17, <1>18, <1>19, <1>20, <1>21, <1>22, <1>23, <1>24,
      <1>25, <1>26, <1>27, <1>28, <1>29, <1>30, <1>31, <1>32, <1>33, <1>34, <1>35,
      <1>36, <1>37, <1>38, <1>39, <1>40, <1>41 DEF Next, Requests, CopySteps,
      RestoreSteps, CleanerSteps

-----------------------------------------------------------------------------
(***************************************************************************)
(* Retention.  Most of what a task does touches no reading of the index    *)
(* and no recorded backup.                                                 *)
(***************************************************************************)
Touching == BeginCopy \/ NestCopy \/ Rename \/ RecordRead \/ RecordWrite \/ AdoptRead \/ AdoptWrite

Untouched ==
  /\ UNCHANGED <<index, dir, made, doubted>> /\ mine' \in {mine, {}}
  /\ pc' \notin {"copying", "recordWrite", "adoptWrite"}
  /\ pc' \in Making => pc \in Making /\ current' = current

LEMMA OtherSteps ==
  ASSUME Requests \/ CopySteps \/ RestoreSteps
  PROVE  UNCHANGED cleanerVars /\ (Touching \/ Untouched)
<1> USE DEF Task, Steps, dataVars, jobVars, taskVars, historyVars, Making, Untouched
<1>1. CASE RequestUpdate \/ ForgetJob \/ \E id \in Jobs : RequestRollback(id)
  BY <1>1 DEF RequestUpdate, ForgetJob, RequestRollback
<1>2. CASE Touching
  BY <1>2 DEF Touching, BeginCopy, NestCopy, Rename, RecordRead, RecordWrite, AdoptRead, AdoptWrite
<1>3. CASE EndCopy \/ CopyFails \/ Note \/ FailBeforeSwap
  BY <1>3 DEF EndCopy, CopyFails, Note, FailBeforeSwap, GiveUp
<1>4. CASE Swap \/ Succeed \/ Unhealthy
  BY <1>4 DEF Swap, Succeed, Unhealthy
<1>5. CASE RestoreCheck
  BY <1>5 DEF RestoreCheck
<1>6. CASE MoveAside \/ SafetyCopy \/ SafetyFails \/ BeginStage \/ EndStage \/ StageFails
  BY <1>6 DEF MoveAside, SafetyCopy, SafetyFails, BeginStage, EndStage, StageFails, RestoreEnds
<1>7. CASE Wipe \/ WipeFails \/ BeginFill \/ EndFill \/ NestFill \/ FillFails \/ RestoreDone
  BY <1>7 DEF Wipe, WipeFails, BeginFill, EndFill, NestFill, FillFails, RestoreDone, RestoreEnds
<1> QED
  BY <1>1, <1>2, <1>3, <1>4, <1>5, <1>6, <1>7 DEF Requests, CopySteps, RestoreSteps, Touching

\* Every step uses each id once.
LEMMA RecordedPreserved ==
  ASSUME TypeOK, Owned, Recorded, Next \/ UNCHANGED vars
  PROVE  Recorded'
<1> USE DEF Task, Steps, Fails, dataVars, jobVars, taskVars, cleanerVars, boundVars, historyVars, TypeOK, DataTypeOK, JobTypeOK, TaskTypeOK, CleanerTypeOK, HistoryTypeOK, Owned, Recorded, Unmade, Jobs, Points, UpdatePoints, RestorePoints
<1>1. CASE RequestUpdate
  BY <1>1 DEF RequestUpdate
<1>2. CASE ForgetJob
  BY <1>2 DEF ForgetJob
<1>3. CASE \E id \in Jobs : RequestRollback(id)
  BY <1>3 DEF RequestRollback
<1>4. CASE BeginCopy
  BY <1>4 DEF BeginCopy
<1>5. CASE EndCopy
  BY <1>5 DEF EndCopy, Copied
<1>6. CASE NestCopy
  BY <1>6 DEF NestCopy
<1>7. CASE CopyFails
  BY <1>7 DEF CopyFails, GiveUp
<1>8. CASE Rename
  BY <1>8 DEF Rename, GiveUp
<1>9. CASE RecordRead
  BY <1>9 DEF RecordRead
<1>10. CASE RecordWrite
  BY <1>10 DEF RecordWrite
<1>11. CASE Note
  BY <1>11 DEF Note
<1>12. CASE FailBeforeSwap
  BY <1>12 DEF FailBeforeSwap, GiveUp
<1>13. CASE Swap
  BY <1>13 DEF Swap
<1>14. CASE Succeed
  BY <1>14 DEF Succeed
<1>15. CASE Unhealthy
  BY <1>15 DEF Unhealthy
<1>16. CASE RestoreCheck
  BY <1>16 DEF RestoreCheck, HasTarget, Target
<1>17. CASE MoveAside
  BY <1>17 DEF MoveAside
<1>18. CASE SafetyCopy
  BY <1>18 DEF SafetyCopy
<1>19. CASE SafetyFails
  BY <1>19 DEF SafetyFails, RestoreEnds
<1>20. CASE BeginStage
  BY <1>20 DEF BeginStage
<1>21. CASE EndStage
  BY <1>21 DEF EndStage, Copied, Target
<1>22. CASE StageFails
  BY <1>22 DEF StageFails, CopyBreaks, RestoreEnds
<1>23. CASE Wipe
  BY <1>23 DEF Wipe
<1>24. CASE WipeFails
  BY <1>24 DEF WipeFails, RestoreEnds
<1>25. CASE BeginFill
  BY <1>25 DEF BeginFill
<1>26. CASE EndFill
  BY <1>26 DEF EndFill, Copied, Source, Target
<1>27. CASE NestFill
  BY <1>27 DEF NestFill
<1>28. CASE FillFails
  BY <1>28 DEF FillFails, CopyBreaks, RestoreEnds, PutBack
<1>29. CASE AdoptRead
  BY <1>29 DEF AdoptRead
<1>30. CASE AdoptWrite
  BY <1>30 DEF AdoptWrite
<1>31. CASE RestoreDone
  BY <1>31 DEF RestoreDone
<1>32. CASE \E c \in Cleaners : PruneRead(c)
  BY <1>32 DEF PruneRead, Cleans
<1>33. CASE \E c \in Cleaners : Protect(c)
  BY <1>33 DEF Protect, Cleans
<1>34. CASE \E c \in Cleaners : DropEntries(c)
  BY <1>34 DEF DropEntries, Cleans
<1>35. CASE \E c \in Cleaners : SweepRead(c)
  BY <1>35 DEF SweepRead, Cleans
<1>36. CASE \E c \in Cleaners : Sweep(c)
  BY <1>36 DEF Sweep
<1>37. CASE \E c \in Cleaners, id \in Jobs : DeleteRead(c, id)
  BY <1>37 DEF DeleteRead, Cleans
<1>38. CASE \E c \in Cleaners, id \in Jobs : RemoveDir(c, id)
  BY <1>38 DEF RemoveDir, Cleans
<1>39. CASE \E c \in Cleaners, id \in Jobs : RemoveFails(c, id)
  BY <1>39 DEF RemoveFails, Cleans
<1>40. CASE Crash
  BY <1>40 DEF Crash, BeingRemoved
<1>41. CASE UNCHANGED vars
  BY <1>41 DEF vars
<1> QED
  BY <1>1, <1>2, <1>3, <1>4, <1>5, <1>6, <1>7, <1>8, <1>9, <1>10, <1>11, <1>12, <1>13,
      <1>14, <1>15, <1>16, <1>17, <1>18, <1>19, <1>20, <1>21, <1>22, <1>23, <1>24,
      <1>25, <1>26, <1>27, <1>28, <1>29, <1>30, <1>31, <1>32, <1>33, <1>34, <1>35,
      <1>36, <1>37, <1>38, <1>39, <1>40, <1>41 DEF Next, Requests, CopySteps,
      RestoreSteps, CleanerSteps

LEMMA OnlyMadePreserved ==
  ASSUME TypeOK, Owned, OnlyMade, [Next]_vars
  PROVE  OnlyMade'
<1> USE DEF OnlyMade
<1>1. CASE Requests \/ CopySteps \/ RestoreSteps
  <2>1. UNCHANGED seen
    BY <1>1, OtherSteps DEF cleanerVars
  <2>2. CASE Untouched
    BY <2>1, <2>2 DEF Untouched
  <2>3. CASE BeginCopy \/ NestCopy \/ Rename \/ RecordRead \/ AdoptRead
    BY <2>1, <2>3 DEF BeginCopy, NestCopy, Rename, RecordRead, AdoptRead, dataVars, historyVars
  <2>4. CASE RecordWrite
    BY <2>1, <2>4 DEF RecordWrite
  <2>5. CASE AdoptWrite
    <3>1. Aside(current) \notin Jobs
      BY <2>5, SnapshotBounds DEF AdoptWrite, Steps, Owned, Aside, Jobs
    <3> QED
      BY <2>1, <2>5, <3>1 DEF AdoptWrite, historyVars
  <2> QED
    BY <1>1, <2>2, <2>3, <2>4, <2>5, OtherSteps DEF Touching
<1>2. ASSUME NEW c \in Cleaners, CleanerSteps(c) PROVE OnlyMade'
  <2>1. UNCHANGED <<mine, made>>
    BY <1>2 DEF CleanerSteps, PruneRead, Protect, DropEntries, SweepRead, Sweep, DeleteRead,
        RemoveDir, RemoveFails, Cleans, taskVars
  <2>2. /\ index' = index \/ index' = seen[c] \ drop[c]
        /\ seen' = seen \/ seen' = [seen EXCEPT ![c] = index] \/ seen' = [seen EXCEPT ![c] = {}]
    BY <1>2 DEF CleanerSteps, PruneRead, Protect, DropEntries, SweepRead, Sweep, DeleteRead,
        RemoveDir, RemoveFails
  <2> QED
    BY <2>1, <2>2 DEF TypeOK, CleanerTypeOK
<1>3. CASE Crash
  BY <1>3 DEF Crash, historyVars
<1>4. CASE UNCHANGED vars
  BY <1>4 DEF vars, dataVars, taskVars, cleanerVars, historyVars
<1> QED
  BY <1>1, <1>2, <1>3, <1>4 DEF Next

LEMMA MadeAlonePreserved ==
  ASSUME TypeOK, MadeAlone, [Next]_vars
  PROVE  MadeAlone'
<1> USE DEF MadeAlone
<1>1. CASE Requests \/ CopySteps \/ RestoreSteps
  <2>1. UNCHANGED cpc
    BY <1>1, OtherSteps DEF cleanerVars
  <2>2. CASE Untouched
    BY <2>1, <2>2 DEF Untouched
  <2>3. CASE BeginCopy
    BY <2>1, <2>3 DEF BeginCopy, jobVars
  <2>4. CASE NestCopy \/ RecordRead \/ RecordWrite
    BY <2>1, <2>4 DEF NestCopy, RecordRead, RecordWrite, Steps, Making, jobVars, historyVars
  <2>5. CASE Rename
    BY <2>1, <2>5 DEF Rename, GiveUp, Making, historyVars
  <2>6. CASE AdoptRead \/ AdoptWrite
    BY <2>6 DEF AdoptRead, AdoptWrite, Steps, Making
  <2> QED
    BY <1>1, <2>2, <2>3, <2>4, <2>5, <2>6, OtherSteps DEF Touching
<1>2. ASSUME NEW c \in Cleaners, CleanerSteps(c) PROVE MadeAlone'
  <2>1. UNCHANGED <<pc, current>>
    BY <1>2 DEF CleanerSteps, PruneRead, Protect, DropEntries, SweepRead, Sweep, DeleteRead,
        RemoveDir, RemoveFails, Cleans, taskVars, jobVars
  <2>2. CASE Sweep(c)
    BY <2>1, <2>2 DEF Sweep, TypeOK, CleanerTypeOK
  <2>3. CASE ~Sweep(c)
    <3>1. pc \in Making => current \in doubted'
      BY <1>2, <2>3 DEF CleanerSteps, PruneRead, Protect, DropEntries, SweepRead, DeleteRead,
          RemoveDir, RemoveFails, Cleans
    <3> QED
      BY <2>1, <3>1
  <2> QED
    BY <2>2, <2>3
<1>3. CASE Crash
  BY <1>3 DEF Crash
<1>4. CASE UNCHANGED vars
  BY <1>4 DEF vars, jobVars, taskVars, cleanerVars, historyVars
<1> QED
  BY <1>1, <1>2, <1>3, <1>4 DEF Next

LEMMA ListedPreserved ==
  ASSUME TypeOK, Owned, Recorded, MadeAlone, Listed, [Next]_vars
  PROVE  Listed'
<1> USE DEF TypeOK, DataTypeOK, CleanerTypeOK, HistoryTypeOK
<1>1. CASE Requests \/ CopySteps \/ RestoreSteps
  <2>1. UNCHANGED <<cpc, seen, drop>>
    BY <1>1, OtherSteps DEF cleanerVars
  <2>2. CASE Untouched
    BY <2>1, <2>2 DEF Untouched, Listed
  <2>3. CASE BeginCopy \/ NestCopy \/ RecordRead \/ AdoptRead
    BY <2>1, <2>3 DEF BeginCopy, NestCopy, RecordRead, AdoptRead, Steps, Listed, dataVars, historyVars
  <2>4. CASE Rename
    <3>1. current \notin made
      BY <2>4 DEF Rename, Recorded, Unmade
    <3>2. /\ \A id \in made : dir'[id] = dir[id]
          /\ UNCHANGED <<index, made, doubted>> /\ pc' \notin {"recordWrite", "adoptWrite"}
      BY <2>4, <3>1 DEF Rename, GiveUp, historyVars
    <3> QED
      BY <2>1, <3>2 DEF Listed
  <2>5. CASE RecordWrite
    <3>1. /\ index' = mine \cup {current} /\ made' = made \cup {current}
          /\ UNCHANGED <<dir, doubted>> /\ pc = "recordWrite" /\ pc' = "note"
      BY <2>5 DEF RecordWrite, Steps
    <3>2. current \notin doubted => \A c \in Cleaners : cpc[c] = "idle"
      BY <3>1 DEF MadeAlone, Making
    <3> QED
      BY <2>1, <3>1, <3>2 DEF Listed
  <2>6. CASE AdoptWrite
    BY <2>1, <2>6 DEF AdoptWrite, Steps, Listed, historyVars
  <2> QED
    BY <1>1, <2>2, <2>3, <2>4, <2>5, <2>6, OtherSteps DEF Touching
<1>2. ASSUME NEW c \in Cleaners, CleanerSteps(c) PROVE Listed'
  <2>1. UNCHANGED <<pc, mine, made>> /\ doubted \subseteq doubted'
    BY <1>2 DEF CleanerSteps, PruneRead, Protect, DropEntries, SweepRead, Sweep, DeleteRead,
        RemoveDir, RemoveFails, Cleans, taskVars
  <2>2. \A other \in Cleaners \ {c} :
          cpc'[other] = cpc[other] /\ seen'[other] = seen[other] /\ drop'[other] = drop[other]
    BY <1>2 DEF CleanerSteps, PruneRead, Protect, DropEntries, SweepRead, Sweep, DeleteRead,
        RemoveDir, RemoveFails, Cleans
  <2>3. \A id \in Jobs : dir'[id] # Absent => dir[id] # Absent
    BY <1>2 DEF CleanerSteps, PruneRead, Protect, DropEntries, SweepRead, Sweep, DeleteRead,
        RemoveDir, RemoveFails, Cleans
  <2> SUFFICES ASSUME NEW id \in made' \ doubted', dir'[id] # Absent
               PROVE  /\ id \in index'
                      /\ cpc'[c] \in {"protect", "remove", "delete", "sweep"} => id \in seen'[c]
                      /\ cpc'[c] = "orphan" => id \notin drop'[c]
    BY <2>1, <2>2, <2>3 DEF Listed
  <2>4. /\ id \in index /\ dir[id] # Absent
        /\ cpc[c] \in {"protect", "remove", "delete", "sweep"} => id \in seen[c]
        /\ cpc[c] = "orphan" => id \notin drop[c]
    BY <2>1, <2>3 DEF Listed
  <2>5. CASE PruneRead(c) \/ Protect(c) \/ SweepRead(c) \/ Sweep(c)
    BY <2>4, <2>5 DEF PruneRead, Protect, SweepRead, Sweep, Cleans
  <2>6. CASE DropEntries(c)
    <3>1. id \notin drop[c]
      BY <2>4, <2>6 DEF DropEntries
    <3> QED
      BY <2>4, <2>6, <3>1 DEF DropEntries, Cleans, Removing
  <2>7. CASE \E other \in Jobs : DeleteRead(c, other)
    BY <2>4, <2>7 DEF DeleteRead, Cleans
  <2>8. CASE \E other \in Jobs : RemoveDir(c, other) \/ RemoveFails(c, other)
    BY <2>4, <2>8 DEF RemoveDir, RemoveFails, Cleans
  <2> QED
    BY <1>2, <2>5, <2>6, <2>7, <2>8 DEF CleanerSteps
<1>3. CASE Crash
  <2>1. /\ UNCHANGED <<index, made, doubted>> /\ \A c \in Cleaners : cpc'[c] = "idle"
        /\ pc' \notin {"recordWrite", "adoptWrite"}
    BY <1>3 DEF Crash, historyVars, UpdatePoints, RestorePoints
  <2>2. \A id \in Jobs : dir'[id] # Absent => dir[id] # Absent
    BY <1>3 DEF Crash, BeingRemoved
  <2> QED
    BY <2>1, <2>2 DEF Listed
<1>4. CASE UNCHANGED vars
  BY <1>4 DEF vars, dataVars, taskVars, cleanerVars, historyVars, Listed
<1> QED
  BY <1>1, <1>2, <1>3, <1>4 DEF Next

\* Updates that come later only ever add to those that replace a backup.
LEMMA LaterGrows ==
  ASSUME TypeOK, TypeOK', made \subseteq made', NEW id \in Jobs, Cardinality(Later(id)) >= KeepN
  PROVE  Cardinality(Later(id)') >= KeepN
<1>1. IsFiniteSet(Jobs)
  BY SnapshotBounds, FS_Interval DEF Jobs
<1>2. Later(id)' \subseteq Jobs /\ Later(id) \subseteq Later(id)'
  BY DEF Later, TypeOK, HistoryTypeOK
<1>3. IsFiniteSet(Later(id)') /\ IsFiniteSet(Later(id))
  BY <1>1, <1>2, FS_Subset
<1>4. /\ Cardinality(Later(id)) \in Nat /\ Cardinality(Later(id)') \in Nat
      /\ Cardinality(Later(id)) <= Cardinality(Later(id)')
  BY <1>2, <1>3, FS_Subset, FS_CardinalityType
<1> QED
  BY <1>4, SnapshotBounds

\* What a prune chooses has enough later updates with a backup.
LEMMA ExcessReplaced ==
  ASSUME TypeOK, OnlyMade, NEW c \in Cleaners, NEW id \in Excess(Eligible(seen[c]))
  PROVE  Cardinality(Later(id)) >= KeepN
<1> DEFINE newer == {i \in Eligible(seen[c]) : i > id}
<1>1. IsFiniteSet(Jobs)
  BY SnapshotBounds, FS_Interval DEF Jobs
<1>2. newer \subseteq Later(id) /\ Later(id) \subseteq Jobs
  BY DEF Eligible, OnlyMade, Later, TypeOK, HistoryTypeOK
<1>3. IsFiniteSet(Later(id))
  BY <1>1, <1>2, FS_Subset
<1>4. IsFiniteSet(newer) /\ Cardinality(newer) <= Cardinality(Later(id))
  BY <1>2, <1>3, FS_Subset
<1>5. Cardinality(newer) >= KeepN
  BY DEF Excess
<1>6. Cardinality(newer) \in Nat /\ Cardinality(Later(id)) \in Nat
  BY <1>3, <1>4, FS_CardinalityType
<1> HIDE DEF newer
<1> QED
  BY <1>4, <1>5, <1>6, SnapshotBounds

LEMMA ChosenPreserved ==
  ASSUME TypeOK, TypeOK', OnlyMade, Chosen, [Next]_vars
  PROVE  Chosen'
<1> USE DEF TypeOK, CleanerTypeOK
<1>1. made \subseteq made'
  <2>1. CASE Requests \/ CopySteps \/ RestoreSteps
    BY <2>1, OtherSteps DEF Touching, Untouched, BeginCopy, NestCopy, Rename, RecordRead,
        RecordWrite, AdoptRead, AdoptWrite, historyVars
  <2>2. CASE \E c \in Cleaners : CleanerSteps(c)
    BY <2>2 DEF CleanerSteps, PruneRead, Protect, DropEntries, SweepRead, Sweep, DeleteRead,
        RemoveDir, RemoveFails, Cleans
  <2> QED
    BY <2>1, <2>2 DEF Next, Crash, vars, historyVars
<1>2. \A c \in Cleaners : cpc'[c] = "remove" =>
        \/ cpc[c] = "remove" /\ drop'[c] \subseteq drop[c]
        \/ drop'[c] = Excess(Eligible(seen[c]))
  <2>1. CASE Requests \/ CopySteps \/ RestoreSteps
    BY <2>1, OtherSteps DEF cleanerVars
  <2>2. ASSUME NEW c \in Cleaners, CleanerSteps(c)
        PROVE  \/ cpc'[c] # "remove"
               \/ cpc[c] = "remove" /\ drop'[c] \subseteq drop[c]
               \/ drop'[c] = Excess(Eligible(seen[c]))
    <3>1. CASE PruneRead(c) \/ DropEntries(c) \/ SweepRead(c) \/ Sweep(c)
      BY <3>1 DEF PruneRead, DropEntries, SweepRead, Sweep, Cleans
    <3>2. CASE \E id \in Jobs : DeleteRead(c, id)
      BY <3>2 DEF DeleteRead, Cleans
    <3>3. CASE Protect(c)
      BY <3>3 DEF Protect, Cleans
    <3>4. CASE \E id \in Jobs : RemoveDir(c, id) \/ RemoveFails(c, id)
      BY <3>4 DEF RemoveDir, RemoveFails, Cleans
    <3> QED
      BY <2>2, <3>1, <3>2, <3>3, <3>4 DEF CleanerSteps
  <2>3. ASSUME NEW c \in Cleaners, CleanerSteps(c)
        PROVE  \A other \in Cleaners \ {c} : cpc'[other] = cpc[other] /\ drop'[other] = drop[other]
    BY <2>3 DEF CleanerSteps, PruneRead, Protect, DropEntries, SweepRead, Sweep, DeleteRead,
        RemoveDir, RemoveFails, Cleans
  <2>4. CASE Crash \/ UNCHANGED vars
    BY <2>4 DEF Crash, vars, cleanerVars
  <2> QED
    BY <2>1, <2>2, <2>3, <2>4 DEF Next
<1>3. ASSUME NEW c \in Cleaners, cpc'[c] = "remove", NEW id \in drop'[c]
      PROVE  Cardinality(Later(id)) >= KeepN
  BY <1>2, <1>3, ExcessReplaced DEF Chosen
<1>4. \A c \in Cleaners : drop'[c] \subseteq Jobs
  OBVIOUS
<1> QED
  BY <1>1, <1>3, <1>4, LaterGrows DEF Chosen

\* No step takes a backup away, or damages it, that retention keeps.
LEMMA BackupsRetained ==
  ASSUME TypeOK, Recorded, Listed, Chosen, [Next]_vars,
         NEW id \in made \ doubted, dir'[id] # dir[id]
  PROVE  Cardinality(Later(id)) >= KeepN \/ Deleting(id)
<1> USE DEF TypeOK, DataTypeOK, CleanerTypeOK, HistoryTypeOK
<1>1. ~(Requests \/ CopySteps \/ RestoreSteps)
  <2>1. ~Rename
    BY DEF Rename, Recorded, Unmade
  <2> QED
    BY <2>1, OtherSteps DEF Touching, Untouched, BeginCopy, NestCopy, RecordRead, RecordWrite,
        AdoptRead, AdoptWrite, dataVars
<1>2. ASSUME NEW c \in Cleaners, cpc[c] \in Removing, id \in drop[c], dir[id] # Absent
      PROVE  Cardinality(Later(id)) >= KeepN \/ Deleting(id)
  BY <1>2 DEF Removing, Chosen, Deleting, Listed
<1>3. ASSUME NEW c \in Cleaners, CleanerSteps(c)
      PROVE  cpc[c] \in Removing /\ id \in drop[c] /\ dir[id] # Absent
  <2>1. ~Sweep(c)
    BY DEF Sweep, Listed
  <2> QED
    BY <1>3, <2>1 DEF CleanerSteps, PruneRead, Protect, DropEntries, SweepRead, DeleteRead,
        RemoveDir, RemoveFails, Cleans
<1>4. CASE Crash
  <2>1. id \in BeingRemoved
    BY <1>4 DEF Crash
  <2> QED
    BY <1>2, <2>1 DEF BeingRemoved
<1> QED
  BY <1>1, <1>2, <1>3, <1>4 DEF Next, vars, dataVars

-----------------------------------------------------------------------------
(***************************************************************************)
(* The backup of the update in flight, and its restore.                    *)
(***************************************************************************)
\* Every step keeps the backup of an update in flight.
LEMMA BackupPreserved ==
  ASSUME TypeOK, Owned, Retained, BackupKept, Next \/ UNCHANGED vars
  PROVE  BackupKept'
<1>0. /\ pc \in Making /\ current \notin doubted => \A c \in Cleaners : cpc[c] = "idle"
      /\ \A job \in Jobs : Needed(job) =>
           /\ job \in index /\ InUse(job)
           /\ \A c \in Cleaners : cpc[c] = "sweep" => job \in seen[c]
  <2>1. \A job \in Jobs : Needed(job) => job \in made \ doubted /\ dir[job] # Absent
    BY DEF BackupKept, BackupThere, Needed
  <2>2. \A job \in Jobs : Needed(job) => InUse(job)
    BY DEF Needed, InUse, Jobs, TypeOK, JobTypeOK
  <2> QED
    BY <2>1, <2>2 DEF Retained, MadeAlone, Listed
<1> USE <1>0 DEF Task, Steps, Fails, dataVars, jobVars, taskVars, cleanerVars, boundVars, historyVars, TypeOK, DataTypeOK, JobTypeOK, TaskTypeOK, CleanerTypeOK, HistoryTypeOK, Owned, BackupKept, DataThere, CopyOnTheWay, BackupThere, CleanersHarmless, Needed, Making, Removing, Jobs, Points, UpdatePoints, RestorePoints, CleanerPoints, Absent, Holed, Installed, Migrated, Contents
<1>1. CASE RequestUpdate
  BY <1>1 DEF RequestUpdate
<1>2. CASE ForgetJob
  BY <1>2 DEF ForgetJob
<1>3. CASE \E id \in Jobs : RequestRollback(id)
  BY <1>3 DEF RequestRollback
<1>4. CASE BeginCopy
  BY <1>4 DEF BeginCopy
<1>5. CASE EndCopy
  BY <1>5 DEF EndCopy, Copied
<1>6. CASE NestCopy
  BY <1>6 DEF NestCopy
<1>7. CASE CopyFails
  BY <1>7 DEF CopyFails, GiveUp
<1>8. CASE Rename
  <2>1. pc = "rename" /\ stuck = 0 /\ current \in Jobs
    BY <1>8 DEF Rename
  <2>2. UNCHANGED <<pgdata, stuck, uses, original, made, doubted, cpc, drop>>
    BY <1>8 DEF Rename
  <2>3. pc' \in {"idle", "recordRead"}
    BY <1>8 DEF Rename, GiveUp
  <2>4. \A job \in Jobs : ~Needed(job)'
    BY <2>1, <2>2, <2>3
  <2>5. CopyOnTheWay'
    <3>1. CASE tmp = Absent
      BY <1>8, <2>1, <2>2, <3>1 DEF Rename, GiveUp
    <3>2. CASE tmp # Absent
      <4>1. pc' = "recordRead" /\ current' = current /\ dir'[current] = tmp
        BY <1>8, <2>1, <3>2 DEF Rename
      <4>2. current \notin doubted => original[current] # Absent /\ tmp = original[current]
        BY <2>1
      <4> QED
        BY <2>2, <4>1, <4>2
    <3> QED
      BY <3>1, <3>2
  <2>6. DataThere'
    BY <2>1, <2>2, <2>3
  <2> QED
    BY <2>4, <2>5, <2>6
<1>9. CASE RecordRead
  BY <1>9 DEF RecordRead
<1>10. CASE RecordWrite
  BY <1>10 DEF RecordWrite
<1>11. CASE Note
  BY <1>11 DEF Note
<1>12. CASE FailBeforeSwap
  BY <1>12 DEF FailBeforeSwap, GiveUp
<1>13. CASE Swap
  BY <1>13 DEF Swap
<1>14. CASE Succeed
  BY <1>14 DEF Succeed
<1>15. CASE Unhealthy
  BY <1>15 DEF Unhealthy
<1>16. CASE RestoreCheck
  BY <1>16 DEF RestoreCheck, HasTarget, Target
<1>17. CASE MoveAside
  BY <1>17 DEF MoveAside
<1>18. CASE SafetyCopy
  BY <1>18 DEF SafetyCopy
<1>19. CASE SafetyFails
  BY <1>19 DEF SafetyFails, RestoreEnds
<1>20. CASE BeginStage
  BY <1>20 DEF BeginStage
<1>21. CASE EndStage
  BY <1>21 DEF EndStage, Copied, Target
<1>22. CASE StageFails
  BY <1>22 DEF StageFails, CopyBreaks, RestoreEnds
<1>23. CASE Wipe
  BY <1>23 DEF Wipe
<1>24. CASE WipeFails
  BY <1>24 DEF WipeFails, RestoreEnds
<1>25. CASE BeginFill
  BY <1>25 DEF BeginFill
<1>26. CASE EndFill
  BY <1>26 DEF EndFill, Copied, Source, Target
<1>27. CASE NestFill
  BY <1>27 DEF NestFill
<1>28. CASE FillFails
  BY <1>28 DEF FillFails, CopyBreaks, RestoreEnds, PutBack
<1>29. CASE AdoptRead
  BY <1>29 DEF AdoptRead
<1>30. CASE AdoptWrite
  BY <1>30 DEF AdoptWrite
<1>31. CASE RestoreDone
  BY <1>31 DEF RestoreDone
<1>32. CASE \E c \in Cleaners : PruneRead(c)
  BY <1>32 DEF PruneRead, Cleans
<1>33. CASE \E c \in Cleaners : Protect(c)
  <2>1. PICK c \in Cleaners : Protect(c)
    BY <1>33
  <2>3. \A job \in Jobs : Needed(job) => job \notin drop'[c]
    BY <1>0, <2>1 DEF Protect, Cleans, Excess, Eligible
  <2>4. UNCHANGED <<index, dir, tmp, pgdata, pc, mine, current, stuck, uses, original, made>>
    BY <2>1 DEF Protect, Cleans
  <2>5. \A job \in Jobs : Needed(job)' => Needed(job)
    BY <2>1, <2>4 DEF Protect, Cleans
  <2>6. DataThere' /\ CopyOnTheWay' /\ BackupThere'
    <3>1. doubted \subseteq doubted'
      BY <2>1 DEF Protect, Cleans
    <3> QED
      BY <2>4, <2>5, <3>1
  <2>7. CleanersHarmless'
    BY <2>1, <2>3, <2>4, <2>5 DEF Protect, Cleans
  <2> QED
    BY <2>6, <2>7
<1>34. CASE \E c \in Cleaners : DropEntries(c)
  BY <1>34 DEF DropEntries, Cleans
<1>35. CASE \E c \in Cleaners : SweepRead(c)
  BY <1>35 DEF SweepRead, Cleans
<1>36. CASE \E c \in Cleaners : Sweep(c)
  <2>1. PICK c \in Cleaners : Sweep(c)
    BY <1>36
  <2>2. UNCHANGED <<index, pgdata, pc, current, stuck, uses, original, made, doubted, drop>>
    BY <2>1 DEF Sweep
  <2>3. \A job \in Jobs : Needed(job)' <=> Needed(job)
    BY <2>2
  <2>4. \A job \in Jobs : Needed(job) => dir'[job] = dir[job]
    BY <1>0, <2>1 DEF Sweep
  <2>5. BackupThere'
    BY <2>2, <2>3, <2>4
  <2>6. CopyOnTheWay'
    <3>1. ~(pc \in Making /\ current \notin doubted)
      <4>1. cpc[c] = "sweep"
        BY <2>1 DEF Sweep
      <4> QED
        BY <1>0, <4>1
    <3> QED
      BY <2>2, <3>1
  <2>7. CleanersHarmless'
    <3>1. \A d \in Cleaners : cpc'[d] \in Removing => cpc[d] \in Removing
      BY <2>1 DEF Sweep
    <3> QED
      BY <2>2, <2>3, <3>1
  <2>8. DataThere'
    BY <2>2
  <2> QED
    BY <2>5, <2>6, <2>7, <2>8
<1>37. CASE \E c \in Cleaners, id \in Jobs : DeleteRead(c, id)
  <2>1. PICK c \in Cleaners, id \in Jobs : DeleteRead(c, id)
    BY <1>37
  <2>3. ~Needed(id)
    BY <1>0, <2>1 DEF DeleteRead
  <2>4. UNCHANGED <<index, dir, tmp, pgdata, pc, mine, current, stuck, uses, original, made>>
    BY <2>1 DEF DeleteRead, Cleans
  <2>5. \A job \in Jobs : Needed(job)' => Needed(job)
    BY <2>1, <2>4 DEF DeleteRead, Cleans
  <2>6. DataThere' /\ CopyOnTheWay' /\ BackupThere'
    <3>1. doubted \subseteq doubted'
      BY <2>1 DEF DeleteRead, Cleans
    <3> QED
      BY <2>4, <2>5, <3>1
  <2>7. CleanersHarmless'
    BY <2>1, <2>3, <2>4, <2>5 DEF DeleteRead, Cleans
  <2> QED
    BY <2>6, <2>7
<1>38. CASE \E c \in Cleaners, id \in Jobs : RemoveDir(c, id)
  BY <1>38 DEF RemoveDir, Cleans
<1>39. CASE \E c \in Cleaners, id \in Jobs : RemoveFails(c, id)
  <2>1. PICK c \in Cleaners, id \in Jobs : RemoveFails(c, id)
    BY <1>39
  <2>2. UNCHANGED <<pgdata, tmp, pc, current, stuck, uses, original, made, cpc>>
    BY <2>1 DEF RemoveFails, Cleans
  <2>3. doubted' = IF pc \in Making THEN doubted \cup {current} ELSE doubted
    BY <2>1 DEF RemoveFails, Cleans
  <2>4. \A job \in Jobs : Needed(job)' => Needed(job)
    BY <2>2, <2>3
  <2>5. \A job \in Jobs : Needed(job) => dir'[job] = dir[job]
    <3>1. ~Needed(id)
      BY <2>1 DEF RemoveFails
    <3>2. \A job \in Jobs \ {id} : dir'[job] = dir[job]
      BY <2>1 DEF RemoveFails
    <3> QED
      BY <3>1, <3>2
  <2>6. BackupThere'
    BY <2>2, <2>4, <2>5
  <2>7. DataThere' /\ CopyOnTheWay'
    BY <2>2, <2>3
  <2>8. CleanersHarmless'
    <3>1. \A d \in Cleaners : drop'[d] \subseteq drop[d]
      BY <2>1 DEF RemoveFails
    <3> QED
      BY <2>2, <2>4, <3>1
  <2> QED
    BY <2>6, <2>7, <2>8
<1>40. CASE Crash
  BY <1>40 DEF Crash, BeingRemoved
<1>41. CASE UNCHANGED vars
  BY <1>41 DEF vars
<1> QED
  BY <1>1, <1>2, <1>3, <1>4, <1>5, <1>6, <1>7, <1>8, <1>9, <1>10, <1>11, <1>12, <1>13,
      <1>14, <1>15, <1>16, <1>17, <1>18, <1>19, <1>20, <1>21, <1>22, <1>23, <1>24,
      <1>25, <1>26, <1>27, <1>28, <1>29, <1>30, <1>31, <1>32, <1>33, <1>34, <1>35,
      <1>36, <1>37, <1>38, <1>39, <1>40, <1>41 DEF Next, Requests, CopySteps,
      RestoreSteps, CleanerSteps

\* Every step of a restore brings the data back.
LEMMA RestorePreserved ==
  ASSUME TypeOK, Owned, BackupKept, RestoreOnTheWay, Next \/ UNCHANGED vars
  PROVE  RestoreOnTheWay'
<1> DEFINE BackupHere == dir[current] = original[current] /\ original[current] # Absent
<1>0. pc \in RestorePoints /\ uses[current] = current /\ current \notin doubted => BackupHere
  BY DEF BackupKept, BackupThere, Needed, TypeOK, JobTypeOK, Owned, Jobs, RestorePoints
<1> USE <1>0 DEF Task, Steps, Fails, dataVars, jobVars, taskVars, cleanerVars, boundVars, historyVars, TypeOK, DataTypeOK, JobTypeOK, TaskTypeOK, HistoryTypeOK, Owned, RestoreOnTheWay, Staged, Jobs, Points, UpdatePoints, RestorePoints, Absent, Holed
<1>1. CASE RequestUpdate
  BY <1>1 DEF RequestUpdate
<1>2. CASE ForgetJob
  BY <1>2 DEF ForgetJob
<1>3. CASE \E id \in Jobs : RequestRollback(id)
  BY <1>3 DEF RequestRollback
<1>4. CASE BeginCopy
  BY <1>4 DEF BeginCopy
<1>5. CASE EndCopy
  BY <1>5 DEF EndCopy, Copied
<1>6. CASE NestCopy
  BY <1>6 DEF NestCopy
<1>7. CASE CopyFails
  BY <1>7 DEF CopyFails, GiveUp
<1>8. CASE Rename
  BY <1>8 DEF Rename, GiveUp
<1>9. CASE RecordRead
  BY <1>9 DEF RecordRead
<1>10. CASE RecordWrite
  BY <1>10 DEF RecordWrite
<1>11. CASE Note
  BY <1>11 DEF Note
<1>12. CASE FailBeforeSwap
  BY <1>12 DEF FailBeforeSwap, GiveUp
<1>13. CASE Swap
  BY <1>13 DEF Swap
<1>14. CASE Succeed
  BY <1>14 DEF Succeed
<1>15. CASE Unhealthy
  BY <1>15 DEF Unhealthy
<1>16. CASE RestoreCheck
  BY <1>16 DEF RestoreCheck, HasTarget, Target
<1>17. CASE MoveAside
  BY <1>17 DEF MoveAside
<1>18. CASE SafetyCopy
  BY <1>18 DEF SafetyCopy
<1>19. CASE SafetyFails
  BY <1>19 DEF SafetyFails, RestoreEnds
<1>20. CASE BeginStage
  BY <1>20 DEF BeginStage
<1>21. CASE EndStage
  BY <1>21 DEF EndStage, Copied, Target
<1>22. CASE StageFails
  BY <1>22 DEF StageFails, CopyBreaks, RestoreEnds
<1>23. CASE Wipe
  BY <1>23 DEF Wipe
<1>24. CASE WipeFails
  BY <1>24 DEF WipeFails, RestoreEnds
<1>25. CASE BeginFill
  BY <1>25 DEF BeginFill
<1>26. CASE EndFill
  BY <1>26 DEF EndFill, Copied, Source, Target
<1>27. CASE NestFill
  BY <1>27 DEF NestFill
<1>28. CASE FillFails
  BY <1>28 DEF FillFails, CopyBreaks, RestoreEnds, PutBack
<1>29. CASE AdoptRead
  BY <1>29 DEF AdoptRead
<1>30. CASE AdoptWrite
  BY <1>30 DEF AdoptWrite
<1>31. CASE RestoreDone
  BY <1>31 DEF RestoreDone
<1>32. CASE \E c \in Cleaners : PruneRead(c)
  BY <1>32 DEF PruneRead, Cleans
<1>33. CASE \E c \in Cleaners : Protect(c)
  BY <1>33 DEF Protect, Cleans
<1>34. CASE \E c \in Cleaners : DropEntries(c)
  BY <1>34 DEF DropEntries, Cleans
<1>35. CASE \E c \in Cleaners : SweepRead(c)
  BY <1>35 DEF SweepRead, Cleans
<1>36. CASE \E c \in Cleaners : Sweep(c)
  BY <1>36 DEF Sweep
<1>37. CASE \E c \in Cleaners, id \in Jobs : DeleteRead(c, id)
  BY <1>37 DEF DeleteRead, Cleans
<1>38. CASE \E c \in Cleaners, id \in Jobs : RemoveDir(c, id)
  BY <1>38 DEF RemoveDir, Cleans
<1>39. CASE \E c \in Cleaners, id \in Jobs : RemoveFails(c, id)
  BY <1>39 DEF RemoveFails, Cleans
<1>40. CASE Crash
  BY <1>40 DEF Crash, BeingRemoved
<1>41. CASE UNCHANGED vars
  BY <1>41 DEF vars
<1> QED
  BY <1>1, <1>2, <1>3, <1>4, <1>5, <1>6, <1>7, <1>8, <1>9, <1>10, <1>11, <1>12, <1>13,
      <1>14, <1>15, <1>16, <1>17, <1>18, <1>19, <1>20, <1>21, <1>22, <1>23, <1>24,
      <1>25, <1>26, <1>27, <1>28, <1>29, <1>30, <1>31, <1>32, <1>33, <1>34, <1>35,
      <1>36, <1>37, <1>38, <1>39, <1>40, <1>41 DEF Next, Requests, CopySteps,
      RestoreSteps, CleanerSteps

-----------------------------------------------------------------------------
(***************************************************************************)
(* The theorems.                                                           *)
(***************************************************************************)
\* What every reachable state satisfies.
Sound == TypeOK /\ Owned /\ Kept /\ Retained /\ BackupKept /\ RestoreOnTheWay

LEMMA SoundInvariant == Spec => []Sound
<1>1. Init => Sound
  BY InitSound DEF Sound
<1>2. Sound /\ [Next]_vars => Sound'
  <2> SUFFICES ASSUME Sound, [Next]_vars PROVE Sound'
    OBVIOUS
  <2>1. TypeOK' /\ Owned' /\ Kept'
    BY TypesPreserved, OwnerPreserved, KeptPreserved DEF Sound
  <2>2. Recorded'
    BY RecordedPreserved DEF Sound, Retained
  <2>3. OnlyMade' /\ MadeAlone' /\ Listed'
    BY OnlyMadePreserved, MadeAlonePreserved, ListedPreserved DEF Sound, Retained
  <2>4. Chosen'
    BY <2>1, ChosenPreserved DEF Sound, Retained
  <2>5. BackupKept' /\ RestoreOnTheWay'
    BY BackupPreserved, RestorePreserved DEF Sound
  <2> QED
    BY <2>1, <2>2, <2>3, <2>4, <2>5 DEF Sound, Retained
<1> QED
  BY <1>1, <1>2, PTL DEF Spec

\* Every reachable state is well-formed.
THEOREM SnapshotsTyped == Spec => []TypeOK
<1>1. Sound => TypeOK
  BY DEF Sound
<1> QED
  BY <1>1, SoundInvariant, PTL

\* Data a restore set out to replace is in pgdata or in a directory nothing
\* removes, whichever steps fail, are cut off or interleave (restore,
\* restore_in_place, adopt_aside_directory).
THEOREM SnapshotsKeepReplaced == Spec => []LiveKept
<1>1. Sound => LiveKept
  BY DEF Sound, Kept
<1> QED
  BY <1>1, SoundInvariant, PTL

\* An update past its swap has its backup, complete and in the index, whatever
\* prunes, sweeps and deletions run beside it from the moment the job file
\* names the copy; only a copy that a cleaner worked beside before that, or
\* whose cp nested, is excepted (create, prune, sweep, delete, in_use_reason).
THEOREM SnapshotsKeepBackup == Spec => []InFlightBackup
<1>1. Sound => InFlightBackup
  <2> SUFFICES ASSUME Sound, stuck # 0, uses[stuck] = stuck, stuck \notin doubted
               PROVE  stuck \in index /\ dir[stuck] = original[stuck]
    BY DEF InFlightBackup
  <2>1. stuck \in Jobs /\ Needed(stuck)
    BY DEF Sound, TypeOK, JobTypeOK, Jobs, Needed
  <2> QED
    BY <2>1 DEF Sound, BackupKept, BackupThere, Retained, Listed
<1> QED
  BY <1>1, SoundInvariant, PTL

\* The rollback of a failed update leaves what the update started from, after
\* any failures and deaths and beside any cleaners, unless the copy is one of
\* those excepted above, or a sweep took away the stage of this very restore,
\* or its cp nested (restore, restore_in_place).
THEOREM SnapshotsRollBack == Spec => RollbackRestores
<1>1. Sound /\ [Next]_vars =>
        [RestoreDone /\ uses[current] = current /\ current \notin doubted \cup marred
           => pgdata = original[current]]_vars
  BY DEF Sound, RestoreOnTheWay, RestoreDone, Steps, RestorePoints
<1>2. Spec => [][Next]_vars
  BY PTL DEF Spec
<1> QED
  BY <1>1, <1>2, SoundInvariant, PTL DEF RollbackRestores

\* A recorded backup is removed or damaged only once as many later updates as
\* retention keeps have recorded theirs, or by an operator's DELETE, on however
\* old a reading of the index, beside any number of cleaners, through failed
\* and interrupted removals (prune, sweep_orphan_snapshot_dirs, delete).
THEOREM SnapshotsRetainNewest == Spec => RetentionKept
<1> DEFINE Guarded ==
      \A id \in made \ doubted :
        dir'[id] # dir[id] => Cardinality(Later(id)) >= KeepN \/ Deleting(id)
<1>1. Sound /\ [Next]_vars => [Guarded]_vars
  BY BackupsRetained DEF Sound, Retained
<1>2. Spec => [][Next]_vars
  BY PTL DEF Spec
<1> QED
  BY <1>1, <1>2, SoundInvariant, PTL DEF RetentionKept

=============================================================================
