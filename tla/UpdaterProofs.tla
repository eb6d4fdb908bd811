---------------------------- MODULE UpdaterProofs ----------------------------
(***************************************************************************)
(* Type correctness of the updater and the files its pointers need, for    *)
(* any number of jobs, releases, failures and deaths of the process.       *)
(*                                                                         *)
(* First what one step of the task running a job does to the records, the  *)
(* host and the task itself: one lemma per action.  The theorems rest on   *)
(* these lemmas and never look inside an action that has one.  After the   *)
(* theorems of Spec, those of PatientSpec: at most one task runs, a success is *)
(* final, and a site that stays closed has an owner who waits.             *)
(***************************************************************************)
EXTENDS UpdaterInvariants, TLAPS

\* The task of j is at one of these points now, with nothing noted yet, and
\* the other tasks are where they were.
Moves(j, points) ==
  /\ exec' \in [Jobs -> Executor]
  /\ \A i \in Jobs \ {j} : exec'[i] = exec[i]
  /\ exec'[j].pc \in points
  /\ ~exec'[j].noted

\* The records stay well-formed; the only job file written is that of j, and
\* the two pointers to a job keep their job, take j or take none.
KeepsRecords(j) ==
  /\ StateTypeOK'
  /\ \A i \in Jobs \ {j} : jobs'[i] = jobs[i]
  /\ jobs'[j].status # "Absent"
  /\ current' \in {current, j, NoJob}
  /\ maint'.job \in {maint.job, j, NoJob}

Effect(j, points) ==
  /\ HostTypeOK'
  /\ Moves(j, points)
  /\ KeepsRecords(j)
  /\ HasBackup(j)'

\* The step is of no consequence for who may run: neither pointer moves.
Ordinary(j) ==
  /\ UNCHANGED <<current, maint>>
  /\ jobs'[j].work = jobs[j].work
  /\ exec[j].pc # "Preflight"
  /\ ~exec'[j].noted
  /\ exec'[j].pc \notin {"Preflight", "probe", "clearCurrent"}
  /\ exec'[j].pc = "commit" => exec[j].pc = "probe"

-----------------------------------------------------------------------------
(***************************************************************************)
(* The pieces actions are made of.                                         *)
(***************************************************************************)
\* A task that goes to a point is at that point, and the others stay.
LEMMA GotoMoves ==
  ASSUME NEW j \in Jobs, NEW CONSTANT points \in SUBSET Points, NEW pc \in points,
         TypeOK, Goto(j, pc)
  PROVE  Moves(j, points)
BY DEF Goto, Executor, Moves, TypeOK, ProcessTypeOK

\* So does a task that also remembers what it has to restart.
LEMMA ScopedMoves ==
  ASSUME NEW j \in Jobs, NEW CONSTANT points \in SUBSET Points, NEW pc \in points,
         NEW scope \in Scopes, TypeOK,
         exec' = [exec EXCEPT ![j].pc = pc, ![j].noted = FALSE, ![j].scope = scope]
  PROVE  Moves(j, points)
BY DEF Executor, Moves, TypeOK, ProcessTypeOK

\* A job file is a job record, and a task an executor.
LEMMA JobTyped ==
  ASSUME NEW j \in Jobs, TypeOK
  PROVE  jobs[j] \in JobRecord /\ exec[j].tag \in VersionOrNone
BY DEF TypeOK, StateTypeOK, ProcessTypeOK, Executor

\* A task that ends is idle, and the others stay.
LEMMA FinishMoves ==
  ASSUME NEW j \in Jobs, NEW CONSTANT points \in SUBSET Points, "idle" \in points,
         TypeOK, Finish(j)
  PROVE  Moves(j, points)
BY DEF Finish, NoExecutor, Executor, Moves, TypeOK, ProcessTypeOK, Points, Scopes,
       VersionOrNone

\* A step that leaves the host alone keeps its types.
LEMMA HostKept ==
  ASSUME TypeOK, UNCHANGED hostVars
  PROVE  HostTypeOK'
BY DEF TypeOK, HostTypeOK, hostVars

\* A step that leaves the state directory alone keeps its records.
LEMMA StateKept ==
  ASSUME NEW j \in Jobs, TypeOK, jobs[j].status # "Absent", UNCHANGED stateVars
  PROVE  KeepsRecords(j)
BY DEF TypeOK, StateTypeOK, stateVars, KeepsRecords

\* Writing one job file keeps every other record.
LEMMA JobWritten ==
  ASSUME NEW j \in Jobs, NEW record \in JobRecord, TypeOK,
         record.status # "Absent", WriteJob(j, record)
  PROVE  KeepsRecords(j)
BY DEF TypeOK, StateTypeOK, WriteJob, KeepsRecords


-----------------------------------------------------------------------------
(***************************************************************************)
(* An update, up to its commit.                                            *)
(***************************************************************************)
\* The preflight writes its report and nothing else.
LEMMA PreflightEffect ==
  ASSUME NEW j \in Jobs, TypeOK, Grounded, jobs[j].status # "Absent",
         Preflight(j)
  PROVE  Effect(j, {"MaintenanceOn", "finalizeFailed"}) /\ Ordinary(j)
<1>1. {"MaintenanceOn", "finalizeFailed"} \subseteq Points
  BY DEF Points, UpdatePoints, RollbackPoints, CleanupPoints, WorkOf
<1>2. HostTypeOK'
  BY HostKept DEF Preflight
<1>3. Moves(j, {"MaintenanceOn", "finalizeFailed"})
  BY <1>1, GotoMoves DEF Preflight
<1> DEFINE entry ==
      [ready |-> TRUE, from |-> curVer, compose |-> compose,
       proxy |-> IF ShipsProxy THEN env.proxy ELSE NoVersion]
<1>4. KeepsRecords(j)
  <2>1. entry \in Report
    BY DEF TypeOK, StateTypeOK, HostTypeOK, VersionOrNone, Report
  <2>2. CASE UNCHANGED stateVars
    BY <2>2, StateKept
  <2>3. CASE /\ report' = [report EXCEPT ![j] = entry]
             /\ UNCHANGED <<jobs, current, maint, curVer, snaps>>
    <3> HIDE DEF entry
    <3> QED
      BY <2>1, <2>3 DEF KeepsRecords, TypeOK, StateTypeOK
  <2> QED
    BY <2>2, <2>3 DEF Preflight
<1>5. Ordinary(j)
  BY <1>3 DEF Preflight, At, Ordinary, Moves, stateVars
<1> QED
  BY <1>2, <1>3, <1>4, <1>5 DEF Effect, Moves, HasBackup

\* The Compose runner is prepared, or the update ends before it stopped anything.
LEMMA BuildRunnerEffect ==
  ASSUME NEW j \in Jobs, TypeOK, Grounded, jobs[j].status # "Absent",
         BuildRunner(j)
  PROVE  Effect(j, {"Stopping", "preSwapCompose"}) /\ Ordinary(j)
<1>1. {"Stopping", "preSwapCompose"} \subseteq Points
  BY DEF Points, UpdatePoints, RollbackPoints, CleanupPoints, WorkOf
<1>2. HostTypeOK'
  BY HostKept DEF BuildRunner
<1>3. Moves(j, {"Stopping", "preSwapCompose"})
  <2>1. CASE exec' = [exec EXCEPT
         ![j].pc = "Stopping", ![j].noted = FALSE, ![j].scope = "App"]
    BY <1>1, <2>1, ScopedMoves DEF Scopes
  <2>2. CASE Goto(j, "preSwapCompose")
    BY <1>1, <2>2, GotoMoves
  <2> QED
    BY <2>1, <2>2 DEF BuildRunner
<1>4. KeepsRecords(j)
  BY StateKept DEF BuildRunner
<1>5. Ordinary(j)
  BY <1>3 DEF BuildRunner, At, Ordinary, Moves, stateVars
<1> QED
  BY <1>2, <1>3, <1>4, <1>5 DEF Effect, Moves, HasBackup

\* Stopping the application containers changes nothing on disk.
LEMMA StopAppsEffect ==
  ASSUME NEW j \in Jobs, TypeOK, Grounded, jobs[j].status # "Absent",
         StopApps(j)
  PROVE  Effect(j, {"Snapshotting", "preSwapCompose"}) /\ Ordinary(j)
<1>1. {"Snapshotting", "preSwapCompose"} \subseteq Points
  BY DEF Points, UpdatePoints, RollbackPoints, CleanupPoints, WorkOf
<1>2. HostTypeOK'
  BY DEF StopApps, TypeOK, HostTypeOK, Stopped, VersionOrNone
<1>3. Moves(j, {"Snapshotting", "preSwapCompose"})
  BY <1>1, GotoMoves DEF StopApps
<1>4. KeepsRecords(j)
  BY StateKept DEF StopApps
<1>5. Ordinary(j)
  BY <1>3 DEF StopApps, At, Ordinary, Moves, stateVars
<1> QED
  BY <1>2, <1>3, <1>4, <1>5 DEF Effect, Moves, HasBackup

\* An external database has nothing to copy.
LEMMA SkipSnapshotEffect ==
  ASSUME NEW j \in Jobs, TypeOK, Grounded, jobs[j].status # "Absent",
         SkipSnapshot(j)
  PROVE  Effect(j, {"SwapTag"}) /\ Ordinary(j)
<1>1. {"SwapTag"} \subseteq Points
  BY DEF Points, UpdatePoints, RollbackPoints, CleanupPoints, WorkOf
<1>2. HostTypeOK'
  BY HostKept DEF SkipSnapshot
<1>3. Moves(j, {"SwapTag"})
  BY <1>1, GotoMoves DEF SkipSnapshot
<1>4. KeepsRecords(j)
  BY StateKept DEF SkipSnapshot
<1>5. Ordinary(j)
  BY <1>3 DEF SkipSnapshot, At, Ordinary, Moves, stateVars
<1> QED
  BY <1>2, <1>3, <1>4, <1>5 DEF Effect, Moves, HasBackup

\* Postgres stops before the copy, and the task remembers that it did.
LEMMA StopPostgresEffect ==
  ASSUME NEW j \in Jobs, TypeOK, Grounded, jobs[j].status # "Absent",
         StopPostgres(j)
  PROVE  Effect(j, {"copy", "preSwapCompose"}) /\ Ordinary(j)
<1>1. {"copy", "preSwapCompose"} \subseteq Points
  BY DEF Points, UpdatePoints, RollbackPoints, CleanupPoints, WorkOf
<1>2. HostTypeOK'
  BY DEF StopPostgres, TypeOK, HostTypeOK, Stopped, VersionOrNone
<1>3. Moves(j, {"copy", "preSwapCompose"})
  <2>1. CASE exec' = [exec EXCEPT
         ![j].pc = "copy", ![j].noted = FALSE, ![j].scope = "AppAndPostgres"]
    BY <1>1, <2>1, ScopedMoves DEF Scopes
  <2>2. CASE exec' = [exec EXCEPT
         ![j].pc = "preSwapCompose", ![j].noted = FALSE, ![j].scope = "AppAndPostgres"]
    BY <1>1, <2>2, ScopedMoves DEF Scopes
  <2> QED
    BY <2>1, <2>2 DEF StopPostgres
<1>4. KeepsRecords(j)
  BY StateKept DEF StopPostgres
<1>5. Ordinary(j)
  BY <1>3 DEF StopPostgres, At, Ordinary, Moves, stateVars
<1> QED
  BY <1>2, <1>3, <1>4, <1>5 DEF Effect, Moves, HasBackup

\* The snapshot is recorded before the job names it.
LEMMA CopySnapshotEffect ==
  ASSUME NEW j \in Jobs, TypeOK, Grounded, jobs[j].status # "Absent",
         CopySnapshot(j)
  PROVE  Effect(j, {"startPostgres", "preSwapCompose"}) /\ Ordinary(j)
<1>1. {"startPostgres", "preSwapCompose"} \subseteq Points
  BY DEF Points, UpdatePoints, RollbackPoints, CleanupPoints, WorkOf
<1>2. HostTypeOK'
  BY HostKept DEF CopySnapshot
<1>3. Moves(j, {"startPostgres", "preSwapCompose"})
  BY <1>1, GotoMoves DEF CopySnapshot
<1> DEFINE entry ==
      [taken |-> TRUE, data |-> data, version |-> report[j].from]
<1>4. KeepsRecords(j)
  <2>1. entry \in Snapshot
    BY DEF TypeOK, StateTypeOK, HostTypeOK, Report, Snapshot
  <2>2. CASE UNCHANGED stateVars
    BY <2>2, StateKept
  <2>3. CASE /\ snaps' = [snaps EXCEPT ![j] = entry]
             /\ UNCHANGED <<jobs, current, maint, curVer, report>>
    <3> HIDE DEF entry
    <3> QED
      BY <2>1, <2>3 DEF KeepsRecords, TypeOK, StateTypeOK
  <2> QED
    BY <2>2, <2>3 DEF CopySnapshot
<1>5. Ordinary(j)
  BY <1>3 DEF CopySnapshot, At, Ordinary, Moves, stateVars
<1> QED
  BY <1>2, <1>3, <1>4, <1>5 DEF Effect, Moves, HasBackup

\* Postgres starts again whatever the copy was.
LEMMA StartPostgresEffect ==
  ASSUME NEW j \in Jobs, TypeOK, Grounded, jobs[j].status # "Absent",
         StartPostgres(j)
  PROVE  Effect(j, {"noteSnapshot", "preSwapCompose"}) /\ Ordinary(j)
<1>1. {"noteSnapshot", "preSwapCompose"} \subseteq Points
  BY DEF Points, UpdatePoints, RollbackPoints, CleanupPoints, WorkOf
<1>2. HostTypeOK'
  BY DEF StartPostgres, TypeOK, HostTypeOK, Stopped, VersionOrNone
<1>3. Moves(j, {"noteSnapshot", "preSwapCompose"})
  BY <1>1, GotoMoves DEF StartPostgres
<1>4. KeepsRecords(j)
  BY StateKept DEF StartPostgres
<1>5. Ordinary(j)
  BY <1>3 DEF StartPostgres, At, Ordinary, Moves, stateVars
<1> QED
  BY <1>2, <1>3, <1>4, <1>5 DEF Effect, Moves, HasBackup

\* The job names its snapshot.
LEMMA NoteSnapshotEffect ==
  ASSUME NEW j \in Jobs, TypeOK, Grounded, jobs[j].status # "Absent",
         NoteSnapshot(j)
  PROVE  Effect(j, {"SwapTag"}) /\ Ordinary(j)
<1>1. {"SwapTag"} \subseteq Points
  BY DEF Points, UpdatePoints, RollbackPoints, CleanupPoints, WorkOf
<1>2. HostTypeOK'
  BY HostKept DEF NoteSnapshot
<1>3. Moves(j, {"SwapTag"})
  <2>1. CASE exec' = [exec EXCEPT
         ![j].pc = "SwapTag", ![j].noted = FALSE, ![j].scope = "App"]
    BY <1>1, <2>1, ScopedMoves DEF Scopes
  <2> QED
    BY <2>1 DEF NoteSnapshot
<1> DEFINE record ==
      [jobs[j] EXCEPT !.snap = j]
<1>4. KeepsRecords(j)
  <2>1. record \in JobRecord /\ record.status # "Absent"
    BY JobTyped DEF JobRecord, JobOrNone
  <2> QED
    BY <2>1, JobWritten DEF NoteSnapshot
<1>5. Ordinary(j)
  BY <1>3 DEF NoteSnapshot, At, Ordinary, Moves, WriteJob, TypeOK, StateTypeOK,
         JobRecord
<1> QED
  BY <1>2, <1>3, <1>4, <1>5 DEF Effect, Moves, HasBackup

\* The target's Compose file is written.
LEMMA InstallComposeEffect ==
  ASSUME NEW j \in Jobs, TypeOK, Grounded, jobs[j].status # "Absent",
         InstallCompose(j)
  PROVE  Effect(j, {"swapTag", "preSwapCompose"}) /\ Ordinary(j)
<1>1. {"swapTag", "preSwapCompose"} \subseteq Points
  BY DEF Points, UpdatePoints, RollbackPoints, CleanupPoints, WorkOf
<1>2. HostTypeOK'
  BY DEF InstallCompose, TypeOK, HostTypeOK, Stopped, VersionOrNone,
         StateTypeOK, JobRecord
<1>3. Moves(j, {"swapTag", "preSwapCompose"})
  BY <1>1, GotoMoves DEF InstallCompose
<1>4. KeepsRecords(j)
  BY StateKept DEF InstallCompose
<1>5. Ordinary(j)
  BY <1>3 DEF InstallCompose, At, Ordinary, Moves, stateVars
<1> QED
  BY <1>2, <1>3, <1>4, <1>5 DEF Effect, Moves, HasBackup

\* MYRIAD_TAG is written and the task keeps the tag it replaced.
LEMMA SwapTagEffect ==
  ASSUME NEW j \in Jobs, TypeOK, Grounded, jobs[j].status # "Absent",
         SwapTag(j)
  PROVE  /\ Effect(j, {"swapProxyTag", "StartingNew", "preSwapCompose"})
         /\ Ordinary(j)
<1>1. {"swapProxyTag", "StartingNew", "preSwapCompose"} \subseteq Points
  BY DEF Points, UpdatePoints, RollbackPoints, CleanupPoints, WorkOf
<1>2. HostTypeOK'
  BY DEF SwapTag, TypeOK, HostTypeOK, Stopped, VersionOrNone, StateTypeOK,
         JobRecord
<1>3. Moves(j, {"swapProxyTag", "StartingNew", "preSwapCompose"})
  <2> DEFINE next == IF ShipsProxy THEN "swapProxyTag" ELSE "StartingNew"
  <2>1. next \in {"swapProxyTag", "StartingNew"} /\ env.tag \in VersionOrNone
    BY <1>1 DEF TypeOK, HostTypeOK
  <2>2. CASE exec' = [exec EXCEPT
                        ![j].pc = next, ![j].noted = FALSE, ![j].tag = env.tag]
    <3> HIDE DEF next
    <3> QED
      BY <1>1, <2>1, <2>2 DEF Moves, TypeOK, ProcessTypeOK, Executor
  <2>3. CASE Goto(j, "preSwapCompose")
    BY <1>1, <2>3, GotoMoves
  <2> QED
    BY <2>2, <2>3 DEF SwapTag
<1>4. KeepsRecords(j)
  BY StateKept DEF SwapTag
<1>5. Ordinary(j)
  BY <1>3 DEF SwapTag, At, Ordinary, Moves, stateVars
<1> QED
  BY <1>2, <1>3, <1>4, <1>5 DEF Effect, Moves, HasBackup

\* PROXY_TAG follows when the release ships a proxy.
LEMMA SwapProxyTagEffect ==
  ASSUME NEW j \in Jobs, TypeOK, Grounded, jobs[j].status # "Absent",
         SwapProxyTag(j)
  PROVE  Effect(j, {"StartingNew", "preSwapCompose"}) /\ Ordinary(j)
<1>1. {"StartingNew", "preSwapCompose"} \subseteq Points
  BY DEF Points, UpdatePoints, RollbackPoints, CleanupPoints, WorkOf
<1>2. HostTypeOK'
  BY DEF SwapProxyTag, TypeOK, HostTypeOK, Stopped, VersionOrNone, StateTypeOK,
         JobRecord
<1>3. Moves(j, {"StartingNew", "preSwapCompose"})
  BY <1>1, GotoMoves DEF SwapProxyTag
<1>4. KeepsRecords(j)
  BY StateKept DEF SwapProxyTag
<1>5. Ordinary(j)
  BY <1>3 DEF SwapProxyTag, At, Ordinary, Moves, stateVars
<1> QED
  BY <1>2, <1>3, <1>4, <1>5 DEF Effect, Moves, HasBackup

\* The selected images are compared before anything starts.
LEMMA VerifyEffect ==
  ASSUME NEW j \in Jobs, TypeOK, Grounded, jobs[j].status # "Absent",
         Verify(j)
  PROVE  Effect(j, {"startNew", "revert"}) /\ Ordinary(j)
<1>1. {"startNew", "revert"} \subseteq Points
  BY DEF Points, UpdatePoints, RollbackPoints, CleanupPoints, WorkOf
<1>2. HostTypeOK'
  BY HostKept DEF Verify
<1>3. Moves(j, {"startNew", "revert"})
  BY <1>1, GotoMoves DEF Verify
<1>4. KeepsRecords(j)
  BY StateKept DEF Verify
<1>5. Ordinary(j)
  BY <1>3 DEF Verify, At, Ordinary, Moves, stateVars
<1> QED
  BY <1>2, <1>3, <1>4, <1>5 DEF Effect, Moves, HasBackup

\* The target's containers start, or some of them.
LEMMA StartNewEffect ==
  ASSUME NEW j \in Jobs, TypeOK, Grounded, jobs[j].status # "Absent",
         StartNew(j)
  PROVE  Effect(j, {"HealthProbing", "revert"}) /\ Ordinary(j)
<1>1. {"HealthProbing", "revert"} \subseteq Points
  BY DEF Points, UpdatePoints, RollbackPoints, CleanupPoints, WorkOf
<1>2. HostTypeOK'
  BY DEF StartNew, TypeOK, HostTypeOK, Stopped, VersionOrNone
<1>3. Moves(j, {"HealthProbing", "revert"})
  BY <1>1, GotoMoves DEF StartNew
<1>4. KeepsRecords(j)
  BY StateKept DEF StartNew
<1>5. Ordinary(j)
  BY <1>3 DEF StartNew, At, Ordinary, Moves, stateVars
<1> QED
  BY <1>2, <1>3, <1>4, <1>5 DEF Effect, Moves, HasBackup

\* Only a healthy probe leads to the commit.
LEMMA ProbeHealthEffect ==
  ASSUME NEW j \in Jobs, TypeOK, Grounded, jobs[j].status # "Absent",
         ProbeHealth(j)
  PROVE  Effect(j, {"commit", "revert"}) /\ Ordinary(j)
<1>1. {"commit", "revert"} \subseteq Points
  BY DEF Points, UpdatePoints, RollbackPoints, CleanupPoints, WorkOf
<1>2. HostTypeOK'
  BY HostKept DEF ProbeHealth
<1>3. Moves(j, {"commit", "revert"})
  BY <1>1, GotoMoves DEF ProbeHealth
<1>4. KeepsRecords(j)
  BY StateKept DEF ProbeHealth
<1>5. Ordinary(j)
  BY <1>3 DEF ProbeHealth, At, Ordinary, Moves, stateVars
<1> QED
  BY <1>2, <1>3, <1>4, <1>5 DEF Effect, Moves, HasBackup

\* Success is one write of the job file.
LEMMA CommitEffect ==
  ASSUME NEW j \in Jobs, TypeOK, Grounded, jobs[j].status # "Absent",
         Commit(j)
  PROVE  Effect(j, {"commitVersion"})
<1>1. {"commitVersion"} \subseteq Points
  BY DEF Points, UpdatePoints, RollbackPoints, CleanupPoints, WorkOf
<1>2. HostTypeOK'
  BY HostKept DEF Commit
<1>3. Moves(j, {"commitVersion"})
  BY <1>1, GotoMoves DEF Commit
<1> DEFINE record ==
      [jobs[j] EXCEPT !.status = "Succeeded",
           !.last = "Finalize", !.work = "Finalize", !.ok = TRUE]
<1>4. KeepsRecords(j)
  <2>1. record \in JobRecord /\ record.status # "Absent"
    BY JobTyped DEF JobRecord, Statuses, Phases, PostSwapPhases
  <2> QED
    BY <2>1, JobWritten DEF Commit
<1> QED
  BY <1>2, <1>3, <1>4 DEF Effect, Moves, HasBackup

\* updater.json follows the job's success.
LEMMA CommitVersionEffect ==
  ASSUME NEW j \in Jobs, TypeOK, Grounded, jobs[j].status # "Absent",
         CommitVersion(j)
  PROVE  Effect(j, {"clearMaint"}) /\ Ordinary(j)
<1>1. {"clearMaint"} \subseteq Points
  BY DEF Points, UpdatePoints, RollbackPoints, CleanupPoints, WorkOf
<1>2. HostTypeOK'
  BY HostKept DEF CommitVersion
<1>3. Moves(j, {"clearMaint"})
  BY <1>1, GotoMoves DEF CommitVersion
<1>4. KeepsRecords(j)
  BY DEF CommitVersion, KeepsRecords, TypeOK, StateTypeOK, WriteUpdater,
         JobRecord, ProcessTypeOK, Executor
<1>5. Ordinary(j)
  BY <1>3 DEF CommitVersion, At, Ordinary, Moves, WriteUpdater
<1> QED
  BY <1>2, <1>3, <1>4, <1>5 DEF Effect, Moves, HasBackup

\* A resumed update runs again, forwards or backwards.
LEMMA ResumeUpdateEffect ==
  ASSUME NEW j \in Jobs, TypeOK, Grounded, jobs[j].status # "Absent",
         ResumeUpdate(j)
  PROVE  Effect(j, {"reinstall", "revert", "recoveryFailed"}) /\ Ordinary(j)
<1>1. {"reinstall", "revert", "recoveryFailed"} \subseteq Points
  BY DEF Points, UpdatePoints, RollbackPoints, CleanupPoints, WorkOf
<1>2. HostTypeOK'
  BY HostKept DEF ResumeUpdate
<1>3. Moves(j, {"reinstall", "revert", "recoveryFailed"})
  <2> DEFINE next == IF exec[j].pc = "resumeForward" /\ report[j].ready
                     THEN "reinstall" ELSE "revert"
  <2>1. next \in {"reinstall", "revert"} /\ jobs[j].from \in VersionOrNone
    BY <1>1 DEF TypeOK, StateTypeOK, JobRecord
  <2>2. CASE exec' = [exec EXCEPT
                        ![j].pc = next, ![j].noted = FALSE, ![j].tag = jobs[j].from]
    <3> HIDE DEF next
    <3> QED
      BY <1>1, <2>1, <2>2 DEF Moves, TypeOK, ProcessTypeOK, Executor
  <2>3. CASE Goto(j, "recoveryFailed")
    BY <1>1, <2>3, GotoMoves
  <2> QED
    BY <2>2, <2>3 DEF ResumeUpdate
<1> DEFINE record ==
      [jobs[j] EXCEPT !.status = "Running"]
<1>4. KeepsRecords(j)
  <2>1. record \in JobRecord /\ record.status # "Absent"
    BY JobTyped DEF JobRecord, Statuses
  <2> QED
    BY <2>1, JobWritten DEF ResumeUpdate
<1>5. Ordinary(j)
  BY <1>3 DEF ResumeUpdate, At, Ordinary, Moves, WriteJob, TypeOK, StateTypeOK,
         JobRecord
<1> QED
  BY <1>2, <1>3, <1>4, <1>5 DEF Effect, Moves, HasBackup

\* The Compose file is installed a second time.
LEMMA ReinstallComposeEffect ==
  ASSUME NEW j \in Jobs, TypeOK, Grounded, jobs[j].status # "Absent",
         ReinstallCompose(j)
  PROVE  Effect(j, {"StartingNew", "revert"}) /\ Ordinary(j)
<1>1. {"StartingNew", "revert"} \subseteq Points
  BY DEF Points, UpdatePoints, RollbackPoints, CleanupPoints, WorkOf
<1>2. HostTypeOK'
  BY DEF ReinstallCompose, TypeOK, HostTypeOK, Stopped, VersionOrNone,
         StateTypeOK, JobRecord
<1>3. Moves(j, {"StartingNew", "revert"})
  BY <1>1, GotoMoves DEF ReinstallCompose
<1>4. KeepsRecords(j)
  BY StateKept DEF ReinstallCompose
<1>5. Ordinary(j)
  BY <1>3 DEF ReinstallCompose, At, Ordinary, Moves, stateVars
<1> QED
  BY <1>2, <1>3, <1>4, <1>5 DEF Effect, Moves, HasBackup

-----------------------------------------------------------------------------
(***************************************************************************)
(* A rollback.                                                             *)
(***************************************************************************)
\* The way back starts with the site closed.
LEMMA RevertEffect ==
  ASSUME NEW j \in Jobs, TypeOK, Grounded, jobs[j].status # "Absent",
         Revert(j)
  PROVE  Effect(j, {"plan"})
<1>1. {"plan"} \subseteq Points
  BY DEF Points, UpdatePoints, RollbackPoints, CleanupPoints, WorkOf
<1>2. HostTypeOK'
  BY HostKept DEF Revert
<1>3. Moves(j, {"plan"})
  BY <1>1, GotoMoves DEF Revert
<1>4. KeepsRecords(j)
  <2>1. CASE UNCHANGED stateVars
    BY <2>1, StateKept
  <2>2. CASE WriteMaint([active |-> TRUE, phase |-> "RollbackInProgress", job |-> j])
    BY <2>2 DEF WriteMaint, KeepsRecords, TypeOK, StateTypeOK,
                      MaintenanceRecord, Phases, RollbackPhases, JobOrNone
  <2> QED
    BY <2>1, <2>2 DEF Revert
<1> QED
  BY <1>2, <1>3, <1>4 DEF Effect, Moves, HasBackup

\* A rollback prepares its Compose runner.
LEMMA RollbackRunnerEffect ==
  ASSUME NEW j \in Jobs, TypeOK, Grounded, jobs[j].status # "Absent",
         RollbackRunner(j)
  PROVE  Effect(j, {"plan", "manualJob"}) /\ Ordinary(j)
<1>1. {"plan", "manualJob"} \subseteq Points
  BY DEF Points, UpdatePoints, RollbackPoints, CleanupPoints, WorkOf
<1>2. HostTypeOK'
  BY HostKept DEF RollbackRunner
<1>3. Moves(j, {"plan", "manualJob"})
  BY <1>1, GotoMoves DEF RollbackRunner
<1>4. KeepsRecords(j)
  BY StateKept DEF RollbackRunner
<1>5. Ordinary(j)
  BY <1>3 DEF RollbackRunner, At, Ordinary, Moves, stateVars
<1> QED
  BY <1>2, <1>3, <1>4, <1>5 DEF Effect, Moves, HasBackup

\* The Compose restore is planned before services stop.
LEMMA PlanComposeRestoreEffect ==
  ASSUME NEW j \in Jobs, TypeOK, Grounded, jobs[j].status # "Absent",
         PlanComposeRestore(j)
  PROVE  Effect(j, {"StopNew", "rollbackFailed"}) /\ Ordinary(j)
<1>1. {"StopNew", "rollbackFailed"} \subseteq Points
  BY DEF Points, UpdatePoints, RollbackPoints, CleanupPoints, WorkOf
<1>2. HostTypeOK'
  BY HostKept DEF PlanComposeRestore
<1>3. Moves(j, {"StopNew", "rollbackFailed"})
  BY <1>1, GotoMoves DEF PlanComposeRestore
<1>4. KeepsRecords(j)
  BY StateKept DEF PlanComposeRestore
<1>5. Ordinary(j)
  BY <1>3 DEF PlanComposeRestore, At, Ordinary, Moves, stateVars
<1> QED
  BY <1>2, <1>3, <1>4, <1>5 DEF Effect, Moves, HasBackup

\* The containers of the target stop.
LEMMA StopNewEffect ==
  ASSUME NEW j \in Jobs, TypeOK, Grounded, jobs[j].status # "Absent",
         StopNew(j)
  PROVE  Effect(j, {"restoreCompose", "rollbackFailed"}) /\ Ordinary(j)
<1>1. {"restoreCompose", "rollbackFailed"} \subseteq Points
  BY DEF Points, UpdatePoints, RollbackPoints, CleanupPoints, WorkOf
<1>2. HostTypeOK'
  BY DEF StopNew, TypeOK, HostTypeOK, Stopped, VersionOrNone
<1>3. Moves(j, {"restoreCompose", "rollbackFailed"})
  BY <1>1, GotoMoves DEF StopNew
<1>4. KeepsRecords(j)
  BY StateKept DEF StopNew
<1>5. Ordinary(j)
  BY <1>3 DEF StopNew, At, Ordinary, Moves, stateVars
<1> QED
  BY <1>2, <1>3, <1>4, <1>5 DEF Effect, Moves, HasBackup

\* The Compose file of the report comes back.
LEMMA RestoreComposeEffect ==
  ASSUME NEW j \in Jobs, TypeOK, Grounded, jobs[j].status # "Absent",
         RestoreCompose(j)
  PROVE  Effect(j, {"restoreProxyTag", "rollbackFailed"}) /\ Ordinary(j)
<1>1. {"restoreProxyTag", "rollbackFailed"} \subseteq Points
  BY DEF Points, UpdatePoints, RollbackPoints, CleanupPoints, WorkOf
<1>2. HostTypeOK'
  <2>1. SourceJob(j) \in Jobs
    BY DEF SourceJob, TypeOK, StateTypeOK, JobRecord, JobOrNone
  <2> QED
    BY <2>1 DEF RestoreCompose, TypeOK, HostTypeOK, StateTypeOK, Report
<1>3. Moves(j, {"restoreProxyTag", "rollbackFailed"})
  BY <1>1, GotoMoves DEF RestoreCompose
<1>4. KeepsRecords(j)
  BY StateKept DEF RestoreCompose
<1>5. Ordinary(j)
  BY <1>3 DEF RestoreCompose, At, Ordinary, Moves, stateVars
<1> QED
  BY <1>2, <1>3, <1>4, <1>5 DEF Effect, Moves, HasBackup

\* PROXY_TAG comes back, and the task picks the tag to go back to.
LEMMA RestoreProxyTagEffect ==
  ASSUME NEW j \in Jobs, TypeOK, Grounded, jobs[j].status # "Absent",
         RestoreProxyTag(j)
  PROVE  Effect(j, {"SwapTagBack", "rollbackFailed"}) /\ Ordinary(j)
<1>1. {"SwapTagBack", "rollbackFailed"} \subseteq Points
  BY DEF Points, UpdatePoints, RollbackPoints, CleanupPoints, WorkOf
<1>2. HostTypeOK'
  <2>1. report[SourceJob(j)].proxy \in VersionOrNone
    BY DEF SourceJob, TypeOK, StateTypeOK, JobRecord, JobOrNone, Report
  <2> QED
    BY <2>1 DEF RestoreProxyTag, TypeOK, HostTypeOK
<1>3. Moves(j, {"SwapTagBack", "rollbackFailed"})
  <2>1. PreviousTag(j) \in VersionOrNone
    BY DEF PreviousTag, SourceJob, TypeOK, StateTypeOK, ProcessTypeOK, Executor,
           JobRecord, JobOrNone, Snapshot
  <2>2. CASE exec' = [exec EXCEPT ![j].pc = "SwapTagBack", ![j].noted = FALSE,
                                  ![j].tag = PreviousTag(j)]
    BY <1>1, <2>1, <2>2 DEF Moves, TypeOK, ProcessTypeOK, Executor
  <2>3. CASE Goto(j, "rollbackFailed")
    BY <1>1, <2>3, GotoMoves
  <2> QED
    BY <2>2, <2>3 DEF RestoreProxyTag
<1>4. KeepsRecords(j)
  BY StateKept DEF RestoreProxyTag
<1>5. Ordinary(j)
  BY <1>3 DEF RestoreProxyTag, At, Ordinary, Moves, stateVars
<1> QED
  BY <1>2, <1>3, <1>4, <1>5 DEF Effect, Moves, HasBackup

\* MYRIAD_TAG comes back.
LEMMA SwapTagBackEffect ==
  ASSUME NEW j \in Jobs, TypeOK, Grounded, jobs[j].status # "Absent",
         SwapTagBack(j)
  PROVE  Effect(j, {"RestoreSnapshot", "rollbackFailed"}) /\ Ordinary(j)
<1>1. {"RestoreSnapshot", "rollbackFailed"} \subseteq Points
  BY DEF Points, UpdatePoints, RollbackPoints, CleanupPoints, WorkOf
<1>2. HostTypeOK'
  BY DEF SwapTagBack, TypeOK, HostTypeOK, Stopped, VersionOrNone,
         ProcessTypeOK, Executor
<1>3. Moves(j, {"RestoreSnapshot", "rollbackFailed"})
  BY <1>1, GotoMoves DEF SwapTagBack
<1>4. KeepsRecords(j)
  BY StateKept DEF SwapTagBack
<1>5. Ordinary(j)
  BY <1>3 DEF SwapTagBack, At, Ordinary, Moves, stateVars
<1> QED
  BY <1>2, <1>3, <1>4, <1>5 DEF Effect, Moves, HasBackup

\* Nothing to restore.
LEMMA SkipRestoreEffect ==
  ASSUME NEW j \in Jobs, TypeOK, Grounded, jobs[j].status # "Absent",
         SkipRestore(j)
  PROVE  Effect(j, {"StartOld"}) /\ Ordinary(j)
<1>1. {"StartOld"} \subseteq Points
  BY DEF Points, UpdatePoints, RollbackPoints, CleanupPoints, WorkOf
<1>2. HostTypeOK'
  BY HostKept DEF SkipRestore
<1>3. Moves(j, {"StartOld"})
  BY <1>1, GotoMoves DEF SkipRestore
<1>4. KeepsRecords(j)
  BY StateKept DEF SkipRestore
<1>5. Ordinary(j)
  BY <1>3 DEF SkipRestore, At, Ordinary, Moves, stateVars
<1> QED
  BY <1>2, <1>3, <1>4, <1>5 DEF Effect, Moves, HasBackup

\* Postgres stops before pgdata is replaced, and there is a snapshot to copy.
LEMMA StopForRestoreEffect ==
  ASSUME NEW j \in Jobs, TypeOK, Grounded, jobs[j].status # "Absent",
         StopForRestore(j)
  PROVE  Effect(j, {"wipe", "rollbackFailed"}) /\ Ordinary(j)
<1>1. {"wipe", "rollbackFailed"} \subseteq Points
  BY DEF Points, UpdatePoints, RollbackPoints, CleanupPoints, WorkOf
<1>2. HostTypeOK'
  BY DEF StopForRestore, TypeOK, HostTypeOK, Stopped, VersionOrNone
<1>3. Moves(j, {"wipe", "rollbackFailed"})
  BY <1>1, GotoMoves DEF StopForRestore
<1>4. KeepsRecords(j)
  BY StateKept DEF StopForRestore
<1>5. HasBackup(j)'
  BY DEF StopForRestore, SkipsRestore, stateVars, HasBackup
<1>6. Ordinary(j)
  BY <1>3 DEF StopForRestore, At, Ordinary, Moves, stateVars
<1> QED
  BY <1>2, <1>3, <1>4, <1>5, <1>6 DEF Effect, Moves, HasBackup

\* The wipe starts only with a snapshot to copy back.
LEMMA WipeDataEffect ==
  ASSUME NEW j \in Jobs, TypeOK, Grounded, jobs[j].status # "Absent",
         WipeData(j)
  PROVE  Effect(j, {"refill", "rollbackFailed"}) /\ Ordinary(j)
<1>1. {"refill", "rollbackFailed"} \subseteq Points
  BY DEF Points, UpdatePoints, RollbackPoints, CleanupPoints, WorkOf
<1>2. HostTypeOK'
  BY MaxVersionAssumption
     DEF WipeData, TypeOK, HostTypeOK, Schemas, Damaged
<1>3. Moves(j, {"refill", "rollbackFailed"})
  BY <1>1, GotoMoves DEF WipeData
<1>4. KeepsRecords(j)
  BY StateKept DEF WipeData
<1>5. HasBackup(j)'
  BY DEF WipeData, At, Grounded, stateVars, HasBackup
<1>6. Ordinary(j)
  BY <1>3 DEF WipeData, At, Ordinary, Moves, stateVars
<1> QED
  BY <1>2, <1>3, <1>4, <1>5, <1>6 DEF Effect, Moves, HasBackup

\* The copy ends the restore.
LEMMA RefillDataEffect ==
  ASSUME NEW j \in Jobs, TypeOK, Grounded, jobs[j].status # "Absent",
         RefillData(j)
  PROVE  Effect(j, {"startRestored", "rollbackFailed"}) /\ Ordinary(j)
<1>1. {"startRestored", "rollbackFailed"} \subseteq Points
  BY DEF Points, UpdatePoints, RollbackPoints, CleanupPoints, WorkOf
<1>2. HostTypeOK'
  <2>1. jobs[j].snap \in Jobs
    BY DEF RefillData, At, Grounded, HasBackup, TypeOK, StateTypeOK, JobRecord, JobOrNone
  <2> QED
    BY <2>1 DEF RefillData, TypeOK, HostTypeOK, StateTypeOK, Snapshot
<1>3. Moves(j, {"startRestored", "rollbackFailed"})
  BY <1>1, GotoMoves DEF RefillData
<1>4. KeepsRecords(j)
  BY StateKept DEF RefillData
<1>5. Ordinary(j)
  BY <1>3 DEF RefillData, At, Ordinary, Moves, stateVars
<1> QED
  BY <1>2, <1>3, <1>4, <1>5 DEF Effect, Moves, HasBackup

\* Postgres starts on what was restored.
LEMMA StartRestoredEffect ==
  ASSUME NEW j \in Jobs, TypeOK, Grounded, jobs[j].status # "Absent",
         StartRestored(j)
  PROVE  Effect(j, {"StartOld", "rollbackFailed"}) /\ Ordinary(j)
<1>1. {"StartOld", "rollbackFailed"} \subseteq Points
  BY DEF Points, UpdatePoints, RollbackPoints, CleanupPoints, WorkOf
<1>2. HostTypeOK'
  BY DEF StartRestored, TypeOK, HostTypeOK, Stopped, VersionOrNone
<1>3. Moves(j, {"StartOld", "rollbackFailed"})
  BY <1>1, GotoMoves DEF StartRestored
<1>4. KeepsRecords(j)
  BY StateKept DEF StartRestored
<1>5. Ordinary(j)
  BY <1>3 DEF StartRestored, At, Ordinary, Moves, stateVars
<1> QED
  BY <1>2, <1>3, <1>4, <1>5 DEF Effect, Moves, HasBackup

\* The containers of the old release start, or some of them.
LEMMA StartOldEffect ==
  ASSUME NEW j \in Jobs, TypeOK, Grounded, jobs[j].status # "Absent",
         StartOld(j)
  PROVE  Effect(j, {"oldStarted", "rollbackFailed"}) /\ Ordinary(j)
<1>1. {"oldStarted", "rollbackFailed"} \subseteq Points
  BY DEF Points, UpdatePoints, RollbackPoints, CleanupPoints, WorkOf
<1>2. HostTypeOK'
  BY DEF StartOld, TypeOK, HostTypeOK, Stopped, VersionOrNone
<1>3. Moves(j, {"oldStarted", "rollbackFailed"})
  BY <1>1, GotoMoves DEF StartOld
<1>4. KeepsRecords(j)
  BY StateKept DEF StartOld
<1>5. Ordinary(j)
  BY <1>3 DEF StartOld, At, Ordinary, Moves, stateVars
<1> QED
  BY <1>2, <1>3, <1>4, <1>5 DEF Effect, Moves, HasBackup

\* The last step of a rollback is marked ok.
LEMMA OldStartedEffect ==
  ASSUME NEW j \in Jobs, TypeOK, Grounded, jobs[j].status # "Absent",
         OldStarted(j)
  PROVE  Effect(j, {"oldHealth"}) /\ Ordinary(j)
<1>1. {"oldHealth"} \subseteq Points
  BY DEF Points, UpdatePoints, RollbackPoints, CleanupPoints, WorkOf
<1>2. HostTypeOK'
  BY HostKept DEF OldStarted
<1>3. Moves(j, {"oldHealth"})
  BY <1>1, GotoMoves DEF OldStarted
<1> DEFINE record ==
      [jobs[j] EXCEPT !.ok = TRUE]
<1>4. KeepsRecords(j)
  <2>1. record \in JobRecord /\ record.status # "Absent"
    BY JobTyped DEF JobRecord
  <2> QED
    BY <2>1, JobWritten DEF OldStarted
<1>5. Ordinary(j)
  BY <1>3 DEF OldStarted, At, Ordinary, Moves, WriteJob, TypeOK, StateTypeOK,
         JobRecord
<1> QED
  BY <1>2, <1>3, <1>4, <1>5 DEF Effect, Moves, HasBackup

\* The old release is probed.
LEMMA OldHealthEffect ==
  ASSUME NEW j \in Jobs, TypeOK, Grounded, jobs[j].status # "Absent",
         OldHealth(j)
  PROVE  Effect(j, {"recordRestored", "rollbackFailed"}) /\ Ordinary(j)
<1>1. {"recordRestored", "rollbackFailed"} \subseteq Points
  BY DEF Points, UpdatePoints, RollbackPoints, CleanupPoints, WorkOf
<1>2. HostTypeOK'
  BY HostKept DEF OldHealth
<1>3. Moves(j, {"recordRestored", "rollbackFailed"})
  BY <1>1, GotoMoves DEF OldHealth
<1>4. KeepsRecords(j)
  BY StateKept DEF OldHealth
<1>5. Ordinary(j)
  BY <1>3 DEF OldHealth, At, Ordinary, Moves, stateVars
<1> QED
  BY <1>2, <1>3, <1>4, <1>5 DEF Effect, Moves, HasBackup

\* updater.json takes the restored tag.
LEMMA RecordRestoredEffect ==
  ASSUME NEW j \in Jobs, TypeOK, Grounded, jobs[j].status # "Absent",
         RecordRestored(j)
  PROVE  Effect(j, {"rollbackDone"}) /\ Ordinary(j)
<1>1. {"rollbackDone"} \subseteq Points
  BY DEF Points, UpdatePoints, RollbackPoints, CleanupPoints, WorkOf
<1>2. HostTypeOK'
  BY HostKept DEF RecordRestored
<1>3. Moves(j, {"rollbackDone"})
  BY <1>1, GotoMoves DEF RecordRestored
<1>4. KeepsRecords(j)
  BY DEF RecordRestored, KeepsRecords, TypeOK, StateTypeOK, WriteUpdater,
         JobRecord, ProcessTypeOK, Executor
<1>5. Ordinary(j)
  BY <1>3 DEF RecordRestored, At, Ordinary, Moves, WriteUpdater
<1> QED
  BY <1>2, <1>3, <1>4, <1>5 DEF Effect, Moves, HasBackup

\* The job of a finished rollback is final.
LEMMA RollbackDoneEffect ==
  ASSUME NEW j \in Jobs, TypeOK, Grounded, jobs[j].status # "Absent",
         RollbackDone(j)
  PROVE  Effect(j, {"clearMaint"}) /\ Ordinary(j)
<1>1. {"clearMaint"} \subseteq Points
  BY DEF Points, UpdatePoints, RollbackPoints, CleanupPoints, WorkOf
<1>2. HostTypeOK'
  BY HostKept DEF RollbackDone
<1>3. Moves(j, {"clearMaint"})
  BY <1>1, GotoMoves DEF RollbackDone
<1> DEFINE record ==
      IF jobs[j].kind = "Update"
         THEN [jobs[j] EXCEPT !.status = "Failed"]
         ELSE [jobs[j] EXCEPT !.status = "Succeeded", !.to = exec[j].tag]
<1>4. KeepsRecords(j)
  <2>1. record \in JobRecord /\ record.status # "Absent"
    BY JobTyped DEF JobRecord, Statuses
  <2> QED
    BY <2>1, JobWritten DEF RollbackDone
<1>5. Ordinary(j)
  BY <1>3 DEF RollbackDone, At, Ordinary, Moves, WriteJob, TypeOK, StateTypeOK,
         JobRecord
<1> QED
  BY <1>2, <1>3, <1>4, <1>5 DEF Effect, Moves, HasBackup

\* A failed rollback is left to an operator.
LEMMA RollbackFailedEffect ==
  ASSUME NEW j \in Jobs, TypeOK, Grounded, jobs[j].status # "Absent",
         RollbackFailed(j)
  PROVE  Effect(j, {"manualJob"}) /\ Ordinary(j)
<1>1. {"manualJob"} \subseteq Points
  BY DEF Points, UpdatePoints, RollbackPoints, CleanupPoints, WorkOf
<1>2. HostTypeOK'
  BY HostKept DEF RollbackFailed
<1>3. Moves(j, {"manualJob"})
  BY <1>1, GotoMoves DEF RollbackFailed
<1>4. KeepsRecords(j)
  <2>1. CASE UNCHANGED stateVars
    BY <2>1, StateKept
  <2>2. CASE WriteJob(j, [jobs[j] EXCEPT !.ok = FALSE])
    <3>1. /\ [jobs[j] EXCEPT !.ok = FALSE] \in JobRecord
          /\ [jobs[j] EXCEPT !.ok = FALSE].status # "Absent"
      BY DEF TypeOK, StateTypeOK, JobRecord
    <3> QED
      BY <2>2, <3>1, JobWritten
  <2> QED
    BY <2>1, <2>2 DEF RollbackFailed
<1>5. Ordinary(j)
  BY <1>3 DEF RollbackFailed, At, Ordinary, Moves, WriteJob, stateVars, TypeOK,
         StateTypeOK, JobRecord
<1> QED
  BY <1>2, <1>3, <1>4, <1>5 DEF Effect, Moves, HasBackup

-----------------------------------------------------------------------------
(***************************************************************************)
(* Failures before the switch, and the end of a job.                       *)
(***************************************************************************)
\* A failure before the switch brings the Compose file back.
LEMMA PreSwapComposeEffect ==
  ASSUME NEW j \in Jobs, TypeOK, Grounded, jobs[j].status # "Absent",
         PreSwapCompose(j)
  PROVE  /\ Effect(j, {"preSwapUp", "recoveryFailed", "manualJob"})
         /\ Ordinary(j)
<1>1. {"preSwapUp", "recoveryFailed", "manualJob"} \subseteq Points
  BY DEF Points, UpdatePoints, RollbackPoints, CleanupPoints, WorkOf
<1>2. HostTypeOK'
  <2>1. RestoreOwner(j) \in JobOrNone
    BY DEF RestoreOwner, TypeOK, StateTypeOK, JobOrNone
  <2> QED
    BY <2>1 DEF PreSwapCompose, TypeOK, HostTypeOK, StateTypeOK, JobOrNone, Report
<1>3. Moves(j, {"preSwapUp", "recoveryFailed", "manualJob"})
  <2>1. CASE Goto(j, "preSwapUp")
    BY <1>1, <2>1, GotoMoves
  <2>2. CASE Goto(j, AfterRestoreFailure(j))
    BY <1>1, <2>2, GotoMoves DEF AfterRestoreFailure
  <2> QED
    BY <2>1, <2>2 DEF PreSwapCompose
<1>4. KeepsRecords(j)
  BY StateKept DEF PreSwapCompose
<1>5. Ordinary(j)
  BY <1>3 DEF PreSwapCompose, At, Ordinary, Moves, stateVars
<1> QED
  BY <1>2, <1>3, <1>4, <1>5 DEF Effect, Moves, HasBackup

\* Then the services that were stopped.
LEMMA PreSwapUpEffect ==
  ASSUME NEW j \in Jobs, TypeOK, Grounded, jobs[j].status # "Absent",
         PreSwapUp(j)
  PROVE  /\ Effect(j, {"clearMaint", "finalizeFailed", "recoveryFailed", "manualJob"})
         /\ Ordinary(j)
<1>1. {"clearMaint", "finalizeFailed", "recoveryFailed", "manualJob"} \subseteq Points
  BY DEF Points, UpdatePoints, RollbackPoints, CleanupPoints, WorkOf
<1>2. HostTypeOK'
  BY DEF PreSwapUp, TypeOK, HostTypeOK, Stopped, VersionOrNone
<1>3. Moves(j, {"clearMaint", "finalizeFailed", "recoveryFailed", "manualJob"})
  <2>1. CASE Goto(j, IF exec[j].recovering THEN "clearMaint" ELSE "finalizeFailed")
    BY <1>1, <2>1, GotoMoves
  <2>2. CASE Goto(j, AfterRestoreFailure(j))
    BY <1>1, <2>2, GotoMoves DEF AfterRestoreFailure
  <2> QED
    BY <2>1, <2>2 DEF PreSwapUp
<1>4. KeepsRecords(j)
  BY StateKept DEF PreSwapUp
<1>5. Ordinary(j)
  BY <1>3 DEF PreSwapUp, At, Ordinary, Moves, stateVars
<1> QED
  BY <1>2, <1>3, <1>4, <1>5 DEF Effect, Moves, HasBackup

\* The job failed and the site can open.
LEMMA FinalizeFailedEffect ==
  ASSUME NEW j \in Jobs, TypeOK, Grounded, jobs[j].status # "Absent",
         FinalizeFailed(j)
  PROVE  Effect(j, {"clearMaint"}) /\ Ordinary(j)
<1>1. {"clearMaint"} \subseteq Points
  BY DEF Points, UpdatePoints, RollbackPoints, CleanupPoints, WorkOf
<1>2. HostTypeOK'
  BY HostKept DEF FinalizeFailed
<1>3. Moves(j, {"clearMaint"})
  BY <1>1, GotoMoves DEF FinalizeFailed
<1> DEFINE record ==
      [jobs[j] EXCEPT !.status = "Failed"]
<1>4. KeepsRecords(j)
  <2>1. record \in JobRecord /\ record.status # "Absent"
    BY JobTyped DEF JobRecord, Statuses
  <2> QED
    BY <2>1, JobWritten DEF FinalizeFailed
<1>5. Ordinary(j)
  BY <1>3 DEF FinalizeFailed, At, Ordinary, Moves, WriteJob, TypeOK,
         StateTypeOK, JobRecord
<1> QED
  BY <1>2, <1>3, <1>4, <1>5 DEF Effect, Moves, HasBackup

\* The job waits for an operator.
LEMMA ManualJobEffect ==
  ASSUME NEW j \in Jobs, TypeOK, Grounded, jobs[j].status # "Absent",
         ManualJob(j)
  PROVE  Effect(j, {"manualMaint"}) /\ Ordinary(j)
<1>1. {"manualMaint"} \subseteq Points
  BY DEF Points, UpdatePoints, RollbackPoints, CleanupPoints, WorkOf
<1>2. HostTypeOK'
  BY HostKept DEF ManualJob
<1>3. Moves(j, {"manualMaint"})
  BY <1>1, GotoMoves DEF ManualJob
<1> DEFINE record ==
      [jobs[j] EXCEPT !.status = "NeedsManual"]
<1>4. KeepsRecords(j)
  <2>1. record \in JobRecord /\ record.status # "Absent"
    BY JobTyped DEF JobRecord, Statuses
  <2> QED
    BY <2>1, JobWritten DEF ManualJob
<1>5. Ordinary(j)
  BY <1>3 DEF ManualJob, At, Ordinary, Moves, WriteJob, TypeOK, StateTypeOK,
         JobRecord
<1> QED
  BY <1>2, <1>3, <1>4, <1>5 DEF Effect, Moves, HasBackup

\* The site stays closed for an operator.
LEMMA ManualMaintEffect ==
  ASSUME NEW j \in Jobs, TypeOK, Grounded, jobs[j].status # "Absent",
         ManualMaint(j)
  PROVE  Effect(j, {"recoveryFailed", "idle"})
<1>1. {"recoveryFailed", "idle"} \subseteq Points
  BY DEF Points, UpdatePoints, RollbackPoints, CleanupPoints, WorkOf
<1>2. HostTypeOK'
  BY HostKept DEF ManualMaint
<1>3. Moves(j, {"recoveryFailed", "idle"})
  BY <1>1, GotoMoves, FinishMoves DEF ManualMaint
<1>4. KeepsRecords(j)
  BY DEF ManualMaint, KeepsRecords, TypeOK, StateTypeOK, WriteMaint,
         MaintenanceRecord, InactiveMaintenance, Phases, JobOrNone
<1> QED
  BY <1>2, <1>3, <1>4 DEF Effect, Moves, HasBackup

\* The end of a job opens the site.
LEMMA ClearMaintEffect ==
  ASSUME NEW j \in Jobs, TypeOK, Grounded, jobs[j].status # "Absent",
         ClearMaint(j)
  PROVE  Effect(j, {"clearCurrent"})
<1>1. {"clearCurrent"} \subseteq Points
  BY DEF Points, UpdatePoints, RollbackPoints, CleanupPoints, WorkOf
<1>2. HostTypeOK'
  BY HostKept DEF ClearMaint
<1>3. Moves(j, {"clearCurrent"})
  BY <1>1, GotoMoves DEF ClearMaint
<1>4. KeepsRecords(j)
  BY DEF ClearMaint, KeepsRecords, TypeOK, StateTypeOK, WriteMaint,
         MaintenanceRecord, InactiveMaintenance, Phases, JobOrNone
<1> QED
  BY <1>2, <1>3, <1>4 DEF Effect, Moves, HasBackup

\* The end of a job releases job.current.
LEMMA ClearCurrentEffect ==
  ASSUME NEW j \in Jobs, TypeOK, Grounded, jobs[j].status # "Absent",
         ClearCurrent(j)
  PROVE  Effect(j, {"idle"})
<1>1. {"idle"} \subseteq Points
  BY DEF Points, UpdatePoints, RollbackPoints, CleanupPoints, WorkOf
<1>2. HostTypeOK'
  BY HostKept DEF ClearCurrent
<1>3. Moves(j, {"idle"})
  BY <1>1, FinishMoves DEF ClearCurrent
<1>4. KeepsRecords(j)
  BY DEF ClearCurrent, KeepsRecords, TypeOK, StateTypeOK, SetCurrent, JobOrNone
<1> QED
  BY <1>2, <1>3, <1>4 DEF Effect, Moves, HasBackup

\* A failed recovery is reported only by the owner of job.current.
LEMMA RecoveryFailedEffect ==
  ASSUME NEW j \in Jobs, TypeOK, Grounded, jobs[j].status # "Absent",
         RecoveryFailed(j)
  PROVE  Effect(j, {"recoveryJob", "idle"}) /\ Ordinary(j)
<1>1. {"recoveryJob", "idle"} \subseteq Points
  BY DEF Points, UpdatePoints, RollbackPoints, CleanupPoints, WorkOf
<1>2. HostTypeOK'
  BY HostKept DEF RecoveryFailed
<1>3. Moves(j, {"recoveryJob", "idle"})
  BY <1>1, GotoMoves, FinishMoves DEF RecoveryFailed
<1>4. KeepsRecords(j)
  BY StateKept DEF RecoveryFailed
<1>5. Ordinary(j)
  BY <1>3 DEF RecoveryFailed, At, Ordinary, Moves, stateVars
<1> QED
  BY <1>2, <1>3, <1>4, <1>5 DEF Effect, Moves, HasBackup

\* The recovered job waits for an operator.
LEMMA RecoveryJobFailedEffect ==
  ASSUME NEW j \in Jobs, TypeOK, Grounded, jobs[j].status # "Absent",
         RecoveryJobFailed(j)
  PROVE  Effect(j, {"recoveryMaint"}) /\ Ordinary(j)
<1>1. {"recoveryMaint"} \subseteq Points
  BY DEF Points, UpdatePoints, RollbackPoints, CleanupPoints, WorkOf
<1>2. HostTypeOK'
  BY HostKept DEF RecoveryJobFailed
<1>3. Moves(j, {"recoveryMaint"})
  BY <1>1, GotoMoves DEF RecoveryJobFailed
<1> DEFINE record ==
      [jobs[j] EXCEPT !.status = "NeedsManual",
           !.last = "NeedsManual", !.ok = FALSE]
<1>4. KeepsRecords(j)
  <2>1. record \in JobRecord /\ record.status # "Absent"
    BY JobTyped DEF JobRecord, Statuses, Phases
  <2> QED
    BY <2>1, JobWritten DEF RecoveryJobFailed
<1>5. Ordinary(j)
  BY <1>3 DEF RecoveryJobFailed, At, Ordinary, Moves, WriteJob, TypeOK,
         StateTypeOK, JobRecord
<1> QED
  BY <1>2, <1>3, <1>4, <1>5 DEF Effect, Moves, HasBackup

\* The site stays closed for the recovered job.
LEMMA RecoveryMaintEffect ==
  ASSUME NEW j \in Jobs, TypeOK, Grounded, jobs[j].status # "Absent",
         RecoveryMaint(j)
  PROVE  Effect(j, {"recoveryCurrent"})
<1>1. {"recoveryCurrent"} \subseteq Points
  BY DEF Points, UpdatePoints, RollbackPoints, CleanupPoints, WorkOf
<1>2. HostTypeOK'
  BY HostKept DEF RecoveryMaint
<1>3. Moves(j, {"recoveryCurrent"})
  BY <1>1, GotoMoves DEF RecoveryMaint
<1>4. KeepsRecords(j)
  BY DEF RecoveryMaint, KeepsRecords, TypeOK, StateTypeOK, WriteMaint,
         MaintenanceRecord, InactiveMaintenance, Phases, JobOrNone
<1> QED
  BY <1>2, <1>3, <1>4 DEF Effect, Moves, HasBackup

\* job.current names the recovered job.
LEMMA RecoveryCurrentEffect ==
  ASSUME NEW j \in Jobs, TypeOK, Grounded, jobs[j].status # "Absent",
         RecoveryCurrent(j)
  PROVE  Effect(j, {"idle"})
<1>1. {"idle"} \subseteq Points
  BY DEF Points, UpdatePoints, RollbackPoints, CleanupPoints, WorkOf
<1>2. HostTypeOK'
  BY HostKept DEF RecoveryCurrent
<1>3. Moves(j, {"idle"})
  BY <1>1, FinishMoves DEF RecoveryCurrent
<1>4. KeepsRecords(j)
  BY DEF RecoveryCurrent, KeepsRecords, TypeOK, StateTypeOK, SetCurrent,
         JobOrNone
<1> QED
  BY <1>2, <1>3, <1>4 DEF Effect, Moves, HasBackup


\* What any step of the task running j has in common.
Advance(j) ==
  /\ HostTypeOK'
  /\ exec' \in [Jobs -> Executor]
  /\ \A i \in Jobs \ {j} : exec'[i] = exec[i]
  /\ KeepsRecords(j)
  /\ HasBackup(j)'

\* The initial state satisfies the invariant.
LEMMA InitSound ==
  ASSUME Init
  PROVE  Sound
<1>1. StateTypeOK
  BY MaxVersionAssumption
     DEF Init, StateTypeOK, JobRecord, NoRecord, Kinds, Statuses, Phases,
         JobOrNone, MaintenanceRecord, InactiveMaintenance, VersionOrNone,
         Versions, NoVersion, Report, NoReport, Snapshot, NoSnapshot, Schemas,
         Damaged
<1>2. HostTypeOK
  BY MaxVersionAssumption
     DEF Init, HostTypeOK, VersionOrNone, Versions, Schemas, Damaged
<1>3. ProcessTypeOK
  BY DEF Init, ProcessTypeOK, Executor, NoExecutor, Points, Scopes,
         VersionOrNone, JobOrNone, BootPoints
<1>4. BoundTypeOK
  BY BoundAssumption DEF Init, BoundTypeOK
<1>5. Grounded
  BY DEF Init, Grounded, HasFile, HasBackup, JobPoints, ExecutorRunning,
         NoExecutor, InactiveMaintenance
<1> QED
  BY <1>1, <1>2, <1>3, <1>4, <1>5 DEF Sound, TypeOK

-----------------------------------------------------------------------------
(***************************************************************************)
(* Steps of a task.                                                        *)
(***************************************************************************)
\* A failure is counted, never beyond the bound.
LEMMA FaultsCounted ==
  ASSUME TypeOK, Succeeds \/ Fails
  PROVE  faults' \in 0 .. MaxFaults
BY BoundAssumption DEF TypeOK, BoundTypeOK, Succeeds, Fails

\* Every phase has a point where its work starts.
LEMMA WorkStarts ==
  ASSUME NEW phase \in DOMAIN WorkOf
  PROVE  /\ WorkOf[phase] \in Points \ {"idle", "wipe", "refill"}
         /\ phase \in Phases
<1>1. WorkOf[phase] \in UpdatePoints \cup RollbackPoints
  BY DEF WorkOf, UpdatePoints, RollbackPoints
<1>2. WorkOf[phase] \notin {"idle", "wipe", "refill"}
  BY DEF WorkOf
<1>3. phase \in Phases
  BY DEF WorkOf, Phases, PreSwapPhases, PostSwapPhases, RollbackPhases
<1> QED
  BY <1>1, <1>2, <1>3 DEF Points

\* Only a running task takes a step, and it succeeds or fails.
LEMMA TaskRuns ==
  ASSUME NEW j \in Jobs, ExecutorStep(j)
  PROVE  ExecutorRunning(j) /\ (Succeeds \/ Fails)
<1>1. CASE NoteMaintenance(j) \/ NoteStep(j)
  BY <1>1 DEF NoteMaintenance, NoteStep, ExecutorRunning, WorkOf
<1>2. CASE UpdateStep(j)
  BY <1>2 DEF UpdateStep, ExecutorRunning, At, Preflight, BuildRunner, StopApps,
       SkipSnapshot, StopPostgres, CopySnapshot, StartPostgres, NoteSnapshot,
       InstallCompose, SwapTag, SwapProxyTag, Verify, StartNew, ProbeHealth,
       Commit, CommitVersion, ResumeUpdate, ReinstallCompose
<1>3. CASE RollbackStep(j)
  BY <1>3
     DEF RollbackStep, ExecutorRunning, At, Revert, RollbackRunner,
         PlanComposeRestore, StopNew, RestoreCompose, RestoreProxyTag,
         SwapTagBack, SkipRestore, StopForRestore, WipeData, RefillData,
         StartRestored, StartOld, OldStarted, OldHealth, RecordRestored,
         RollbackDone, RollbackFailed
<1>4. CASE CleanupStep(j)
  BY <1>4 DEF CleanupStep, ExecutorRunning, At, PreSwapCompose, PreSwapUp,
       FinalizeFailed, ManualJob, ManualMaint, ClearMaint, ClearCurrent,
       RecoveryFailed, RecoveryJobFailed, RecoveryMaint, RecoveryCurrent
<1> QED
  BY <1>1, <1>2, <1>3, <1>4 DEF ExecutorStep

\* PhaseRecorder::enter, first write.
LEMMA NoteMaintenanceAdvances ==
  ASSUME NEW j \in Jobs, TypeOK, Grounded, jobs[j].status # "Absent", NoteMaintenance(j)
  PROVE  Advance(j)
<1>1. HostTypeOK'
  BY HostKept DEF NoteMaintenance
<1>2. /\ exec' = [exec EXCEPT ![j].noted = TRUE]
      /\ exec' \in [Jobs -> Executor]
      /\ exec'[j].pc = exec[j].pc
      /\ \A i \in Jobs \ {j} : exec'[i] = exec[i]
  BY DEF NoteMaintenance, TypeOK, ProcessTypeOK, Executor
<1>3. exec[j].pc \in Phases /\ TakesSiteOffline(exec[j].pc) \in BOOLEAN
  BY WorkStarts DEF NoteMaintenance, TakesSiteOffline
<1>4. KeepsRecords(j)
  BY <1>3 DEF NoteMaintenance, WriteMaint, KeepsRecords, TypeOK, StateTypeOK,
              MaintenanceRecord, JobOrNone
<1>5. HasBackup(j)'
  BY <1>2 DEF NoteMaintenance, WriteMaint, Grounded, HasBackup
<1> QED
  BY <1>1, <1>2, <1>4, <1>5 DEF Advance

\* PhaseRecorder::enter, second write.
LEMMA NoteStepAdvances ==
  ASSUME NEW j \in Jobs, TypeOK, Grounded, jobs[j].status # "Absent", NoteStep(j)
  PROVE  Advance(j) /\ Moves(j, {WorkOf[exec[j].pc]})
<1> DEFINE record ==
      [jobs[j] EXCEPT
        !.last = exec[j].pc, !.work = exec[j].pc, !.ok = FALSE,
        !.status = IF @ = "Pending" THEN "Running" ELSE @]
<1>1. exec[j].pc \in Phases /\ WorkOf[exec[j].pc] \in Points \ {"wipe", "refill"}
  BY WorkStarts DEF NoteStep
<1>2. HostTypeOK'
  BY HostKept DEF NoteStep
<1>3. Moves(j, {WorkOf[exec[j].pc]})
  BY <1>1 DEF NoteStep, Goto, Moves, TypeOK, ProcessTypeOK, Executor
<1>4. record \in JobRecord /\ record.status # "Absent"
  BY <1>1 DEF TypeOK, StateTypeOK, JobRecord, Statuses
<1>5. KeepsRecords(j)
  BY <1>4, JobWritten DEF NoteStep
<1>6. HasBackup(j)'
  BY <1>1, <1>3 DEF Moves, HasBackup
<1> QED
  BY <1>2, <1>3, <1>5, <1>6 DEF Advance, Moves

\* Each step of a task advances it and disturbs no other.
LEMMA TaskAdvances ==
  ASSUME NEW j \in Jobs, TypeOK, Grounded, ExecutorStep(j)
  PROVE  Advance(j)
<1>1. jobs[j].status # "Absent"
  BY TaskRuns, NoJobAssumption DEF Grounded, HasFile
<1>2. CASE NoteMaintenance(j) \/ NoteStep(j)
  BY <1>1, <1>2, NoteMaintenanceAdvances, NoteStepAdvances
<1>3. CASE UpdateStep(j)
  BY <1>1, <1>3, PreflightEffect, BuildRunnerEffect, StopAppsEffect,
     SkipSnapshotEffect, StopPostgresEffect, CopySnapshotEffect,
     StartPostgresEffect, NoteSnapshotEffect, InstallComposeEffect,
     SwapTagEffect, SwapProxyTagEffect, VerifyEffect, StartNewEffect,
     ProbeHealthEffect, CommitEffect, CommitVersionEffect, ResumeUpdateEffect,
     ReinstallComposeEffect
     DEF UpdateStep, Effect, Moves, Advance
<1>4. CASE RollbackStep(j)
  BY <1>1, <1>4, RevertEffect, RollbackRunnerEffect, PlanComposeRestoreEffect,
     StopNewEffect, RestoreComposeEffect, RestoreProxyTagEffect,
     SwapTagBackEffect, SkipRestoreEffect, StopForRestoreEffect, WipeDataEffect,
     RefillDataEffect, StartRestoredEffect, StartOldEffect, OldStartedEffect,
     OldHealthEffect, RecordRestoredEffect, RollbackDoneEffect,
     RollbackFailedEffect
     DEF RollbackStep, Effect, Moves, Advance
<1>5. CASE CleanupStep(j)
  BY <1>1, <1>5, PreSwapComposeEffect, PreSwapUpEffect, FinalizeFailedEffect,
     ManualJobEffect, ManualMaintEffect, ClearMaintEffect, ClearCurrentEffect,
     RecoveryFailedEffect, RecoveryJobFailedEffect, RecoveryMaintEffect,
     RecoveryCurrentEffect
     DEF CleanupStep, Effect, Moves, Advance
<1> QED
  BY <1>2, <1>3, <1>4, <1>5 DEF ExecutorStep

\* A task that advances leaves every pointer at a job that has a file.
LEMMA TaskSound ==
  ASSUME NEW j \in Jobs, Sound, ExecutorStep(j)
  PROVE  Sound'
<1>1. Advance(j) /\ UNCHANGED <<loop, boot, probe, crashes, probes>>
  BY TaskAdvances DEF Sound, ExecutorStep
<1>2. faults' \in 0 .. MaxFaults
  BY TaskRuns, FaultsCounted DEF Sound
<1>3. TypeOK'
  BY <1>1, <1>2
     DEF Sound, TypeOK, ProcessTypeOK, BoundTypeOK, Advance, KeepsRecords
<1>4. \A id \in JobOrNone : HasFile(id) => HasFile(id)'
  BY <1>1 DEF Advance, KeepsRecords, HasFile, JobOrNone
<1>5. HasFile(j)' /\ HasFile(NoJob)'
  BY <1>1 DEF Advance, KeepsRecords, HasFile
<1>6. HasFile(current)' /\ HasFile(maint.job)'
  BY <1>1, <1>4, <1>5
     DEF Sound, Grounded, TypeOK, StateTypeOK, MaintenanceRecord, Advance,
         KeepsRecords, HasFile
<1>7. HasFile(loop)' /\ HasFile(boot.job)'
  BY <1>1, <1>4 DEF Sound, Grounded, TypeOK, ProcessTypeOK, HasFile
<1>8. \A i \in Jobs : ExecutorRunning(i)' => HasFile(i)'
  BY <1>1, <1>5
     DEF Sound, Grounded, Advance, KeepsRecords, ExecutorRunning, HasFile
<1>9. \A i \in Jobs : HasBackup(i)'
  BY <1>1 DEF Sound, Grounded, Advance, KeepsRecords, HasBackup
<1> QED
  BY <1>1, <1>3, <1>6, <1>7, <1>8, <1>9 DEF Sound, Grounded

-----------------------------------------------------------------------------
(***************************************************************************)
(* Requests, reconciliation, death and restart.                            *)
(***************************************************************************)
\* A step that changes no record, task or pointer is harmless.
LEMMA ProcessKeptSound ==
  ASSUME Sound, UNCHANGED <<jobs, current, maint, exec, loop, boot>>, TypeOK'
  PROVE  Sound'
BY DEF Sound, Grounded, HasFile, HasBackup, ExecutorRunning

\* A request writes the file of a job that has none, then names it.
LEMMA WriteSound ==
  ASSUME NEW j \in Jobs, NEW record \in JobRecord, Sound, Ready,
         record.status # "Absent", Write(j, record)
  PROVE  Sound'
<1>1. KeepsRecords(j)
  BY JobWritten DEF Sound, Write
<1>2. jobs' = [jobs EXCEPT ![j] = record] /\ UNCHANGED <<current, maint>>
  BY DEF Write, WriteJob
<1>3. loop' = j /\ UNCHANGED <<exec, boot, probe>>
  BY DEF Write
<1>4. TypeOK'
  BY <1>1, <1>3
     DEF Sound, TypeOK, HostTypeOK, ProcessTypeOK, BoundTypeOK, Write, hostVars,
         boundVars, KeepsRecords, JobOrNone
<1>5. \A id \in JobOrNone : HasFile(id) => HasFile(id)'
  BY <1>1 DEF KeepsRecords, HasFile, JobOrNone
<1>6. HasFile(j)'
  BY <1>1 DEF KeepsRecords, HasFile
<1>7. \A i \in Jobs : HasBackup(i)'
  <2>1. ~ExecutorRunning(j)
    BY NoJobAssumption DEF Sound, Grounded, HasFile, Write
  <2> QED
    BY <1>1, <1>3, <2>1
       DEF Sound, Grounded, HasBackup, KeepsRecords, ExecutorRunning
<1> QED
  BY <1>2, <1>3, <1>4, <1>5, <1>6, <1>7
     DEF Sound, Grounded, TypeOK, StateTypeOK, ProcessTypeOK, MaintenanceRecord,
         ExecutorRunning, JobOrNone, HasFile

\* A request for an update, with a target of any age.
LEMMA RequestUpdateSound ==
  ASSUME Sound, RequestAnyUpdate
  PROVE  Sound'
<1> PICK j \in Jobs, target \in Versions : RequestUpdate(j, target)
  BY DEF RequestAnyUpdate
<1>1. NewUpdate(curVer, target) \in JobRecord
  BY DEF NewUpdate, NoRecord, JobRecord, Kinds, Statuses, Phases, VersionOrNone,
         NoVersion, JobOrNone, Sound, TypeOK, StateTypeOK
<1>2. NewUpdate(curVer, target).status # "Absent"
  BY DEF NewUpdate, NoRecord
<1> QED
  BY <1>1, <1>2, WriteSound DEF RequestUpdate

\* A request for a rollback to any snapshot.
LEMMA RequestRollbackSound ==
  ASSUME Sound, RequestAnyRollback
  PROVE  Sound'
<1> PICK j \in Jobs, snapshot \in Jobs : RequestRollback(j, snapshot)
  BY DEF RequestAnyRollback
<1>1. NewRollback(curVer, snapshot) \in JobRecord
  BY DEF NewRollback, NoRecord, JobRecord, Kinds, Statuses, Phases,
         VersionOrNone, NoVersion, JobOrNone, Sound, TypeOK, StateTypeOK
<1>2. NewRollback(curVer, snapshot).status # "Absent"
  BY DEF NewRollback, NoRecord
<1> QED
  BY <1>1, <1>2, WriteSound DEF RequestRollback

\* Admission points job.current at the file just written.
LEMMA AdmitSound ==
  ASSUME Sound, Admit
  PROVE  Sound'
<1> DEFINE task == [NoExecutor EXCEPT !.pc = FirstPhase(jobs[loop])]
<1>1. loop \in Jobs /\ HasFile(loop)
  BY DEF Admit, Sound, Grounded, TypeOK, ProcessTypeOK, JobOrNone
<1>2. task \in Executor /\ task.pc \in {"Preflight", "RollbackInProgress"}
  BY DEF FirstPhase, NoExecutor, Executor, Points, WorkOf, Scopes, VersionOrNone
<1>3. exec' = [exec EXCEPT ![loop] = task]
  BY DEF Admit
<1>4. current' = loop /\ loop' = NoJob /\ UNCHANGED <<jobs, maint, curVer, report, snaps>>
  BY DEF Admit, SetCurrent
<1>5. UNCHANGED <<hostVars, boot, probe, boundVars>>
  BY DEF Admit
<1> HIDE DEF task
<1>6. TypeOK'
  BY <1>1, <1>2, <1>3, <1>4, <1>5
     DEF Sound, TypeOK, StateTypeOK, HostTypeOK, ProcessTypeOK, BoundTypeOK,
         hostVars, boundVars, JobOrNone
<1>7. \A i \in Jobs : (ExecutorRunning(i)' => HasFile(i)') /\ HasBackup(i)'
  BY <1>1, <1>2, <1>3, <1>4
     DEF Sound, TypeOK, ProcessTypeOK, Grounded, ExecutorRunning, HasFile,
         HasBackup
<1> QED
  BY <1>1, <1>4, <1>5, <1>6, <1>7 DEF Sound, Grounded, HasFile

\* A reconciliation touches updater.json alone.
LEMMA ReconcileSound ==
  ASSUME Sound, ReconcileProbe \/ ReconcileWrite
  PROVE  Sound'
<1>1. CASE ReconcileProbe
  <2>1. TypeOK'
    BY <1>1, BoundAssumption
       DEF ReconcileProbe, Sound, TypeOK, StateTypeOK, HostTypeOK,
           ProcessTypeOK, BoundTypeOK, stateVars, hostVars
  <2> QED
    BY <1>1, <2>1, ProcessKeptSound DEF ReconcileProbe, stateVars
<1>2. CASE ReconcileWrite
  <2>1. TypeOK'
    BY <1>2
       DEF ReconcileWrite, WriteUpdater, Sound, TypeOK, StateTypeOK, HostTypeOK,
           ProcessTypeOK, BoundTypeOK, hostVars, boundVars, VersionOrNone
  <2> QED
    BY <1>2, <2>1, ProcessKeptSound DEF ReconcileWrite, WriteUpdater
<1> QED
  BY <1>1, <1>2

\* A death loses the process and none of the records.
LEMMA CrashSound ==
  ASSUME Sound, Crash
  PROVE  Sound'
<1>1. TypeOK'
  BY BoundAssumption
     DEF Crash, Sound, TypeOK, StateTypeOK, HostTypeOK, ProcessTypeOK,
         BoundTypeOK, stateVars, hostVars, NoExecutor, Executor, Points, Scopes,
         VersionOrNone, NoVersion, JobOrNone, BootPoints
<1> QED
  BY <1>1 DEF Crash, Sound, Grounded, stateVars, HasFile, HasBackup, JobPoints,
              ExecutorRunning, NoExecutor

\* A migration changes the schema in pgdata.
LEMMA MigrateSound ==
  ASSUME Sound, Migrate
  PROVE  Sound'
<1>1. TypeOK'
  BY MaxVersionAssumption
     DEF Migrate, Sound, TypeOK, StateTypeOK, HostTypeOK, ProcessTypeOK,
         BoundTypeOK, stateVars, processVars, boundVars, VersionOrNone,
         Versions, NoVersion, Schemas, Damaged
<1> QED
  BY <1>1, ProcessKeptSound DEF Migrate, stateVars, processVars

-----------------------------------------------------------------------------
(***************************************************************************)
(* Startup recovery.                                                       *)
(***************************************************************************)
\* The plan names the job the records are about, and one whenever its first
\* step needs one.
LEMMA PlanIsTyped ==
  ASSUME Sound, NEW tag \in VersionOrNone
  PROVE  LET id == RecoveryJob(maint, current)
             plan == CrashPlan(maint, current, RecordOf(id), tag)
         IN  /\ plan.job = id /\ id \in JobOrNone /\ HasFile(id)
             /\ plan.rollback \in BOOLEAN
             /\ FirstBootPoint[plan.kind] \in BootPoints
             /\ FirstBootPoint[plan.kind] \in JobPoints => id # NoJob
<1> DEFINE id == RecoveryJob(maint, current)
           job == RecordOf(id)
           plan == CrashPlan(maint, current, job, tag)
<1>1. id \in JobOrNone /\ HasFile(id)
  BY DEF RecoveryJob, Sound, Grounded, TypeOK, StateTypeOK, MaintenanceRecord
<1>2. plan.job = id /\ plan.rollback \in BOOLEAN /\ plan.kind \in PlanKinds
  BY DEF CrashPlan, PlanKinds, IsRollback
<1>3. FirstBootPoint[plan.kind] \in BootPoints
  BY <1>2 DEF PlanKinds, FirstBootPoint, BootPoints
<1>4. id = NoJob => plan.kind \in {"Idle", "ClearOrphanMaintenance"}
  BY DEF CrashPlan, IsFailUnstarted, IsCommitted, IsRestored, RecordOf, NoRecord
<1>5. FirstBootPoint[plan.kind] \in JobPoints => id # NoJob
  BY <1>4 DEF FirstBootPoint, JobPoints
<1> QED
  BY <1>1, <1>2, <1>3, <1>5

\* The plan is typed and the records are as they were.
LEMMA BootPlanSound ==
  ASSUME Sound, BootPlan, UNCHANGED <<hostVars, loop, probe, crashes, probes>>
  PROVE  Sound'
<1> DEFINE id == RecoveryJob(maint, current)
           plan(tag) == CrashPlan(maint, current, RecordOf(id), tag)
<1> PICK tag \in {env.tag, NoVersion} :
      /\ boot' = [pc |-> FirstBootPoint[plan(tag).kind], job |-> plan(tag).job,
                  rollback |-> plan(tag).rollback]
      /\ Succeeds \/ Fails
  BY DEF BootPlan
<1>1. tag \in VersionOrNone
  BY DEF Sound, TypeOK, HostTypeOK, VersionOrNone
<1>2. /\ plan(tag).job = id /\ id \in JobOrNone /\ HasFile(id)
      /\ plan(tag).rollback \in BOOLEAN
      /\ FirstBootPoint[plan(tag).kind] \in BootPoints
      /\ FirstBootPoint[plan(tag).kind] \in JobPoints => id # NoJob
  BY <1>1, PlanIsTyped
<1> HIDE DEF id, plan
<1>3. boot' \in [pc : BootPoints, job : JobOrNone, rollback : BOOLEAN]
  BY <1>2
<1>4. UNCHANGED <<stateVars, exec>>
  BY DEF BootPlan
<1>5. TypeOK'
  BY <1>3, <1>4, FaultsCounted
     DEF Sound, TypeOK, StateTypeOK, HostTypeOK, ProcessTypeOK, BoundTypeOK,
         stateVars, hostVars
<1>6. HasFile(boot.job)' /\ (boot.pc \in JobPoints => boot.job # NoJob)'
  BY <1>2, <1>4 DEF HasFile, stateVars
<1> QED
  BY <1>4, <1>5, <1>6
     DEF Sound, Grounded, stateVars, HasFile, HasBackup, ExecutorRunning

\* A recovery step moves on to the next point of the same recovery.
LEMMA BootMoves ==
  ASSUME Sound, NEW pc \in BootPoints, BootGoto(pc),
         UNCHANGED <<hostVars, loop, probe, crashes, probes>>
  PROVE  HostTypeOK' /\ ProcessTypeOK' /\ BoundTypeOK'
         /\ boot'.job = boot.job /\ boot'.pc = pc /\ exec' = exec /\ loop' = loop
BY FaultsCounted
   DEF BootGoto, Sound, TypeOK, HostTypeOK, ProcessTypeOK, BoundTypeOK, hostVars

\* It writes at most the file of its own job, and points at no other.
LEMMA BootWriteSound ==
  ASSUME Sound, NEW pc \in BootPoints, BootGoto(pc),
         UNCHANGED <<hostVars, loop, probe, crashes, probes>>,
         pc \in JobPoints => boot.job # NoJob,
         StateTypeOK',
         \A i \in Jobs : /\ jobs'[i].status = "Absent" => jobs[i].status = "Absent"
                         /\ jobs'[i].snap = jobs[i].snap,
         current' \in {current, boot.job, NoJob},
         maint'.job \in {maint.job, boot.job, NoJob}
  PROVE  Sound'
<1>1. HostTypeOK' /\ ProcessTypeOK' /\ BoundTypeOK'
      /\ boot'.job = boot.job /\ boot'.pc = pc /\ exec' = exec /\ loop' = loop
  BY BootMoves
<1>2. \A id \in JobOrNone : HasFile(id) => HasFile(id)'
  BY DEF HasFile, JobOrNone
<1>3. /\ {current, maint.job, loop, boot.job, NoJob} \subseteq JobOrNone
      /\ HasFile(current) /\ HasFile(maint.job) /\ HasFile(loop) /\ HasFile(boot.job)
      /\ HasFile(NoJob)
  BY DEF Sound, Grounded, TypeOK, StateTypeOK, ProcessTypeOK, MaintenanceRecord,
         JobOrNone, HasFile
<1>4. HasFile(current)' /\ HasFile(maint.job)' /\ HasFile(loop)' /\ HasFile(boot.job)'
  BY <1>1, <1>2, <1>3 DEF HasFile
<1>5. \A i \in Jobs : (ExecutorRunning(i)' => HasFile(i)') /\ HasBackup(i)'
  BY <1>1, <1>2 DEF Sound, Grounded, ExecutorRunning, HasBackup, JobOrNone
<1> QED
  BY <1>1, <1>4, <1>5 DEF Sound, TypeOK, Grounded

\* The branches of recovery that write the job file.
LEMMA BootJobWritten ==
  ASSUME Sound, NEW pc \in BootPoints, BootGoto(pc), boot.job \in Jobs,
         UNCHANGED <<hostVars, loop, probe, crashes, probes>>,
         NEW record \in JobRecord, WriteJob(boot.job, record),
         record.status # "Absent", record.snap = jobs[boot.job].snap
  PROVE  Sound'
<1>1. KeepsRecords(boot.job)
  BY JobWritten DEF Sound
<1>2. UNCHANGED <<current, maint>> /\ jobs' = [jobs EXCEPT ![boot.job] = record]
  BY DEF WriteJob
<1>3. \A i \in Jobs : /\ jobs'[i].status = "Absent" => jobs[i].status = "Absent"
                      /\ jobs'[i].snap = jobs[i].snap
  BY <1>2 DEF Sound, TypeOK, StateTypeOK
<1> QED
  BY <1>1, <1>2, <1>3, NoJobAssumption, BootWriteSound DEF KeepsRecords

\* Each step of recovery keeps the records well-formed and grounded.
LEMMA BootStepSound ==
  ASSUME Sound, BootStep
  PROVE  Sound'
<1>1. /\ UNCHANGED <<hostVars, loop, probe, crashes, probes>>
      /\ boot.pc \in JobPoints => boot.job \in Jobs /\ jobs[boot.job].status # "Absent"
  BY DEF BootStep, Sound, Grounded, HasFile, TypeOK, ProcessTypeOK, JobOrNone
<1> DEFINE job == jobs[boot.job]
<1>2. CASE BootPlan
  BY <1>1, <1>2, BootPlanSound
<1>3. CASE BootFailUnstarted
  <2> DEFINE record == [job EXCEPT
        !.status = "Failed", !.last = "Preflight", !.work = "Preflight", !.ok = FALSE]
  <2>1. job \in JobRecord /\ job.status # "Absent"
    BY <1>1, <1>3 DEF BootFailUnstarted, JobPoints, Sound, TypeOK, StateTypeOK
  <2>2. record \in JobRecord /\ record.status # "Absent" /\ record.snap = job.snap
    <3> HIDE DEF job
    <3> QED
      BY <2>1 DEF JobRecord, Statuses, Phases, PreSwapPhases
  <2> QED
    BY <1>1, <1>3, <2>2, BootJobWritten
       DEF BootFailUnstarted, JobPoints, BootPoints
<1>4. CASE BootManualJob
  <2> DEFINE record == [job EXCEPT
        !.status = "NeedsManual", !.last = "NeedsManual", !.ok = FALSE]
  <2>1. job \in JobRecord /\ job.status # "Absent"
    BY <1>1, <1>4 DEF BootManualJob, JobPoints, Sound, TypeOK, StateTypeOK
  <2>2. record \in JobRecord /\ record.status # "Absent" /\ record.snap = job.snap
    <3> HIDE DEF job
    <3> QED
      BY <2>1 DEF JobRecord, Statuses, Phases
  <2> QED
    BY <1>1, <1>4, <2>2, BootJobWritten DEF BootManualJob, JobPoints, BootPoints
<1>5. CASE BootFailPreSwap
  <2> DEFINE record == [job EXCEPT
        !.status = IF @ \in {"Pending", "Running"} THEN "Failed" ELSE @]
  <2>1. job \in JobRecord /\ job.status # "Absent"
    BY <1>1, <1>5 DEF BootFailPreSwap, JobPoints, Sound, TypeOK, StateTypeOK
  <2>2. record \in JobRecord /\ record.status # "Absent" /\ record.snap = job.snap
    <3> HIDE DEF job
    <3> QED
      BY <2>1 DEF JobRecord, Statuses
  <2> QED
    BY <1>1, <1>5, <2>2, BootJobWritten
       DEF BootFailPreSwap, JobPoints, BootPoints
<1>6. CASE BootCommitVersion
  <2>1. StateTypeOK' /\ UNCHANGED <<jobs, current, maint>>
    BY <1>1, <1>6 DEF BootCommitVersion, WriteUpdater, JobPoints, Sound, TypeOK,
                      StateTypeOK, JobRecord
  <2> QED
    BY <1>1, <1>6, <2>1, BootWriteSound
       DEF BootCommitVersion, JobPoints, BootPoints
<1>7. CASE BootClearMaint \/ BootManualMaint \/ BootReviveMaint \/ BootFreeze
  <2>1. maint \in MaintenanceRecord /\ boot.job \in JobOrNone
    BY DEF Sound, TypeOK, StateTypeOK, ProcessTypeOK
  <2>2. /\ maint' \in MaintenanceRecord
        /\ maint'.job \in {maint.job, boot.job, NoJob}
    <3>1. CASE BootClearMaint
      BY <2>1, <3>1
         DEF BootClearMaint, WriteMaint, InactiveMaintenance, MaintenanceRecord,
             Phases, JobOrNone
    <3>2. CASE BootManualMaint
      BY <2>1, <3>2 DEF BootManualMaint, WriteMaint, MaintenanceRecord,
                      Phases, JobOrNone
    <3>3. CASE BootReviveMaint
      BY <2>1, <3>3 DEF BootReviveMaint, WriteMaint, MaintenanceRecord,
                      Phases, JobOrNone
    <3>4. CASE BootFreeze
      BY <2>1, <3>4 DEF BootFreeze, WriteMaint, MaintenanceRecord,
                      Phases, JobOrNone
    <3> QED
      BY <1>7, <3>1, <3>2, <3>3, <3>4
  <2>3. StateTypeOK' /\ UNCHANGED <<jobs, current>>
    BY <1>7, <2>2
       DEF BootClearMaint, BootManualMaint, BootReviveMaint, BootFreeze,
           WriteMaint, Sound, TypeOK, StateTypeOK
  <2> QED
    BY <1>1, <1>7, <2>2, <2>3, BootWriteSound, NoJobAssumption
       DEF BootClearMaint, BootManualMaint, BootReviveMaint, BootFreeze,
           JobPoints, BootPoints
<1>8. CASE BootClearCurrent \/ BootManualCurrent \/ BootReviveCurrent
  <2>1. /\ StateTypeOK' /\ UNCHANGED <<jobs, maint>>
        /\ current' \in {current, boot.job, NoJob}
    BY <1>1, <1>8
       DEF BootClearCurrent, BootManualCurrent, BootReviveCurrent, SetCurrent,
           JobOrNone, JobPoints, Sound, TypeOK, StateTypeOK
  <2> QED
    BY <1>1, <1>8, <2>1, BootWriteSound, NoJobAssumption
       DEF BootClearCurrent, BootManualCurrent, BootReviveCurrent, JobPoints,
           BootPoints
<1>9. CASE Serve
  <2>1. /\ UNCHANGED <<stateVars, faults>> /\ boot' = [boot EXCEPT !.pc = "up"]
    BY <1>9 DEF Serve, Succeeds
  <2>2. \/ UNCHANGED exec
        \/ \E id \in Jobs, pc \in Points \ {"wipe", "refill"}, scope \in Scopes :
             HasFile(id) /\ Spawn(id, pc, scope)
    <3>1. CASE boot.pc = "serve"
      BY <1>9, <3>1 DEF Serve
    <3>2. CASE boot.pc = "serveRestore"
      <4> DEFINE id == IF current # NoJob THEN current ELSE boot.job
      <4>1. id \in Jobs /\ HasFile(id) /\ "preSwapCompose" \in Points
            /\ "AppAndPostgres" \in Scopes
        BY <1>1, <3>2
           DEF JobPoints, Sound, Grounded, HasFile, TypeOK, StateTypeOK,
               JobOrNone, Points, CleanupPoints, Scopes
      <4>2. Spawn(id, "preSwapCompose", "AppAndPostgres")
        BY <1>9, <3>2 DEF Serve
      <4> QED
        BY <4>1, <4>2
    <3>3. CASE boot.pc = "serveResume"
      <4> DEFINE point == ResumePoint(jobs[boot.job], boot.rollback)
      <4>1. boot.job \in Jobs /\ HasFile(boot.job) /\ "None" \in Scopes
        BY <1>1, <3>3 DEF JobPoints, HasFile, Scopes
      <4>2. point \in {"RollbackInProgress", "resumeBack", "resumeForward"}
        BY DEF ResumePoint
      <4>3. point \in Points \ {"wipe", "refill"}
        BY <4>2 DEF Points, UpdatePoints, WorkOf
      <4>4. Spawn(boot.job, point, "None")
        BY <1>9, <3>3 DEF Serve
      <4> QED
        BY <4>1, <4>3, <4>4
    <3> QED
      BY <1>9, <3>1, <3>2, <3>3 DEF Serve
  <2>3. exec' \in [Jobs -> Executor]
    <3>1. exec \in [Jobs -> Executor]
      BY <1>1 DEF Sound, TypeOK, ProcessTypeOK
    <3>2. CASE UNCHANGED exec
      BY <3>1, <3>2
    <3>3. ASSUME NEW id \in Jobs, NEW pc \in Points, NEW scope \in Scopes,
                 Spawn(id, pc, scope)
          PROVE  exec' \in [Jobs -> Executor]
      <4>1. [NoExecutor EXCEPT !.pc = pc, !.scope = scope, !.recovering = TRUE]
              \in Executor
        BY DEF NoExecutor, Executor, VersionOrNone
      <4> QED
        BY <3>1, <3>3, <4>1 DEF Spawn
    <3> QED
      BY <2>2, <3>2, <3>3
  <2>4. TypeOK'
    BY <1>1, <2>1, <2>3
       DEF Sound, TypeOK, StateTypeOK, HostTypeOK, ProcessTypeOK, BoundTypeOK,
           stateVars, hostVars, BootPoints
  <2>5. \A i \in Jobs : (ExecutorRunning(i)' => HasFile(i)') /\ HasBackup(i)'
    BY <2>1, <2>2
       DEF Spawn, NoExecutor, Sound, Grounded, TypeOK, ProcessTypeOK, stateVars,
           ExecutorRunning, HasFile, HasBackup
  <2> QED
    BY <1>1, <2>1, <2>4, <2>5
       DEF Sound, Grounded, TypeOK, ProcessTypeOK, HasFile, JobPoints, stateVars
<1> QED
  BY <1>2, <1>3, <1>4, <1>5, <1>6, <1>7, <1>8, <1>9 DEF BootStep

-----------------------------------------------------------------------------
(***************************************************************************)
(* The theorems.                                                           *)
(***************************************************************************)
\* Every step of the updater, its operators and its host.
LEMMA NextSound ==
  ASSUME Sound, [Next]_vars
  PROVE  Sound'
<1>1. CASE \E j \in Jobs : ExecutorStep(j)
  BY <1>1, TaskSound
<1>2. CASE Admit \/ ReconcileProbe \/ ReconcileWrite \/ Crash \/ BootStep \/ Migrate
  BY <1>2, AdmitSound, ReconcileSound, CrashSound, BootStepSound, MigrateSound
<1>3. CASE Quiet \/ UNCHANGED vars
  <2>1. TypeOK'
    BY <1>3
       DEF Quiet, vars, stateVars, hostVars, processVars, boundVars, Sound,
           TypeOK, StateTypeOK, HostTypeOK, ProcessTypeOK, BoundTypeOK
  <2> QED
    BY <1>3, <2>1, ProcessKeptSound DEF Quiet, vars, stateVars, processVars
<1>4. CASE RequestAnyUpdate \/ RequestAnyRollback
  BY <1>4, RequestUpdateSound, RequestRollbackSound
<1> QED
  BY <1>1, <1>2, <1>3, <1>4 DEF Next, Internal

\* In every behaviour, operators and reconciliations at any time, the state
\* is well-formed and each pointer of the state directory has its file.
THEOREM UpdaterIsSound == Spec => []Sound
<1>1. Init => Sound
  BY InitSound
<1>2. Sound /\ [Next]_vars => Sound'
  BY NextSound
<1> QED
  BY <1>1, <1>2, PTL DEF Spec

\* The type invariant of the updater, for any number of jobs and releases.
THEOREM UpdaterTyped == Spec => []TypeOK
<1>1. Sound => TypeOK
  BY DEF Sound
<1> QED
  BY <1>1, UpdaterIsSound, PTL

\* A restarted updater can always read the job its records name.
THEOREM UpdaterNoDanglingJob == Spec => []NoDanglingJob
<1>1. Sound => NoDanglingJob
  BY DEF Sound, Grounded, HasFile, NoDanglingJob
<1> QED
  BY <1>1, UpdaterIsSound, PTL

-----------------------------------------------------------------------------
(***************************************************************************)
(* At most one task runs, and it is the one job.current names, when no     *)
(* rollback is requested beside a running task.  The argument is about the *)
(* records a death leaves behind: recovery picks the job maintenance.json  *)
(* names, but the process admits by job.current.                           *)
(***************************************************************************)
\* What the steps of a task and of recovery may assume.
Safe == Sound /\ Exclusive

\* The initial state has nothing to run.
LEMMA InitExclusive ==
  ASSUME Init
  PROVE  Exclusive
BY DEF Init, Exclusive, OwnerRuns, IdleRecords, OnlyFinishedBehind,
       OpenOnlyInPreflight, LeftBehind, Unstarted, Noted, RecoveryOwns,
       InactiveMaintenance, NoExecutor, ExecutorRunning, At

-----------------------------------------------------------------------------
(***************************************************************************)
(* Steps of the running task.                                              *)
(***************************************************************************)
\* The running task is alone, for the job job.current names.
LEMMA TaskIsAlone ==
  ASSUME Exclusive, NEW j \in Jobs, ExecutorRunning(j)
  PROVE  /\ current = j /\ boot.pc = "up" /\ loop = NoJob
         /\ \A i \in Jobs \ {j} : ~ExecutorRunning(i) /\ ~exec[i].noted
BY DEF Exclusive, OwnerRuns, Noted

\* It stays alone unless the step moves job.current to another job.
LEMMA TaskStaysAlone ==
  ASSUME Exclusive, NEW j \in Jobs, ExecutorRunning(j),
         \A i \in Jobs \ {j} : exec'[i] = exec[i],
         UNCHANGED <<loop, boot>>,
         ExecutorRunning(j)' => current' = j
  PROVE  OwnerRuns' /\ RecoveryOwns'
         /\ \A i \in Jobs \ {j} : ~ExecutorRunning(i)' /\ ~exec'[i].noted
<1>1. /\ current = j /\ boot.pc = "up" /\ loop = NoJob
      /\ \A i \in Jobs \ {j} : ~ExecutorRunning(i) /\ ~exec[i].noted
  BY TaskIsAlone
<1> QED
  BY <1>1 DEF OwnerRuns, RecoveryOwns, ExecutorRunning

\* A step that moves no pointer cannot let a second task run.
LEMMA OrdinaryKeeps ==
  ASSUME Safe, NEW j \in Jobs, ExecutorRunning(j), Advance(j), Ordinary(j),
         UNCHANGED <<loop, boot>>
  PROVE  Exclusive'
<1>1. /\ current = j /\ boot.pc = "up" /\ loop = NoJob
      /\ \A i \in Jobs \ {j} : ~ExecutorRunning(i) /\ ~exec[i].noted
  BY TaskIsAlone DEF Safe
<1>2. /\ OwnerRuns' /\ RecoveryOwns'
      /\ \A i \in Jobs \ {j} : ~ExecutorRunning(i)' /\ ~exec'[i].noted
  BY <1>1, TaskStaysAlone DEF Safe, Advance, Ordinary
<1>3. IdleRecords'
  BY <1>1, <1>2, NoJobAssumption DEF IdleRecords, At, Ordinary, ExecutorRunning
<1>4. OpenOnlyInPreflight'
  <2>1. LeftBehind' => LeftBehind /\ maint' = maint /\ maint.job \in Jobs
    BY DEF LeftBehind, Ordinary, Safe, Sound, TypeOK, StateTypeOK,
           MaintenanceRecord, JobOrNone
  <2>2. LeftBehind' => /\ maint'.phase = "Preflight"
                       /\ \/ jobs'[maint.job].work = "Preflight"
                          \/ NeverStarted(jobs'[maint.job])
    BY <2>1 DEF Safe, Exclusive, OpenOnlyInPreflight, Ordinary, At, Advance,
                KeepsRecords
  <2> QED
    BY <1>1, <1>2, <2>1, <2>2
       DEF Safe, Exclusive, OpenOnlyInPreflight, Ordinary, At, ExecutorRunning
<1>5. Unstarted'
  BY <1>1, <1>2 DEF Unstarted, At, Ordinary, ExecutorRunning
<1>6. Noted'
  BY <1>2 DEF Noted, Ordinary
<1> QED
  BY <1>2, <1>3, <1>4, <1>5, <1>6 DEF Exclusive

\* A step that leaves maintenance active, with the site closed, keeps it.
LEMMA ClosedKeeps ==
  ASSUME Safe, NEW j \in Jobs, ExecutorRunning(j), Advance(j),
         UNCHANGED <<loop, boot>>,
         maint'.active,
         ExecutorRunning(j)' => current' = j,
         current' # NoJob,
         ~exec'[j].noted, exec'[j].pc \notin {"Preflight", "clearCurrent"}
  PROVE  Exclusive'
<1>1. /\ current = j /\ boot.pc = "up" /\ loop = NoJob
      /\ \A i \in Jobs \ {j} : ~ExecutorRunning(i) /\ ~exec[i].noted
  BY TaskIsAlone DEF Safe
<1>2. /\ OwnerRuns' /\ RecoveryOwns'
      /\ \A i \in Jobs \ {j} : ~ExecutorRunning(i)' /\ ~exec'[i].noted
  BY <1>1, TaskStaysAlone DEF Safe, Advance
<1>3. IdleRecords'
  BY <1>1, <1>2 DEF IdleRecords, At, ExecutorRunning
<1>4. OpenOnlyInPreflight'
  BY DEF OpenOnlyInPreflight, LeftBehind
<1>5. Unstarted'
  BY <1>1, <1>2 DEF Unstarted, At, ExecutorRunning
<1>6. Noted'
  BY <1>2 DEF Noted
<1> QED
  BY <1>2, <1>3, <1>4, <1>5, <1>6 DEF Exclusive

\* maintenance.json takes the phase that begins: open only in a preflight.
LEMMA NoteMaintenanceKeeps ==
  ASSUME Safe, NEW j \in Jobs, NoteMaintenance(j), UNCHANGED <<loop, boot>>
  PROVE  Exclusive'
<1>1. ExecutorRunning(j) /\ exec[j].pc \in DOMAIN WorkOf
  BY DEF NoteMaintenance, ExecutorRunning, WorkOf
<1>2. /\ maint' = [active |-> TakesSiteOffline(exec[j].pc),
                   phase |-> exec[j].pc, job |-> j]
      /\ UNCHANGED <<jobs, current>>
      /\ exec'[j].pc = exec[j].pc
      /\ \A i \in Jobs \ {j} : exec'[i] = exec[i]
  BY DEF NoteMaintenance, WriteMaint, Safe, Sound, TypeOK, ProcessTypeOK,
         Executor
<1>3. ~maint'.active => At(j, "Preflight")
  BY <1>1, <1>2 DEF TakesSiteOffline, At, WorkOf
<1>4. /\ current = j /\ boot.pc = "up" /\ loop = NoJob
  BY <1>1, TaskIsAlone DEF Safe
<1>5. /\ OwnerRuns' /\ RecoveryOwns'
      /\ \A i \in Jobs \ {j} : ~ExecutorRunning(i)' /\ ~exec'[i].noted
  BY <1>1, <1>2, <1>4, TaskStaysAlone DEF Safe
<1>6. exec'[j].pc \notin {"probe", "commit", "clearCurrent"}
  BY <1>1, <1>2 DEF WorkOf
<1>7. IdleRecords'
  BY <1>2, <1>4, <1>5, <1>6, NoJobAssumption
     DEF IdleRecords, At, ExecutorRunning
<1>8. OpenOnlyInPreflight'
  BY <1>2, <1>3, <1>5, <1>6
     DEF OpenOnlyInPreflight, LeftBehind, At, ExecutorRunning, Safe, Exclusive,
         Unstarted
<1>9. Unstarted'
  BY <1>2, <1>4, <1>5 DEF Unstarted, At, ExecutorRunning, Safe, Exclusive
<1>10. Noted'
  BY <1>1, <1>2, <1>5 DEF Noted, ExecutorRunning
<1> QED
  BY <1>5, <1>7, <1>8, <1>9, <1>10 DEF Exclusive

\* The job's step follows its maintenance record.
LEMMA NoteStepKeeps ==
  ASSUME Safe, NEW j \in Jobs, NoteStep(j), UNCHANGED <<loop, boot>>
  PROVE  Exclusive'
<1>1. ExecutorRunning(j) /\ exec[j].pc \in DOMAIN WorkOf
  BY DEF NoteStep, ExecutorRunning, WorkOf
<1>2. /\ current = j /\ boot.pc = "up" /\ loop = NoJob
      /\ \A i \in Jobs \ {j} : ~ExecutorRunning(i) /\ ~exec[i].noted
  BY <1>1, TaskIsAlone DEF Safe
<1>3. /\ UNCHANGED <<current, maint>>
      /\ jobs'[j].work = exec[j].pc
  BY DEF NoteStep, WriteJob, Safe, Sound, TypeOK, StateTypeOK, JobRecord
<1>4. /\ maint.active = TakesSiteOffline(exec[j].pc)
      /\ maint.phase = exec[j].pc /\ maint.job = j
  BY DEF NoteStep, Safe, Exclusive, Noted
<1>5. jobs[j].status # "Absent"
  BY <1>1, NoJobAssumption DEF Safe, Sound, Grounded, HasFile
<1>6. Moves(j, {WorkOf[exec[j].pc]})
  BY <1>5, NoteStepAdvances DEF Safe, Sound
<1>7. /\ exec'[j].pc \notin {"Preflight", "clearCurrent", "commit"}
      /\ exec'[j].pc = "probe" => maint.active
      /\ ~exec'[j].noted
  <2>1. /\ WorkOf[exec[j].pc] \notin {"Preflight", "clearCurrent", "commit"}
        /\ WorkOf[exec[j].pc] = "probe" => TakesSiteOffline(exec[j].pc)
    BY <1>1 DEF WorkOf, TakesSiteOffline
  <2> QED
    BY <1>4, <1>6, <2>1 DEF Moves
<1>8. /\ OwnerRuns' /\ RecoveryOwns'
      /\ \A i \in Jobs \ {j} : ~ExecutorRunning(i)' /\ ~exec'[i].noted
  BY <1>1, <1>2, <1>3, <1>6, TaskStaysAlone DEF Safe, Moves
<1>9. LeftBehind' => exec[j].pc = "Preflight"
  BY <1>3, <1>4 DEF LeftBehind, TakesSiteOffline, WorkOf, NoteStep
<1>10. IdleRecords'
  BY <1>2, <1>3, <1>7, <1>8, NoJobAssumption
     DEF IdleRecords, At, ExecutorRunning
<1>11. OpenOnlyInPreflight'
  BY <1>3, <1>4, <1>7, <1>8, <1>9
     DEF OpenOnlyInPreflight, LeftBehind, At, ExecutorRunning
<1>12. Unstarted'
  BY <1>2, <1>7, <1>8 DEF Unstarted, At, ExecutorRunning
<1>13. Noted'
  BY <1>7, <1>8 DEF Noted
<1> QED
  BY <1>8, <1>10, <1>11, <1>12, <1>13 DEF Exclusive

\* Success is recorded with the site still closed.
LEMMA CommitKeeps ==
  ASSUME Safe, NEW j \in Jobs, Advance(j), Commit(j), UNCHANGED <<loop, boot>>,
         Effect(j, {"commitVersion"})
  PROVE  Exclusive'
<1>1. ExecutorRunning(j) /\ maint.active
  BY DEF Commit, At, ExecutorRunning, Safe, Exclusive, OpenOnlyInPreflight
<1>2. UNCHANGED <<current, maint>>
  BY DEF Commit, WriteJob
<1> QED
  BY <1>1, <1>2, TaskIsAlone, NoJobAssumption, ClosedKeeps
     DEF Safe, Effect, Moves

\* The end of a job: the record first.
LEMMA ClearMaintKeeps ==
  ASSUME Safe, NEW j \in Jobs, Advance(j), ClearMaint(j), UNCHANGED <<loop, boot>>,
         Effect(j, {"clearCurrent"})
  PROVE  Exclusive'
<1>1. ExecutorRunning(j)
  BY DEF ClearMaint, At, ExecutorRunning
<1>2. /\ current = j /\ boot.pc = "up" /\ loop = NoJob
  BY <1>1, TaskIsAlone DEF Safe
<1>3. maint' = InactiveMaintenance /\ UNCHANGED current
  BY DEF ClearMaint, WriteMaint
<1>4. /\ OwnerRuns' /\ RecoveryOwns'
      /\ \A i \in Jobs \ {j} : ~ExecutorRunning(i)' /\ ~exec'[i].noted
  BY <1>1, <1>2, <1>3, TaskStaysAlone DEF Safe, Effect, Moves
<1>5. IdleRecords' /\ OpenOnlyInPreflight'
  BY <1>2, <1>3, <1>4, NoJobAssumption
     DEF IdleRecords, OpenOnlyInPreflight, LeftBehind, InactiveMaintenance, At,
         ExecutorRunning, Effect, Moves
<1>6. Unstarted' /\ Noted'
  BY <1>2, <1>4 DEF Unstarted, Noted, At, ExecutorRunning, Effect, Moves
<1> QED
  BY <1>4, <1>5, <1>6 DEF Exclusive

\* The pointer after it.
LEMMA ClearCurrentKeeps ==
  ASSUME Safe, NEW j \in Jobs, Advance(j), ClearCurrent(j), UNCHANGED <<loop, boot>>,
         Effect(j, {"idle"})
  PROVE  Exclusive'
<1>1. ExecutorRunning(j) /\ ~ExecutorRunning(j)'
  BY DEF ClearCurrent, At, ExecutorRunning, Effect, Moves
<1>2. /\ boot.pc = "up" /\ loop = NoJob
  BY <1>1, TaskIsAlone DEF Safe
<1>3. ~maint.active /\ maint.job = NoJob /\ UNCHANGED maint
  BY DEF ClearCurrent, SetCurrent, Safe, Exclusive, IdleRecords
<1>4. /\ OwnerRuns' /\ RecoveryOwns'
      /\ \A i \in Jobs \ {j} : ~ExecutorRunning(i)' /\ ~exec'[i].noted
  BY <1>1, TaskStaysAlone DEF Safe, Effect, Moves
<1>5. IdleRecords' /\ OpenOnlyInPreflight'
  BY <1>1, <1>3, <1>4
     DEF IdleRecords, OnlyFinishedBehind, OpenOnlyInPreflight, LeftBehind, At,
         ExecutorRunning
<1>6. Unstarted' /\ Noted'
  BY <1>1, <1>2, <1>4 DEF Unstarted, Noted, At, ExecutorRunning, Effect, Moves
<1> QED
  BY <1>4, <1>5, <1>6 DEF Exclusive

\* Closing the site for an operator, or for the rollback that begins.
LEMMA ClosingKeeps ==
  ASSUME Safe, NEW j \in Jobs, Advance(j), UNCHANGED <<loop, boot>>,
         \/ Revert(j) /\ Effect(j, {"plan"})
         \/ ManualMaint(j) /\ Effect(j, {"recoveryFailed", "idle"})
         \/ RecoveryMaint(j) /\ Effect(j, {"recoveryCurrent"})
  PROVE  Exclusive'
<1>1. ExecutorRunning(j)
  BY DEF Revert, ManualMaint, RecoveryMaint, At, ExecutorRunning
<1>2. current = j /\ current' = current
  BY <1>1, TaskIsAlone
     DEF Safe, Revert, ManualMaint, RecoveryMaint, WriteMaint, stateVars
<1>3. maint'.active
  BY DEF Revert, ManualMaint, RecoveryMaint, WriteMaint, stateVars
<1>4. ~exec'[j].noted /\ exec'[j].pc \notin {"Preflight", "clearCurrent"}
  BY DEF Effect, Moves
<1> QED
  BY <1>1, <1>2, <1>3, <1>4, NoJobAssumption, ClosedKeeps

\* The task that reports a failed recovery names its own job again.
LEMMA RecoveryCurrentKeeps ==
  ASSUME Safe, NEW j \in Jobs, Advance(j), RecoveryCurrent(j), UNCHANGED <<loop, boot>>,
         Effect(j, {"idle"})
  PROVE  Exclusive'
<1>1. ExecutorRunning(j) /\ exec[j].pc = "recoveryCurrent"
  BY DEF RecoveryCurrent, At, ExecutorRunning
<1>2. UNCHANGED <<current, maint, jobs>>
  BY <1>1, TaskIsAlone DEF Safe, RecoveryCurrent, SetCurrent
<1>3. Ordinary(j)
  BY <1>1, <1>2 DEF Ordinary, Effect, Moves
<1> QED
  BY <1>1, <1>3, OrdinaryKeeps

\* Every step of a task keeps it the only one.
LEMMA TaskKeeps ==
  ASSUME Safe, NEW j \in Jobs, ExecutorStep(j)
  PROVE  Exclusive'
<1>1. /\ Advance(j) /\ ExecutorRunning(j) /\ jobs[j].status # "Absent"
      /\ UNCHANGED <<loop, boot>>
  BY TaskAdvances, TaskRuns, NoJobAssumption
     DEF Safe, Sound, Grounded, HasFile, ExecutorStep
<1>2. CASE NoteMaintenance(j) \/ NoteStep(j)
  BY <1>1, <1>2, NoteMaintenanceKeeps, NoteStepKeeps
<1>3. CASE UpdateStep(j)
  <2>1. CASE Commit(j)
    BY <1>1, <2>1, CommitEffect, CommitKeeps DEF Safe, Sound
  <2>2. CASE ~Commit(j)
    <3>1. Ordinary(j)
      BY <1>1, <1>3, <2>2, PreflightEffect, BuildRunnerEffect, StopAppsEffect,
         SkipSnapshotEffect, StopPostgresEffect, CopySnapshotEffect,
         StartPostgresEffect, NoteSnapshotEffect, InstallComposeEffect,
         SwapTagEffect, SwapProxyTagEffect, VerifyEffect, StartNewEffect,
         ProbeHealthEffect, CommitVersionEffect, ResumeUpdateEffect,
         ReinstallComposeEffect
         DEF UpdateStep, Safe, Sound
    <3> QED
      BY <1>1, <3>1, OrdinaryKeeps
  <2> QED
    BY <2>1, <2>2
<1>4. CASE RollbackStep(j)
  <2>1. CASE Revert(j)
    BY <1>1, <2>1, RevertEffect, ClosingKeeps DEF Safe, Sound
  <2>2. CASE ~Revert(j)
    <3>1. Ordinary(j)
      BY <1>1, <1>4, <2>2, RollbackRunnerEffect, PlanComposeRestoreEffect,
         StopNewEffect, RestoreComposeEffect, RestoreProxyTagEffect,
         SwapTagBackEffect, SkipRestoreEffect, StopForRestoreEffect,
         WipeDataEffect, RefillDataEffect, StartRestoredEffect, StartOldEffect,
         OldStartedEffect, OldHealthEffect, RecordRestoredEffect,
         RollbackDoneEffect, RollbackFailedEffect
         DEF RollbackStep, Safe, Sound
    <3> QED
      BY <1>1, <3>1, OrdinaryKeeps
  <2> QED
    BY <2>1, <2>2
<1>5. CASE CleanupStep(j)
  <2>1. CASE ManualMaint(j) \/ RecoveryMaint(j)
    BY <1>1, <2>1, ManualMaintEffect, RecoveryMaintEffect, ClosingKeeps
       DEF Safe, Sound
  <2>2. CASE ClearMaint(j)
    BY <1>1, <2>2, ClearMaintEffect, ClearMaintKeeps DEF Safe, Sound
  <2>3. CASE ClearCurrent(j)
    BY <1>1, <2>3, ClearCurrentEffect, ClearCurrentKeeps DEF Safe, Sound
  <2>4. CASE RecoveryCurrent(j)
    BY <1>1, <2>4, RecoveryCurrentEffect, RecoveryCurrentKeeps DEF Safe, Sound
  <2>5. CASE \/ PreSwapCompose(j) \/ PreSwapUp(j) \/ FinalizeFailed(j)
             \/ ManualJob(j) \/ RecoveryFailed(j) \/ RecoveryJobFailed(j)
    <3>1. Ordinary(j)
      BY <1>1, <2>5, PreSwapComposeEffect, PreSwapUpEffect,
         FinalizeFailedEffect, ManualJobEffect, RecoveryFailedEffect,
         RecoveryJobFailedEffect
         DEF Safe, Sound
    <3> QED
      BY <1>1, <3>1, OrdinaryKeeps
  <2> QED
    BY <1>5, <2>1, <2>2, <2>3, <2>4, <2>5 DEF CleanupStep
<1> QED
  BY <1>2, <1>3, <1>4, <1>5 DEF ExecutorStep

-----------------------------------------------------------------------------
(***************************************************************************)
(* Requests and death.                                                     *)
(***************************************************************************)
\* A step that changes none of the records exclusion is about.
LEMMA RecordsKept ==
  ASSUME Exclusive, UNCHANGED <<jobs, current, maint, exec, loop, boot>>
  PROVE  Exclusive'
BY DEF Exclusive, OwnerRuns, IdleRecords, OnlyFinishedBehind,
       OpenOnlyInPreflight, LeftBehind, Unstarted, Noted, RecoveryOwns,
       ExecutorRunning, At

\* A request is admitted only while nothing runs; its job is a new one.
LEMMA WriteKeeps ==
  ASSUME Safe, NEW j \in Jobs, NEW record, Ready, NoExecutorRunning,
         NeverStarted(record), Write(j, record)
  PROVE  Exclusive'
<1>1. /\ jobs' = [jobs EXCEPT ![j] = record] /\ loop' = j
      /\ UNCHANGED <<current, maint, exec, boot>>
  BY DEF Write, WriteJob
<1>2. jobs'[j] = record /\ \A i \in Jobs \ {j} : jobs'[i] = jobs[i]
  BY <1>1 DEF Safe, Sound, TypeOK, StateTypeOK
<1>3. maint.job # j /\ maint.job \in JobOrNone
  BY NoJobAssumption
     DEF Write, Safe, Sound, Grounded, HasFile, TypeOK, StateTypeOK,
         MaintenanceRecord
<1>4. boot.pc = "up"
  BY DEF Ready
<1>5. OwnerRuns' /\ RecoveryOwns'
  BY <1>1, <1>4 DEF OwnerRuns, RecoveryOwns, NoExecutorRunning, ExecutorRunning
<1>6. IdleRecords' /\ OpenOnlyInPreflight'
  BY <1>1, <1>2, <1>3, <1>4
     DEF Safe, Exclusive, IdleRecords, OnlyFinishedBehind, OpenOnlyInPreflight,
         LeftBehind, NoExecutorRunning, ExecutorRunning, At, JobOrNone
<1>7. Unstarted' /\ Noted'
  BY <1>1, <1>2, <1>3
     DEF Safe, Exclusive, Unstarted, Noted, NoExecutorRunning, ExecutorRunning,
         At
<1> QED
  BY <1>5, <1>6, <1>7 DEF Exclusive

\* Requests are admitted only while nothing runs: an update because job.current is
\* empty, a rollback because operators wait.
LEMMA RequestKeeps ==
  ASSUME Safe, RequestAnyUpdate \/ (NoExecutorRunning /\ RequestAnyRollback)
  PROVE  Exclusive'
<1>1. CASE RequestAnyUpdate
  <2> PICK j \in Jobs, target \in Versions : RequestUpdate(j, target)
    BY <1>1 DEF RequestAnyUpdate
  <2>1. NoExecutorRunning
    BY NoJobAssumption
       DEF RequestUpdate, NoExecutorRunning, Safe, Exclusive, OwnerRuns
  <2>2. NeverStarted(NewUpdate(curVer, target))
    BY DEF NeverStarted, NewUpdate, NoRecord
  <2> QED
    BY <2>1, <2>2, WriteKeeps DEF RequestUpdate
<1>2. CASE NoExecutorRunning /\ RequestAnyRollback
  <2> PICK j \in Jobs, snapshot \in Jobs : RequestRollback(j, snapshot)
    BY <1>2 DEF RequestAnyRollback
  <2>1. NeverStarted(NewRollback(curVer, snapshot))
    BY DEF NeverStarted, NewRollback, NoRecord
  <2> QED
    BY <1>2, <2>1, WriteKeeps DEF RequestRollback
<1> QED
  BY <1>1, <1>2

\* The admitted job is the only one to run.
LEMMA AdmitKeeps ==
  ASSUME Safe, Admit
  PROVE  Exclusive'
<1>1. /\ loop \in Jobs /\ boot.pc = "up" /\ maint.job # loop
      /\ \A i \in Jobs : ~ExecutorRunning(i) /\ ~exec[i].noted
      /\ NeverStarted(jobs[loop])
  BY DEF Admit, Safe, Sound, TypeOK, ProcessTypeOK, JobOrNone, Exclusive,
         OwnerRuns, Unstarted, Noted
<1>2. /\ current' = loop /\ loop' = NoJob /\ UNCHANGED <<jobs, maint, boot>>
      /\ exec'[loop].pc \in {"Preflight", "RollbackInProgress"} /\ ~exec'[loop].noted
      /\ \A i \in Jobs \ {loop} : exec'[i] = exec[i]
  BY <1>1
     DEF Admit, SetCurrent, FirstPhase, NoExecutor, Safe, Sound, TypeOK,
         ProcessTypeOK
<1>3. OwnerRuns' /\ RecoveryOwns'
  BY <1>1, <1>2 DEF OwnerRuns, RecoveryOwns, ExecutorRunning
<1>4. IdleRecords' /\ OpenOnlyInPreflight'
  BY <1>1, <1>2, NoJobAssumption
     DEF Safe, Exclusive, IdleRecords, OpenOnlyInPreflight, LeftBehind,
         ExecutorRunning, At
<1>5. Unstarted' /\ Noted'
  BY <1>1, <1>2 DEF Unstarted, Noted, ExecutorRunning, At
<1> QED
  BY <1>3, <1>4, <1>5 DEF Exclusive

\* A death ends every task and leaves the records.
LEMMA CrashKeeps ==
  ASSUME Safe, Crash
  PROVE  Exclusive'
BY DEF Crash, stateVars, NoExecutor, Safe, Exclusive, OwnerRuns, IdleRecords,
       OnlyFinishedBehind, OpenOnlyInPreflight, LeftBehind, Unstarted, Noted,
       RecoveryOwns, ExecutorRunning, At

-----------------------------------------------------------------------------
(***************************************************************************)
(* Startup recovery.                                                       *)
(***************************************************************************)
\* With no job in flight the plan finds nothing to work on, and it never
\* mistakes a record left behind for a closed site.
LEMMA PlanChoosesOwner ==
  ASSUME Safe, NEW tag
  PROVE  LET id == RecoveryJob(maint, current)
             plan == CrashPlan(maint, current, RecordOf(id), tag)
         IN  /\ plan.kind \in {"FailUnstarted", "NeedsManual", "ClearPreSwap", "Resume"}
                  => current # NoJob
             /\ plan.kind = "ReleaseTerminalCurrent" => OnlyFinishedBehind
             /\ plan.kind \in {"ClearPreSwap", "NeedsManual"} /\ LeftBehind
                  => jobs[maint.job].work = "Preflight"
             /\ plan.kind # "ClearOrphanMaintenance"
<1> DEFINE id == RecoveryJob(maint, current)
           job == RecordOf(id)
           plan == CrashPlan(maint, current, job, tag)
<1>1. ASSUME maint.job # NoJob
      PROVE  id = maint.job /\ job = jobs[maint.job]
  BY <1>1 DEF RecoveryJob, RecordOf
<1>2. CASE current = NoJob
  <2>1. OnlyFinishedBehind
    BY <1>2 DEF Safe, Exclusive, IdleRecords
  <2>2. CASE maint.job = NoJob
    <3>1. id = NoJob /\ job = NoRecord /\ ~maint.active
      BY <1>2, <2>1, <2>2 DEF RecoveryJob, RecordOf, OnlyFinishedBehind
    <3>2. plan.kind = "Idle"
      BY <3>1 DEF CrashPlan, IsFailUnstarted, IsCommitted, IsRestored, NoRecord
    <3> QED
      BY <2>2, <3>2 DEF LeftBehind
  <2>3. CASE maint.job # NoJob
    <3>1. /\ ~maint.active /\ maint.phase = "Preflight" /\ job.work = "Preflight"
          /\ job.status \in {"Succeeded", "Failed"}
      BY <1>1, <2>1, <2>3 DEF OnlyFinishedBehind
    <3>2. EffectivePhase(maint, job) = "Preflight"
      BY <3>1
         DEF EffectivePhase, Decisive, IsPostSwap, IsRollback, PostSwapPhases,
             RollbackPhases
    <3>3. ~Resumable("Preflight")
      BY DEF Resumable, Decisive, IsPostSwap, IsRollback, PostSwapPhases,
             RollbackPhases
    <3>4. plan.kind \in {"FinishCommitted", "FinishRestored",
                         "ReleaseTerminalCurrent", "Idle"}
      BY <3>1, <3>2, <3>3
         DEF CrashPlan, IsFailUnstarted, NeverStarted, IsInterruptedPreSwap,
             Inflight
    <3> QED
      BY <2>1, <3>4
  <2> QED
    BY <2>2, <2>3
<1>3. CASE current # NoJob
  <2>1. id # NoJob
    BY <1>3 DEF RecoveryJob
  <2>2. plan.kind # "ClearOrphanMaintenance"
    BY <2>1 DEF CrashPlan
  <2>3. ASSUME LeftBehind, plan.kind # "FailUnstarted"
        PROVE  maint.phase = "Preflight" /\ jobs[maint.job].work = "Preflight"
    <3>1. id = maint.job /\ job = jobs[maint.job]
      BY <1>1, <2>3 DEF LeftBehind
    <3>2. ~NeverStarted(job)
      BY <2>1, <2>3 DEF LeftBehind, CrashPlan, IsFailUnstarted
    <3> QED
      BY <2>3, <3>1, <3>2 DEF Safe, Exclusive, OpenOnlyInPreflight
  <2>4. ASSUME plan.kind = "ReleaseTerminalCurrent"
        PROVE  OnlyFinishedBehind
    <3>1. ~maint.active /\ IsFinished(job)
      BY <2>4 DEF CrashPlan
    <3> QED
      BY <1>1, <2>3, <2>4, <3>1 DEF OnlyFinishedBehind, LeftBehind, IsFinished
  <2> QED
    BY <1>3, <2>2, <2>3, <2>4
<1> QED
  BY <1>2, <1>3

\* While recovery runs no task does, and nothing is being admitted.
LEMMA BootIsAlone ==
  ASSUME Safe, boot.pc # "up"
  PROVE  /\ loop = NoJob
         /\ \A i \in Jobs : ~ExecutorRunning(i) /\ ~exec[i].noted
BY DEF Safe, Exclusive, OwnerRuns, Noted

\* What the plan decides fits the records it read.
LEMMA BootPlanKeeps ==
  ASSUME Safe, BootPlan, UNCHANGED loop
  PROVE  Exclusive'
<1> DEFINE id == RecoveryJob(maint, current)
           plan(tag) == CrashPlan(maint, current, RecordOf(id), tag)
<1> PICK tag \in {env.tag, NoVersion} :
      boot' = [pc |-> FirstBootPoint[plan(tag).kind], job |-> plan(tag).job,
               rollback |-> plan(tag).rollback]
  BY DEF BootPlan
<1>1. /\ plan(tag).kind \in {"FailUnstarted", "NeedsManual", "ClearPreSwap", "Resume"}
           => current # NoJob
      /\ plan(tag).kind = "ReleaseTerminalCurrent" => OnlyFinishedBehind
      /\ plan(tag).kind \in {"ClearPreSwap", "NeedsManual"} /\ LeftBehind
           => jobs[maint.job].work = "Preflight"
      /\ plan(tag).kind # "ClearOrphanMaintenance"
  BY PlanChoosesOwner
<1>2. plan(tag).kind \in PlanKinds
  BY DEF CrashPlan, PlanKinds
<1> DEFINE kind == plan(tag).kind
<1>3. boot'.pc = FirstBootPoint[kind]
  OBVIOUS
<1> HIDE DEF id, plan
<1>4. UNCHANGED <<jobs, current, maint, exec>>
  BY DEF BootPlan, stateVars
<1>5. /\ loop = NoJob /\ \A i \in Jobs : ~ExecutorRunning(i) /\ ~exec[i].noted
  BY BootIsAlone DEF BootPlan
<1>6. OwnerRuns'
  BY <1>4, <1>5 DEF OwnerRuns, ExecutorRunning
<1>7. boot'.pc = "clearCurrent" => kind = "ReleaseTerminalCurrent"
  BY <1>2, <1>3 DEF FirstBootPoint, PlanKinds
<1>8. IdleRecords'
  BY <1>1, <1>4, <1>5, <1>7
     DEF IdleRecords, OnlyFinishedBehind, At, ExecutorRunning, Safe, Exclusive
<1>9. OpenOnlyInPreflight' /\ Unstarted' /\ Noted'
  BY <1>4, <1>5
     DEF OpenOnlyInPreflight, LeftBehind, Unstarted, Noted, At, ExecutorRunning,
         Safe, Exclusive
<1>10. RecoveryOwns'
  <2>1. /\ boot'.pc \in {"failUnstarted", "manualJob", "failPreSwap", "reviveMaint"}
             => kind \in {"FailUnstarted", "NeedsManual", "ClearPreSwap", "Resume"}
        /\ boot'.pc \in {"manualJob", "failPreSwap"}
             => kind \in {"ClearPreSwap", "NeedsManual"}
        /\ boot'.pc = "freeze" => kind = "ClearOrphanMaintenance"
        /\ boot'.pc \notin {"manualMaint", "serveRestore", "reviveCurrent", "serveResume"}
    BY <1>2, <1>3 DEF FirstBootPoint, PlanKinds
  <2> QED
    BY <1>1, <1>4, <2>1 DEF RecoveryOwns, LeftBehind
<1> QED
  BY <1>6, <1>8, <1>9, <1>10 DEF Exclusive

\* Recovery that moves on without starting a task.
LEMMA BootMovesOn ==
  ASSUME Safe, boot.pc # "up", NEW pc \in BootPoints \ {"up"}, BootGoto(pc),
         UNCHANGED loop,
         IdleRecords', RecoveryOwns',
         LeftBehind' => /\ maint'.phase = "Preflight"
                        /\ \/ jobs'[maint'.job].work = "Preflight"
                           \/ NeverStarted(jobs'[maint'.job])
  PROVE  Exclusive'
<1>1. /\ loop = NoJob /\ \A i \in Jobs : ~ExecutorRunning(i) /\ ~exec[i].noted
  BY BootIsAlone
<1>2. UNCHANGED exec
  BY DEF BootGoto
<1>3. OwnerRuns'
  BY <1>1, <1>2 DEF OwnerRuns, ExecutorRunning
<1>4. OpenOnlyInPreflight' /\ Unstarted' /\ Noted'
  BY <1>1, <1>2 DEF OpenOnlyInPreflight, Unstarted, Noted, At, ExecutorRunning
<1> QED
  BY <1>3, <1>4 DEF Exclusive

\* The branches that write the job's file.
LEMMA BootJobKeeps ==
  ASSUME Safe, UNCHANGED <<hostVars, loop, probe, crashes, probes>>,
         BootFailUnstarted \/ BootManualJob \/ BootFailPreSwap
  PROVE  Exclusive'
<1>1. /\ UNCHANGED <<current, maint>>
      /\ \A i \in Jobs : i # boot.job => jobs'[i] = jobs[i]
      /\ boot.job \in Jobs
      /\ \/ boot.pc = "failUnstarted" /\ boot'.pc = "clearMaint"
         \/ boot.pc = "manualJob" /\ boot'.pc = "manualMaint"
         \/ boot.pc = "failPreSwap" /\ boot'.pc = "serveRestore"
      /\ BootGoto(boot'.pc) /\ boot'.pc \in BootPoints
  BY DEF BootFailUnstarted, BootManualJob, BootFailPreSwap, WriteJob, BootGoto,
         JobPoints, Safe, Sound, Grounded, TypeOK, StateTypeOK, ProcessTypeOK,
         JobOrNone, BootPoints
<1>2. /\ jobs'[boot.job].work = jobs[boot.job].work \/ jobs'[boot.job].work = "Preflight"
      /\ boot.pc = "failUnstarted" => jobs'[boot.job].work = "Preflight"
  <2>1. jobs \in [Jobs -> JobRecord]
    BY DEF Safe, Sound, TypeOK, StateTypeOK
  <2>2. CASE BootFailUnstarted
    BY <1>1, <2>1, <2>2 DEF BootFailUnstarted, WriteJob, JobRecord
  <2>3. CASE BootManualJob
    BY <1>1, <2>1, <2>3 DEF BootManualJob, WriteJob, JobRecord
  <2>4. CASE BootFailPreSwap
    BY <1>1, <2>1, <2>4 DEF BootFailPreSwap, WriteJob, JobRecord
  <2> QED
    BY <2>2, <2>3, <2>4
<1>3. current # NoJob
  BY <1>1 DEF Safe, Exclusive, RecoveryOwns
<1>4. ASSUME LeftBehind
      PROVE  /\ maint.phase = "Preflight"
             /\ maint.job \in Jobs
             /\ jobs[maint.job].work = "Preflight" \/ NeverStarted(jobs[maint.job])
             /\ boot.pc # "failUnstarted" => jobs[maint.job].work = "Preflight"
  BY <1>1, <1>4
     DEF Safe, Exclusive, OpenOnlyInPreflight, RecoveryOwns, LeftBehind, Sound,
         TypeOK, StateTypeOK, MaintenanceRecord, JobOrNone
<1>5. LeftBehind' => LeftBehind
  BY <1>1 DEF LeftBehind
<1>6. LeftBehind' => /\ maint'.phase = "Preflight"
                     /\ \/ jobs'[maint'.job].work = "Preflight"
                        \/ NeverStarted(jobs'[maint'.job])
  BY <1>1, <1>2, <1>4, <1>5
<1>7. LeftBehind' /\ boot'.pc # "clearMaint" => jobs'[maint'.job].work = "Preflight"
  BY <1>1, <1>2, <1>4, <1>5
<1>8. IdleRecords'
  BY <1>1, <1>3, BootIsAlone DEF IdleRecords, At, ExecutorRunning, BootGoto
<1>9. RecoveryOwns'
  BY <1>1, <1>3, <1>7 DEF RecoveryOwns
<1> QED
  BY <1>1, <1>6, <1>8, <1>9, BootMovesOn

\* The branches that write maintenance.json, the pointer or updater.json.
LEMMA BootPointerKeeps ==
  ASSUME Safe, UNCHANGED <<hostVars, loop, probe, crashes, probes>>,
         \/ BootCommitVersion \/ BootClearMaint \/ BootClearCurrent \/ BootManualMaint
         \/ BootManualCurrent \/ BootReviveMaint \/ BootReviveCurrent \/ BootFreeze
  PROVE  Exclusive'
<1>1. /\ boot.pc # "up" /\ UNCHANGED <<jobs, exec>>
      /\ loop = NoJob
      /\ \A i \in Jobs : ~ExecutorRunning(i) /\ ~exec[i].noted
  BY BootIsAlone
     DEF BootCommitVersion, BootClearMaint, BootClearCurrent, BootManualMaint,
         BootManualCurrent, BootReviveMaint, BootReviveCurrent, BootFreeze,
         BootGoto, WriteUpdater, WriteMaint, SetCurrent
<1>2. boot.pc # "freeze"
  BY DEF Safe, Exclusive, RecoveryOwns
<1>3. /\ boot'.pc \in BootPoints \ {"up"} /\ BootGoto(boot'.pc) /\ boot'.job = boot.job
  BY DEF BootCommitVersion, BootClearMaint, BootClearCurrent, BootManualMaint,
         BootManualCurrent, BootReviveMaint, BootReviveCurrent, BootFreeze,
         BootGoto, BootPoints, Safe, Sound, TypeOK, ProcessTypeOK
<1>4. CASE BootCommitVersion
  <2>1. UNCHANGED <<current, maint>> /\ boot'.pc = "clearMaint"
    BY <1>4
       DEF BootCommitVersion, WriteUpdater, BootGoto, Safe, Sound, TypeOK,
           ProcessTypeOK
  <2>2. IdleRecords' /\ RecoveryOwns'
    BY <1>1, <2>1
       DEF IdleRecords, RecoveryOwns, OnlyFinishedBehind, At, ExecutorRunning,
           Safe, Exclusive
  <2> QED
    BY <1>1, <1>3, <2>1, <2>2, BootMovesOn
       DEF LeftBehind, Safe, Exclusive, OpenOnlyInPreflight
<1>5. CASE BootClearMaint
  <2>1. UNCHANGED current /\ maint' = InactiveMaintenance /\ boot'.pc = "clearCurrent"
    BY <1>5
       DEF BootClearMaint, WriteMaint, BootGoto, Safe, Sound, TypeOK,
           ProcessTypeOK
  <2>2. IdleRecords' /\ RecoveryOwns' /\ ~LeftBehind'
    BY <1>1, <2>1
       DEF IdleRecords, RecoveryOwns, OnlyFinishedBehind, InactiveMaintenance,
           LeftBehind, At, ExecutorRunning
  <2> QED
    BY <1>1, <1>3, <2>2, BootMovesOn
<1>6. CASE BootClearCurrent
  <2>1. UNCHANGED maint /\ boot.pc = "clearCurrent" /\ boot'.pc = "serve"
    BY <1>6
       DEF BootClearCurrent, SetCurrent, BootGoto, Safe, Sound, TypeOK,
           ProcessTypeOK
  <2>2. OnlyFinishedBehind
    BY <2>1 DEF Safe, Exclusive, IdleRecords
  <2>3. IdleRecords' /\ RecoveryOwns'
    BY <1>1, <2>1, <2>2
       DEF IdleRecords, RecoveryOwns, OnlyFinishedBehind, At, ExecutorRunning
  <2> QED
    BY <1>1, <1>3, <2>1, <2>3, BootMovesOn
       DEF LeftBehind, Safe, Exclusive, OpenOnlyInPreflight
<1>7. CASE BootManualMaint \/ BootReviveMaint
  <2>1. /\ UNCHANGED current /\ current # NoJob /\ maint'.active
        /\ boot'.pc \in {"manualCurrent", "reviveCurrent"}
    BY <1>7
       DEF BootManualMaint, BootReviveMaint, WriteMaint, BootGoto, Safe, Sound,
           TypeOK, StateTypeOK, MaintenanceRecord, ProcessTypeOK, Exclusive,
           RecoveryOwns
  <2>2. IdleRecords' /\ RecoveryOwns' /\ ~LeftBehind'
    BY <1>1, <2>1 DEF IdleRecords, RecoveryOwns, LeftBehind, At, ExecutorRunning
  <2> QED
    BY <1>1, <1>3, <2>2, BootMovesOn
<1>8. CASE BootManualCurrent \/ BootReviveCurrent
  <2>1. /\ UNCHANGED maint /\ current' = boot.job /\ boot.job # NoJob
        /\ boot'.pc \in {"serve", "serveResume"}
        /\ boot'.pc = "serveResume" => maint.active
    BY <1>8
       DEF BootManualCurrent, BootReviveCurrent, SetCurrent, BootGoto, Safe,
           Sound, TypeOK, ProcessTypeOK, Grounded, JobPoints, Exclusive,
           RecoveryOwns
  <2>2. IdleRecords' /\ RecoveryOwns'
    BY <1>1, <1>3, <2>1 DEF IdleRecords, RecoveryOwns, At, ExecutorRunning
  <2> QED
    BY <1>1, <1>3, <2>1, <2>2, BootMovesOn
       DEF LeftBehind, Safe, Exclusive, OpenOnlyInPreflight
<1> QED
  BY <1>2, <1>4, <1>5, <1>6, <1>7, <1>8 DEF BootFreeze

\* The task recovery leaves behind runs for the job job.current names.
LEMMA ServeKeeps ==
  ASSUME Safe, Serve, UNCHANGED loop
  PROVE  Exclusive'
<1>1. /\ UNCHANGED <<jobs, current, maint>> /\ boot'.pc = "up"
  BY DEF Serve, stateVars, Safe, Sound, TypeOK, ProcessTypeOK
<1>2. boot.pc \in {"serve", "serveRestore", "serveResume"}
  BY DEF Serve
<1>3. /\ loop = NoJob /\ \A i \in Jobs : ~ExecutorRunning(i) /\ ~exec[i].noted
  BY <1>2, BootIsAlone
<1>4. \/ UNCHANGED exec
      \/ /\ current \in Jobs
         /\ \A i \in Jobs \ {current} : exec'[i] = exec[i]
         /\ ~exec'[current].noted
         /\ exec'[current].pc \in {"preSwapCompose", "RollbackInProgress", "resumeBack",
                                   "resumeForward"}
         /\ LeftBehind => jobs[maint.job].work = "Preflight"
  <2>1. CASE boot.pc = "serve"
    BY <2>1 DEF Serve
  <2>2. CASE boot.pc = "serveRestore"
    <3>1. /\ current \in Jobs
          /\ LeftBehind => jobs[maint.job].work = "Preflight"
      BY <2>2
         DEF Safe, Exclusive, RecoveryOwns, Sound, TypeOK, StateTypeOK,
             JobOrNone
    <3>2. Spawn(current, "preSwapCompose", "AppAndPostgres")
      BY <2>2, <3>1, NoJobAssumption DEF Serve
    <3> QED
      BY <3>1, <3>2 DEF Spawn, NoExecutor, Safe, Sound, TypeOK, ProcessTypeOK
  <2>3. CASE boot.pc = "serveResume"
    <3>1. /\ current = boot.job /\ maint.active /\ current \in Jobs
      BY <2>3
         DEF Safe, Exclusive, RecoveryOwns, Sound, Grounded, JobPoints, TypeOK,
             StateTypeOK, JobOrNone
    <3>2. Spawn(current, ResumePoint(jobs[boot.job], boot.rollback), "None")
      BY <2>3, <3>1 DEF Serve
    <3> QED
      BY <3>1, <3>2
         DEF Spawn, ResumePoint, NoExecutor, LeftBehind, Safe, Sound, TypeOK,
             ProcessTypeOK
  <2> QED
    BY <1>2, <2>1, <2>2, <2>3
<1>5. OwnerRuns' /\ RecoveryOwns'
  BY <1>1, <1>3, <1>4 DEF OwnerRuns, RecoveryOwns, ExecutorRunning
<1>6. IdleRecords'
  BY <1>1, <1>3, <1>4
     DEF IdleRecords, OnlyFinishedBehind, At, ExecutorRunning, Safe, Exclusive
<1>7. OpenOnlyInPreflight'
  BY <1>1, <1>3, <1>4
     DEF OpenOnlyInPreflight, LeftBehind, At, ExecutorRunning, Safe, Exclusive
<1>8. Unstarted' /\ Noted'
  BY <1>1, <1>3, <1>4 DEF Unstarted, Noted, At, ExecutorRunning
<1> QED
  BY <1>5, <1>6, <1>7, <1>8 DEF Exclusive

\* Each step of recovery keeps the owner of the records the one that may run.
LEMMA BootStepKeeps ==
  ASSUME Safe, BootStep
  PROVE  Exclusive'
BY BootPlanKeeps, BootJobKeeps, BootPointerKeeps, ServeKeeps DEF BootStep

-----------------------------------------------------------------------------
(***************************************************************************)
(* The theorems.                                                           *)
(***************************************************************************)
\* Every step, when no rollback is requested beside a running task.
LEMMA PatientStepSafe ==
  ASSUME Safe, [PatientNext]_vars
  PROVE  Safe'
<1>1. Sound'
  BY NextSound DEF Safe, PatientNext, Next
<1>2. Exclusive'
  <2>1. CASE \E j \in Jobs : ExecutorStep(j)
    BY <2>1, TaskKeeps
  <2>2. CASE Admit \/ Crash \/ BootStep
    BY <2>2, AdmitKeeps, CrashKeeps, BootStepKeeps
  <2>3. CASE ReconcileProbe \/ ReconcileWrite \/ Migrate \/ Quiet \/ UNCHANGED vars
    BY <2>3, RecordsKept
       DEF Safe, ReconcileProbe, ReconcileWrite, WriteUpdater, Migrate, Quiet,
           vars, stateVars, processVars
  <2>4. CASE RequestAnyUpdate \/ (NoExecutorRunning /\ RequestAnyRollback)
    BY <2>4, RequestKeeps
  <2> QED
    BY <2>1, <2>2, <2>3, <2>4 DEF PatientNext, Internal
<1> QED
  BY <1>1, <1>2 DEF Safe

\* Nothing in the code refuses a rollback beside a running task; when operators
\* do not ask for one, the updater's records keep recovery and admission from
\* ever starting a second task.
THEOREM UpdaterIsSafe == PatientSpec => []Safe
<1>1. Init => Safe
  BY InitSound, InitExclusive DEF Safe
<1>2. Safe /\ [PatientNext]_vars => Safe'
  BY PatientStepSafe
<1> QED
  BY <1>1, <1>2, PTL DEF PatientSpec

\* worker/mod.rs: at most one job is in flight.
THEOREM UpdaterSingleExecutor == PatientSpec => []SingleExecutor
<1>1. Safe => SingleExecutor
  BY DEF Safe, Exclusive, OwnerRuns, SingleExecutor
<1> QED
  BY <1>1, UpdaterIsSafe, PTL

-----------------------------------------------------------------------------
(***************************************************************************)
(* What the records say of a job that is over.                             *)
(***************************************************************************)
\* What the steps of a task and of recovery may assume here.
Kept == Safe /\ Recorded

\* The initial state has no job and an open site.
LEMMA InitRecorded ==
  ASSUME Init
  PROVE  Recorded
<1>1. /\ jobs = [j \in Jobs |-> NoRecord] /\ exec = [j \in Jobs |-> NoExecutor]
      /\ current = NoJob /\ maint = InactiveMaintenance /\ boot.pc = "up"
  BY DEF Init
<1>2. \A j \in Jobs : TaskRecorded(j)
  BY <1>1 DEF NoRecord, NoExecutor, TaskRecorded, Marked, OldMarked, OldPoints,
              StillOpen, EndPoints, OnItsWay, ExecutorRunning, Named
<1> QED
  BY <1>1, <1>2 DEF InactiveMaintenance, Recorded, PointerOpen, RecoveryRecorded,
                    JobPoints, ClosedWaits

-----------------------------------------------------------------------------
(***************************************************************************)
(* Steps of the running task.                                              *)
(***************************************************************************)
\* The task that takes a step is alone, and the only one it concerns.
LEMMA StepIsOwn ==
  ASSUME Kept, NEW j \in Jobs, ExecutorStep(j)
  PROVE  /\ ExecutorRunning(j) /\ Advance(j) /\ jobs[j].status # "Absent"
         /\ TaskRecorded(j) /\ Safe /\ TypeOK /\ Grounded
         /\ current = j /\ boot.pc = "up" /\ UNCHANGED <<loop, boot>>
         /\ \A i \in Jobs \ {j} : ~ExecutorRunning(i) /\ TaskRecorded(i)
BY TaskRuns, TaskAdvances, TaskIsAlone, NoJobAssumption
   DEF Kept, Safe, Sound, Grounded, HasFile, ExecutorStep, Recorded

\* So the records stay true if they do for its job, and if a task that ends leaves
\* the site open or its job waiting.
LEMMA OwnStep ==
  ASSUME Kept, NEW j \in Jobs, ExecutorStep(j), TaskRecorded(j)', PointerOpen',
         ~ExecutorRunning(j)' /\ maint'.active => Waits'
  PROVE  Recorded'
<1>1. /\ ExecutorRunning(j) /\ Advance(j) /\ boot.pc = "up" /\ UNCHANGED boot
      /\ \A i \in Jobs \ {j} : ~ExecutorRunning(i) /\ TaskRecorded(i)
  BY StepIsOwn
<1>2. ASSUME NEW i \in Jobs \ {j}
      PROVE  TaskRecorded(i)'
  <2>1. exec'[i].pc = "idle" /\ jobs'[i] = jobs[i] /\ TaskRecorded(i)
    BY <1>1 DEF Advance, KeepsRecords, ExecutorRunning
  <2> QED
    BY <2>1 DEF TaskRecorded, OldMarked, OldPoints, StillOpen, EndPoints, OnItsWay,
                ExecutorRunning, Named
<1>3. RecoveryRecorded'
  BY <1>1 DEF RecoveryRecorded, JobPoints
<1>4. ClosedWaits'
  <2>1. ExecutorRunning(j)' => ~NoExecutorRunning'
    BY DEF NoExecutorRunning
  <2> QED
    BY <2>1 DEF ClosedWaits
<1> QED
  BY <1>2, <1>3, <1>4 DEF Recorded

\* Points that say nothing of the job, and where no task ends.
Plain == Points \ (OldPoints \cup EndPoints
                     \cup {"probe", "commit", "manualMaint", "recoveryMaint", "recoveryCurrent"})

\* A step that writes no record, towards a point that says nothing: of an
\* update, of a rollback on its way, or into the recovery's last part.
LEMMA PlainStep ==
  ASSUME Kept, NEW j \in Jobs, ExecutorStep(j), UNCHANGED <<jobs, current, maint>>,
         exec[j].pc \notin EndPoints, exec'[j].pc \in Plain,
         \/ exec[j].pc \notin {"RollbackInProgress"} \cup RollbackWay \cup RestoreWay \cup EndWay
         \/ exec[j].pc \in RollbackWay /\ exec'[j].pc \in RollbackWay
         \/ exec'[j].pc \in EndWay
  PROVE  Recorded'
<1>1. /\ ExecutorRunning(j) /\ TaskRecorded(j) /\ current = j
  BY StepIsOwn
<1>2. jobs[j].status # "Succeeded"
  BY <1>1 DEF TaskRecorded, StillOpen
<1>3. OnItsWay(j)'
  BY <1>1 DEF TaskRecorded, OnItsWay, RollbackWay, RestoreWay, EndWay, RollbackPoints
<1>4. TaskRecorded(j)'
  BY <1>1, <1>2, <1>3
     DEF TaskRecorded, Marked, OldMarked, StillOpen, Named, Plain
<1>5. ExecutorRunning(j)'
  BY DEF Plain, EndPoints, ExecutorRunning
<1>6. PointerOpen'
  BY DEF Kept, Recorded, PointerOpen
<1> QED
  BY <1>4, <1>5, <1>6, OwnStep

\* What an update does between its phases.
LEMMA UpdatePlain ==
  ASSUME Kept, NEW j \in Jobs, ExecutorStep(j),
         \/ Preflight(j) \/ BuildRunner(j) \/ StopApps(j) \/ SkipSnapshot(j)
         \/ StopPostgres(j) \/ CopySnapshot(j) \/ StartPostgres(j) \/ InstallCompose(j)
         \/ SwapTag(j) \/ SwapProxyTag(j) \/ Verify(j) \/ StartNew(j) \/ ReinstallCompose(j)
  PROVE  Recorded'
<1>1. jobs[j].status # "Absent" /\ TypeOK /\ Grounded
  BY StepIsOwn
<1>2. UNCHANGED <<jobs, current, maint>>
  BY DEF Preflight, BuildRunner, StopApps, SkipSnapshot, StopPostgres, CopySnapshot,
         StartPostgres, InstallCompose, SwapTag, SwapProxyTag, Verify, StartNew,
         ReinstallCompose, stateVars
<1>3. exec[j].pc \in {"preflight", "runner", "stopApps", "stopPostgres", "copy",
                      "startPostgres", "install", "swapTag", "swapProxyTag", "verify",
                      "startNew", "reinstall"}
  BY DEF Preflight, BuildRunner, StopApps, SkipSnapshot, StopPostgres, CopySnapshot,
         StartPostgres, InstallCompose, SwapTag, SwapProxyTag, Verify, StartNew,
         ReinstallCompose, At
<1>4. exec'[j].pc \in {"MaintenanceOn", "finalizeFailed", "Stopping", "preSwapCompose",
                       "Snapshotting", "SwapTag", "copy", "startPostgres",
                       "noteSnapshot", "swapTag", "swapProxyTag", "StartingNew",
                       "startNew", "HealthProbing", "revert"}
  BY <1>1, PreflightEffect, BuildRunnerEffect, StopAppsEffect,
     SkipSnapshotEffect, StopPostgresEffect, CopySnapshotEffect,
     StartPostgresEffect, InstallComposeEffect, SwapTagEffect, SwapProxyTagEffect,
     VerifyEffect, StartNewEffect, ReinstallComposeEffect
     DEF Effect, Moves
<1>5. exec'[j].pc \in Plain
  BY <1>4 DEF Plain, OldPoints, EndPoints, Points, UpdatePoints, RollbackPoints,
              CleanupPoints, WorkOf
<1>6. exec[j].pc \notin EndPoints
  BY <1>3 DEF EndPoints
<1>7. exec[j].pc \notin {"RollbackInProgress"} \cup RollbackWay \cup RestoreWay \cup EndWay
  BY <1>3 DEF RollbackWay, RestoreWay, EndWay, RollbackPoints
<1> QED
  BY <1>2, <1>5, <1>6, <1>7, PlainStep

\* What a rollback does between its phases.
LEMMA RollbackPlain ==
  ASSUME Kept, NEW j \in Jobs, ExecutorStep(j),
         \/ RollbackRunner(j) \/ PlanComposeRestore(j) \/ StopNew(j) \/ RestoreCompose(j)
         \/ RestoreProxyTag(j) \/ SwapTagBack(j) \/ SkipRestore(j) \/ StopForRestore(j)
         \/ WipeData(j) \/ RefillData(j) \/ StartRestored(j)
  PROVE  Recorded'
<1>1. jobs[j].status # "Absent" /\ TypeOK /\ Grounded
  BY StepIsOwn
<1>2. UNCHANGED <<jobs, current, maint>>
  BY DEF RollbackRunner, PlanComposeRestore, StopNew, RestoreCompose,
         RestoreProxyTag, SwapTagBack, SkipRestore, StopForRestore, WipeData,
         RefillData, StartRestored, stateVars
<1>3. exec[j].pc \in {"rollbackRunner", "plan", "stopNew", "restoreCompose",
                      "restoreProxyTag", "swapTagBack", "stopForRestore", "wipe",
                      "refill", "startRestored"}
  BY DEF RollbackRunner, PlanComposeRestore, StopNew, RestoreCompose,
         RestoreProxyTag, SwapTagBack, SkipRestore, StopForRestore, WipeData,
         RefillData, StartRestored, At
<1>4. exec'[j].pc \in {"plan", "manualJob", "StopNew", "rollbackFailed",
                       "restoreCompose", "restoreProxyTag", "SwapTagBack",
                       "RestoreSnapshot", "StartOld", "wipe", "refill", "startRestored"}
  BY <1>1, RollbackRunnerEffect, PlanComposeRestoreEffect, StopNewEffect,
     RestoreComposeEffect, RestoreProxyTagEffect, SwapTagBackEffect,
     SkipRestoreEffect, StopForRestoreEffect, WipeDataEffect, RefillDataEffect,
     StartRestoredEffect
     DEF Effect, Moves
<1>5. exec'[j].pc \in Plain \cap RollbackWay
  BY <1>4 DEF Plain, OldPoints, EndPoints, Points, UpdatePoints, RollbackPoints,
              CleanupPoints, WorkOf, RollbackWay
<1>6. exec[j].pc \in RollbackWay \ EndPoints
  BY <1>3 DEF EndPoints, RollbackWay, RollbackPoints
<1> QED
  BY <1>2, <1>5, <1>6, PlainStep

\* The old release is started, checked and recorded: StartOld is in the file.
LEMMA OldStep ==
  ASSUME Kept, NEW j \in Jobs, ExecutorStep(j), StartOld(j) \/ OldHealth(j) \/ RecordRestored(j)
  PROVE  Recorded'
<1>1. /\ jobs[j].status # "Absent" /\ TypeOK /\ Grounded /\ current = j
      /\ ExecutorRunning(j) /\ TaskRecorded(j)
  BY StepIsOwn
<1>2. UNCHANGED <<jobs, current, maint>>
  BY DEF StartOld, OldHealth, RecordRestored, WriteUpdater, stateVars
<1>3. \/ exec[j].pc = "startOld" /\ exec'[j].pc \in {"oldStarted", "rollbackFailed"}
      \/ exec[j].pc = "oldHealth" /\ exec'[j].pc \in {"recordRestored", "rollbackFailed"}
      \/ exec[j].pc = "recordRestored" /\ exec'[j].pc = "rollbackDone"
  BY <1>1, StartOldEffect, OldHealthEffect, RecordRestoredEffect
     DEF Effect, Moves, StartOld, OldHealth, RecordRestored, At
<1>4. TaskRecorded(j)'
  BY <1>1, <1>2, <1>3
     DEF TaskRecorded, Marked, OldMarked, OldPoints, StillOpen, EndPoints, OnItsWay, Named,
         RollbackWay, RestoreWay, RollbackPoints
<1>5. ExecutorRunning(j)'
  BY <1>3 DEF ExecutorRunning
<1> QED
  BY <1>1, <1>2, <1>4, <1>5, OwnStep DEF Kept, Recorded, PointerOpen

\* The recovery that restores the stack, and the cleanup of an update.
LEMMA RestoreStep ==
  ASSUME Kept, NEW j \in Jobs, ExecutorStep(j), PreSwapCompose(j) \/ PreSwapUp(j)
  PROVE  Recorded'
<1>1. /\ jobs[j].status # "Absent" /\ TypeOK /\ Grounded /\ current = j
      /\ ExecutorRunning(j) /\ TaskRecorded(j)
  BY StepIsOwn
<1>2. UNCHANGED <<jobs, current, maint>>
  BY DEF PreSwapCompose, PreSwapUp, stateVars
<1>3. /\ exec[j].pc \in {"preSwapCompose", "preSwapUp"}
      /\ exec'[j].pc \in {"preSwapUp", "recoveryFailed", "manualJob", "clearMaint", "finalizeFailed"}
  BY <1>1, PreSwapComposeEffect, PreSwapUpEffect
     DEF Effect, Moves, PreSwapCompose, PreSwapUp, At
<1>4. /\ exec'[j].recovering = exec[j].recovering
      /\ exec[j].recovering => exec'[j].pc \in {"preSwapUp", "recoveryFailed", "clearMaint"}
  <2>1. exec \in [Jobs -> Executor]
    BY <1>1 DEF TypeOK, ProcessTypeOK
  <2> QED
    BY <2>1 DEF PreSwapCompose, PreSwapUp, Goto, Executor, AfterRestoreFailure
<1>5. TaskRecorded(j)'
  BY <1>1, <1>2, <1>3, <1>4
     DEF TaskRecorded, Marked, OldMarked, OldPoints, StillOpen, EndPoints, OnItsWay, Named,
         RollbackWay, RestoreWay, EndWay, RollbackPoints
<1>6. ExecutorRunning(j)'
  BY <1>3 DEF ExecutorRunning
<1> QED
  BY <1>1, <1>2, <1>5, <1>6, OwnStep DEF Kept, Recorded, PointerOpen

\* The probe passes the name of the record on to the commit.
LEMMA ProbeStep ==
  ASSUME Kept, NEW j \in Jobs, ExecutorStep(j), ProbeHealth(j) \/ CommitVersion(j)
  PROVE  Recorded'
<1>1. /\ jobs[j].status # "Absent" /\ TypeOK /\ Grounded /\ current = j
      /\ ExecutorRunning(j) /\ TaskRecorded(j)
  BY StepIsOwn
<1>2. UNCHANGED <<jobs, current, maint>>
  BY DEF ProbeHealth, CommitVersion, WriteUpdater, stateVars
<1>3. \/ exec[j].pc = "probe" /\ exec'[j].pc \in {"commit", "revert"}
      \/ exec[j].pc = "commitVersion" /\ exec'[j].pc = "clearMaint"
  BY <1>1, ProbeHealthEffect, CommitVersionEffect
     DEF Effect, Moves, ProbeHealth, CommitVersion, At
<1>4. TaskRecorded(j)'
  BY <1>1, <1>2, <1>3
     DEF TaskRecorded, Marked, OldMarked, OldPoints, StillOpen, EndPoints, OnItsWay, Named,
         RollbackWay, RestoreWay, EndWay, RollbackPoints, ExecutorRunning
<1>5. ExecutorRunning(j)'
  BY <1>3 DEF ExecutorRunning
<1> QED
  BY <1>1, <1>2, <1>4, <1>5, OwnStep DEF Kept, Recorded, PointerOpen

\* Success is recorded with its proof, of the job the record names.
LEMMA CommitStep ==
  ASSUME Kept, NEW j \in Jobs, ExecutorStep(j), Commit(j)
  PROVE  Recorded'
<1>1. /\ jobs[j].status # "Absent" /\ TypeOK /\ Grounded /\ current = j
      /\ ExecutorRunning(j) /\ TaskRecorded(j)
  BY StepIsOwn
<1>2. /\ UNCHANGED <<current, maint>> /\ maint.job = j
      /\ jobs'[j].last = "Finalize" /\ jobs'[j].kind = jobs[j].kind
  BY <1>1 DEF Commit, At, WriteJob, TypeOK, StateTypeOK, JobRecord, TaskRecorded, Named
<1>3. exec[j].pc = "commit" /\ exec'[j].pc = "commitVersion"
  BY <1>1, CommitEffect DEF Effect, Moves, Commit, At
<1>4. jobs[j].kind = "Update"
  <2>1. jobs[j].kind # "Rollback"
    BY <1>1, <1>3
       DEF TaskRecorded, OnItsWay, RollbackWay, RestoreWay, EndWay, RollbackPoints
  <2> QED
    BY <1>1, <2>1 DEF TypeOK, StateTypeOK, JobRecord, Kinds
<1>5. TaskRecorded(j)'
  BY <1>2, <1>3, <1>4
     DEF TaskRecorded, Marked, OldMarked, OldPoints, StillOpen, EndPoints, OnItsWay, Named
<1> QED
  BY <1>1, <1>2, <1>3, <1>5, OwnStep DEF PointerOpen, ExecutorRunning

\* The first write of PhaseRecorder::enter: the record names the job.
LEMMA NoteMaintenanceStep ==
  ASSUME Kept, NEW j \in Jobs, ExecutorStep(j), NoteMaintenance(j)
  PROVE  Recorded'
<1>1. /\ TypeOK /\ current = j /\ ExecutorRunning(j) /\ TaskRecorded(j)
  BY StepIsOwn
<1>2. /\ UNCHANGED <<jobs, current>> /\ maint'.job = j
      /\ exec'[j].pc = exec[j].pc /\ exec'[j].recovering = exec[j].recovering
      /\ exec[j].pc \in DOMAIN WorkOf
  <2>1. exec \in [Jobs -> Executor]
    BY <1>1 DEF TypeOK, ProcessTypeOK
  <2> QED
    BY <2>1 DEF NoteMaintenance, WriteMaint, Executor
<1>3. TaskRecorded(j)'
  BY <1>1, <1>2
     DEF TaskRecorded, Marked, OldMarked, StillOpen, OnItsWay, Named, ExecutorRunning
<1> QED
  BY <1>1, <1>2, <1>3, OwnStep DEF PointerOpen, ExecutorRunning

\* The second: the job's own step.
LEMMA NoteStepStep ==
  ASSUME Kept, NEW j \in Jobs, ExecutorStep(j), NoteStep(j)
  PROVE  Recorded'
<1>1. /\ TypeOK /\ Grounded /\ jobs[j].status # "Absent" /\ current = j
      /\ ExecutorRunning(j) /\ TaskRecorded(j) /\ Exclusive
  BY StepIsOwn DEF Safe
<1>2. /\ UNCHANGED <<current, maint>> /\ maint.job = j
      /\ exec[j].pc \in DOMAIN WorkOf
  BY <1>1 DEF NoteStep, WriteJob, Exclusive, Noted
<1>3. exec'[j].pc = WorkOf[exec[j].pc]
  BY <1>1, NoteStepAdvances DEF Moves
<1>4. /\ jobs'[j].last = exec[j].pc /\ jobs'[j].kind = jobs[j].kind
      /\ jobs'[j].status \in {"Running", jobs[j].status}
  BY <1>1 DEF NoteStep, WriteJob, TypeOK, StateTypeOK, JobRecord
<1>5. jobs'[j].status # "Succeeded"
  <2>1. exec[j].pc \notin EndPoints
    BY <1>2 DEF EndPoints, WorkOf
  <2> QED
    BY <1>1, <1>4, <2>1 DEF TaskRecorded, StillOpen
<1>6. /\ exec'[j].pc \in OldPoints => exec[j].pc = "StartOld" /\ exec'[j].pc = "startOld"
      /\ exec'[j].pc \notin {"commit", "recoveryCurrent", "manualMaint", "recoveryMaint", "idle"}
  BY <1>2, <1>3 DEF WorkOf, OldPoints
<1>7. exec[j].pc \in {"RollbackInProgress"} \cup RollbackWay \cup RestoreWay \cup EndWay
        => exec'[j].pc \in RollbackWay \ RestoreWay
  BY <1>2, <1>3 DEF WorkOf, RollbackWay, RestoreWay, EndWay, RollbackPoints
<1>8. TaskRecorded(j)'
  BY <1>1, <1>2, <1>4, <1>5, <1>6, <1>7
     DEF TaskRecorded, Marked, OldMarked, StillOpen, OnItsWay, Named
<1> QED
  BY <1>1, <1>2, <1>5, <1>6, <1>8, OwnStep DEF PointerOpen, ExecutorRunning

\* Writing the job's file without ending it.
LEMMA FileStep ==
  ASSUME Kept, NEW j \in Jobs, ExecutorStep(j),
         \/ NoteSnapshot(j) \/ OldStarted(j) \/ RollbackFailed(j) \/ ResumeUpdate(j)
         \/ ManualJob(j) \/ RecoveryJobFailed(j)
  PROVE  Recorded'
<1>1. /\ TypeOK /\ Grounded /\ jobs[j].status # "Absent" /\ current = j
      /\ ExecutorRunning(j) /\ TaskRecorded(j) /\ jobs[j] \in JobRecord
      /\ jobs \in [Jobs -> JobRecord]
  BY StepIsOwn, JobTyped DEF TypeOK, StateTypeOK
<1>2. /\ UNCHANGED <<current, maint>>
  BY DEF NoteSnapshot, OldStarted, RollbackFailed, ResumeUpdate, ManualJob,
         RecoveryJobFailed, WriteJob, stateVars
<1>3. \/ exec[j].pc = "noteSnapshot" /\ exec'[j].pc = "SwapTag"
      \/ exec[j].pc = "oldStarted" /\ exec'[j].pc = "oldHealth"
      \/ exec[j].pc = "rollbackFailed" /\ exec'[j].pc = "manualJob"
      \/ /\ exec[j].pc \in {"resumeForward", "resumeBack"}
         /\ exec'[j].pc \in {"reinstall", "revert", "recoveryFailed"}
      \/ exec[j].pc = "manualJob" /\ exec'[j].pc = "manualMaint"
      \/ exec[j].pc = "recoveryJob" /\ exec'[j].pc = "recoveryMaint"
  BY <1>1, NoteSnapshotEffect, OldStartedEffect, RollbackFailedEffect, ResumeUpdateEffect,
     ManualJobEffect, RecoveryJobFailedEffect
     DEF Effect, Moves, NoteSnapshot, OldStarted, RollbackFailed, ResumeUpdate, ManualJob,
         RecoveryJobFailed, At
<1>4. jobs[j].status # "Succeeded"
  BY <1>1, <1>3 DEF TaskRecorded, StillOpen, EndPoints
<1>5. /\ jobs'[j].kind = jobs[j].kind /\ jobs'[j].status # "Succeeded"
      /\ exec[j].pc = "oldStarted" => jobs'[j].last = jobs[j].last /\ jobs'[j].ok
      /\ exec[j].pc \in {"manualJob", "recoveryJob"} => jobs'[j].status = "NeedsManual"
  <2>1. CASE NoteSnapshot(j) \/ OldStarted(j)
    BY <1>1, <1>4, <2>1 DEF NoteSnapshot, OldStarted, WriteJob, JobRecord, At
  <2>2. CASE RollbackFailed(j)
    BY <1>1, <1>4, <2>2 DEF RollbackFailed, WriteJob, stateVars, JobRecord, At
  <2>3. CASE ResumeUpdate(j)
    BY <1>1, <1>4, <2>3 DEF ResumeUpdate, WriteJob, JobRecord
  <2>4. CASE ManualJob(j) \/ RecoveryJobFailed(j)
    BY <1>1, <1>4, <2>4 DEF ManualJob, RecoveryJobFailed, WriteJob, JobRecord, At
  <2> QED
    BY <2>1, <2>2, <2>3, <2>4
<1>6. OnItsWay(j)'
  BY <1>1, <1>2, <1>3, <1>5
     DEF TaskRecorded, OnItsWay, RollbackWay, RestoreWay, EndWay, RollbackPoints, ExecutorRunning
<1>7. TaskRecorded(j)'
  BY <1>1, <1>2, <1>3, <1>5, <1>6
     DEF TaskRecorded, Marked, OldMarked, OldPoints, StillOpen, Named
<1>8. ExecutorRunning(j)'
  BY <1>3 DEF ExecutorRunning
<1> QED
  BY <1>1, <1>2, <1>5, <1>7, <1>8, OwnStep DEF PointerOpen

\* The end of a job: a failure, or a rollback that is done and proves it.
LEMMA EndStep ==
  ASSUME Kept, NEW j \in Jobs, ExecutorStep(j), FinalizeFailed(j) \/ RollbackDone(j)
  PROVE  Recorded'
<1>1. /\ TypeOK /\ Grounded /\ jobs[j].status # "Absent" /\ current = j
      /\ ExecutorRunning(j) /\ TaskRecorded(j) /\ jobs[j] \in JobRecord
      /\ jobs \in [Jobs -> JobRecord]
  BY StepIsOwn, JobTyped DEF TypeOK, StateTypeOK
<1>2. /\ UNCHANGED <<current, maint>>
  BY DEF FinalizeFailed, RollbackDone, WriteJob
<1>3. /\ exec[j].pc \in {"finalizeFailed", "rollbackDone"} /\ exec'[j].pc = "clearMaint"
  BY <1>1, FinalizeFailedEffect, RollbackDoneEffect
     DEF Effect, Moves, FinalizeFailed, RollbackDone, At
<1>4. \/ jobs'[j].status = "Failed" /\ jobs'[j].kind = jobs[j].kind
      \/ /\ exec[j].pc = "rollbackDone" /\ jobs'[j].kind = jobs[j].kind
         /\ jobs[j].kind = "Rollback"
         /\ jobs'[j].last = jobs[j].last /\ jobs'[j].ok = jobs[j].ok
  <2>1. CASE FinalizeFailed(j)
    BY <1>1, <2>1 DEF FinalizeFailed, WriteJob, JobRecord
  <2>2. CASE RollbackDone(j)
    BY <1>1, <2>2 DEF RollbackDone, WriteJob, JobRecord, Kinds, At
  <2> QED
    BY <2>1, <2>2
<1>5. jobs'[j].status = "Failed" \/ (jobs[j].kind = "Rollback" /\ maint.job = j)
  BY <1>1, <1>3, <1>4 DEF TaskRecorded, OnItsWay, RollbackWay, RollbackPoints
<1>6. TaskRecorded(j)'
  BY <1>1, <1>2, <1>3, <1>4
     DEF TaskRecorded, Marked, OldMarked, OldPoints, StillOpen, EndPoints, Named,
         OnItsWay, RollbackWay, RestoreWay, EndWay, RollbackPoints
<1>7. PointerOpen'
  BY <1>1, <1>2, <1>5 DEF PointerOpen
<1> QED
  BY <1>3, <1>6, <1>7, OwnStep DEF ExecutorRunning

\* Both writes of clear_maintenance, and an end that leaves nothing to say.
LEMMA ClearStep ==
  ASSUME Kept, NEW j \in Jobs, ExecutorStep(j), ClearMaint(j) \/ ClearCurrent(j)
  PROVE  Recorded'
<1>1. /\ TypeOK /\ Grounded /\ jobs[j].status # "Absent" /\ current = j
      /\ ExecutorRunning(j) /\ TaskRecorded(j) /\ Safe
  BY StepIsOwn
<1>2. /\ UNCHANGED jobs /\ ~maint'.active
      /\ PointerOpen'
      /\ exec[j].pc \in {"clearMaint", "clearCurrent"}
  BY <1>1
     DEF ClearMaint, ClearCurrent, WriteMaint, SetCurrent, InactiveMaintenance, PointerOpen,
         Safe, Exclusive, IdleRecords, At
<1>3. exec'[j].pc \in {"clearCurrent", "idle"}
  BY <1>1, ClearMaintEffect, ClearCurrentEffect DEF Effect, Moves
<1>4. TaskRecorded(j)'
  BY <1>1, <1>2, <1>3
     DEF TaskRecorded, Marked, OldMarked, OldPoints, StillOpen, EndPoints, Named,
         OnItsWay, RollbackWay, RestoreWay, EndWay, RollbackPoints, ExecutorRunning
<1> QED
  BY <1>2, <1>4, OwnStep

\* A task that gives up leaves its job waiting, named by both pointers.
LEMMA GiveUpStep ==
  ASSUME Kept, NEW j \in Jobs, ExecutorStep(j),
         \/ ManualMaint(j) \/ RecoveryFailed(j) \/ RecoveryMaint(j) \/ RecoveryCurrent(j)
  PROVE  Recorded'
<1>1. /\ TypeOK /\ Grounded /\ jobs[j].status # "Absent" /\ current = j
      /\ ExecutorRunning(j) /\ TaskRecorded(j) /\ jobs[j] \in JobRecord
  BY StepIsOwn, JobTyped
<1>2. UNCHANGED <<jobs, current>>
  BY <1>1 DEF ManualMaint, RecoveryFailed, RecoveryMaint, RecoveryCurrent, WriteMaint,
              SetCurrent, stateVars
<1>3. \/ /\ exec[j].pc = "manualMaint" /\ maint'.job = j
         /\ exec'[j].pc \in {"recoveryFailed", "idle"}
      \/ exec[j].pc = "recoveryFailed" /\ exec'[j].pc = "recoveryJob" /\ maint' = maint
      \/ exec[j].pc = "recoveryMaint" /\ exec'[j].pc = "recoveryCurrent" /\ maint'.job = j
      \/ exec[j].pc = "recoveryCurrent" /\ exec'[j].pc = "idle" /\ maint' = maint
  <2>1. CASE ManualMaint(j)
    <3>1. jobs[j].kind = "Rollback" => maint.job = j
      BY <1>1, <2>1 DEF ManualMaint, At, TaskRecorded, OnItsWay, RollbackWay
    <3>2. maint'.job = j
      BY <1>1, <2>1, <3>1 DEF ManualMaint, WriteMaint, JobRecord, Kinds
    <3> QED
      BY <1>1, <2>1, <3>2, ManualMaintEffect DEF Effect, Moves, ManualMaint, At
  <2>2. CASE RecoveryFailed(j)
    <3>1. exec'[j].pc = "recoveryJob"
      BY <1>1, <2>2 DEF RecoveryFailed, Goto, TypeOK, ProcessTypeOK, Executor
    <3> QED
      BY <2>2, <3>1 DEF RecoveryFailed, At, stateVars
  <2>3. CASE RecoveryMaint(j)
    BY <1>1, <2>3, RecoveryMaintEffect DEF Effect, Moves, RecoveryMaint, WriteMaint, At
  <2>4. CASE RecoveryCurrent(j)
    BY <1>1, <2>4, RecoveryCurrentEffect DEF Effect, Moves, RecoveryCurrent, SetCurrent, At
  <2> QED
    BY <2>1, <2>2, <2>3, <2>4
<1>4. jobs[j].status # "Succeeded"
  BY <1>1, <1>3 DEF TaskRecorded, StillOpen, EndPoints
<1>5. TaskRecorded(j)'
  BY <1>1, <1>2, <1>3, <1>4
     DEF TaskRecorded, Marked, OldMarked, OldPoints, StillOpen, EndPoints, Named,
         OnItsWay, RollbackWay, RestoreWay, EndWay, RollbackPoints, ExecutorRunning
<1>6. ~ExecutorRunning(j)' => Waits'
  BY <1>1, <1>2, <1>3, NoJobAssumption DEF TaskRecorded, Named, Waits, ExecutorRunning
<1> QED
  BY <1>1, <1>2, <1>4, <1>5, <1>6, OwnStep DEF PointerOpen

\* The way back of an update closes the site, if it was open, in its own name.
LEMMA RevertStep ==
  ASSUME Kept, NEW j \in Jobs, ExecutorStep(j), Revert(j)
  PROVE  Recorded'
<1>1. /\ TypeOK /\ Grounded /\ jobs[j].status # "Absent" /\ current = j
      /\ ExecutorRunning(j) /\ TaskRecorded(j) /\ jobs[j] \in JobRecord
  BY StepIsOwn, JobTyped
<1>2. /\ UNCHANGED <<jobs, current>> /\ exec[j].pc = "revert" /\ exec'[j].pc = "plan"
  BY <1>1, RevertEffect DEF Effect, Moves, Revert, WriteMaint, stateVars, At
<1>3. jobs[j].status # "Succeeded" /\ jobs[j].kind # "Rollback"
  BY <1>1, <1>2
     DEF TaskRecorded, StillOpen, EndPoints, OnItsWay, RollbackWay, RestoreWay, EndWay
<1>4. TaskRecorded(j)'
  BY <1>1, <1>2, <1>3
     DEF TaskRecorded, Marked, OldMarked, OldPoints, StillOpen, Named, OnItsWay
<1> QED
  BY <1>1, <1>2, <1>3, <1>4, OwnStep DEF PointerOpen, ExecutorRunning

\* Every step of a task keeps the records true.
LEMMA TaskRecords ==
  ASSUME Kept, NEW j \in Jobs, ExecutorStep(j)
  PROVE  Recorded'
<1>1. CASE NoteMaintenance(j) \/ NoteStep(j)
  BY <1>1, NoteMaintenanceStep, NoteStepStep
<1>2. CASE UpdateStep(j)
  BY <1>2, UpdatePlain, FileStep, ProbeStep, CommitStep DEF UpdateStep
<1>3. CASE RollbackStep(j)
  BY <1>3, RollbackPlain, OldStep, FileStep, EndStep, RevertStep DEF RollbackStep
<1>4. CASE CleanupStep(j)
  BY <1>4, RestoreStep, FileStep, EndStep, ClearStep, GiveUpStep DEF CleanupStep
<1> QED
  BY <1>1, <1>2, <1>3, <1>4 DEF ExecutorStep

-----------------------------------------------------------------------------
(***************************************************************************)
(* Requests, death and recovery.                                           *)
(***************************************************************************)
\* A step that changes no record and starts no task.
LEMMA RecordsUntouched ==
  ASSUME Recorded, UNCHANGED <<jobs, current, maint, exec, boot>>
  PROVE  Recorded'
BY DEF Recorded, TaskRecorded, OldMarked, StillOpen, OnItsWay, Named, PointerOpen,
       RecoveryRecorded, ClosedWaits, Waits, NoExecutorRunning, ExecutorRunning, At

\* A new job has no step yet, and no pointer names it.
LEMMA WriteRecorded ==
  ASSUME Kept, NEW j \in Jobs, NEW record, Ready, NeverStarted(record), Write(j, record)
  PROVE  Recorded'
<1>1. /\ TypeOK /\ Grounded /\ Exclusive /\ boot.pc = "up"
      /\ UNCHANGED <<current, maint, exec, boot>>
      /\ jobs' = [jobs EXCEPT ![j] = record] /\ jobs[j].status = "Absent"
  BY DEF Kept, Safe, Sound, Ready, Write, WriteJob
<1>2. /\ jobs'[j] = record /\ \A i \in Jobs \ {j} : jobs'[i] = jobs[i]
      /\ record.status = "Pending"
  BY <1>1 DEF TypeOK, StateTypeOK, NeverStarted
<1>3. ~ExecutorRunning(j) /\ current # j /\ maint.job # j
  BY <1>1, NoJobAssumption DEF Grounded, HasFile
<1>4. TaskRecorded(j)'
  BY <1>1, <1>2, <1>3
     DEF TaskRecorded, Marked, OldMarked, OldPoints, StillOpen, EndPoints, Named,
         OnItsWay, ExecutorRunning
<1>5. \A i \in Jobs \ {j} : TaskRecorded(i)'
  BY <1>1, <1>2
     DEF Kept, Recorded, TaskRecorded, OldMarked, StillOpen, OnItsWay, Named, ExecutorRunning
<1>6. PointerOpen' /\ RecoveryRecorded' /\ ClosedWaits'
  <2>1. current # NoJob => jobs'[current] = jobs[current]
    BY <1>1, <1>2, <1>3 DEF TypeOK, StateTypeOK, JobOrNone
  <2> QED
    BY <1>1, <2>1
       DEF Kept, Recorded, PointerOpen, RecoveryRecorded, JobPoints, ClosedWaits, Waits,
           NoExecutorRunning, ExecutorRunning
<1> QED
  BY <1>4, <1>5, <1>6 DEF Recorded

\* So requests keep the records.
LEMMA RequestRecorded ==
  ASSUME Kept, RequestAnyUpdate \/ RequestAnyRollback
  PROVE  Recorded'
<1>1. CASE RequestAnyUpdate
  <2> PICK j \in Jobs, target \in Versions : RequestUpdate(j, target)
    BY <1>1 DEF RequestAnyUpdate
  <2>1. NeverStarted(NewUpdate(curVer, target))
    BY DEF NeverStarted, NewUpdate, NoRecord
  <2> QED
    BY <2>1, WriteRecorded DEF RequestUpdate
<1>2. CASE RequestAnyRollback
  <2> PICK j \in Jobs, snapshot \in Jobs : RequestRollback(j, snapshot)
    BY <1>2 DEF RequestAnyRollback
  <2>1. NeverStarted(NewRollback(curVer, snapshot))
    BY DEF NeverStarted, NewRollback, NoRecord
  <2> QED
    BY <2>1, WriteRecorded DEF RequestRollback
<1> QED
  BY <1>1, <1>2

\* An admitted job is at the beginning of its way.
LEMMA AdmitRecorded ==
  ASSUME Kept, Admit
  PROVE  Recorded'
<1>1. /\ TypeOK /\ Exclusive /\ loop \in Jobs /\ boot.pc = "up"
      /\ jobs[loop].status = "Pending"
  BY DEF Kept, Safe, Sound, Admit, TypeOK, ProcessTypeOK, JobOrNone, Exclusive, Unstarted,
         NeverStarted
<1> PICK j \in Jobs : j = loop
  BY <1>1
<1>2. /\ current' = j /\ UNCHANGED <<jobs, maint, boot>>
      /\ exec'[j].pc = FirstPhase(jobs[j])
      /\ \A i \in Jobs \ {j} : exec'[i] = exec[i]
  BY <1>1 DEF Admit, SetCurrent, NoExecutor, TypeOK, ProcessTypeOK
<1>3. /\ exec'[j].pc \in {"Preflight", "RollbackInProgress"}
      /\ jobs[j].kind = "Rollback" => exec'[j].pc = "RollbackInProgress"
  BY <1>2 DEF FirstPhase
<1>4. TaskRecorded(j)'
  BY <1>1, <1>2, <1>3
     DEF TaskRecorded, Marked, OldMarked, OldPoints, StillOpen, OnItsWay, Named,
         RollbackWay, RestoreWay, RollbackPoints
<1>5. \A i \in Jobs \ {j} : TaskRecorded(i)'
  BY <1>2
     DEF Kept, Recorded, TaskRecorded, OldMarked, StillOpen, OnItsWay, Named, ExecutorRunning
<1>6. PointerOpen' /\ RecoveryRecorded' /\ ClosedWaits'
  <2>1. ~NoExecutorRunning'
    BY <1>3 DEF NoExecutorRunning, ExecutorRunning
  <2> QED
    BY <1>1, <1>2, <2>1 DEF PointerOpen, RecoveryRecorded, JobPoints, ClosedWaits
<1> QED
  BY <1>4, <1>5, <1>6 DEF Recorded

\* With no task, only the job files themselves have to be marked.
LEMMA IdleRecorded ==
  ASSUME NEW j \in Jobs, ~ExecutorRunning(j), Marked(jobs[j])
  PROVE  TaskRecorded(j)
BY DEF TaskRecorded, OldMarked, OldPoints, StillOpen, EndPoints, OnItsWay, Named,
       ExecutorRunning

\* A death leaves the records as they are.
LEMMA CrashRecorded ==
  ASSUME Kept, Crash
  PROVE  Recorded'
<1>1. /\ UNCHANGED <<jobs, current, maint>> /\ boot'.pc = "plan"
      /\ \A j \in Jobs : ~ExecutorRunning(j)'
  BY DEF Crash, stateVars, NoExecutor, ExecutorRunning
<1>2. \A j \in Jobs : TaskRecorded(j)'
  BY <1>1
     DEF Kept, Recorded, TaskRecorded, OldMarked, OldPoints, StillOpen, EndPoints, OnItsWay,
         Named, ExecutorRunning
<1> QED
  BY <1>1, <1>2
     DEF Kept, Recorded, PointerOpen, RecoveryRecorded, JobPoints, ClosedWaits

\* While recovery runs there is no task.
LEMMA BootFiles ==
  ASSUME Kept, boot.pc # "up"
  PROVE  /\ \A i \in Jobs : ~ExecutorRunning(i) /\ Marked(jobs[i])
         /\ loop = NoJob /\ TypeOK /\ Grounded /\ Exclusive
         /\ PointerOpen /\ RecoveryRecorded
BY BootIsAlone DEF Kept, Safe, Sound, Recorded, TaskRecorded

\* What the plan is about: the job the records name, and not one that succeeded,
\* unless its version remains to be recorded or the pointer to be cleared.
LEMMA PlanRecorded ==
  ASSUME Kept, boot.pc = "plan", NEW tag
  PROVE  LET id == RecoveryJob(maint, current)
             plan == CrashPlan(maint, current, RecordOf(id), tag)
         IN  /\ plan.job = id
             /\ plan.kind \in {"FailUnstarted", "NeedsManual", "ClearPreSwap", "Resume"}
                  => id \in Jobs /\ jobs[id].status # "Succeeded"
             /\ plan.kind = "Idle" => ~maint.active
<1> DEFINE id == RecoveryJob(maint, current)
           job == RecordOf(id)
           plan == CrashPlan(maint, current, job, tag)
<1>1. plan.job = id
  BY DEF CrashPlan
<1>2. id \in JobOrNone
  BY BootFiles DEF RecoveryJob, TypeOK, StateTypeOK, MaintenanceRecord
<1>3. ASSUME plan.kind \in {"FailUnstarted", "NeedsManual", "ClearPreSwap", "Resume"}
      PROVE  id \in Jobs /\ jobs[id].status # "Succeeded"
  <2>1. CASE IsFailUnstarted(maint, id, job)
    BY <1>2, <2>1 DEF IsFailUnstarted, JobOrNone, RecordOf, NeverStarted
  <2>2. CASE ~IsFailUnstarted(maint, id, job)
    <3>1. id # NoJob /\ ~IsCommitted(job) /\ ~IsRestored(job)
      BY <1>3, <2>2 DEF CrashPlan
    <3>2. id \in Jobs /\ job = jobs[id] /\ Marked(job)
      BY <1>2, <3>1, BootFiles DEF JobOrNone, RecordOf
    <3> QED
      BY <3>1, <3>2 DEF Marked, IsCommitted, IsRestored
  <2> QED
    BY <2>1, <2>2
<1>4. ASSUME plan.kind = "Idle"
      PROVE  ~maint.active
  BY <1>4 DEF CrashPlan, IsInterruptedPreSwap
<1> QED
  BY <1>1, <1>3, <1>4

\* The plan hands that job to the steps of recovery.
LEMMA BootPlanRecorded ==
  ASSUME Kept, BootPlan
  PROVE  Recorded'
<1> DEFINE id == RecoveryJob(maint, current)
           plan(tag) == CrashPlan(maint, current, RecordOf(id), tag)
<1> PICK tag \in {env.tag, NoVersion} :
      boot' = [pc |-> FirstBootPoint[plan(tag).kind], job |-> plan(tag).job,
               rollback |-> plan(tag).rollback]
  BY DEF BootPlan
<1> DEFINE kind == plan(tag).kind
<1>1. boot.pc = "plan" /\ UNCHANGED <<jobs, current, maint, exec>>
  BY DEF BootPlan, stateVars
<1>2. /\ plan(tag).job = id
      /\ kind \in {"FailUnstarted", "NeedsManual", "ClearPreSwap", "Resume"}
           => id \in Jobs /\ jobs[id].status # "Succeeded"
      /\ kind = "Idle" => ~maint.active
  BY <1>1, PlanRecorded
<1>3. kind \in PlanKinds
  BY DEF CrashPlan, PlanKinds
<1>4. boot'.pc = FirstBootPoint[kind] /\ boot'.job = id
  BY <1>2
<1> HIDE DEF plan, kind
<1>5. /\ boot'.pc \in JobPoints \ {"commitVersion"}
           => kind \in {"FailUnstarted", "NeedsManual", "ClearPreSwap", "Resume"}
      /\ boot'.pc = "failPreSwap" => kind = "ClearPreSwap"
      /\ boot'.pc = "serve" => kind = "Idle"
      /\ boot'.pc \notin {"serveRestore", "manualMaint", "manualCurrent", "up"}
  BY <1>3, <1>4 DEF FirstBootPoint, PlanKinds, JobPoints
<1>6. boot'.pc = "failPreSwap" => jobs[current].status # "Succeeded"
  <2> SUFFICES ASSUME boot'.pc = "failPreSwap"
               PROVE  jobs[current].status # "Succeeded"
    OBVIOUS
  <2>1. current # NoJob
    <3>1. plan(tag).kind \in {"ClearPreSwap"} => current # NoJob
      BY PlanChoosesOwner DEF Kept, plan
    <3> QED
      BY <1>5, <3>1 DEF kind
  <2>2. jobs[id].status # "Succeeded"
    BY <1>2, <1>5
  <2> QED
    BY <1>1, <2>1, <2>2, BootFiles DEF PointerOpen, RecoveryJob
<1>7. \A j \in Jobs : TaskRecorded(j)'
  BY <1>1 DEF Kept, Recorded, TaskRecorded, OldMarked, StillOpen, OnItsWay, Named,
              ExecutorRunning
<1>8. PointerOpen'
  BY <1>1 DEF Kept, Recorded, PointerOpen
<1>9. RecoveryRecorded'
  BY <1>1, <1>2, <1>4, <1>5, <1>6 DEF RecoveryRecorded
<1>10. ClosedWaits'
  BY <1>1, <1>2, <1>5 DEF ClosedWaits
<1> QED
  BY <1>7, <1>8, <1>9, <1>10 DEF Recorded

\* Recovery writes a job's file: that job has not succeeded, and does not now.
LEMMA BootJobRecorded ==
  ASSUME Kept, UNCHANGED <<hostVars, loop, probe, crashes, probes>>,
         BootFailUnstarted \/ BootManualJob \/ BootFailPreSwap
  PROVE  Recorded'
<1>1. /\ UNCHANGED <<current, maint, exec>>
      /\ \A i \in Jobs : i # boot.job => jobs'[i] = jobs[i]
      /\ boot.job \in Jobs
      /\ \/ boot.pc = "failUnstarted" /\ boot'.pc = "clearMaint"
         \/ boot.pc = "manualJob" /\ boot'.pc = "manualMaint"
         \/ boot.pc = "failPreSwap" /\ boot'.pc = "serveRestore"
      /\ boot'.job = boot.job
  BY DEF BootFailUnstarted, BootManualJob, BootFailPreSwap, WriteJob, BootGoto,
         JobPoints, Kept, Safe, Sound, Grounded, TypeOK, StateTypeOK, ProcessTypeOK,
         JobOrNone, BootPoints
<1>2. /\ \A i \in Jobs : ~ExecutorRunning(i) /\ Marked(jobs[i])
      /\ TypeOK /\ PointerOpen /\ RecoveryRecorded
      /\ boot.job = RecoveryJob(maint, current)
      /\ jobs[boot.job].status # "Succeeded"
  BY <1>1, BootFiles DEF RecoveryRecorded, JobPoints
<1>3. /\ jobs'[boot.job].status # "Succeeded"
      /\ boot.pc = "manualJob" => jobs'[boot.job].status = "NeedsManual"
  <2>1. jobs \in [Jobs -> JobRecord]
    BY <1>2 DEF TypeOK, StateTypeOK
  <2>2. CASE BootFailUnstarted
    BY <1>1, <2>1, <2>2 DEF BootFailUnstarted, WriteJob, JobRecord
  <2>3. CASE BootManualJob
    BY <1>1, <2>1, <2>3 DEF BootManualJob, WriteJob, JobRecord
  <2>4. CASE BootFailPreSwap
    BY <1>1, <1>2, <2>1, <2>4 DEF BootFailPreSwap, WriteJob, JobRecord
  <2> QED
    BY <2>2, <2>3, <2>4
<1>4. \A i \in Jobs : TaskRecorded(i)'
  <2>1. \A i \in Jobs : ~ExecutorRunning(i)' /\ Marked(jobs'[i])
    BY <1>1, <1>2, <1>3 DEF ExecutorRunning, Marked
  <2> QED
    BY <2>1 DEF TaskRecorded, OldMarked, OldPoints, StillOpen, EndPoints, OnItsWay, Named,
                ExecutorRunning
<1>5. current # NoJob /\ jobs[current].status # "Succeeded"
        => jobs'[current].status # "Succeeded"
  BY <1>1, <1>2, <1>3 DEF TypeOK, StateTypeOK, JobOrNone
<1>6. PointerOpen'
  BY <1>1, <1>2, <1>5 DEF PointerOpen
<1>7. RecoveryRecorded'
  <2>1. boot'.pc \in JobPoints => boot'.job = RecoveryJob(maint, current)'
    BY <1>1, <1>2 DEF RecoveryJob
  <2>2. boot'.pc = "serveRestore" => jobs'[current].status # "Succeeded"
    BY <1>1, <1>2, <1>5 DEF RecoveryRecorded, Kept, Safe, Exclusive, RecoveryOwns
  <2> QED
    BY <1>1, <1>3, <2>1, <2>2 DEF RecoveryRecorded
<1>8. ClosedWaits'
  BY <1>1 DEF ClosedWaits
<1> QED
  BY <1>4, <1>6, <1>7, <1>8 DEF Recorded

\* Recovery writes maintenance.json, the pointer or updater.json.
LEMMA BootPointerRecorded ==
  ASSUME Kept, UNCHANGED <<hostVars, loop, probe, crashes, probes>>,
         \/ BootCommitVersion \/ BootClearMaint \/ BootClearCurrent \/ BootManualMaint
         \/ BootManualCurrent \/ BootReviveMaint \/ BootReviveCurrent \/ BootFreeze
  PROVE  Recorded'
<1>1. /\ boot.pc \notin {"up", "freeze"} /\ UNCHANGED <<jobs, exec>>
      /\ boot'.job = boot.job
  BY DEF BootCommitVersion, BootClearMaint, BootClearCurrent, BootManualMaint,
         BootManualCurrent, BootReviveMaint, BootReviveCurrent, BootFreeze,
         BootGoto, WriteUpdater, WriteMaint, SetCurrent, Kept, Safe, Sound, TypeOK,
         ProcessTypeOK, Exclusive, RecoveryOwns
<1>2. /\ \A i \in Jobs : ~ExecutorRunning(i) /\ Marked(jobs[i])
      /\ TypeOK /\ PointerOpen /\ RecoveryRecorded /\ Exclusive
  BY <1>1, BootFiles
<1>3. \A i \in Jobs : TaskRecorded(i)'
  BY <1>1, <1>2
     DEF TaskRecorded, OldMarked, OldPoints, StillOpen, EndPoints, OnItsWay, Named,
         ExecutorRunning, Marked
<1>4. ASSUME boot.pc \in JobPoints
      PROVE  boot.job # NoJob /\ boot.job = RecoveryJob(maint, current)
  BY <1>2, <1>4 DEF RecoveryRecorded, Kept, Safe, Sound, Grounded
<1>5. PointerOpen' /\ RecoveryRecorded' /\ ClosedWaits'
  <2>1. CASE BootCommitVersion
    <3>1. UNCHANGED <<current, maint>> /\ boot'.pc = "clearMaint"
      BY <2>1, <1>2
         DEF BootCommitVersion, WriteUpdater, BootGoto, TypeOK, ProcessTypeOK
    <3> QED
      BY <1>1, <1>2, <3>1 DEF PointerOpen, RecoveryRecorded, JobPoints, ClosedWaits
  <2>2. CASE BootClearMaint
    <3>1. UNCHANGED current /\ maint' = InactiveMaintenance /\ boot'.pc = "clearCurrent"
      BY <2>2, <1>2 DEF BootClearMaint, WriteMaint, BootGoto, TypeOK, ProcessTypeOK
    <3> QED
      BY <1>1, <3>1
         DEF PointerOpen, RecoveryRecorded, JobPoints, ClosedWaits, InactiveMaintenance
  <2>3. CASE BootClearCurrent
    <3>1. /\ UNCHANGED maint /\ current' = NoJob
          /\ boot.pc = "clearCurrent" /\ boot'.pc = "serve"
      BY <2>3, <1>2 DEF BootClearCurrent, SetCurrent, BootGoto, TypeOK, ProcessTypeOK
    <3>2. ~maint.active
      BY <3>1, <1>2 DEF Exclusive, IdleRecords, OnlyFinishedBehind
    <3> QED
      BY <1>1, <3>1, <3>2 DEF PointerOpen, RecoveryRecorded, JobPoints, ClosedWaits
  <2>4. CASE BootManualMaint
    <3>1. /\ UNCHANGED current /\ maint'.job = boot.job
          /\ boot.pc = "manualMaint" /\ boot'.pc = "manualCurrent"
      BY <2>4, <1>2 DEF BootManualMaint, WriteMaint, BootGoto, TypeOK, ProcessTypeOK
    <3>2. /\ boot.job # NoJob /\ boot.job = RecoveryJob(maint, current)
          /\ jobs[boot.job].status = "NeedsManual"
      BY <3>1, <1>2, <1>4 DEF JobPoints, RecoveryRecorded
    <3>3. PointerOpen'
      BY <1>1, <1>2, <3>1, <3>2 DEF PointerOpen, RecoveryJob
    <3>4. RecoveryRecorded'
      BY <1>1, <3>1, <3>2 DEF RecoveryRecorded, RecoveryJob
    <3> QED
      BY <3>1, <3>3, <3>4 DEF ClosedWaits
  <2>5. CASE BootManualCurrent
    <3>1. /\ UNCHANGED maint /\ current' = boot.job
          /\ boot.pc = "manualCurrent" /\ boot'.pc = "serve"
      BY <2>5, <1>2 DEF BootManualCurrent, SetCurrent, BootGoto, TypeOK, ProcessTypeOK
    <3>2. /\ boot.job # NoJob /\ maint.job = boot.job
          /\ jobs[boot.job].status = "NeedsManual"
      BY <3>1, <1>2, <1>4 DEF JobPoints, RecoveryRecorded
    <3> QED
      BY <1>1, <3>1, <3>2
         DEF PointerOpen, RecoveryRecorded, JobPoints, ClosedWaits, Waits
  <2>6. CASE BootReviveMaint
    <3>1. /\ UNCHANGED current /\ maint'.job = maint.job
          /\ boot.pc = "reviveMaint" /\ boot'.pc = "reviveCurrent"
      BY <2>6, <1>2
         DEF BootReviveMaint, WriteMaint, BootGoto, TypeOK, StateTypeOK,
             MaintenanceRecord, ProcessTypeOK
    <3>2. RecoveryJob(maint, current)' = RecoveryJob(maint, current)
      BY <3>1 DEF RecoveryJob
    <3> QED
      BY <1>1, <1>2, <3>1, <3>2
         DEF PointerOpen, RecoveryRecorded, JobPoints, ClosedWaits
  <2>7. CASE BootReviveCurrent
    <3>1. /\ UNCHANGED maint /\ current' = boot.job
          /\ boot.pc = "reviveCurrent" /\ boot'.pc = "serveResume"
      BY <2>7, <1>2 DEF BootReviveCurrent, SetCurrent, BootGoto, TypeOK, ProcessTypeOK
    <3>2. boot.job = RecoveryJob(maint, current) /\ jobs[boot.job].status # "Succeeded"
      BY <3>1, <1>2, <1>4 DEF JobPoints, RecoveryRecorded
    <3>3. PointerOpen'
      BY <3>1, <3>2 DEF PointerOpen, RecoveryJob
    <3>4. RecoveryRecorded'
      BY <1>1, <3>1, <3>2 DEF RecoveryRecorded, RecoveryJob
    <3> QED
      BY <3>1, <3>3, <3>4 DEF ClosedWaits
  <2> QED
    BY <1>1, <2>1, <2>2, <2>3, <2>4, <2>5, <2>6, <2>7 DEF BootFreeze
<1> QED
  BY <1>3, <1>5 DEF Recorded

\* What recovery leaves to a task: a job that has not succeeded, on its way.
LEMMA ServeRecorded ==
  ASSUME Kept, Serve, UNCHANGED loop
  PROVE  Recorded'
<1>1. /\ UNCHANGED <<jobs, current, maint>> /\ boot'.pc = "up"
      /\ boot.pc \in {"serve", "serveRestore", "serveResume"}
  BY DEF Serve, stateVars, Kept, Safe, Sound, TypeOK, ProcessTypeOK
<1>2. /\ \A i \in Jobs : ~ExecutorRunning(i) /\ Marked(jobs[i])
      /\ TypeOK /\ PointerOpen /\ RecoveryRecorded /\ Exclusive
  BY <1>1, BootFiles
<1>3. PointerOpen' /\ RecoveryRecorded'
  BY <1>1, <1>2 DEF PointerOpen, RecoveryRecorded, JobPoints
<1>4. CASE boot.pc = "serve"
  <2>1. UNCHANGED exec
    BY <1>4 DEF Serve
  <2>2. \A i \in Jobs : TaskRecorded(i)'
    BY <1>1, <2>1
       DEF Kept, Recorded, TaskRecorded, OldMarked, StillOpen, OnItsWay, Named,
           ExecutorRunning
  <2>3. ClosedWaits'
    BY <1>1, <1>4, <2>1
       DEF Kept, Recorded, ClosedWaits, Waits, NoExecutorRunning, ExecutorRunning
  <2> QED
    BY <1>3, <2>2, <2>3 DEF Recorded
<1>5. CASE boot.pc \in {"serveRestore", "serveResume"}
  <2>1. /\ current \in Jobs /\ jobs[current].status # "Succeeded"
        /\ boot.pc = "serveResume" => current = boot.job
    BY <1>2, <1>5
       DEF RecoveryRecorded, JobPoints, Exclusive, RecoveryOwns, Kept, Safe, Sound,
           Grounded, TypeOK, StateTypeOK, JobOrNone
  <2> PICK j \in Jobs : j = current
    BY <2>1
  <2>2. /\ \A i \in Jobs \ {j} : exec'[i] = exec[i]
        /\ exec'[j].recovering
        /\ exec'[j].pc \in {"preSwapCompose", "RollbackInProgress", "resumeBack",
                            "resumeForward"}
        /\ jobs[j].kind = "Rollback"
             => exec'[j].pc \in {"preSwapCompose", "RollbackInProgress"}
    <3>1. CASE boot.pc = "serveRestore"
      <4>1. Spawn(j, "preSwapCompose", "AppAndPostgres")
        BY <3>1, <2>1, NoJobAssumption DEF Serve
      <4> QED
        BY <4>1, <1>2 DEF Spawn, NoExecutor, TypeOK, ProcessTypeOK
    <3>2. CASE boot.pc = "serveResume"
      <4>1. Spawn(j, ResumePoint(jobs[j], boot.rollback), "None")
        BY <3>2, <2>1 DEF Serve
      <4> QED
        BY <4>1, <1>2 DEF Spawn, ResumePoint, NoExecutor, TypeOK, ProcessTypeOK
    <3> QED
      BY <1>5, <3>1, <3>2
  <2>3. TaskRecorded(j)'
    BY <1>1, <1>2, <2>1, <2>2
       DEF TaskRecorded, Marked, OldMarked, OldPoints, StillOpen, OnItsWay, Named,
           RollbackWay, RestoreWay, RollbackPoints
  <2>4. \A i \in Jobs \ {j} : TaskRecorded(i)'
    BY <1>1, <2>2
       DEF Kept, Recorded, TaskRecorded, OldMarked, StillOpen, OnItsWay, Named,
           ExecutorRunning
  <2>5. ClosedWaits'
    <3>1. ~NoExecutorRunning'
      BY <2>2 DEF NoExecutorRunning, ExecutorRunning
    <3> QED
      BY <3>1 DEF ClosedWaits
  <2> QED
    BY <1>3, <2>3, <2>4, <2>5 DEF Recorded
<1> QED
  BY <1>1, <1>4, <1>5

\* So recovery keeps the records true.
LEMMA BootRecorded ==
  ASSUME Kept, BootStep
  PROVE  Recorded'
BY BootPlanRecorded, BootJobRecorded, BootPointerRecorded, ServeRecorded DEF BootStep

-----------------------------------------------------------------------------
(***************************************************************************)
(* The theorems.                                                           *)
(***************************************************************************)
LEMMA PatientStepKeeps ==
  ASSUME Kept, [PatientNext]_vars
  PROVE  Kept'
<1>1. Safe'
  BY PatientStepSafe DEF Kept
<1>2. Recorded'
  <2>1. CASE \E j \in Jobs : ExecutorStep(j)
    BY <2>1, TaskRecords
  <2>2. CASE Admit \/ Crash \/ BootStep
    BY <2>2, AdmitRecorded, CrashRecorded, BootRecorded
  <2>3. CASE ReconcileProbe \/ ReconcileWrite \/ Migrate \/ Quiet \/ UNCHANGED vars
    BY <2>3, RecordsUntouched
       DEF Kept, ReconcileProbe, ReconcileWrite, WriteUpdater, Migrate, Quiet,
           vars, stateVars, processVars
  <2>4. CASE RequestAnyUpdate \/ (NoExecutorRunning /\ RequestAnyRollback)
    BY <2>4, RequestRecorded
  <2> QED
    BY <2>1, <2>2, <2>3, <2>4 DEF PatientNext, Internal
<1> QED
  BY <1>1, <1>2 DEF Kept

\* The records of every job stay true to what its task has done: the invariant
\* from which the two results below follow.
THEOREM UpdaterKeepsRecords == PatientSpec => []Kept
<1>1. Init => Kept
  BY InitSound, InitExclusive, InitRecorded DEF Kept, Safe
<1>2. Kept /\ [PatientNext]_vars => Kept'
  BY PatientStepKeeps
<1> QED
  BY <1>1, <1>2, PTL DEF PatientSpec

\* Recovery, or the task of a job, that leaves the site closed lets its job wait.
THEOREM UpdaterClosedSiteHasOwner == PatientSpec => []ClosedSiteHasOwner
<1>1. Kept => ClosedSiteHasOwner
  BY DEF Kept, Recorded, ClosedWaits, Waits, ClosedSiteHasOwner, Settled, Ready
<1> QED
  BY <1>1, UpdaterKeepsRecords, PTL

\* A task whose job has succeeded only tidies up: it writes no job file.
LEMMA TaskKeepsSuccess ==
  ASSUME Kept, NEW j \in Jobs, ExecutorStep(j),
         NEW i \in Jobs, jobs[i].status = "Succeeded"
  PROVE  jobs'[i].status = "Succeeded"
<1>1. /\ ExecutorRunning(j) /\ StillOpen(j)
      /\ i # j => jobs'[i] = jobs[i]
  BY StepIsOwn DEF Advance, KeepsRecords, TaskRecorded
<1>2. CASE i = j
  <2>1. exec[j].pc \in {"commitVersion", "clearMaint", "clearCurrent"}
    BY <1>1, <1>2 DEF StillOpen, EndPoints, ExecutorRunning
  <2>2. CASE NoteMaintenance(j) \/ NoteStep(j)
    BY <2>1, <2>2 DEF NoteMaintenance, NoteStep, WorkOf
  <2>3. ~RollbackStep(j)
    BY <2>1
       DEF RollbackStep, At, Revert, RollbackRunner, PlanComposeRestore, StopNew,
           RestoreCompose, RestoreProxyTag, SwapTagBack, SkipRestore, StopForRestore,
           WipeData, RefillData, StartRestored, StartOld, OldStarted, OldHealth,
           RecordRestored, RollbackDone, RollbackFailed
  <2>4. ASSUME UpdateStep(j)
        PROVE  CommitVersion(j)
    BY <2>1, <2>4
       DEF UpdateStep, At, Preflight, BuildRunner, StopApps, SkipSnapshot,
           StopPostgres, CopySnapshot, StartPostgres, NoteSnapshot, InstallCompose,
           SwapTag, SwapProxyTag, Verify, StartNew, ProbeHealth, Commit,
           ResumeUpdate, ReinstallCompose
  <2>5. ASSUME CleanupStep(j)
        PROVE  ClearMaint(j) \/ ClearCurrent(j)
    BY <2>1, <2>5
       DEF CleanupStep, At, PreSwapCompose, PreSwapUp, FinalizeFailed, ManualJob,
           ManualMaint, RecoveryFailed, RecoveryJobFailed, RecoveryMaint,
           RecoveryCurrent
  <2>6. CASE CommitVersion(j) \/ ClearMaint(j) \/ ClearCurrent(j)
    BY <2>6 DEF CommitVersion, ClearMaint, ClearCurrent, WriteUpdater, WriteMaint,
                SetCurrent
  <2> QED
    BY <2>2, <2>3, <2>4, <2>5, <2>6 DEF ExecutorStep
<1> QED
  BY <1>1, <1>2

\* Neither requests nor recovery write the file of a job that has succeeded.
LEMMA OthersKeepSuccess ==
  ASSUME Kept, Admit \/ RequestAnyUpdate \/ RequestAnyRollback \/ Crash \/ BootStep,
         NEW i \in Jobs, jobs[i].status = "Succeeded"
  PROVE  jobs'[i].status = "Succeeded"
<1>1. TypeOK
  BY DEF Kept, Safe, Sound
<1>2. CASE Admit \/ Crash
  BY <1>2 DEF Admit, Crash, SetCurrent, stateVars
<1>3. CASE RequestAnyUpdate \/ RequestAnyRollback
  <2>1. \E j \in Jobs : \E record : Write(j, record)
    BY <1>3 DEF RequestAnyUpdate, RequestAnyRollback, RequestUpdate, RequestRollback
  <2> QED
    BY <1>1, <2>1 DEF Write, WriteJob, TypeOK, StateTypeOK
<1>4. CASE BootStep
  <2>1. CASE BootFailUnstarted \/ BootManualJob \/ BootFailPreSwap
    <3>1. boot.pc \in {"failUnstarted", "manualJob", "failPreSwap"}
      BY <2>1 DEF BootFailUnstarted, BootManualJob, BootFailPreSwap
    <3>2. jobs[boot.job].status # "Succeeded"
      BY <3>1, BootFiles DEF RecoveryRecorded, JobPoints
    <3> QED
      BY <1>1, <2>1, <3>2
         DEF BootFailUnstarted, BootManualJob, BootFailPreSwap, WriteJob, TypeOK,
             StateTypeOK
  <2>2. CASE ~(BootFailUnstarted \/ BootManualJob \/ BootFailPreSwap)
    BY <1>4, <2>2
       DEF BootStep, BootPlan, BootCommitVersion, BootClearMaint, BootClearCurrent,
           BootManualMaint, BootManualCurrent, BootReviveMaint, BootReviveCurrent,
           BootFreeze, Serve, WriteUpdater, WriteMaint, SetCurrent, stateVars
  <2> QED
    BY <2>1, <2>2
<1> QED
  BY <1>2, <1>3, <1>4

\* Whatever fails or dies afterwards, a recorded success stays one.
THEOREM UpdaterSuccessIsFinal == PatientSpec => SuccessIsFinal
<1> DEFINE Stays == \A j \in Jobs : jobs[j].status = "Succeeded"
                                      => jobs'[j].status = "Succeeded"
<1>1. Kept /\ [PatientNext]_vars => [Stays]_vars
  <2> SUFFICES ASSUME Kept, [PatientNext]_vars
               PROVE  Stays
    OBVIOUS
  <2>1. CASE \E j \in Jobs : ExecutorStep(j)
    BY <2>1, TaskKeepsSuccess
  <2>2. CASE Admit \/ RequestAnyUpdate \/ RequestAnyRollback \/ Crash \/ BootStep
    BY <2>2, OthersKeepSuccess
  <2>3. CASE ReconcileProbe \/ ReconcileWrite \/ Migrate \/ Quiet \/ UNCHANGED vars
    BY <2>3
       DEF ReconcileProbe, ReconcileWrite, WriteUpdater, Migrate, Quiet, vars, stateVars
  <2> QED
    BY <2>1, <2>2, <2>3 DEF PatientNext, Internal
<1> QED
  BY <1>1, UpdaterKeepsRecords, PTL DEF PatientSpec, SuccessIsFinal

=============================================================================
