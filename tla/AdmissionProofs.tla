--------------------------- MODULE AdmissionProofs ---------------------------
(***************************************************************************)
(* The front desk, for any number of jobs, keys, rescues and deaths, while *)
(* operators follow the guide.                                             *)
(*                                                                         *)
(* A rescue frees the slot of a job that waits, which the updater's own    *)
(* invariant (Kept) does not allow for.  Records is that invariant with    *)
(* such a slot; a step either finds the slot its own, and then the proof   *)
(* for the updater applies, or finds it freed, and then only the loop, a   *)
(* crash or another rescue can step.  Settles and Promises say what keeps  *)
(* an admitted update in sight until its first step.                       *)
(* HostFits, what the records say of the host, needs no such exception: it *)
(* holds of a freed slot and of a site forced open as it stands.           *)
(***************************************************************************)
EXTENDS AdmissionInvariants, UpdaterHostProofs

\* A job's file never changes its kind, and a job that took a step took it for good.
Ages(j) ==
  /\ jobs'[j].kind = jobs[j].kind /\ jobs'[j].status # "Absent"
  /\ NeverStarted(jobs'[j]) => NeverStarted(jobs[j])

\* What a task writes about its job is a step, or leaves the job as started as it was.
LEMMA TaskAges ==
  ASSUME NEW j \in Jobs, TypeOK, Grounded, ExecutorStep(j)
  PROVE  Ages(j)
<1>1. /\ jobs[j] \in JobRecord /\ jobs \in [Jobs -> JobRecord]
      /\ jobs[j].status # "Absent" /\ KeepsRecords(j)
  BY JobTyped, TaskRuns, TaskAdvances, NoJobAssumption
     DEF Grounded, HasFile, TypeOK, StateTypeOK, Advance
<1>2. CASE UNCHANGED jobs
  BY <1>1, <1>2 DEF Ages
<1>3. CASE NoteStep(j)
  BY <1>1, <1>3 DEF NoteStep, WriteJob, JobRecord, Ages, NeverStarted
<1>4. CASE NoteSnapshot(j) \/ OldStarted(j) \/ RollbackFailed(j)
  BY <1>1, <1>2, <1>4
     DEF NoteSnapshot, OldStarted, RollbackFailed, WriteJob, stateVars, JobRecord, Ages,
         NeverStarted
<1>5. CASE Commit(j) \/ FinalizeFailed(j) \/ ManualJob(j)
  BY <1>1, <1>5
     DEF Commit, FinalizeFailed, ManualJob, WriteJob, JobRecord, Ages, NeverStarted
<1>6. CASE RollbackDone(j)
  BY <1>1, <1>6 DEF RollbackDone, WriteJob, JobRecord, Kinds, Ages, NeverStarted
<1>7. CASE ResumeUpdate(j) \/ RecoveryJobFailed(j)
  BY <1>1, <1>7
     DEF ResumeUpdate, RecoveryJobFailed, WriteJob, JobRecord, Ages, NeverStarted
<1>8. CASE NoteMaintenance(j)
  BY <1>2, <1>8 DEF NoteMaintenance, WriteMaint
<1>9. CASE UpdateStep(j)
  BY <1>2, <1>4, <1>5, <1>7, <1>9
     DEF UpdateStep, Preflight, BuildRunner, StopApps, SkipSnapshot, StopPostgres,
         CopySnapshot, StartPostgres, InstallCompose, SwapTag, SwapProxyTag, Verify,
         StartNew, ProbeHealth, CommitVersion, ReinstallCompose, WriteUpdater, stateVars
<1>10. CASE RollbackStep(j)
  BY <1>2, <1>4, <1>6, <1>10
     DEF RollbackStep, Revert, RollbackRunner, PlanComposeRestore, StopNew,
         RestoreCompose, RestoreProxyTag, SwapTagBack, SkipRestore, StopForRestore,
         WipeData, RefillData, StartRestored, StartOld, OldHealth, RecordRestored,
         WriteMaint, WriteUpdater, stateVars
<1>11. CASE CleanupStep(j)
  BY <1>2, <1>5, <1>7, <1>11
     DEF CleanupStep, PreSwapCompose, PreSwapUp, ManualMaint, ClearMaint, ClearCurrent,
         RecoveryFailed, RecoveryMaint, RecoveryCurrent, WriteMaint, SetCurrent, stateVars
<1> QED
  BY <1>3, <1>8, <1>9, <1>10, <1>11 DEF ExecutorStep

\* A task writes the record in its own name, or takes it away.
LEMMA TaskSigns ==
  ASSUME NEW j \in Jobs, Kept, ExecutorStep(j)
  PROVE  maint' = maint \/ maint'.job \in {j, NoJob}
<1>1. CASE UNCHANGED maint
  BY <1>1
<1>2. CASE NoteMaintenance(j) \/ NoteStep(j)
  BY <1>2 DEF NoteMaintenance, NoteStep, WriteMaint, WriteJob
<1>3. CASE UpdateStep(j)
  BY <1>1, <1>3
     DEF UpdateStep, Preflight, BuildRunner, StopApps, SkipSnapshot, StopPostgres,
         CopySnapshot, StartPostgres, NoteSnapshot, InstallCompose, SwapTag, SwapProxyTag,
         Verify, StartNew, ProbeHealth, Commit, CommitVersion, ResumeUpdate,
         ReinstallCompose, WriteUpdater, WriteJob, stateVars
<1>4. CASE RollbackStep(j)
  <2>1. CASE Revert(j)
    BY <1>1, <2>1 DEF Revert, WriteMaint, stateVars
  <2>2. CASE RollbackFailed(j)
    BY <1>1, <2>2 DEF RollbackFailed, WriteJob, stateVars
  <2>3. CASE ~Revert(j) /\ ~RollbackFailed(j)
    BY <1>1, <1>4, <2>3
       DEF RollbackStep, RollbackRunner, PlanComposeRestore, StopNew, RestoreCompose,
           RestoreProxyTag, SwapTagBack, SkipRestore, StopForRestore, WipeData,
           RefillData, StartRestored, StartOld, OldStarted, OldHealth, RecordRestored,
           RollbackDone, WriteUpdater, WriteJob, stateVars
  <2> QED
    BY <2>1, <2>2, <2>3
<1>5. CASE CleanupStep(j)
  <2>1. CASE ManualMaint(j)
    BY <2>1, StepIsOwn, JobTyped
       DEF ManualMaint, WriteMaint, At, TaskRecorded, OnItsWay, RollbackWay, JobRecord, Kinds
  <2>2. CASE RecoveryMaint(j) \/ ClearMaint(j)
    BY <2>2 DEF RecoveryMaint, ClearMaint, WriteMaint, InactiveMaintenance
  <2> QED
    BY <1>1, <1>5, <2>1, <2>2
       DEF CleanupStep, PreSwapCompose, PreSwapUp, FinalizeFailed, ManualJob,
           ClearCurrent, RecoveryFailed, RecoveryJobFailed, RecoveryCurrent,
           SetCurrent, WriteJob, stateVars
<1> QED
  BY <1>2, <1>3, <1>4, <1>5 DEF ExecutorStep

\* The first step of an update is the record of its preflight.
LEMMA FirstStep ==
  ASSUME NEW j \in Jobs, TypeOK, ExecutorStep(j), At(j, "Preflight")
  PROVE  NoteMaintenance(j) \/ NoteStep(j)
<1>1. ~UpdateStep(j)
  BY DEF UpdateStep, At, Preflight, BuildRunner, StopApps, SkipSnapshot, StopPostgres,
         CopySnapshot, StartPostgres, NoteSnapshot, InstallCompose, SwapTag,
         SwapProxyTag, Verify, StartNew, ProbeHealth, Commit, CommitVersion,
         ResumeUpdate, ReinstallCompose
<1>2. ~RollbackStep(j)
  BY DEF RollbackStep, At, Revert, RollbackRunner, PlanComposeRestore, StopNew,
         RestoreCompose, RestoreProxyTag, SwapTagBack, SkipRestore, StopForRestore,
         WipeData, RefillData, StartRestored, StartOld, OldStarted, OldHealth,
         RecordRestored, RollbackDone, RollbackFailed
<1>3. ~CleanupStep(j)
  BY DEF CleanupStep, At, PreSwapCompose, PreSwapUp, FinalizeFailed, ManualJob,
         ManualMaint, ClearMaint, ClearCurrent, RecoveryFailed, RecoveryJobFailed,
         RecoveryMaint, RecoveryCurrent
<1> QED
  BY <1>1, <1>2, <1>3 DEF ExecutorStep


\* A task ends as its job does, or it gives up; before it points at a job that it
\* gave up, it closes the site.
LEMMA TaskLeads ==
  ASSUME NEW j \in Jobs, TypeOK, Grounded, ExecutorStep(j)
  PROVE  /\ exec'[j].pc = "idle"
              => ClearCurrent(j) \/ ManualMaint(j) \/ RecoveryFailed(j) \/ RecoveryCurrent(j)
         /\ exec'[j].pc = "recoveryCurrent" => RecoveryMaint(j)
<1>1. jobs[j].status # "Absent"
  BY TaskRuns, NoJobAssumption DEF Grounded, HasFile
<1>2. CASE NoteMaintenance(j)
  BY <1>2 DEF NoteMaintenance, TypeOK, ProcessTypeOK, Executor, WorkOf
<1>3. CASE NoteStep(j)
  <2>1. exec'[j].pc = WorkOf[exec[j].pc] /\ exec[j].pc \in DOMAIN WorkOf
    BY <1>1, <1>3, NoteStepAdvances DEF NoteStep, Moves
  <2>2. \A phase \in DOMAIN WorkOf : WorkOf[phase] \notin {"idle", "recoveryCurrent"}
    BY DEF WorkOf
  <2> QED
    BY <2>1, <2>2
<1>4. CASE UpdateStep(j)
  <2>1. CASE \/ Preflight(j) \/ BuildRunner(j) \/ StopApps(j) \/ SkipSnapshot(j)
             \/ StopPostgres(j) \/ CopySnapshot(j) \/ StartPostgres(j) \/ NoteSnapshot(j)
    BY <1>1, <2>1, PreflightEffect, BuildRunnerEffect, StopAppsEffect,
       SkipSnapshotEffect, StopPostgresEffect, CopySnapshotEffect,
       StartPostgresEffect, NoteSnapshotEffect
       DEF Effect, Moves
  <2>2. CASE \/ InstallCompose(j) \/ SwapTag(j) \/ SwapProxyTag(j) \/ Verify(j)
             \/ StartNew(j) \/ ProbeHealth(j) \/ Commit(j) \/ CommitVersion(j)
             \/ ResumeUpdate(j) \/ ReinstallCompose(j)
    BY <1>1, <2>2, InstallComposeEffect, SwapTagEffect, SwapProxyTagEffect, VerifyEffect,
       StartNewEffect, ProbeHealthEffect, CommitEffect, CommitVersionEffect,
       ResumeUpdateEffect, ReinstallComposeEffect
       DEF Effect, Moves
  <2> QED
    BY <1>4, <2>1, <2>2 DEF UpdateStep
<1>5. CASE RollbackStep(j)
  BY <1>1, <1>5, RevertEffect, RollbackRunnerEffect, PlanComposeRestoreEffect,
     StopNewEffect, RestoreComposeEffect, RestoreProxyTagEffect,
     SwapTagBackEffect, SkipRestoreEffect, StopForRestoreEffect, WipeDataEffect,
     RefillDataEffect, StartRestoredEffect, StartOldEffect, OldStartedEffect,
     OldHealthEffect, RecordRestoredEffect, RollbackDoneEffect,
     RollbackFailedEffect
     DEF RollbackStep, Effect, Moves
<1>6. CASE CleanupStep(j)
  BY <1>1, <1>6, PreSwapComposeEffect, PreSwapUpEffect, FinalizeFailedEffect,
     ManualJobEffect, ManualMaintEffect, ClearMaintEffect, ClearCurrentEffect,
     RecoveryFailedEffect, RecoveryJobFailedEffect, RecoveryMaintEffect,
     RecoveryCurrentEffect
     DEF CleanupStep, Effect, Moves
<1> QED
  BY <1>2, <1>3, <1>4, <1>5, <1>6 DEF ExecutorStep

\* The running task, seen from the job of another.
LEMMA TaskFresh ==
  ASSUME NEW j \in Jobs, Kept, Settles, ExecutorStep(j), NEW i \in Jobs
  PROVE  FreshFits(i)'
<1>1. /\ ExecutorRunning(j) /\ TypeOK /\ Grounded /\ current = j /\ boot.pc = "up"
      /\ UNCHANGED <<loop, boot>> /\ loop = NoJob /\ i # NoJob
      /\ i # j => jobs'[i] = jobs[i] /\ exec'[i] = exec[i] /\ ~ExecutorRunning(i)
      /\ current' \in {j, NoJob}
  BY StepIsOwn, NoJobAssumption
     DEF Advance, KeepsRecords, Kept, Safe, Exclusive, OwnerRuns
<1>2. Ages(j) /\ (maint' = maint \/ maint'.job \in {j, NoJob})
  BY <1>1, TaskAges, TaskSigns
<1>3. CASE i # j
  BY <1>1, <1>2, <1>3 DEF FreshFits, FreshUpdate, Settles, ExecutorRunning, At
<1>4. CASE i = j /\ FreshUpdate(j)'
  <2>1. FreshUpdate(j) /\ At(j, "Preflight")
    BY <1>1, <1>2, <1>4 DEF Ages, FreshUpdate, Settles, FreshFits
  <2>2. ~NoteStep(j)
    <3>1. jobs \in [Jobs -> JobRecord]
      BY <1>1 DEF TypeOK, StateTypeOK
    <3>2. NoteStep(j) => jobs'[j].last = "Preflight"
      BY <2>1, <3>1 DEF NoteStep, WriteJob, At, JobRecord
    <3> QED
      BY <1>4, <3>2 DEF FreshUpdate, NeverStarted
  <2>3. NoteMaintenance(j)
    BY <1>1, <2>1, <2>2, FirstStep
  <2>4. /\ maint' = [active |-> FALSE, phase |-> "Preflight", job |-> j]
        /\ exec'[j].pc = "Preflight"
    BY <1>1, <2>1, <2>3
       DEF NoteMaintenance, WriteMaint, At, TakesSiteOffline, TypeOK, ProcessTypeOK, Executor
  <2> QED
    BY <1>1, <1>4, <2>4 DEF FreshFits, At
<1> QED
  BY <1>3, <1>4 DEF FreshFits

\* A task leaves the site closed, or no job in the slot.
LEMMA TaskRests ==
  ASSUME NEW j \in Jobs, Kept, Settles, ExecutorStep(j)
  PROVE  OpenRests'
<1>1. /\ ExecutorRunning(j) /\ TypeOK /\ Grounded /\ current = j /\ boot.pc = "up"
      /\ UNCHANGED boot
      /\ \A i \in Jobs \ {j} : exec'[i] = exec[i] /\ ~ExecutorRunning(i)
  BY StepIsOwn DEF Advance
<1>2. \A i \in Jobs : At(i, "recoveryCurrent")' => maint'.active
  BY <1>1, TaskLeads DEF At, ExecutorRunning, RecoveryMaint, WriteMaint
<1>3. ASSUME NoExecutorRunning', ~maint'.active, current' # NoJob
      PROVE  FALSE
  <2>1. exec'[j].pc = "idle"
    BY <1>3 DEF NoExecutorRunning, ExecutorRunning
  <2>2. CASE ClearCurrent(j)
    BY <1>3, <2>2 DEF ClearCurrent, SetCurrent
  <2>3. CASE ManualMaint(j)
    BY <1>3, <2>3 DEF ManualMaint, WriteMaint
  <2>4. CASE RecoveryFailed(j)
    BY <1>1, <2>1, <2>4 DEF RecoveryFailed, Goto, TypeOK, ProcessTypeOK, Executor
  <2>5. CASE RecoveryCurrent(j)
    BY <1>3, <2>5 DEF RecoveryCurrent, SetCurrent, Settles, OpenRests
  <2> QED
    BY <1>1, <2>1, <2>2, <2>3, <2>4, <2>5, TaskLeads
<1> QED
  BY <1>1, <1>2, <1>3 DEF OpenRests


-----------------------------------------------------------------------------
(***************************************************************************)
(* Recovery.                                                               *)
(***************************************************************************)
\* The plan fails an update without a step, or releases it with a job that is
\* over, and it opens the site for no job but one an operator left there.
LEMMA PlanFresh ==
  ASSUME Kept, Settles, boot.pc = "plan", NEW tag
  PROVE  LET id == RecoveryJob(maint, current)
             plan == CrashPlan(maint, current, RecordOf(id), tag)
         IN  /\ \A j \in Jobs : FreshUpdate(j) /\ maint.job = j => plan.kind = "FailUnstarted"
             /\ \A j \in Jobs : FreshUpdate(j) /\ current = j =>
                  plan.kind \in {"FailUnstarted", "FinishCommitted", "FinishRestored",
                                 "ReleaseTerminalCurrent"}
             /\ plan.kind = "Idle" /\ current # NoJob
                  => maint.job = NoJob /\ ~NeverStarted(jobs[current])
<1> DEFINE id == RecoveryJob(maint, current)
           job == RecordOf(id)
           plan == CrashPlan(maint, current, job, tag)
<1>1. ASSUME NEW j \in Jobs, FreshUpdate(j), id = j, ~maint.active
      PROVE  plan.kind = "FailUnstarted"
  BY <1>1, NoJobAssumption DEF CrashPlan, IsFailUnstarted, RecordOf, FreshUpdate
<1>2. ASSUME NEW j \in Jobs, FreshUpdate(j), maint.job = j
      PROVE  plan.kind = "FailUnstarted"
  <2>1. id = j /\ ~maint.active
    BY <1>2, NoJobAssumption DEF RecoveryJob, Settles, FreshFits
  <2> QED
    BY <1>1, <1>2, <2>1
<1>3. ASSUME maint.job # NoJob
      PROVE  id = maint.job /\ job = jobs[maint.job]
  BY <1>3 DEF RecoveryJob, RecordOf
<1>4. ASSUME LeftBehind, maint.phase = "Preflight", job.work = "Preflight"
      PROVE  EffectivePhase(maint, job) = "Preflight" /\ ~Resumable("Preflight")
  BY <1>4
     DEF EffectivePhase, Decisive, Resumable, IsPostSwap, IsRollback, PostSwapPhases,
         RollbackPhases
<1>5. ASSUME NEW j \in Jobs, FreshUpdate(j), current = j
      PROVE  plan.kind \in {"FailUnstarted", "FinishCommitted", "FinishRestored",
                            "ReleaseTerminalCurrent"}
  <2>1. ~maint.active
    BY <1>5 DEF Settles, FreshFits
  <2>2. CASE maint.job \in {NoJob, j}
    BY <1>1, <1>5, <2>1, <2>2 DEF RecoveryJob
  <2>3. CASE maint.job \notin {NoJob, j}
    <3>1. /\ LeftBehind /\ maint.phase = "Preflight" /\ job.work = "Preflight"
          /\ job.status \in {"Succeeded", "Failed"} /\ id # NoJob
      BY <1>3, <1>5, <2>1, <2>3 DEF Settles, FreshFits, OnlyFinishedBehind, LeftBehind
    <3>2. EffectivePhase(maint, job) = "Preflight" /\ ~Resumable("Preflight")
      BY <1>4, <3>1
    <3> QED
      BY <2>1, <3>1, <3>2
         DEF CrashPlan, IsFailUnstarted, NeverStarted, IsInterruptedPreSwap, IsFinished,
             Inflight
  <2> QED
    BY <2>2, <2>3
<1>6. ASSUME plan.kind = "Idle", current # NoJob
      PROVE  maint.job = NoJob /\ ~NeverStarted(jobs[current])
  <2>1. ~maint.active
    BY <1>6, PlanRecorded
  <2>2. id \in Jobs /\ job = jobs[id] /\ jobs[id] \in JobRecord /\ job.status # "Absent"
    BY <1>6, BootFiles
       DEF RecoveryJob, RecordOf, Grounded, HasFile, TypeOK, StateTypeOK, JobOrNone,
           MaintenanceRecord
  <2>3. ~NeverStarted(job) /\ ~IsFinished(job) /\ ~IsInterruptedPreSwap(maint, job)
    BY <1>6, <2>1, <2>2, NoJobAssumption DEF CrashPlan, IsFailUnstarted
  <2>4. job.status \in Inflight
    BY <2>2, <2>3 DEF IsFinished, JobRecord, Statuses, Inflight
  <2>5. maint.job = NoJob
    <3> SUFFICES ASSUME maint.job # NoJob
                 PROVE  FALSE
      OBVIOUS
    <3>1. LeftBehind /\ maint.phase = "Preflight" /\ job.work = "Preflight"
      BY <1>3, <2>1, <2>3, BootFiles DEF LeftBehind, Exclusive, OpenOnlyInPreflight
    <3> QED
      BY <1>4, <2>3, <2>4, <3>1 DEF IsInterruptedPreSwap, PreSwapPhases
  <2> QED
    BY <2>2, <2>3, <2>5 DEF RecoveryJob
<1> QED
  BY <1>2, <1>5, <1>6

\* What the plan does with an update without a step.
LEMMA BootPlanSettles ==
  ASSUME Kept, Settles, BootPlan, UNCHANGED loop
  PROVE  Settles'
<1> DEFINE id == RecoveryJob(maint, current)
           plan(tag) == CrashPlan(maint, current, RecordOf(id), tag)
<1> PICK tag \in {env.tag, NoVersion} :
      boot' = [pc |-> FirstBootPoint[plan(tag).kind], job |-> plan(tag).job,
               rollback |-> plan(tag).rollback]
  BY DEF BootPlan
<1> DEFINE kind == plan(tag).kind
<1>1. boot.pc = "plan" /\ UNCHANGED <<jobs, current, maint, exec>>
  BY DEF BootPlan, stateVars
<1>2. /\ \A j \in Jobs : FreshUpdate(j) /\ maint.job = j => kind = "FailUnstarted"
      /\ \A j \in Jobs : FreshUpdate(j) /\ current = j =>
           kind \in {"FailUnstarted", "FinishCommitted", "FinishRestored",
                     "ReleaseTerminalCurrent"}
      /\ kind = "Idle" /\ current # NoJob
           => maint.job = NoJob /\ ~NeverStarted(jobs[current])
  BY <1>1, PlanFresh
<1>3. kind \in PlanKinds
  BY DEF CrashPlan, PlanKinds
<1>4. boot'.pc = FirstBootPoint[kind]
  OBVIOUS
<1> HIDE DEF plan, kind
<1>5. /\ kind = "FailUnstarted" => boot'.pc = "failUnstarted"
      /\ kind \in {"FinishCommitted", "FinishRestored", "ReleaseTerminalCurrent"}
           => boot'.pc \in {"commitVersion", "clearMaint", "clearCurrent"}
      /\ boot'.pc = "serve" => kind = "Idle"
      /\ boot'.pc \notin {"up", "manualCurrent"}
  BY <1>3, <1>4 DEF FirstBootPoint, PlanKinds
<1>6. loop' = NoJob /\ \A i \in Jobs : ~ExecutorRunning(i) /\ ~ExecutorRunning(i)'
  BY <1>1, BootFiles DEF ExecutorRunning
<1>7. ASSUME NEW j \in Jobs
      PROVE  FreshFits(j)'
  BY <1>1, <1>2, <1>5, <1>6, NoJobAssumption
     DEF Settles, FreshFits, FreshUpdate, OnlyFinishedBehind
<1>8. OpenRests'
  BY <1>1, <1>2, <1>5, <1>6 DEF OpenRests, ExecutorRunning, At
<1> QED
  BY <1>7, <1>8 DEF Settles

\* The job file recovery writes is not that of an update without a step any more.
LEMMA BootJobSettles ==
  ASSUME Kept, Settles, BootFailUnstarted \/ BootManualJob \/ BootFailPreSwap,
         UNCHANGED loop
  PROVE  Settles'
<1>1. /\ UNCHANGED <<current, maint, exec>>
      /\ \A i \in Jobs : i # boot.job => jobs'[i] = jobs[i]
      /\ boot.job \in Jobs
      /\ \/ BootFailUnstarted /\ boot.pc = "failUnstarted" /\ boot'.pc = "clearMaint"
         \/ BootManualJob /\ boot.pc = "manualJob" /\ boot'.pc = "manualMaint"
         \/ BootFailPreSwap /\ boot.pc = "failPreSwap" /\ boot'.pc = "serveRestore"
  BY DEF BootFailUnstarted, BootManualJob, BootFailPreSwap, WriteJob, BootGoto,
         JobPoints, Kept, Safe, Sound, Grounded, TypeOK, StateTypeOK, ProcessTypeOK,
         JobOrNone, BootPoints
<1>2. /\ \A i \in Jobs : ~ExecutorRunning(i)
      /\ TypeOK /\ boot.job = RecoveryJob(maint, current) /\ loop' = NoJob
  BY <1>1, BootFiles DEF RecoveryRecorded, JobPoints
<1>3. /\ jobs'[boot.job].status # "Pending"
      /\ boot.pc = "failUnstarted"
           => jobs'[boot.job].status = "Failed" /\ jobs'[boot.job].work = "Preflight"
  <2>1. jobs \in [Jobs -> JobRecord]
    BY <1>2 DEF TypeOK, StateTypeOK
  <2>2. CASE BootFailUnstarted
    BY <1>1, <2>1, <2>2 DEF BootFailUnstarted, WriteJob, JobRecord
  <2>3. CASE BootManualJob
    BY <1>1, <2>1, <2>3 DEF BootManualJob, WriteJob, JobRecord
  <2>4. CASE BootFailPreSwap
    BY <1>1, <2>1, <2>4 DEF BootFailPreSwap, WriteJob, JobRecord
  <2> QED
    BY <1>1, <2>2, <2>3, <2>4
<1>4. ASSUME NEW j \in Jobs, FreshUpdate(j)'
      PROVE  FreshFits(j)'
  <2>1. j # boot.job /\ FreshUpdate(j)
    BY <1>1, <1>3, <1>4 DEF FreshUpdate, NeverStarted
  <2>2. maint.job # j /\ (current = j => maint.job \notin {NoJob, j} /\ maint.job = boot.job)
    BY <1>2, <2>1, NoJobAssumption DEF RecoveryJob
  <2>3. current = j => boot.pc = "failUnstarted" /\ OnlyFinishedBehind
    BY <1>1, <2>1, <2>2 DEF Settles, FreshFits
  <2>4. current = j => ~maint.active /\ OnlyFinishedBehind' /\ boot'.pc = "clearMaint"
    BY <1>1, <1>3, <2>2, <2>3 DEF OnlyFinishedBehind
  <2> QED
    BY <1>1, <1>2, <2>2, <2>4, NoJobAssumption DEF FreshFits, ExecutorRunning
<1>5. OpenRests'
  BY <1>1, <1>2 DEF OpenRests, ExecutorRunning, At
<1> QED
  BY <1>4, <1>5 DEF Settles, FreshFits

\* The pointers recovery writes are not to an update without a step.
LEMMA BootPointerSettles ==
  ASSUME Kept, Settles, UNCHANGED loop,
         \/ BootCommitVersion \/ BootClearMaint \/ BootClearCurrent \/ BootManualMaint
         \/ BootManualCurrent \/ BootReviveMaint \/ BootReviveCurrent \/ BootFreeze
  PROVE  Settles'
<1>1. UNCHANGED <<jobs, exec>> /\ boot.pc # "up" /\ boot.pc \in BootPoints
  BY DEF BootCommitVersion, BootClearMaint, BootClearCurrent, BootManualMaint,
         BootManualCurrent, BootReviveMaint, BootReviveCurrent, BootFreeze,
         WriteUpdater, WriteMaint, SetCurrent, BootGoto, Kept, Safe, Sound, TypeOK,
         ProcessTypeOK
<1>2. /\ \A i \in Jobs : ~ExecutorRunning(i) /\ ~ExecutorRunning(i)'
      /\ TypeOK /\ Exclusive /\ RecoveryRecorded /\ loop' = NoJob
  BY <1>1, BootFiles DEF ExecutorRunning
<1>3. ASSUME NEW j \in Jobs
      PROVE  FreshFits(j)'
  <2>1. FreshFits(j) /\ j # NoJob /\ (FreshUpdate(j)' => FreshUpdate(j))
    BY <1>1, NoJobAssumption DEF Settles, FreshUpdate
  <2>2. CASE BootCommitVersion
    BY <1>1, <1>2, <2>1, <2>2
       DEF BootCommitVersion, WriteUpdater, BootGoto, TypeOK, ProcessTypeOK, FreshFits,
           OnlyFinishedBehind
  <2>3. CASE BootClearMaint
    BY <1>1, <1>2, <2>1, <2>3
       DEF BootClearMaint, WriteMaint, InactiveMaintenance, BootGoto, TypeOK, ProcessTypeOK,
           FreshFits
  <2>4. CASE BootClearCurrent
    BY <1>1, <1>2, <2>1, <2>4
       DEF BootClearCurrent, SetCurrent, BootGoto, TypeOK, ProcessTypeOK, FreshFits
  <2>5. CASE BootManualMaint \/ BootManualCurrent
    <3>1. boot.pc \in {"manualMaint", "manualCurrent"} /\ jobs[boot.job].status = "NeedsManual"
      BY <1>2, <2>5 DEF BootManualMaint, BootManualCurrent, RecoveryRecorded
    <3>2. FreshUpdate(j) => maint'.job # j /\ current' # j
      BY <2>1, <2>5, <3>1
         DEF BootManualMaint, BootManualCurrent, WriteMaint, SetCurrent, FreshUpdate,
             NeverStarted, FreshFits
    <3> QED
      BY <1>2, <2>1, <3>2 DEF FreshFits
  <2>6. CASE BootReviveMaint \/ BootReviveCurrent
    <3>1. boot.pc \in {"reviveMaint", "reviveCurrent"} /\ boot.job = RecoveryJob(maint, current)
      BY <1>2, <2>6 DEF BootReviveMaint, BootReviveCurrent, RecoveryRecorded, JobPoints
    <3>2. FreshUpdate(j) => maint.job # j /\ current # j
      BY <2>1, <3>1 DEF FreshFits
    <3>3. maint'.job = maint.job /\ current' \in {current, boot.job}
      BY <1>2, <2>6
         DEF BootReviveMaint, BootReviveCurrent, WriteMaint, SetCurrent, TypeOK, StateTypeOK,
             MaintenanceRecord
    <3> QED
      BY <1>2, <2>1, <3>1, <3>2, <3>3 DEF FreshFits, RecoveryJob
  <2>7. ~BootFreeze
    BY <1>2 DEF BootFreeze, Exclusive, RecoveryOwns
  <2> QED
    BY <2>2, <2>3, <2>4, <2>5, <2>6, <2>7
<1>4. OpenRests'
  <2>1. /\ boot'.pc = "serve" => current' = NoJob \/ maint'.active
        /\ boot'.pc = "manualCurrent" => maint'.active
        /\ boot'.pc # "up"
    BY <1>1, <1>2
       DEF BootCommitVersion, BootClearMaint, BootClearCurrent, BootManualMaint,
           BootManualCurrent, BootReviveMaint, BootReviveCurrent, BootFreeze,
           WriteUpdater, WriteMaint, SetCurrent, BootGoto, TypeOK, ProcessTypeOK,
           Exclusive, RecoveryOwns, Settles, OpenRests
  <2> QED
    BY <1>2, <2>1 DEF OpenRests, ExecutorRunning, At
<1> QED
  BY <1>3, <1>4 DEF Settles

\* Recovery starts no task for an update without a step.
LEMMA ServeSettles ==
  ASSUME Kept, Settles, Serve, UNCHANGED loop
  PROVE  Settles'
<1>1. /\ UNCHANGED <<jobs, current, maint>> /\ boot'.pc = "up"
      /\ boot.pc \in {"serve", "serveRestore", "serveResume"}
  BY DEF Serve, stateVars, Kept, Safe, Sound, TypeOK, ProcessTypeOK
<1>2. /\ \A i \in Jobs : ~ExecutorRunning(i)
      /\ TypeOK /\ RecoveryRecorded /\ Exclusive /\ loop' = NoJob
  BY <1>1, BootFiles
<1>3. CASE boot.pc = "serve"
  <2>1. UNCHANGED exec
    BY <1>3 DEF Serve
  <2> QED
    BY <1>1, <1>2, <1>3, <2>1, NoJobAssumption
       DEF Settles, OpenRests, FreshFits, FreshUpdate, OnlyFinishedBehind, ExecutorRunning,
           At, NoExecutorRunning
<1>4. CASE boot.pc \in {"serveRestore", "serveResume"}
  <2>1. current \in Jobs /\ (boot.pc = "serveResume" => current = boot.job)
    BY <1>2, <1>4
       DEF RecoveryRecorded, JobPoints, Exclusive, RecoveryOwns, Kept, Safe, Sound,
           Grounded, TypeOK, StateTypeOK, JobOrNone
  <2> PICK j \in Jobs : j = current
    BY <2>1
  <2>2. /\ \A i \in Jobs \ {j} : exec'[i] = exec[i]
        /\ exec'[j].pc \in {"preSwapCompose", "RollbackInProgress", "resumeBack",
                            "resumeForward"}
    <3>1. CASE boot.pc = "serveRestore"
      <4>1. Spawn(j, "preSwapCompose", "AppAndPostgres")
        BY <3>1, <2>1, NoJobAssumption DEF Serve
      <4> QED
        BY <4>1, <1>2 DEF Spawn, NoExecutor, TypeOK, ProcessTypeOK
    <3>2. CASE boot.pc = "serveResume"
      <4>1. Spawn(j, ResumePoint(jobs[j], boot.rollback), "None")
        BY <3>2, <2>1 DEF Serve
      <4> QED
        BY <4>1, <1>2 DEF Spawn, ResumePoint, NoExecutor, TypeOK, ProcessTypeOK
    <3> QED
      BY <1>4, <3>1, <3>2
  <2>3. ~FreshUpdate(j)
    BY <1>4 DEF Settles, FreshFits
  <2>4. ASSUME NEW i \in Jobs
        PROVE  FreshFits(i)'
    BY <1>1, <1>2, <2>2, <2>3, NoJobAssumption
       DEF Settles, FreshFits, FreshUpdate, OnlyFinishedBehind, ExecutorRunning
  <2>5. OpenRests'
    BY <1>1, <1>2, <2>2
       DEF OpenRests, NoExecutorRunning, ExecutorRunning, At
  <2> QED
    BY <2>4, <2>5 DEF Settles
<1> QED
  BY <1>1, <1>3, <1>4

\* So recovery leaves none behind.
LEMMA BootSettles ==
  ASSUME Kept, Settles, BootStep
  PROVE  Settles'
BY BootPlanSettles, BootJobSettles, BootPointerSettles, ServeSettles DEF BootStep


-----------------------------------------------------------------------------
(***************************************************************************)
(* Steps of the updater, with the slot as a rescue leaves it.              *)
(***************************************************************************)
\* A slot that is not freed is the updater's own.
LEMMA NotFreed ==
  ASSUME Sound, Records, ~Freed
  PROVE  Kept
BY DEF Records, Kept, Safe, Exclusive, Recorded

\* The updater's own steps never free a slot.
LEMMA KeptRecords ==
  ASSUME Kept'
  PROVE  Records'
BY DEF Kept, Safe, Exclusive, Recorded, Records, Freed, IdleRecords, OnlyFinishedBehind

\* A freed slot with nobody at work.
LEMMA FreedRecords ==
  ASSUME Freed', FreedWaits', Unstarted',
         \A i \in Jobs : ~exec'[i].noted /\ Marked(jobs'[i])
  PROVE  Records'
<1>1. \A i \in Jobs : TaskRecorded(i)'
  BY DEF TaskRecorded, OldMarked, OldPoints, StillOpen, EndPoints, OnItsWay, Named,
         FreedWaits, NoExecutorRunning, ExecutorRunning
<1>2. OwnerRuns' /\ OpenOnlyInPreflight' /\ Noted' /\ RecoveryOwns'
  BY DEF OwnerRuns, OpenOnlyInPreflight, LeftBehind, Noted, RecoveryOwns, Freed,
         FreedWaits, NoExecutorRunning, ExecutorRunning
<1>3. PointerOpen' /\ RecoveryRecorded'
  BY DEF PointerOpen, RecoveryRecorded, JobPoints, Freed, FreedWaits
<1> QED
  BY <1>1, <1>2, <1>3 DEF Records

\* Nobody works on a freed slot but the loop.
LEMMA FreedRests ==
  ASSUME Records, Freed
  PROVE  /\ FreedWaits /\ boot.pc = "up"
         /\ \A i \in Jobs : ~ExecutorRunning(i) /\ ~exec[i].noted /\ Marked(jobs[i])
BY DEF Records, FreedWaits, NoExecutorRunning, Noted, TaskRecorded

\* A step that touches neither the records nor the tasks.
LEMMA RecordsSame ==
  ASSUME Records, Settles, UNCHANGED <<jobs, current, maint, exec, loop, boot>>
  PROVE  Records' /\ Settles'
<1>1. Records'
  BY DEF Records, OwnerRuns, IdleRecords, OnlyFinishedBehind, OpenOnlyInPreflight,
         LeftBehind, Unstarted, Noted, RecoveryOwns, ExecutorRunning, At, TaskRecorded,
         OldMarked, StillOpen, OnItsWay, Named, PointerOpen, RecoveryRecorded,
         ClosedWaits, Waits, NoExecutorRunning, Freed, FreedWaits
<1>2. Settles'
  BY DEF Settles, OpenRests, FreshFits, FreshUpdate, OnlyFinishedBehind,
         NoExecutorRunning, ExecutorRunning, At
<1> QED
  BY <1>1, <1>2

\* Tasks, recovery and migrations.
LEMMA InsideKeeps ==
  ASSUME Sound, Records, Settles, Inside
  PROVE  Records' /\ Settles'
<1>1. CASE Migrate \/ Quiet
  BY <1>1, RecordsSame DEF Migrate, Quiet, vars, stateVars, processVars
<1>2. CASE \E j \in Jobs : ExecutorStep(j)
  <2> PICK j \in Jobs : ExecutorStep(j)
    BY <1>2
  <2>1. Kept
    BY TaskRuns, FreedRests, NotFreed
  <2>2. Kept'
    BY <1>2, <2>1, PatientStepKeeps DEF PatientNext, Internal
  <2>3. Settles'
    BY <2>1, TaskFresh, TaskRests DEF Settles
  <2> QED
    BY <2>2, <2>3, KeptRecords
<1>3. CASE BootStep
  <2>1. boot.pc # "up"
    BY <1>3
       DEF BootStep, BootPlan, BootFailUnstarted, BootCommitVersion, BootClearMaint,
           BootClearCurrent, BootManualJob, BootManualMaint, BootManualCurrent,
           BootFailPreSwap, BootReviveMaint, BootReviveCurrent, BootFreeze, Serve
  <2>2. Kept
    BY <2>1, FreedRests, NotFreed
  <2>3. Kept'
    BY <1>3, <2>2, PatientStepKeeps DEF PatientNext, Internal
  <2>4. Settles'
    BY <1>3, <2>2, BootSettles
  <2> QED
    BY <2>3, <2>4, KeptRecords
<1> QED
  BY <1>1, <1>2, <1>3 DEF Inside

\* The admitted job is alone and at the beginning of its way, wherever the slot was
\* taken over from.
LEMMA AdmitRecords ==
  ASSUME Sound, Records, Settles, Admit
  PROVE  Records' /\ Settles'
<1>1. /\ TypeOK /\ loop \in Jobs /\ boot.pc = "up" /\ maint.job # loop
      /\ \A i \in Jobs : ~ExecutorRunning(i) /\ ~exec[i].noted
      /\ NeverStarted(jobs[loop])
  BY DEF Admit, Sound, TypeOK, ProcessTypeOK, JobOrNone, Records, OwnerRuns, Unstarted,
         Noted
<1> PICK j \in Jobs : j = loop
  BY <1>1
<1>2. /\ current' = j /\ loop' = NoJob /\ j # NoJob /\ UNCHANGED <<jobs, maint, boot>>
      /\ exec'[j].pc = FirstPhase(jobs[j]) /\ ~exec'[j].noted
      /\ \A i \in Jobs \ {j} : exec'[i] = exec[i]
  BY <1>1, NoJobAssumption DEF Admit, SetCurrent, NoExecutor, TypeOK, ProcessTypeOK
<1>3. /\ exec'[j].pc \in {"Preflight", "RollbackInProgress"}
      /\ jobs[j].kind = "Rollback" => exec'[j].pc = "RollbackInProgress"
      /\ jobs[j].kind = "Update" => exec'[j].pc = "Preflight"
      /\ ExecutorRunning(j)'
  BY <1>2 DEF FirstPhase, ExecutorRunning
<1>4. \A i \in Jobs : TaskRecorded(i)'
  <2>1. TaskRecorded(j)'
    BY <1>1, <1>2, <1>3
       DEF TaskRecorded, Marked, OldMarked, OldPoints, StillOpen, OnItsWay, Named,
           RollbackWay, RestoreWay, RollbackPoints, NeverStarted
  <2>2. \A i \in Jobs \ {j} : TaskRecorded(i)'
    BY <1>1, <1>2
       DEF Records, TaskRecorded, OldMarked, StillOpen, OnItsWay, Named, ExecutorRunning
  <2> QED
    BY <2>1, <2>2
<1>5. OwnerRuns' /\ RecoveryOwns'
  BY <1>1, <1>2, <1>3 DEF OwnerRuns, RecoveryOwns, ExecutorRunning
<1>6. ~Freed' /\ IdleRecords' /\ ClosedWaits' /\ OpenOnlyInPreflight'
  BY <1>1, <1>2, <1>3
     DEF Freed, Records, IdleRecords, ClosedWaits, OpenOnlyInPreflight, LeftBehind,
         NoExecutorRunning, ExecutorRunning, At
<1>7. Unstarted' /\ Noted'
  BY <1>1, <1>2, <1>3 DEF Unstarted, Noted, ExecutorRunning, At
<1>8. PointerOpen' /\ RecoveryRecorded'
  BY <1>1, <1>2 DEF PointerOpen, RecoveryRecorded, JobPoints, NeverStarted
<1>9. OpenRests'
  BY <1>1, <1>2, <1>3 DEF OpenRests, NoExecutorRunning, ExecutorRunning, At
<1>10. ASSUME NEW i \in Jobs
       PROVE  FreshFits(i)'
  BY <1>1, <1>2, <1>3, NoJobAssumption
     DEF Settles, FreshFits, FreshUpdate, OnlyFinishedBehind, ExecutorRunning, At
<1> QED
  BY <1>4, <1>5, <1>6, <1>7, <1>8, <1>9, <1>10 DEF Records, Settles

\* A request leaves a job without a step at the desk.
LEMMA WriteSettles ==
  ASSUME Sound, Records, Settles, NEW j \in Jobs, NEW record, Ready, NoExecutorRunning,
         NeverStarted(record), Write(j, record),
         record.kind = "Update" => OnlyFinishedBehind
  PROVE  Settles'
<1>1. /\ TypeOK /\ boot.pc = "up" /\ loop = NoJob /\ loop' = j
      /\ UNCHANGED <<current, maint, exec, boot>>
      /\ jobs' = [jobs EXCEPT ![j] = record] /\ jobs[j].status = "Absent"
  BY DEF Sound, Ready, Write, WriteJob
<1>2. jobs'[j] = record /\ \A i \in Jobs \ {j} : jobs'[i] = jobs[i]
  BY <1>1 DEF TypeOK, StateTypeOK
<1>3. current \in JobOrNone \ {j} /\ maint.job \in JobOrNone \ {j}
  BY <1>1, NoJobAssumption
     DEF Sound, Grounded, HasFile, TypeOK, StateTypeOK, MaintenanceRecord, JobOrNone
<1>4. OnlyFinishedBehind => OnlyFinishedBehind'
  BY <1>1, <1>2, <1>3 DEF OnlyFinishedBehind, JobOrNone
<1>5. ASSUME NEW i \in Jobs
      PROVE  FreshFits(i)'
  <2>1. CASE i = j
    BY <1>1, <1>2, <1>3, <1>4, <2>1
       DEF FreshFits, FreshUpdate, NoExecutorRunning, ExecutorRunning
  <2>2. CASE i # j
    BY <1>1, <1>2, <1>3, <1>4, <2>2
       DEF Settles, FreshFits, FreshUpdate, NoExecutorRunning, ExecutorRunning
  <2> QED
    BY <2>1, <2>2
<1>6. OpenRests'
  BY <1>1, <1>2, <1>3
     DEF Settles, OpenRests, NoExecutorRunning, ExecutorRunning, At, JobOrNone
<1> QED
  BY <1>5, <1>6 DEF Settles

\* A request that finds a freed slot leaves it as it is.
LEMMA FreedWrite ==
  ASSUME Sound, Records, Freed, NEW j \in Jobs, NEW record, Ready,
         NeverStarted(record), Write(j, record)
  PROVE  Records'
<1>1. /\ TypeOK /\ boot.pc = "up" /\ loop' = j
      /\ UNCHANGED <<current, maint, exec, boot>>
      /\ jobs' = [jobs EXCEPT ![j] = record] /\ jobs[j].status = "Absent"
  BY DEF Sound, Ready, Write, WriteJob
<1>2. /\ jobs'[j] = record /\ \A i \in Jobs \ {j} : jobs'[i] = jobs[i]
      /\ record.status = "Pending"
  BY <1>1 DEF TypeOK, StateTypeOK, NeverStarted
<1>3. maint.job \in Jobs \ {j}
  BY <1>1, FreedRests
     DEF FreedWaits, TypeOK, StateTypeOK, MaintenanceRecord, JobOrNone
<1>4. Freed' /\ FreedWaits'
  BY <1>1, <1>2, <1>3, FreedRests
     DEF Freed, FreedWaits, NoExecutorRunning, ExecutorRunning
<1>5. Unstarted'
  BY <1>1, <1>2, <1>3, FreedRests DEF Unstarted, At, ExecutorRunning
<1>6. \A i \in Jobs : ~exec'[i].noted /\ Marked(jobs'[i])
  BY <1>1, <1>2, FreedRests DEF Marked
<1> QED
  BY <1>4, <1>5, <1>6, FreedRecords


-----------------------------------------------------------------------------
(***************************************************************************)
(* The desk.                                                               *)
(***************************************************************************)
\* An update is asked for on an open site whose slot is empty.
LEMMA UpdateRequestKeeps ==
  ASSUME Sound, Records, Settles, NEW j \in Jobs, NEW target \in Versions,
         RequestUpdate(j, target)
  PROVE  Records' /\ Settles'
<1>1. Kept /\ NoExecutorRunning /\ OnlyFinishedBehind
  <2>1. ~Freed /\ current = NoJob
    BY DEF RequestUpdate, Freed
  <2> QED
    BY <2>1, NotFreed, NoJobAssumption
       DEF NoExecutorRunning, Records, OwnerRuns, IdleRecords
<1>2. NeverStarted(NewUpdate(curVer, target))
  BY DEF NeverStarted, NewUpdate, NoRecord
<1>3. Settles'
  BY <1>1, <1>2, WriteSettles DEF RequestUpdate
<1>4. Kept'
  BY <1>1, PatientStepKeeps DEF PatientNext, RequestAnyUpdate
<1> QED
  BY <1>3, <1>4, KeptRecords

\* A rollback is asked for where an operator is awaited, or of a freed slot.
LEMMA RollbackRequestKeeps ==
  ASSUME Sound, Records, Settles, NoExecutorRunning, NEW j \in Jobs,
         NEW snapshot \in Jobs \ {j}, RequestRollback(j, snapshot)
  PROVE  Records' /\ Settles'
<1>1. /\ NeverStarted(NewRollback(curVer, snapshot))
      /\ NewRollback(curVer, snapshot).kind # "Update"
  BY DEF NeverStarted, NewRollback, NoRecord
<1>2. Settles'
  BY <1>1, WriteSettles DEF RequestRollback
<1>3. CASE Freed
  BY <1>1, <1>2, <1>3, FreedWrite DEF RequestRollback
<1>4. CASE ~Freed
  <2>1. Kept'
    BY <1>4, NotFreed, PatientStepKeeps DEF PatientNext, RequestAnyRollback
  <2> QED
    BY <1>2, <2>1, KeptRecords
<1> QED
  BY <1>2, <1>3, <1>4

\* The file of an admission that was cut off is written again.
LEMMA FinishWrites ==
  ASSUME TypeOK, NEW k \in Keys, NEW target \in Versions, FinishAdmission(k, target)
  PROVE  \E j \in Jobs :
           /\ keyOf[j] = k /\ NeverStarted(jobs[j]) /\ current = NoJob
           /\ boot.pc = "up" /\ loop = NoJob /\ ~maint.active
           /\ loop' = j /\ WriteJob(j, [jobs[j] EXCEPT !.from = curVer])
           /\ UNCHANGED <<hostVars, exec, boot, probe, boundVars, deskVars>>
           /\ jobs'[j] \in JobRecord
           /\ jobs'[j] = [jobs[j] EXCEPT !.from = curVer]
           /\ jobs'[j].kind = jobs[j].kind /\ NeverStarted(jobs'[j])
           /\ \A i \in Jobs \ {j} : jobs'[i] = jobs[i]
<1> PICK j \in Jobs :
      /\ keyOf[j] = k /\ Unadmitted(j) /\ loop' = j
      /\ WriteJob(j, [jobs[j] EXCEPT !.from = curVer])
  BY DEF FinishAdmission, HeldBy
<1>1. /\ jobs[j] \in JobRecord /\ curVer \in VersionOrNone
      /\ jobs' = [jobs EXCEPT ![j] = [jobs[j] EXCEPT !.from = curVer]]
      /\ jobs \in [Jobs -> JobRecord]
  BY DEF WriteJob, TypeOK, StateTypeOK
<1>2. /\ jobs'[j] = [jobs[j] EXCEPT !.from = curVer] /\ jobs'[j] \in JobRecord
      /\ \A i \in Jobs \ {j} : jobs'[i] = jobs[i]
  BY <1>1 DEF JobRecord
<1>3. jobs'[j].kind = jobs[j].kind /\ NeverStarted(jobs'[j])
  BY <1>1, <1>2 DEF JobRecord, NeverStarted, Unadmitted
<1> QED
  BY <1>2, <1>3 DEF FinishAdmission, Ready, Unadmitted

\* A cut-off admission goes on like a new request.
LEMMA FinishSound ==
  ASSUME Sound, NEW k \in Keys, NEW target \in Versions, FinishAdmission(k, target)
  PROVE  Sound'
<1> PICK j \in Jobs :
      /\ NeverStarted(jobs[j]) /\ loop' = j
      /\ WriteJob(j, [jobs[j] EXCEPT !.from = curVer])
      /\ UNCHANGED <<hostVars, exec, boot, probe, boundVars>>
      /\ jobs'[j] \in JobRecord /\ NeverStarted(jobs'[j])
      /\ jobs'[j] = [jobs[j] EXCEPT !.from = curVer]
  BY FinishWrites DEF Sound
<1>1. KeepsRecords(j)
  BY JobWritten DEF Sound, NeverStarted
<1>2. UNCHANGED <<current, maint>> /\ jobs'[j].snap = jobs[j].snap
  BY DEF WriteJob, Sound, TypeOK, StateTypeOK, JobRecord
<1>3. TypeOK'
  BY <1>1
     DEF Sound, TypeOK, HostTypeOK, ProcessTypeOK, BoundTypeOK, hostVars, boundVars,
         KeepsRecords, JobOrNone
<1>4. \A id \in JobOrNone : HasFile(id) => HasFile(id)'
  BY <1>1 DEF KeepsRecords, HasFile, JobOrNone
<1>5. HasFile(j)'
  BY <1>1 DEF KeepsRecords, HasFile
<1>6. \A i \in Jobs : HasBackup(i)'
  BY <1>1, <1>2 DEF Sound, Grounded, HasBackup, KeepsRecords
<1> QED
  BY <1>1, <1>2, <1>3, <1>4, <1>5, <1>6
     DEF Sound, Grounded, TypeOK, StateTypeOK, ProcessTypeOK, MaintenanceRecord,
         ExecutorRunning, JobOrNone, HasFile

LEMMA FinishKeeps ==
  ASSUME Sound, Records, Settles, NEW k \in Keys, NEW target \in Versions,
         FinishAdmission(k, target)
  PROVE  Records' /\ Settles'
<1> PICK j \in Jobs :
      /\ NeverStarted(jobs[j]) /\ current = NoJob
      /\ boot.pc = "up" /\ loop = NoJob /\ ~maint.active /\ loop' = j
      /\ WriteJob(j, [jobs[j] EXCEPT !.from = curVer])
      /\ UNCHANGED <<hostVars, exec, boot, probe, boundVars>>
      /\ jobs'[j].kind = jobs[j].kind /\ NeverStarted(jobs'[j])
      /\ \A i \in Jobs \ {j} : jobs'[i] = jobs[i]
  BY FinishWrites DEF Sound
<1>1. /\ TypeOK /\ UNCHANGED <<current, maint, exec, boot>> /\ ~Freed
      /\ IdleRecords /\ ClosedWaits /\ OnlyFinishedBehind
      /\ \A i \in Jobs : ~ExecutorRunning(i) /\ ~exec[i].noted
  BY NoJobAssumption
     DEF Sound, WriteJob, Freed, Records, IdleRecords, OwnerRuns, Noted
<1>2. maint.job \in JobOrNone \ {j}
  BY <1>1, NoJobAssumption
     DEF OnlyFinishedBehind, NeverStarted, TypeOK, StateTypeOK, MaintenanceRecord, JobOrNone
<1>3. OnlyFinishedBehind'
  BY <1>1, <1>2 DEF OnlyFinishedBehind, JobOrNone
<1>4. OwnerRuns' /\ RecoveryOwns' /\ Noted' /\ Unstarted'
  BY <1>1, <1>2 DEF OwnerRuns, RecoveryOwns, Noted, Unstarted, ExecutorRunning, At
<1>5. IdleRecords' /\ ClosedWaits' /\ ~Freed'
  BY <1>1, <1>3 DEF IdleRecords, ClosedWaits, Freed, ExecutorRunning, At
<1>6. OpenOnlyInPreflight'
  BY <1>1, <1>2
     DEF Records, OpenOnlyInPreflight, LeftBehind, ExecutorRunning, JobOrNone
<1>7. \A i \in Jobs : TaskRecorded(i)'
  <2>1. \A i \in Jobs : Marked(jobs'[i])
    BY DEF Records, TaskRecorded, Marked, NeverStarted
  <2> QED
    BY <1>1, <2>1
       DEF TaskRecorded, OldMarked, OldPoints, StillOpen, EndPoints, OnItsWay, Named,
           ExecutorRunning
<1>8. PointerOpen' /\ RecoveryRecorded'
  BY <1>1 DEF PointerOpen, RecoveryRecorded, JobPoints
<1>9. ASSUME NEW i \in Jobs
      PROVE  FreshFits(i)'
  BY <1>1, <1>2, <1>3, NoJobAssumption
     DEF Settles, FreshFits, FreshUpdate, ExecutorRunning
<1>10. OpenRests'
  BY <1>1 DEF OpenRests, ExecutorRunning, At
<1> QED
  BY <1>4, <1>5, <1>6, <1>7, <1>8, <1>9, <1>10 DEF Records, Settles

-----------------------------------------------------------------------------
(***************************************************************************)
(* Rescue.                                                                 *)
(***************************************************************************)
\* A rescue that finds the site as its reading did: the slot is freed, and the job
\* that waits keeps waiting behind the closed site.
LEMMA SlotFreed ==
  ASSUME Sound, Records, Settles, boot.pc = "up", NoExecutorRunning, MayRollback,
         current' = NoJob, UNCHANGED <<jobs, maint, exec, loop, boot>>
  PROVE  Records' /\ Settles'
<1>1. CASE current = NoJob
  BY <1>1, RecordsSame
<1>2. CASE current # NoJob
  <2>1. /\ ~Freed /\ IdleRecords /\ ClosedWaits
        /\ \A i \in Jobs : ~ExecutorRunning(i) /\ ~exec[i].noted /\ Marked(jobs[i])
        /\ \A i \in Jobs : ~ExecutorRunning(i)' /\ ~exec'[i].noted /\ Marked(jobs'[i])
    BY <1>2 DEF Freed, Records, NoExecutorRunning, Noted, TaskRecorded, ExecutorRunning
  <2>2. Unstarted'
    BY <2>1 DEF Records, Unstarted, At, ExecutorRunning
  <2>3. ASSUME maint.active
        PROVE  Records'
    <3>1. Waits
      BY <2>1, <2>3 DEF ClosedWaits
    <3>2. Freed' /\ FreedWaits'
      BY <1>2, <2>1, <2>3, <3>1 DEF Freed, FreedWaits, Waits, NoExecutorRunning
    <3> QED
      BY <2>1, <2>2, <3>2, FreedRecords
  <2>4. ASSUME ~maint.active
        PROVE  Records'
    <3>1. ~Freed' /\ OnlyFinishedBehind'
      BY <1>2, <2>1, <2>4 DEF Freed, OnlyFinishedBehind, Settles, OpenRests
    <3>2. IdleRecords' /\ ClosedWaits'
      BY <2>1, <2>4, <3>1 DEF IdleRecords, ClosedWaits, At, ExecutorRunning
    <3>3. OwnerRuns' /\ RecoveryOwns' /\ Noted'
      BY <2>1 DEF Records, OwnerRuns, RecoveryOwns, Noted, ExecutorRunning
    <3>4. OpenOnlyInPreflight'
      BY <2>1 DEF Records, OpenOnlyInPreflight, LeftBehind, ExecutorRunning
    <3>5. \A i \in Jobs : TaskRecorded(i)'
      BY <2>1
         DEF TaskRecorded, OldMarked, OldPoints, StillOpen, EndPoints, OnItsWay, Named,
             ExecutorRunning
    <3>6. PointerOpen' /\ RecoveryRecorded'
      BY DEF PointerOpen, RecoveryRecorded, JobPoints
    <3> QED
      BY <2>2, <3>1, <3>2, <3>3, <3>4, <3>5, <3>6 DEF Records
  <2>5. Settles'
    BY <2>1, NoJobAssumption
       DEF Settles, OpenRests, FreshFits, FreshUpdate, OnlyFinishedBehind, ExecutorRunning,
           At
  <2> QED
    BY <2>3, <2>4, <2>5
<1> QED
  BY <1>1, <1>2

\* An operator forces maintenance off on a closed site that waits.
LEMMA SiteOpened ==
  ASSUME Sound, Records, Settles, maint.active, Ready, NoExecutorRunning,
         maint' = InactiveMaintenance, UNCHANGED <<jobs, current, exec, loop, boot>>
  PROVE  Records' /\ Settles'
<1>1. /\ boot.pc = "up" /\ loop = NoJob /\ ~maint'.active /\ maint'.job = NoJob
      /\ \A i \in Jobs : ~ExecutorRunning(i)' /\ ~exec'[i].noted /\ Marked(jobs'[i])
  BY DEF Ready, InactiveMaintenance, Records, NoExecutorRunning, Noted, TaskRecorded,
         ExecutorRunning
<1>2. OwnerRuns' /\ OpenOnlyInPreflight' /\ Unstarted' /\ Noted' /\ RecoveryOwns'
  BY <1>1
     DEF OwnerRuns, OpenOnlyInPreflight, LeftBehind, Unstarted, Noted, RecoveryOwns,
         ExecutorRunning, At
<1>3. ~Freed' /\ IdleRecords' /\ ClosedWaits'
  BY <1>1
     DEF Freed, IdleRecords, OnlyFinishedBehind, ClosedWaits, ExecutorRunning, At
<1>4. \A i \in Jobs : TaskRecorded(i)'
  BY <1>1
     DEF TaskRecorded, OldMarked, OldPoints, StillOpen, EndPoints, OnItsWay, Named,
         ExecutorRunning
<1>5. PointerOpen' /\ RecoveryRecorded'
  BY <1>1 DEF PointerOpen, RecoveryRecorded, JobPoints
<1>6. OpenRests'
  BY <1>1
     DEF OpenRests, Records, Freed, ClosedWaits, Waits, NeverStarted, ExecutorRunning, At
<1>7. ASSUME NEW i \in Jobs
      PROVE  FreshFits(i)'
  BY <1>1, NoJobAssumption DEF Settles, FreshFits, FreshUpdate, ExecutorRunning
<1> QED
  BY <1>2, <1>3, <1>4, <1>5, <1>6, <1>7 DEF Records, Settles


-----------------------------------------------------------------------------
(***************************************************************************)
(* Every step, as long as no rescue was overtaken.                         *)
(***************************************************************************)
\* What a guided step does: one of the updater's, or one of its desk.
Rescues == RescueGoesOn \/ (Stuck /\ (RescueContinue \/ RescueForget \/ RescueExit))

OwnRollback == NoExecutorRunning /\ RequestAnyRollback /\ UNCHANGED deskVars

\* These are all.
LEMMA GuidedStep ==
  ASSUME [GuidedNext]_allVars
  PROVE  \/ Inside \/ AdmitAndTell \/ DeskCrash \/ Requests \/ Rescues \/ OwnRollback
         \/ UNCHANGED allVars
BY DEF GuidedNext, DeskNext, Rescues, OwnRollback

\* The desk's variables keep their types.
LEMMA DeskTyped ==
  ASSUME DeskTypeOK, Sound, [GuidedNext]_allVars
  PROVE  DeskTypeOK'
<1>1. TypeOK /\ RescueAssumption
  BY RescueAssumption DEF Sound
<1>2. CASE Inside \/ OwnRollback \/ UNCHANGED allVars
  BY <1>2 DEF Inside, OwnRollback, allVars, deskVars, DeskTypeOK
<1>3. CASE AdmitAndTell
  <2>1. loop \in Jobs /\ keyOf[loop] \in Keys \cup {NoKey}
    BY <1>1, <1>3
       DEF AdmitAndTell, Admit, TypeOK, ProcessTypeOK, JobOrNone, DeskTypeOK
  <2> QED
    BY <1>3, <2>1 DEF AdmitAndTell, Tell, DeskTypeOK
<1>4. CASE DeskCrash
  BY <1>4 DEF DeskCrash, DeskTypeOK, NoRescue, JobOrNone
<1>5. CASE Requests
  <2>1. CASE \E k \in Keys, target \in Versions : Replay(k, target)
    BY <2>1 DEF Replay, HeldBy, Tell, DeskTypeOK
  <2>2. CASE \E k \in Keys, target \in Versions :
               FinishAdmission(k, target) \/ \E j \in Jobs : NewKeyedUpdate(k, j, target)
    BY <2>2 DEF FinishAdmission, NewKeyedUpdate, deskVars, DeskTypeOK
  <2>3. CASE \E j \in Jobs, target \in Versions : NewPlainUpdate(j, target)
    BY <2>3 DEF NewPlainUpdate, deskVars, DeskTypeOK
  <2> QED
    BY <1>5, <2>1, <2>2, <2>3 DEF Requests
<1>6. CASE RescueGoesOn
  <2>1. [rescue EXCEPT !.pc = "send"] \in [pc : {"idle", "free", "send", "leave"}, snap : JobOrNone]
    BY DEF DeskTypeOK
  <2>2. CASE RescueFree
    BY <2>1, <2>2 DEF RescueFree, LateStep, DeskTypeOK
  <2>3. CASE RescueRollback \/ RescueLeave \/ RescueRefused
    <3>1. NoRescue \in [pc : {"idle", "free", "send", "leave"}, snap : JobOrNone]
      BY DEF NoRescue, JobOrNone
    <3>2. LateStep(NoRescue) \/ EndRescue
      BY <2>3 DEF RescueRollback, RescueRefused, RescueLeave
    <3> QED
      BY <3>1, <3>2 DEF LateStep, EndRescue, DeskTypeOK
  <2> QED
    BY <1>6, <2>2, <2>3 DEF RescueGoesOn
<1>7. CASE RescueContinue \/ RescueForget \/ RescueExit
  <2>1. RescueHint \in JobOrNone
    BY <1>1
       DEF RescueHint, RecoveryJob, TypeOK, StateTypeOK, JobRecord, MaintenanceRecord,
           JobOrNone
  <2>2. rescues < MaxRescues => rescues + 1 \in 0 .. MaxRescues
    BY <1>1 DEF DeskTypeOK
  <2> QED
    BY <1>7, <2>1, <2>2
       DEF RescueContinue, RescueForget, RescueExit, CallRescue, DeskTypeOK, JobOrNone
<1> QED
  BY <1>2, <1>3, <1>4, <1>5, <1>6, <1>7, GuidedStep DEF Rescues

\* A rescue call is answered by the process that took it.
LEMMA CallsKeep ==
  ASSUME DeskTypeOK, Sound, CallsFit, [GuidedNext]_allVars
  PROVE  CallsFit'
<1>1. CASE UNCHANGED allVars
  BY <1>1 DEF allVars, deskVars, vars, processVars, CallsFit
<1>2. CASE Inside \/ OwnRollback
  <2>1. boot.pc = "up" => boot'.pc = "up"
    BY <1>2
       DEF Inside, ExecutorStep, BootStep, BootPlan, BootFailUnstarted, BootCommitVersion,
           BootClearMaint, BootClearCurrent, BootManualJob, BootManualMaint,
           BootManualCurrent, BootFailPreSwap, BootReviveMaint, BootReviveCurrent,
           BootFreeze, Serve, Migrate, Quiet, vars, processVars, OwnRollback,
           RequestAnyRollback, RequestRollback, Write
  <2> QED
    BY <1>2, <2>1 DEF Inside, OwnRollback, deskVars, CallsFit
<1>3. CASE AdmitAndTell
  BY <1>3 DEF AdmitAndTell, Admit, CallsFit
<1>4. CASE DeskCrash
  BY <1>4 DEF DeskCrash, NoRescue, CallsFit
<1>5. CASE Requests
  BY <1>5
     DEF Requests, Replay, FinishAdmission, NewKeyedUpdate, NewPlainUpdate, RequestUpdate,
         Write, deskVars, vars, processVars, CallsFit
<1>6. CASE RescueGoesOn
  BY <1>6
     DEF RescueGoesOn, RescueFree, RescueRollback, RescueRefused, RescueLeave, RequestRollback,
         Write, LateStep, EndRescue, NoRescue, OnlyState, vars, processVars, CallsFit,
         DeskTypeOK
<1>7. CASE RescueContinue \/ RescueForget \/ RescueExit
  <2>1. RescueHint # NoJob => RescueHint \in Jobs
    BY DEF RescueHint, RecoveryJob, Sound, TypeOK, StateTypeOK, JobRecord,
           MaintenanceRecord, JobOrNone
  <2> QED
    BY <1>7, <2>1
       DEF RescueContinue, RescueForget, RescueExit, CallRescue, OnlyState, vars,
           processVars, CallsFit
<1> QED
  BY <1>1, <1>2, <1>3, <1>4, <1>5, <1>6, <1>7, GuidedStep DEF Rescues

\* A pointer that is taken away leaves the others good.
LEMMA PointerTaken ==
  ASSUME Sound, UNCHANGED <<jobs, exec, loop, boot>>, UNCHANGED <<hostVars, probe, boundVars>>,
         UNCHANGED <<curVer, report, snaps>>,
         current' \in {current, NoJob}, maint' \in {maint, InactiveMaintenance}
  PROVE  Sound'
<1>1. InactiveMaintenance \in MaintenanceRecord /\ InactiveMaintenance.job = NoJob
  BY DEF InactiveMaintenance, MaintenanceRecord, Phases, JobOrNone
<1>2. TypeOK'
  BY <1>1
     DEF Sound, TypeOK, StateTypeOK, HostTypeOK, ProcessTypeOK, BoundTypeOK, hostVars,
         boundVars, JobOrNone
<1>3. HasFile(maint.job)' /\ HasFile(current)'
  BY <1>1 DEF Sound, Grounded, HasFile
<1> QED
  BY <1>2, <1>3 DEF Sound, Grounded, HasFile, HasBackup, ExecutorRunning

\* A restarted updater can read the job its records name, whatever was rescued.
LEMMA GuidedSound ==
  ASSUME DeskTypeOK, Sound, CallsFit, [GuidedNext]_allVars
  PROVE  Sound'
<1>1. CASE Inside \/ AdmitAndTell \/ DeskCrash \/ UNCHANGED allVars
  BY <1>1, NextSound
     DEF Inside, AdmitAndTell, DeskCrash, allVars, Next, Internal
<1>2. CASE Requests
  <2>1. CASE \E k \in Keys, target \in Versions : Replay(k, target)
    BY <2>1, NextSound DEF Replay
  <2>2. CASE \E k \in Keys, target \in Versions : FinishAdmission(k, target)
    BY <2>2, FinishSound
  <2>3. CASE \E j \in Jobs, target \in Versions : RequestUpdate(j, target)
    BY <2>3, NextSound DEF Next, RequestAnyUpdate
  <2> QED
    BY <1>2, <2>1, <2>2, <2>3 DEF Requests, NewKeyedUpdate, NewPlainUpdate
<1>3. CASE OwnRollback \/ RescueRollback
  <2>1. RequestAnyRollback
    BY <1>3 DEF OwnRollback, RescueRollback, RequestAnyRollback, CallsFit
  <2> QED
    BY <2>1, NextSound DEF Next
<1>4. CASE RescueFree \/ RescueLeave \/ RescueForget
  BY <1>4, PointerTaken
     DEF RescueFree, RescueLeave, RescueForget, SetCurrent, OnlyState, processVars
<1>5. CASE RescueExit
  BY <1>5, PointerTaken DEF RescueExit, WriteMaint, OnlyState, processVars
<1>6. CASE RescueContinue \/ RescueRefused
  BY <1>6, NextSound DEF RescueContinue, RescueRefused
<1> QED
  BY <1>1, <1>2, <1>3, <1>4, <1>5, <1>6, GuidedStep DEF Rescues, RescueGoesOn

\* The histories only grow looser.
LEMMA LooseStays ==
  ASSUME DeskTypeOK, [GuidedNext]_allVars, ~loose'
  PROVE  ~loose
<1>1. loose \in BOOLEAN
  BY DEF DeskTypeOK
<1>2. loose' = loose \/ loose' = (loose \/ ~Left)
      \/ loose' = (loose \/ (maint.active /\ current = NoJob))
  BY GuidedStep
     DEF Inside, AdmitAndTell, DeskCrash, Requests, Replay, FinishAdmission, NewKeyedUpdate,
         NewPlainUpdate, Rescues, RescueGoesOn, RescueFree, RescueRollback, RescueRefused,
         RescueLeave, RescueContinue, RescueForget, RescueExit, CallRescue, LateStep,
         EndRescue, OwnRollback, deskVars, allVars
<1> QED
  BY <1>1, <1>2

\* The records stay true, and open sites at rest.
LEMMA GuidedRecords ==
  ASSUME DeskSafe, [GuidedNext]_allVars, ~loose'
  PROVE  Records' /\ Settles'
<1>1. /\ Sound /\ Records /\ Settles /\ DeskTypeOK /\ CallsFit /\ ~loose
  BY LooseStays DEF DeskSafe
<1>2. CASE Inside
  BY <1>1, <1>2, InsideKeeps
<1>3. CASE AdmitAndTell
  BY <1>1, <1>3, AdmitRecords DEF AdmitAndTell
<1>4. CASE DeskCrash
  <2>1. Crash /\ ~Freed
    BY <1>4 DEF DeskCrash, Freed
  <2>2. Kept /\ Kept'
    BY <1>1, <2>1, NotFreed, PatientStepKeeps DEF PatientNext, Internal
  <2>3. /\ UNCHANGED <<jobs, current, maint>> /\ boot'.pc = "plan" /\ loop' = NoJob
        /\ \A j \in Jobs : ~ExecutorRunning(j)' /\ ~At(j, "recoveryCurrent")'
    BY <2>1 DEF Crash, stateVars, NoExecutor, ExecutorRunning, At
  <2>4. ASSUME NEW j \in Jobs
        PROVE  FreshFits(j)'
    BY <1>1, <2>3, NoJobAssumption
       DEF Settles, FreshFits, FreshUpdate, OnlyFinishedBehind
  <2>5. OpenRests'
    BY <2>3 DEF OpenRests
  <2> QED
    BY <2>2, <2>4, <2>5, KeptRecords DEF Settles
<1>5. CASE Requests
  <2>1. CASE \E k \in Keys, target \in Versions : Replay(k, target)
    BY <1>1, <2>1, RecordsSame DEF Replay, vars, stateVars, processVars
  <2>2. CASE \E k \in Keys, target \in Versions : FinishAdmission(k, target)
    BY <1>1, <2>2, FinishKeeps
  <2>3. CASE \E j \in Jobs, target \in Versions : RequestUpdate(j, target)
    BY <1>1, <2>3, UpdateRequestKeeps
  <2> QED
    BY <1>5, <2>1, <2>2, <2>3 DEF Requests, NewKeyedUpdate, NewPlainUpdate
<1>6. CASE OwnRollback \/ RescueRollback
  <2>1. NoExecutorRunning
    BY <1>1, <1>6 DEF OwnRollback, RescueRollback, LateStep, Left
  <2>2. PICK j \in Jobs, snapshot \in Jobs : j # snapshot /\ RequestRollback(j, snapshot)
    BY <1>1, <1>6 DEF OwnRollback, RescueRollback, RequestAnyRollback, CallsFit
  <2> QED
    BY <1>1, <2>1, <2>2, RollbackRequestKeeps
<1>7. CASE RescueFree \/ RescueLeave
  <2>1. Left /\ boot.pc = "up"
    BY <1>1, <1>7 DEF RescueFree, RescueLeave, LateStep, CallsFit
  <2> QED
    BY <1>1, <1>7, <2>1, SlotFreed
       DEF Left, RescueFree, RescueLeave, SetCurrent, OnlyState, processVars
<1>8. CASE Stuck /\ RescueForget
  <2>1. MayRollback
    BY <1>1, <1>8
       DEF Stuck, Ready, Records, Freed, ClosedWaits, Waits, MayRollback
  <2> QED
    BY <1>1, <1>8, <2>1, SlotFreed
       DEF Stuck, Ready, RescueForget, SetCurrent, OnlyState, processVars
<1>9. CASE Stuck /\ RescueExit
  BY <1>1, <1>9, SiteOpened
     DEF Stuck, RescueExit, WriteMaint, OnlyState, processVars
<1>10. CASE RescueContinue \/ RescueRefused \/ UNCHANGED allVars
  BY <1>1, <1>10, RecordsSame
     DEF RescueContinue, RescueRefused, allVars, vars, stateVars, processVars
<1> QED
  BY <1>2, <1>3, <1>4, <1>5, <1>6, <1>7, <1>8, <1>9, <1>10, GuidedStep
     DEF Rescues, RescueGoesOn

\* Every step keeps the desk safe.
LEMMA DeskStepSafe ==
  ASSUME DeskSafe, [GuidedNext]_allVars
  PROVE  DeskSafe'
<1>1. Sound /\ DeskTypeOK /\ CallsFit
  BY DEF DeskSafe
<1>2. Sound' /\ DeskTypeOK' /\ CallsFit'
  BY <1>1, GuidedSound, DeskTyped, CallsKeep
<1> QED
  BY <1>2, GuidedRecords DEF DeskSafe

\* A fresh installation is safe.
LEMMA InitDeskSafe ==
  ASSUME DeskInit
  PROVE  DeskSafe
<1>1. Init
  BY DEF DeskInit
<1>2. Kept
  BY <1>1, InitSound, InitExclusive, InitRecorded DEF Kept, Safe
<1>3. Records
  BY <1>1, <1>2
     DEF Init, InactiveMaintenance, Kept, Safe, Exclusive, Recorded, Records, Freed
<1>4. Settles
  BY <1>1, NoJobAssumption
     DEF Init, Settles, OpenRests, FreshFits, FreshUpdate, NeverStarted, NoRecord,
         NoExecutor, At
<1>5. DeskTypeOK
  <2>1. rescue \in [pc : {"idle", "free", "send", "leave"}, snap : JobOrNone]
    BY DEF DeskInit, NoRescue, JobOrNone
  <2>2. rescues \in 0 .. MaxRescues
    <3>1. 0 \in 0 .. MaxRescues
      BY RescueAssumption
    <3> QED
      BY <3>1 DEF DeskInit
  <2>4. loose \in BOOLEAN
    BY DEF DeskInit
  <2>3. /\ keyOf \in [Jobs -> Keys \cup {NoKey}] /\ begun \in [Keys -> Nat]
        /\ told \in [Keys -> SUBSET Jobs]
    BY DEF DeskInit
  <2> QED
    BY <2>1, <2>2, <2>3, <2>4 DEF DeskTypeOK
<1>6. CallsFit
  BY DEF DeskInit, CallsFit, NoRescue
<1> QED
  BY <1>2, <1>3, <1>4, <1>5, <1>6 DEF Kept, Safe, DeskSafe


-----------------------------------------------------------------------------
(***************************************************************************)
(* Keys.                                                                   *)
(***************************************************************************)
\* Files stay, of their kind, and what was started stays started.
LEMMA FilesStay ==
  ASSUME DeskTypeOK, Sound, CallsFit, [GuidedNext]_allVars,
         NEW j \in Jobs, jobs[j].status # "Absent"
  PROVE  Ages(j)
<1>1. TypeOK /\ Grounded /\ jobs[j] \in JobRecord /\ jobs \in [Jobs -> JobRecord]
  BY DEF Sound, TypeOK, StateTypeOK
<1>2. CASE UNCHANGED jobs
  BY <1>1, <1>2 DEF Ages
<1>3. CASE \E i \in Jobs : ExecutorStep(i)
  <2> PICK i \in Jobs : ExecutorStep(i)
    BY <1>3
  <2>1. CASE i = j
    BY <1>1, <2>1, TaskAges
  <2>2. CASE i # j
    BY <1>1, <1>2, <2>2, TaskAdvances DEF Advance, KeepsRecords, Ages
  <2> QED
    BY <2>1, <2>2
<1>4. CASE BootStep
  <2>1. CASE BootFailUnstarted
    BY <1>1, <2>1 DEF BootFailUnstarted, WriteJob, JobRecord, Ages, NeverStarted
  <2>2. CASE BootManualJob
    BY <1>1, <2>2 DEF BootManualJob, WriteJob, JobRecord, Ages, NeverStarted
  <2>3. CASE BootFailPreSwap
    BY <1>1, <2>3 DEF BootFailPreSwap, WriteJob, JobRecord, Ages, NeverStarted
  <2>4. CASE ~(BootFailUnstarted \/ BootManualJob \/ BootFailPreSwap)
    BY <1>2, <1>4, <2>4
       DEF BootStep, BootPlan, BootCommitVersion, BootClearMaint, BootClearCurrent,
           BootManualMaint, BootManualCurrent, BootReviveMaint, BootReviveCurrent,
           BootFreeze, Serve, WriteUpdater, WriteMaint, SetCurrent, stateVars
  <2> QED
    BY <2>1, <2>2, <2>3, <2>4
<1>5. CASE \E i \in Jobs : \E record : Write(i, record)
  BY <1>1, <1>5 DEF Write, WriteJob, Ages
<1>6. CASE \E k \in Keys, target \in Versions : FinishAdmission(k, target)
  <2> PICK k \in Keys, target \in Versions : FinishAdmission(k, target)
    BY <1>6
  <2>1. PICK i \in Jobs :
          /\ NeverStarted(jobs[i]) /\ jobs'[i].kind = jobs[i].kind /\ NeverStarted(jobs'[i])
          /\ \A h \in Jobs \ {i} : jobs'[h] = jobs[h]
    BY <1>1, FinishWrites
  <2> QED
    BY <1>1, <2>1 DEF Ages, NeverStarted
<1>7. CASE Requests
  <2>1. CASE \E k \in Keys, target \in Versions : Replay(k, target)
    BY <1>2, <2>1 DEF Replay, vars, stateVars
  <2>2. CASE \E i \in Jobs, target \in Versions : RequestUpdate(i, target)
    BY <1>5, <2>2 DEF RequestUpdate
  <2> QED
    BY <1>6, <1>7, <2>1, <2>2 DEF Requests, NewKeyedUpdate, NewPlainUpdate
<1>8. CASE OwnRollback \/ RescueRollback
  BY <1>5, <1>8 DEF OwnRollback, RequestAnyRollback, RescueRollback, RequestRollback
<1>9. CASE \/ Migrate \/ Quiet \/ AdmitAndTell \/ DeskCrash \/ UNCHANGED allVars
           \/ RescueFree \/ RescueRefused \/ RescueLeave \/ RescueContinue \/ RescueForget
           \/ RescueExit
  BY <1>2, <1>9
     DEF Migrate, Quiet, AdmitAndTell, Admit, DeskCrash, Crash, RescueFree, RescueRefused,
         RescueLeave, RescueContinue, RescueForget, RescueExit, SetCurrent, WriteMaint,
         allVars, vars, stateVars
<1> QED
  BY <1>3, <1>4, <1>7, <1>8, <1>9, GuidedStep DEF Inside, Rescues, RescueGoesOn

\* What a step says of keys: a new one, an admission, an answer, or nothing.
LEMMA KeysMove ==
  ASSUME [GuidedNext]_allVars
  PROVE  \/ \E k \in Keys, j \in Jobs, target \in Versions : NewKeyedUpdate(k, j, target)
         \/ \E k \in Keys, target \in Versions : Replay(k, target)
         \/ AdmitAndTell
         \/ DeskCrash
         \/ UNCHANGED <<keyOf, begun, told>>
BY GuidedStep
   DEF Inside, Requests, FinishAdmission, NewPlainUpdate, Rescues, RescueGoesOn,
       RescueFree, RescueRollback, RescueRefused, RescueLeave, RescueContinue,
       RescueForget, RescueExit, CallRescue, LateStep, EndRescue, OwnRollback, deskVars,
       allVars

\* A key stays with the one update that brought it.
LEMMA KeysStay ==
  ASSUME DeskTypeOK, Sound, CallsFit, KeyFiles, [GuidedNext]_allVars
  PROVE  KeyFiles'
<1>1. \A j \in Jobs : jobs[j].status # "Absent" =>
        jobs'[j].status # "Absent" /\ jobs'[j].kind = jobs[j].kind
  BY FilesStay DEF Ages
<1>2. ASSUME UNCHANGED keyOf
      PROVE  /\ \A j \in Jobs : keyOf'[j] \in Keys
                  => jobs'[j].status # "Absent" /\ jobs'[j].kind = "Update"
             /\ \A i, j \in Jobs : keyOf'[i] = keyOf'[j] /\ keyOf'[i] \in Keys => i = j
             /\ \A k \in Keys : HeldBy(k) # {} => HeldBy(k)' # {}
  BY <1>1, <1>2 DEF KeyFiles, HeldBy
<1>3. CASE UNCHANGED <<keyOf, begun, told>>
  BY <1>2, <1>3 DEF KeyFiles
<1>4. CASE \E k \in Keys, target \in Versions : Replay(k, target)
  <2> PICK k \in Keys, target \in Versions : Replay(k, target)
    BY <1>4
  <2>1. PICK j \in HeldBy(k) : Tell(k, j) /\ UNCHANGED <<keyOf, begun>>
    BY DEF Replay
  <2>2. \A h \in Keys : told'[h] \subseteq told[h] \cup (IF h = k THEN {j} ELSE {})
    BY <2>1 DEF Tell, DeskTypeOK
  <2> QED
    BY <1>2, <2>1, <2>2 DEF KeyFiles, HeldBy
<1>5. CASE AdmitAndTell
  <2>1. /\ loop \in Jobs /\ jobs[loop].status # "Absent" /\ UNCHANGED <<keyOf, jobs>>
    BY <1>5
       DEF AdmitAndTell, Admit, SetCurrent, Sound, Grounded, HasFile, TypeOK, ProcessTypeOK,
           JobOrNone
  <2> PICK j \in Jobs : j = loop
    BY <2>1
  <2>2. CASE keyOf[j] \notin Keys
    BY <1>2, <1>5, <2>1, <2>2 DEF AdmitAndTell, KeyFiles
  <2>3. CASE keyOf[j] \in Keys
    <3>1. /\ \A h \in Keys : told'[h] \subseteq told[h] \cup (IF h = keyOf[j] THEN {j} ELSE {})
          /\ \A h \in Keys \ {keyOf[j]} : begun'[h] = begun[h]
      BY <1>5, <2>3 DEF AdmitAndTell, Tell, DeskTypeOK
    <3>2. j \in HeldBy(keyOf[j])'
      BY <1>1, <2>1 DEF HeldBy
    <3> QED
      BY <1>2, <2>1, <2>3, <3>1, <3>2 DEF KeyFiles
  <2> QED
    BY <2>2, <2>3
<1>6. CASE DeskCrash
  <2>1. /\ UNCHANGED keyOf
        /\ \A k \in Keys : begun'[k] > 0 => begun[k] > 0
        /\ \A k \in Keys : told'[k] \subseteq told[k]
    BY <1>6 DEF DeskCrash
  <2> QED
    BY <1>2, <2>1 DEF KeyFiles
<1>7. CASE \E k \in Keys, j \in Jobs, target \in Versions : NewKeyedUpdate(k, j, target)
  <2> PICK k \in Keys, j \in Jobs, target \in Versions : NewKeyedUpdate(k, j, target)
    BY <1>7
  <2>1. /\ HeldBy(k) = {} /\ jobs[j].status = "Absent" /\ UNCHANGED <<begun, told>>
        /\ keyOf'[j] = k /\ \A i \in Jobs \ {j} : keyOf'[i] = keyOf[i]
        /\ jobs'[j] = NewUpdate(curVer, target)
    BY DEF NewKeyedUpdate, RequestUpdate, Write, WriteJob, DeskTypeOK, Sound, TypeOK,
           StateTypeOK
  <2>2. jobs'[j].status # "Absent" /\ jobs'[j].kind = "Update"
    BY <2>1 DEF NewUpdate, NoRecord
  <2>3. \A i \in Jobs : keyOf[i] # k /\ (keyOf[i] \in Keys => i # j)
    BY <2>1 DEF KeyFiles, HeldBy
  <2>4. /\ \A i \in Jobs : keyOf'[i] \in Keys
             => jobs'[i].status # "Absent" /\ jobs'[i].kind = "Update"
        /\ \A i, h \in Jobs : keyOf'[i] = keyOf'[h] /\ keyOf'[i] \in Keys => i = h
    BY <1>1, <2>1, <2>2, <2>3 DEF KeyFiles
  <2>5. \A h \in Keys : begun'[h] > 0 => HeldBy(h)' # {}
    <3>1. \A h \in Keys : HeldBy(h) \subseteq HeldBy(h)'
      BY <1>1, <2>1, <2>3 DEF HeldBy
    <3> QED
      BY <2>1, <3>1 DEF KeyFiles
  <2>6. \A h \in Keys : \A i \in told'[h] : keyOf'[i] = h
    BY <2>1, <2>3 DEF KeyFiles, DeskTypeOK
  <2> QED
    BY <2>4, <2>5, <2>6 DEF KeyFiles
<1> QED
  BY <1>3, <1>4, <1>5, <1>6, <1>7, KeysMove

\* No key was brought yet.
LEMMA InitKeys ==
  ASSUME DeskInit
  PROVE  KeyFiles /\ Promises
<1>1. /\ \A j \in Jobs : keyOf[j] = NoKey
      /\ \A k \in Keys : begun[k] = 0 /\ told[k] = {}
  BY DEF DeskInit
<1> QED
  BY <1>1, KeyAssumption DEF KeyFiles, Promises, Promised


-----------------------------------------------------------------------------
(***************************************************************************)
(* Promises.                                                               *)
(***************************************************************************)
\* What clients were told stays good, if what they were told of goes on.
LEMMA PromisesGoOn ==
  ASSUME Promises, UNCHANGED <<keyOf, begun, told>>,
         \A j \in Jobs : Promised(j) => loop' # j,
         \A j \in Jobs : Promised(j) /\ NeverStarted(jobs'[j]) => Underway(j)'
  PROVE  Promises'
BY DEF Promises, Promised

\* On a site nobody works on, every promised job took its first step: what is
\* written or taken from the slot there is another job.
LEMMA RestKeepsPromises ==
  ASSUME KeyFiles, Promises, boot.pc = "up", NoExecutorRunning,
         UNCHANGED <<keyOf, begun, told>>,
         \A j \in Jobs : jobs[j].status # "Absent" => Ages(j),
         \A j \in Jobs : loop' = j =>
           loop = j \/ jobs[j].status = "Absent" \/ NeverStarted(jobs[j])
  PROVE  Promises'
<1>1. ASSUME NEW j \in Jobs, Promised(j)
      PROVE  /\ ~NeverStarted(jobs[j]) /\ ~NeverStarted(jobs'[j])
             /\ jobs[j].status # "Absent" /\ loop # j
  BY <1>1 DEF Promises, Underway, NoExecutorRunning, KeyFiles, Promised, Ages
<1> QED
  BY <1>1, PromisesGoOn

\* A step that leaves the jobs and the tasks alone.
LEMMA PromisesSame ==
  ASSUME Promises, UNCHANGED <<keyOf, begun, told>>,
         UNCHANGED <<jobs, current, maint, exec, loop, boot>>
  PROVE  Promises'
BY DEF Promises, Promised, Underway, ExecutorRunning

\* The task of a promised job begins with a step of it.
LEMMA TaskKeepsPromises ==
  ASSUME Kept, Settles, KeyFiles, Promises, UNCHANGED deskVars,
         NEW i \in Jobs, ExecutorStep(i)
  PROVE  Promises'
<1>1. /\ TypeOK /\ Grounded /\ current = i /\ boot.pc = "up" /\ UNCHANGED <<loop, boot>>
      /\ \A j \in Jobs \ {i} : jobs'[j] = jobs[j] /\ ~ExecutorRunning(j)
  BY StepIsOwn DEF Advance, KeepsRecords
<1>2. UNCHANGED <<keyOf, begun, told>>
  BY DEF deskVars
<1>3. ASSUME NEW j \in Jobs, Promised(j), NeverStarted(jobs'[j])
      PROVE  Underway(j)'
  <2>1. NeverStarted(jobs[j])
    BY <1>1, <1>3, TaskAges DEF Ages
  <2>2. ExecutorRunning(j) /\ j = i /\ FreshUpdate(j)
    BY <1>1, <1>3, <2>1
       DEF Promises, Underway, KeyFiles, Promised, FreshUpdate
  <2>3. At(j, "Preflight")
    BY <2>2 DEF Settles, FreshFits
  <2>4. ~NoteStep(j)
    <3>1. jobs \in [Jobs -> JobRecord]
      BY <1>1 DEF TypeOK, StateTypeOK
    <3>2. NoteStep(j) => jobs'[j].last = "Preflight"
      BY <2>3, <3>1 DEF NoteStep, WriteJob, At, JobRecord
    <3> QED
      BY <1>3, <3>2 DEF NeverStarted
  <2>5. NoteMaintenance(j)
    BY <1>1, <2>2, <2>3, <2>4, FirstStep
  <2>6. exec'[j].pc = "Preflight" /\ current' = current
    BY <1>1, <2>3, <2>5
       DEF NoteMaintenance, WriteMaint, At, TypeOK, ProcessTypeOK, Executor
  <2> QED
    BY <1>1, <2>2, <2>6 DEF Underway, ExecutorRunning
<1> QED
  BY <1>1, <1>2, <1>3, PromisesGoOn DEF Promises

\* Recovery fails a promised job that took no step, before it serves.
LEMMA BootKeepsPromises ==
  ASSUME Kept, Settles, KeyFiles, Promises, UNCHANGED deskVars, BootStep,
         \A j \in Jobs : jobs[j].status # "Absent" => Ages(j)
  PROVE  Promises'
<1>1. /\ UNCHANGED <<keyOf, begun, told, loop>>
      /\ \A j \in Jobs : ExecutorRunning(j) => boot.pc = "up"
      /\ jobs \in [Jobs -> JobRecord]
  BY DEF deskVars, BootStep, Kept, Safe, Sound, TypeOK, StateTypeOK, Exclusive, OwnerRuns
<1>2. ASSUME NEW j \in Jobs, Promised(j), NeverStarted(jobs'[j])
      PROVE  Underway(j)'
  <2>1. NeverStarted(jobs[j]) /\ FreshUpdate(j) /\ j # NoJob
    BY <1>2, NoJobAssumption DEF KeyFiles, Promised, Ages, FreshUpdate
  <2>2. Underway(j) /\ current = j /\ ~maint.active
    BY <1>2, <2>1 DEF Promises, Underway, Settles, FreshFits
  <2>3. boot.pc # "up"
    BY DEF BootStep, BootPlan, BootFailUnstarted, BootCommitVersion, BootClearMaint,
           BootClearCurrent, BootManualJob, BootManualMaint, BootManualCurrent,
           BootFailPreSwap, BootReviveMaint, BootReviveCurrent, BootFreeze, Serve
  <2>4. CASE boot.pc = "plan" /\ maint.job \in {NoJob, j}
    <3>1. BootPlan
      BY <2>4
         DEF BootStep, BootFailUnstarted, BootCommitVersion, BootClearMaint,
             BootClearCurrent, BootManualJob, BootManualMaint, BootManualCurrent,
             BootFailPreSwap, BootReviveMaint, BootReviveCurrent, BootFreeze, Serve
    <3>2. RecoveryJob(maint, current) = j /\ RecordOf(j) = jobs[j]
      BY <2>1, <2>2, <2>4 DEF RecoveryJob, RecordOf
    <3>3. \A tag : /\ CrashPlan(maint, current, jobs[j], tag).kind = "FailUnstarted"
                   /\ CrashPlan(maint, current, jobs[j], tag).job = j
      BY <2>1, <2>2, <3>2 DEF CrashPlan, IsFailUnstarted
    <3>4. boot'.pc = "failUnstarted" /\ boot'.job = j /\ current' = current
      BY <3>1, <3>2, <3>3 DEF BootPlan, FirstBootPoint, stateVars
    <3> QED
      BY <2>2, <3>4 DEF Underway
  <2>5. CASE boot.pc = "failUnstarted" /\ boot.job = j
    <3>1. BootFailUnstarted
      BY <2>5
         DEF BootStep, BootPlan, BootCommitVersion, BootClearMaint,
             BootClearCurrent, BootManualJob, BootManualMaint, BootManualCurrent,
             BootFailPreSwap, BootReviveMaint, BootReviveCurrent, BootFreeze, Serve
    <3>2. jobs'[j].status = "Failed"
      BY <1>1, <2>5, <3>1 DEF BootFailUnstarted, WriteJob, JobRecord
    <3> QED
      BY <1>2, <3>2 DEF NeverStarted
  <2> QED
    BY <1>1, <2>2, <2>3, <2>4, <2>5 DEF Underway
<1> QED
  BY <1>1, <1>2, PromisesGoOn DEF Promises

\* The job that is admitted was promised to nobody before.
LEMMA AdmitKeepsPromises ==
  ASSUME DeskTypeOK, Sound, Records, KeyFiles, Promises, AdmitAndTell
  PROVE  Promises'
<1>1. /\ Admit /\ boot.pc = "up" /\ loop \in Jobs /\ loop' = NoJob
      /\ UNCHANGED <<keyOf, jobs>> /\ current' = loop /\ exec \in [Jobs -> Executor]
      /\ \A i \in Jobs : ~ExecutorRunning(i)
  BY DEF AdmitAndTell, Admit, SetCurrent, Sound, TypeOK, ProcessTypeOK, JobOrNone,
         Records, OwnerRuns
<1> PICK j \in Jobs : j = loop
  BY <1>1
<1>2. Underway(j)'
  <2>1. exec'[j].pc = FirstPhase(jobs[j])
    BY <1>1 DEF Admit, Executor, NoExecutor
  <2> QED
    BY <1>1, <2>1 DEF Underway, ExecutorRunning, FirstPhase
<1>3. /\ \A i \in Jobs : Promised(i)' => i = j \/ Promised(i)
      /\ \A k \in Keys : begun'[k] <= 1
  <2>1. CASE keyOf[j] \notin Keys
    BY <1>1, <2>1 DEF AdmitAndTell, Promised, Promises
  <2>2. CASE keyOf[j] \in Keys
    <3>1. begun[keyOf[j]] = 0
      BY <2>2 DEF Promises, Promised, DeskTypeOK
    <3>2. /\ begun'[keyOf[j]] = 1
          /\ \A h \in Keys \ {keyOf[j]} : begun'[h] = begun[h] /\ told'[h] = told[h]
      BY <2>2, <3>1 DEF AdmitAndTell, Tell, DeskTypeOK
    <3>3. \A i \in Jobs \ {j} : keyOf[i] # keyOf[j]
      BY <2>2 DEF KeyFiles
    <3> QED
      BY <1>1, <3>2, <3>3 DEF Promised, Promises
  <2> QED
    BY <2>1, <2>2
<1>4. \A i \in Jobs : Promised(i) => ~NeverStarted(jobs[i])
  BY <1>1 DEF Promises, Underway
<1> QED
  BY <1>1, <1>2, <1>3, <1>4, NoJobAssumption DEF Promises

\* A restart finds a promised job in the slot, alone, or takes the promise back.
LEMMA CrashKeepsPromises ==
  ASSUME DeskTypeOK, KeyFiles, Promises, DeskCrash
  PROVE  Promises'
<1>1. /\ UNCHANGED <<keyOf, jobs, current, maint>> /\ loop' = NoJob
      /\ boot'.pc = "plan"
  BY DEF DeskCrash, Crash, stateVars
<1>2. /\ \A k \in Keys : begun'[k] \in {0, begun[k]}
      /\ \A k \in Keys : begun'[k] > 0 => \A j \in HeldBy(k) : ~Forgotten(j)
      /\ \A k \in Keys : \A j \in told'[k] : j \in told[k] /\ ~Forgotten(j)
  BY DEF DeskCrash
<1>3. ASSUME NEW j \in Jobs, Promised(j)'
      PROVE  Promised(j) /\ ~Forgotten(j)
  <2> PICK k \in Keys : keyOf[j] = k /\ (begun'[k] > 0 \/ j \in told'[k])
    BY <1>1, <1>3 DEF Promised
  <2>1. j \in HeldBy(k)
    BY DEF KeyFiles, HeldBy
  <2> QED
    BY <1>2, <2>1 DEF Promised, DeskTypeOK
<1>4. ASSUME NEW j \in Jobs, Promised(j)', NeverStarted(jobs'[j])
      PROVE  Underway(j)'
  BY <1>1, <1>3, <1>4 DEF Promises, Underway, Forgotten
<1>5. \A k \in Keys : begun'[k] <= 1
  BY <1>2 DEF Promises, DeskTypeOK
<1> QED
  BY <1>1, <1>4, <1>5, NoJobAssumption DEF Promises

\* An answer names a job that ran, or whose task does.
LEMMA ReplayKeepsPromises ==
  ASSUME DeskTypeOK, Records, Settles, KeyFiles, Promises,
         NEW k \in Keys, NEW target \in Versions, Replay(k, target)
  PROVE  Promises'
<1> PICK j \in HeldBy(k) : ~Unadmitted(j) /\ Tell(k, j)
  BY DEF Replay
<1>1. /\ boot.pc = "up" /\ loop = NoJob /\ UNCHANGED <<keyOf, begun>> /\ j \in Jobs
      /\ keyOf[j] = k
      /\ UNCHANGED <<jobs, current, maint, exec, loop, boot>>
  BY DEF Replay, Ready, vars, stateVars, processVars, HeldBy
<1>2. ASSUME NeverStarted(jobs[j])
      PROVE  Underway(j)
  <2>1. current = j /\ FreshUpdate(j) /\ j # NoJob
    BY <1>1, <1>2, NoJobAssumption DEF Unadmitted, KeyFiles, FreshUpdate
  <2>2. ~maint.active
    BY <1>1, <2>1 DEF Settles, FreshFits
  <2>3. ~NoExecutorRunning
    BY <1>1, <1>2, <2>1, <2>2 DEF Settles, OpenRests
  <2> QED
    BY <2>1, <2>3 DEF NoExecutorRunning, Records, OwnerRuns, Underway
<1>3. \A i \in Jobs : Promised(i)' => i = j \/ Promised(i)
  BY <1>1 DEF Promised, Tell, DeskTypeOK
<1>4. \A i \in Jobs : Underway(i) => Underway(i)'
  BY <1>1 DEF Underway, ExecutorRunning
<1> QED
  BY <1>1, <1>2, <1>3, <1>4, NoJobAssumption DEF Promises

\* Every step keeps its promises, as long as no rescue was overtaken.
LEMMA GuidedKeepsPromises ==
  ASSUME DeskKept, [GuidedNext]_allVars, ~loose'
  PROVE  Promises'
<1>1. /\ Sound /\ Records /\ Settles /\ DeskTypeOK /\ CallsFit /\ KeyFiles /\ Promises
      /\ ~loose
  BY LooseStays DEF DeskKept, DeskSafe
<1>2. \A j \in Jobs : jobs[j].status # "Absent" => Ages(j)
  BY <1>1, FilesStay
<1>3. CASE UNCHANGED allVars
  BY <1>1, <1>3, PromisesSame DEF allVars, deskVars, vars, stateVars, processVars
<1>4. CASE Inside
  <2>1. UNCHANGED deskVars
    BY <1>4 DEF Inside
  <2>2. CASE Migrate \/ Quiet
    BY <1>1, <2>1, <2>2, PromisesSame
       DEF Migrate, Quiet, deskVars, vars, stateVars, processVars
  <2>3. CASE \E i \in Jobs : ExecutorStep(i)
    <3> PICK i \in Jobs : ExecutorStep(i)
      BY <2>3
    <3>1. Kept
      BY <1>1, TaskRuns, FreedRests, NotFreed DEF Sound
    <3> QED
      BY <1>1, <2>1, <3>1, TaskKeepsPromises
  <2>4. CASE BootStep
    <3>1. boot.pc # "up"
      BY <2>4
         DEF BootStep, BootPlan, BootFailUnstarted, BootCommitVersion, BootClearMaint,
             BootClearCurrent, BootManualJob, BootManualMaint, BootManualCurrent,
             BootFailPreSwap, BootReviveMaint, BootReviveCurrent, BootFreeze, Serve
    <3>2. Kept
      BY <1>1, <3>1, FreedRests, NotFreed
    <3> QED
      BY <1>1, <1>2, <2>1, <2>4, <3>2, BootKeepsPromises
  <2> QED
    BY <1>4, <2>2, <2>3, <2>4 DEF Inside
<1>5. CASE AdmitAndTell
  BY <1>1, <1>5, AdmitKeepsPromises
<1>6. CASE DeskCrash
  BY <1>1, <1>6, CrashKeepsPromises
<1>7. ASSUME Ready, current = NoJob
      PROVE  NoExecutorRunning
  BY <1>1, <1>7, NoJobAssumption DEF Records, OwnerRuns, NoExecutorRunning
<1>8. CASE \E k \in Keys, target \in Versions : Replay(k, target)
  BY <1>1, <1>8, ReplayKeepsPromises
<1>9. CASE \E k \in Keys, target \in Versions : FinishAdmission(k, target)
  <2> PICK k \in Keys, target \in Versions : FinishAdmission(k, target)
    BY <1>9
  <2>1. /\ NoExecutorRunning /\ boot.pc = "up" /\ UNCHANGED <<keyOf, begun, told>>
    BY <1>7 DEF FinishAdmission, Ready, deskVars
  <2>2. \A j \in Jobs : loop' = j => NeverStarted(jobs[j])
    BY DEF FinishAdmission, Unadmitted
  <2> QED
    BY <1>1, <1>2, <2>1, <2>2, RestKeepsPromises
<1>10. CASE \E j \in Jobs, target \in Versions : NewPlainUpdate(j, target)
  <2> PICK j \in Jobs, target \in Versions : NewPlainUpdate(j, target)
    BY <1>10
  <2>1. /\ NoExecutorRunning /\ boot.pc = "up" /\ UNCHANGED <<keyOf, begun, told>>
        /\ loop' = j /\ jobs[j].status = "Absent"
    BY <1>7 DEF NewPlainUpdate, RequestUpdate, Ready, Write, deskVars
  <2> QED
    BY <1>1, <1>2, <2>1, RestKeepsPromises
<1>11. CASE \E k \in Keys, j \in Jobs, target \in Versions : NewKeyedUpdate(k, j, target)
  <2> PICK k \in Keys, j \in Jobs, target \in Versions : NewKeyedUpdate(k, j, target)
    BY <1>11
  <2>1. /\ NoExecutorRunning /\ boot.pc = "up" /\ UNCHANGED <<begun, told>>
        /\ loop' = j /\ jobs[j].status = "Absent" /\ HeldBy(k) = {}
        /\ keyOf' = [keyOf EXCEPT ![j] = k]
    BY <1>7 DEF NewKeyedUpdate, RequestUpdate, Ready, Write
  <2>2. ~(begun[k] > 0) /\ told[k] = {}
    BY <1>1, <2>1 DEF KeyFiles, DeskTypeOK, HeldBy
  <2>3. ASSUME NEW i \in Jobs, Promised(i)'
        PROVE  i # j /\ Promised(i) /\ ~NeverStarted(jobs[i])
    <3>1. keyOf'[j] = k /\ \A h \in Jobs \ {j} : keyOf'[h] = keyOf[h]
      BY <1>1, <2>1 DEF DeskTypeOK
    <3>2. i # j /\ Promised(i)
      BY <1>1, <2>1, <2>2, <2>3, <3>1 DEF Promised, KeyFiles
    <3> QED
      BY <1>1, <2>1, <3>2 DEF Promises, Underway, NoExecutorRunning
  <2>4. ASSUME NEW i \in Jobs, Promised(i)'
        PROVE  loop' # i /\ ~NeverStarted(jobs'[i])
    BY <1>1, <1>2, <2>1, <2>3, <2>4 DEF KeyFiles, Promised, Ages
  <2> QED
    BY <1>1, <2>1, <2>4 DEF Promises
<1>12. CASE OwnRollback \/ RescueRollback
  <2>1. NoExecutorRunning /\ UNCHANGED <<keyOf, begun, told>>
    BY <1>1, <1>12 DEF OwnRollback, RescueRollback, LateStep, Left, deskVars
  <2>2. PICK j \in Jobs, snapshot \in Jobs : RequestRollback(j, snapshot)
    BY <1>1, <1>12 DEF OwnRollback, RescueRollback, RequestAnyRollback, CallsFit
  <2>3. boot.pc = "up" /\ loop' = j /\ jobs[j].status = "Absent"
    BY <2>2 DEF RequestRollback, Ready, Write
  <2> QED
    BY <1>1, <1>2, <2>1, <2>3, RestKeepsPromises
<1>13. CASE RescueFree \/ RescueLeave
  <2>1. NoExecutorRunning /\ boot.pc = "up" /\ UNCHANGED <<keyOf, begun, told, loop>>
    BY <1>1, <1>13
       DEF RescueFree, RescueLeave, LateStep, Left, CallsFit, OnlyState, processVars
  <2> QED
    BY <1>1, <1>2, <2>1, RestKeepsPromises
<1>14. CASE Stuck /\ (RescueForget \/ RescueExit)
  <2>1. NoExecutorRunning /\ boot.pc = "up" /\ UNCHANGED <<keyOf, begun, told, loop>>
    BY <1>14
       DEF Stuck, Ready, RescueForget, RescueExit, CallRescue, OnlyState, processVars
  <2> QED
    BY <1>1, <1>2, <2>1, RestKeepsPromises
<1>15. CASE RescueContinue \/ RescueRefused
  BY <1>1, <1>15, PromisesSame
     DEF RescueContinue, RescueRefused, CallRescue, EndRescue, vars, stateVars, processVars
<1> QED
  BY <1>3, <1>4, <1>5, <1>6, <1>8, <1>9, <1>10, <1>11, <1>12, <1>13, <1>14, <1>15,
     GuidedStep
     DEF Requests, Rescues, RescueGoesOn

\* The invariant of the desk is inductive.
LEMMA DeskStepKeeps ==
  ASSUME DeskKept, [GuidedNext]_allVars
  PROVE  DeskKept'
<1>1. DeskSafe'
  BY DeskStepSafe DEF DeskKept
<1>2. KeyFiles'
  BY KeysStay DEF DeskKept, DeskSafe
<1>3. (~loose => Promises)'
  BY GuidedKeepsPromises
<1> QED
  BY <1>1, <1>2, <1>3 DEF DeskKept

\* What it says of keys, and of the tasks on a rescued site.
LEMMA DeskKeptPromises ==
  ASSUME DeskKept
  PROVE  KeyRunsOnce /\ ToldIsTrue /\ (~loose => SingleExecutor)
<1>1. KeyRunsOnce
  BY DEF DeskKept, KeyFiles, Promises, KeyRunsOnce
<1>2. ToldIsTrue
  <2> SUFFICES ASSUME ~loose, NEW k \in Keys, NEW j \in told[k],
                      jobs[j].status = "Pending", jobs[j].last = "None"
               PROVE  current = j
    BY DEF ToldIsTrue
  <2>1. j \in Jobs
    BY DEF DeskKept, DeskSafe, DeskTypeOK
  <2>2. Promised(j) /\ NeverStarted(jobs[j])
    BY <2>1 DEF DeskKept, KeyFiles, Promised, NeverStarted
  <2> QED
    BY <2>1, <2>2 DEF DeskKept, Promises, Underway
<1>3. ~loose => SingleExecutor
  BY DEF DeskKept, DeskSafe, Records, OwnerRuns, SingleExecutor
<1> QED
  BY <1>1, <1>2, <1>3


-----------------------------------------------------------------------------
(***************************************************************************)
(* The host, where it fits the records (Restorable).                       *)
(***************************************************************************)
Rescuable == Restorable /\ DeskSafe /\ HostFits /\ ~loose

\* A slot of its own is in a state of the updater.
LEMMA OwnSlotHeld ==
  ASSUME Rescuable, ~Freed
  PROVE  Held
BY NotFreed DEF Rescuable, DeskSafe, Held

\* What a rescue reads and relies on.
LEMMA RescuableFacts ==
  ASSUME Rescuable
  PROVE  /\ Sound /\ TypeOK /\ Records /\ Settles /\ CallsFit /\ HostFits
         /\ Facts /\ RecordsFit /\ OwnerRuns /\ Unstarted
BY DEF Rescuable, DeskSafe, Sound, Records, HostFits

\* Tasks and recovery work only on a slot of their own; migrations on any.
LEMMA InsideFits ==
  ASSUME Rescuable, Inside
  PROVE  HostFits'
<1>1. CASE Migrate
  BY <1>1, RescuableFacts, MigrateFits
<1>2. CASE Quiet
  BY <1>2, RescuableFacts, StillFits DEF Quiet
<1>3. CASE (\E j \in Jobs : ExecutorStep(j)) \/ BootStep
  <2>1. ~Freed
    <3>1. CASE \E j \in Jobs : ExecutorStep(j)
      BY <3>1, TaskRuns, FreedRests, RescuableFacts
    <3>2. CASE BootStep
      BY <3>2, FreedRests, RescuableFacts
         DEF BootStep, BootPlan, BootFailUnstarted, BootCommitVersion, BootClearMaint,
             BootClearCurrent, BootManualJob, BootManualMaint, BootManualCurrent,
             BootFailPreSwap, BootReviveMaint, BootReviveCurrent, BootFreeze, Serve
    <3> QED
      BY <1>3, <3>1, <3>2
  <2> QED
    BY <1>3, <2>1, OwnSlotHeld, StepHeld DEF PatientNext, Internal, Held
<1> QED
  BY <1>1, <1>2, <1>3 DEF Inside

\* Behind a closed site that is admitted to, the record of another job stays.
LEMMA AdmissionFits ==
  ASSUME Rescuable, Admit
  PROVE  HostFits'
<1>1. maint.active => maint.job # NoJob
  <2>1. CASE Freed
    BY <2>1, FreedRests, RescuableFacts DEF FreedWaits
  <2>2. CASE ~Freed
    BY <2>2, RescuableFacts
       DEF Records, ClosedWaits, Waits, OwnerRuns, Admit, NoExecutorRunning
  <2> QED
    BY <2>1, <2>2
<1> QED
  BY <1>1, RescuableFacts, AdmitFits

\* An admission that was cut off starts from the release recorded now.
LEMMA FinishFits ==
  ASSUME Rescuable, NEW k \in Keys, NEW target \in Versions, FinishAdmission(k, target)
  PROVE  HostFits'
<1>1. Sound /\ TypeOK /\ Records /\ HostFits /\ Facts
  BY RescuableFacts
<1> PICK j \in Jobs :
      /\ NeverStarted(jobs[j]) /\ current = NoJob
      /\ boot.pc = "up" /\ loop = NoJob /\ ~maint.active /\ loop' = j
      /\ WriteJob(j, [jobs[j] EXCEPT !.from = curVer])
      /\ UNCHANGED <<hostVars, exec, boot, probe>>
  BY <1>1, FinishWrites
<1>2. NoExecutorRunning /\ OnlyFinishedBehind
  BY <1>1, NoJobAssumption
     DEF Freed, Records, OwnerRuns, IdleRecords, NoExecutorRunning
<1>3. current # j /\ maint.job # j
  BY <1>2, NoJobAssumption DEF OnlyFinishedBehind, NeverStarted
<1> DEFINE record == [jobs[j] EXCEPT !.from = curVer]
<1>4. JobFileFits(record) /\ record.from = curVer
  <2>1. JobFileFits(jobs[j]) /\ jobs[j] \in JobRecord
    BY <1>1 DEF Facts, TypeOK, StateTypeOK
  <2> QED
    BY <2>1 DEF JobFileFits, JobRecord
<1> QED
  BY <1>1, <1>2, <1>3, <1>4, FileFits DEF Ready

\* A slot that is freed, or was free: no record of a job loses its host.
LEMMA FreedFits ==
  ASSUME Rescuable, boot.pc = "up", NoExecutorRunning,
         current' = NoJob, UNCHANGED <<jobs, maint, curVer, report, snaps>>,
         UNCHANGED <<hostVars, exec, loop, boot, probe>>
  PROVE  HostFits'
<1>1. TypeOK /\ Facts /\ RecordsFit /\ Records /\ LoopFits
  BY RescuableFacts DEF HostFits
<1>2. Facts'
  BY <1>1, FactsStay DEF Facts
<1>3. RecordsFit'
  <2>1. \A i : \A phase : Fits(i, phase) => Fits(i, phase)'
    BY DEF Fits, AtRest, BeforeSwap, AfterSwap, BackedUp, Committed, hostVars
  <2>2. MaintFits' /\ CurrentFits' /\ PointerFresh'
    BY <1>1, <2>1 DEF RecordsFit, MaintFits, CurrentFits, PointerFresh
  <2>3. maint.active => maint.job # NoJob
    BY <1>1 DEF Records, Freed, FreedWaits, ClosedWaits, Waits
  <2>4. PointerAlone'
    BY <1>1, <2>3 DEF RecordsFit, PointerAlone
  <2> QED
    BY <2>2, <2>4 DEF RecordsFit
<1>4. LoopFits' /\ BootFits'
  BY <1>1 DEF LoopFits, OnlyFinishedBehind, BootFits
<1>5. \A i \in Jobs : TaskFits(i)'
  BY RestFits
<1> QED
  BY <1>2, <1>3, <1>4, <1>5 DEF HostFits

\* A site that is forced open is at rest, and its pointer alone takes the record's place.
LEMMA OpenedFits ==
  ASSUME Rescuable, Stuck, Healthy, apps = curVer, env.tag = curVer, RescueExit
  PROVE  HostFits'
<1>1. /\ TypeOK /\ Facts /\ RecordsFit /\ Records
      /\ boot.pc = "up" /\ loop = NoJob /\ NoExecutorRunning /\ maint.active
  BY RescuableFacts DEF Stuck, Ready
<1>2. /\ maint' = InactiveMaintenance /\ UNCHANGED <<jobs, current, curVer, report, snaps>>
      /\ UNCHANGED <<hostVars, exec, loop, boot, probe>>
  BY DEF RescueExit, WriteMaint, OnlyState, processVars
<1>3. ~maint'.active /\ maint'.job = NoJob /\ maint'.phase = "Idle"
  BY <1>2 DEF InactiveMaintenance
<1>4. AtRest'
  BY <1>1, <1>2 DEF AtRest, Facts, NoOldCodeOnNewData, Healthy, Serving, hostVars
<1>5. Facts'
  BY <1>1, <1>2, <1>4 DEF Facts, NoOldCodeOnNewData, OpenFits, BackupsFit, hostVars
<1>6. RecordsFit'
  <2>1. \A i : \A phase : Fits(i, phase) => Fits(i, phase)'
    BY <1>2 DEF Fits, AtRest, BeforeSwap, AfterSwap, BackedUp, Committed, hostVars
  <2>2. current # NoJob => maint.job = current
    BY <1>1 DEF Records, Freed, ClosedWaits, Waits
  <2>3. CurrentFits'
    BY <1>1, <1>2, <2>1, <2>2 DEF RecordsFit, MaintFits, CurrentFits
  <2> QED
    BY <1>3, <2>3 DEF RecordsFit, MaintFits, PointerFresh, PointerAlone
<1>7. LoopFits' /\ BootFits'
  BY <1>1, <1>2 DEF LoopFits, BootFits
<1>8. \A i \in Jobs : TaskFits(i)'
  BY <1>1, <1>2, RestFits
<1> QED
  BY <1>5, <1>6, <1>7, <1>8 DEF HostFits

\* So every step keeps the host fitting, as long as no rescue is overtaken.
LEMMA GuidedFits ==
  ASSUME Rescuable, [GuidedNext]_allVars, ~loose'
  PROVE  HostFits'
<1>1. Sound /\ TypeOK /\ CallsFit /\ HostFits /\ ~loose
  BY RescuableFacts DEF Rescuable
<1>2. CASE Inside
  BY <1>2, InsideFits
<1>3. CASE AdmitAndTell
  BY <1>3, AdmissionFits DEF AdmitAndTell
<1>4. CASE DeskCrash
  <2>1. Crash /\ ~Freed
    BY <1>4 DEF DeskCrash, Freed
  <2> QED
    BY <2>1, OwnSlotHeld, CrashFits
<1>5. CASE Requests
  <2>1. CASE \E k \in Keys, target \in Versions : Replay(k, target)
    BY <1>1, <2>1, StillFits DEF Replay
  <2>2. CASE \E k \in Keys, target \in Versions : FinishAdmission(k, target)
    BY <2>2, FinishFits
  <2>3. CASE \E j \in Jobs, target \in Versions : RequestUpdate(j, target)
    <3>1. ~Freed
      BY <2>3 DEF RequestUpdate, Freed
    <3> QED
      BY <2>3, <3>1, OwnSlotHeld, RequestUpdateFits
  <2> QED
    BY <1>5, <2>1, <2>2, <2>3 DEF Requests, NewKeyedUpdate, NewPlainUpdate
<1>6. CASE OwnRollback \/ RescueRollback
  <2>1. NoExecutorRunning
    BY <1>1, <1>6 DEF OwnRollback, RescueRollback, LateStep, Left
  <2>2. PICK j \in Jobs, snapshot \in Jobs : RequestRollback(j, snapshot)
    BY <1>1, <1>6 DEF OwnRollback, RescueRollback, RequestAnyRollback, CallsFit
  <2> QED
    BY <1>1, <2>1, <2>2, RequestRollbackFits
<1>7. CASE RescueFree \/ RescueLeave
  <2>1. NoExecutorRunning /\ boot.pc = "up"
    BY <1>1, <1>7 DEF RescueFree, RescueLeave, LateStep, Left, CallsFit
  <2> QED
    BY <1>7, <2>1, FreedFits DEF RescueFree, RescueLeave, SetCurrent, OnlyState, processVars
<1>8. CASE Stuck /\ RescueForget
  BY <1>8, FreedFits DEF Stuck, Ready, RescueForget, SetCurrent, OnlyState, processVars
<1>9. CASE Stuck /\ Healthy /\ apps = curVer /\ env.tag = curVer /\ RescueExit
  BY <1>9, OpenedFits
<1>10. CASE RescueContinue \/ RescueRefused \/ UNCHANGED allVars
  BY <1>1, <1>10, StillFits DEF RescueContinue, RescueRefused, allVars
<1> QED
  BY <1>2, <1>3, <1>4, <1>5, <1>6, <1>7, <1>8, <1>9, <1>10
     DEF GuidedNext, DeskNext, RescueGoesOn, OwnRollback


-----------------------------------------------------------------------------
(***************************************************************************)
(* The theorems.                                                           *)
(***************************************************************************)
\* However requests with a key are repeated, operators rescue and the updater dies:
\* DeskKept holds in every state.
THEOREM GuidedDeskKept == GuidedSpec => []DeskKept
<1>1. DeskInit => DeskKept
  BY InitDeskSafe, InitKeys DEF DeskKept
<1>2. DeskKept /\ [GuidedNext]_allVars => DeskKept'
  BY DeskStepKeeps
<1> QED
  BY <1>1, <1>2, PTL DEF GuidedSpec

\* A key is that of one job and its update is begun once (worker/mod.rs:929-935).
THEOREM AdmissionKeyRunsOnce == GuidedSpec => []KeyRunsOnce
<1>1. DeskKept => KeyRunsOnce
  BY DeskKeptPromises
<1> QED
  BY <1>1, GuidedDeskKept, PTL

\* Nobody is told of a job that nothing would run (worker/mod.rs:773-776).
THEOREM AdmissionToldIsTrue == GuidedSpec => []ToldIsTrue
<1>1. DeskKept => ToldIsTrue
  BY DeskKeptPromises
<1> QED
  BY <1>1, GuidedDeskKept, PTL

\* A rescued site is not worked on by two tasks, though the slot was freed under the
\* job that waited in it.
THEOREM RescuedSiteSingleExecutor == GuidedSpec => [](~loose => SingleExecutor)
<1>1. DeskKept => (~loose => SingleExecutor)
  BY DeskKeptPromises
<1> QED
  BY <1>1, GuidedDeskKept, PTL

\* Whatever operators rescued, tag, containers, database and backups are what the records
\* of the job in flight say they are.
THEOREM RescuedRecordsFitHost ==
  ASSUME Restorable
  PROVE  GuidedSpec => [](~loose => HostFits)
<1> DEFINE Rescued == Restorable /\ DeskKept /\ (~loose => HostFits)
<1>1. DeskInit => Rescued
  BY InitDeskSafe, InitKeys, InitFits DEF DeskKept, DeskInit
<1>2. Rescued /\ [GuidedNext]_allVars => Rescued'
  <2> SUFFICES ASSUME Rescued, [GuidedNext]_allVars
               PROVE  Rescued'
    OBVIOUS
  <2>1. DeskKept'
    BY DeskStepKeeps
  <2>2. ~loose' => HostFits'
    <3> SUFFICES ASSUME ~loose'
                 PROVE  HostFits'
      OBVIOUS
    <3>1. ~loose
      BY LooseStays DEF DeskKept, DeskSafe
    <3> QED
      BY <3>1, GuidedFits DEF Rescuable, DeskKept
  <2> QED
    BY <2>1, <2>2 DEF Restorable
<1>3. Rescued => (~loose => HostFits)
  OBVIOUS
<1> QED
  BY <1>1, <1>2, <1>3, PTL DEF GuidedSpec

\* A rescued site runs its containers on data of their release only, and is worked on
\* by one task.
THEOREM AdmissionRescuedSiteIsSafe ==
  ASSUME Restorable
  PROVE  GuidedSpec => []RescuedSiteIsSafe
<1>1. (~loose => HostFits) /\ DeskKept => RescuedSiteIsSafe
  BY DeskKeptPromises DEF RescuedSiteIsSafe, HostFits, Facts
<1> QED
  BY <1>1, GuidedDeskKept, RescuedRecordsFitHost, PTL

=============================================================================
