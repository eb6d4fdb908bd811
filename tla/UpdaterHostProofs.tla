-------------------------- MODULE UpdaterHostProofs --------------------------
(***************************************************************************)
(* The records fit the host, for any number of jobs, releases, failures    *)
(* and deaths of the process, where the updater has a pgdata to restore,   *)
(* the release ships one tag and nothing is reconciled (Restorable).       *)
(*                                                                         *)
(* HostFits says of every phase a record may name, and of every point a    *)
(* task may be at, what the tag, the containers, the database and the      *)
(* backup are.  One lemma per action shows that the step keeps it; a task's *)
(* step changes the host only in ways its point allows, and recovery takes *)
(* up a job only at the point the host is really at.                       *)
(*                                                                         *)
(* CalmFits says the same of an updater that is only killed: with either   *)
(* database and either number of tags, but while nothing has failed and    *)
(* nobody has asked for a rollback.  Nothing is said of the containers,    *)
(* and what the records promise is that recovery can always go on.         *)
(***************************************************************************)
EXTENDS UpdaterProofs

\* The names of the sets of points say no more than their members.
USE DEF In, FirstPoints, LeavingPoints, StopPoints, StoppedPoints, SwapPoints, ResumePoints,
        NewPoints, TurnPoints, DownPoints, DownedPoints, TagPoints, RestorePoints,
        RestartPoints, DonePoints, FailedPoints, RecoveryFailedPoints, BeforePoints,
        BackPoints

\* What every step may assume here.
Held == Restorable /\ Kept /\ HostFits

\* A fresh installation fits: release 1, migrated, and no job.
LEMMA InitFits ==
  ASSUME Init
  PROVE  HostFits
<1>1. /\ jobs = [j \in Jobs |-> NoRecord] /\ exec = [j \in Jobs |-> NoExecutor]
      /\ current = NoJob /\ maint = InactiveMaintenance /\ boot.pc = "up" /\ loop = NoJob
      /\ curVer = 1 /\ env.tag = 1 /\ apps = 1 /\ data = 1 /\ probe = NoVersion /\ pg
      /\ snaps = [j \in Jobs |-> NoSnapshot]
  BY DEF Init
<1>2. 1 \in Versions /\ data # Damaged
  BY <1>1, MaxVersionAssumption DEF Versions, Damaged
<1>3. Facts
  BY <1>1, <1>2 DEF Facts, NoOldCodeOnNewData, OpenFits, AtRest, BackupsFit, NoSnapshot,
                    JobFileFits, NoRecord
<1>4. RecordsFit
  BY <1>1 DEF RecordsFit, MaintFits, CurrentFits, PointerFresh, PointerAlone,
              InactiveMaintenance
<1>5. \A j \in Jobs : TaskFits(j)
  <2> SUFFICES ASSUME NEW j \in Jobs PROVE TaskFits(j)
    OBVIOUS
  <2>1. exec[j].pc = "idle"
    BY <1>1 DEF NoExecutor
  <2> QED
    BY <2>1
       DEF TaskFits, FitsBefore, FitsAfter, FitsBack, FitsEnd, In
<1> QED
  BY <1>1, <1>3, <1>4, <1>5 DEF HostFits, LoopFits, BootFits

\* A step of the running task that leaves records and host fitting.
LEMMA HostStep ==
  ASSUME Held, NEW j \in Jobs, ExecutorStep(j), Facts', RecordsFit', TaskFits(j)'
  PROVE  HostFits'
<1>1. /\ boot.pc = "up" /\ UNCHANGED <<loop, boot>> /\ loop = NoJob
      /\ \A i \in Jobs \ {j} : exec'[i].pc = "idle"
  BY StepIsOwn DEF Held, Kept, Safe, Exclusive, OwnerRuns, Advance, ExecutorRunning, KeepsRecords
<1>2. ASSUME NEW i \in Jobs \ {j}
      PROVE  TaskFits(i)'
  <2>1. exec'[i].pc = "idle"
    BY <1>1
  <2> QED
    BY <2>1
       DEF TaskFits, FitsBefore, FitsAfter, FitsBack, FitsEnd, In
<1> QED
  BY <1>1, <1>2 DEF HostFits, LoopFits, BootFits

\* Records go on fitting a host whose tag, code and data do not change.
LEMMA RecordsStay ==
  ASSUME RecordsFit, UNCHANGED <<jobs, current, maint, curVer, snaps, apps, data>>,
         env'.tag = env.tag
  PROVE  RecordsFit'
BY DEF RecordsFit, MaintFits, CurrentFits, PointerFresh, PointerAlone, Fits, AtRest,
       BeforeSwap, AfterSwap, BackedUp, Committed, OnlyFinishedBehind

\* Records and host that do not change go on fitting.
LEMMA QuietFits ==
  ASSUME Held, UNCHANGED <<jobs, current, maint, curVer, snaps, apps, pg, data, probe>>,
         env'.tag = env.tag
  PROVE  Facts' /\ RecordsFit'
<1>1. Facts'
  BY DEF Held, HostFits, Facts, NoOldCodeOnNewData, OpenFits, AtRest, BackupsFit
<1> QED
  BY <1>1, RecordsStay DEF Held, HostFits

\* What a step of the task of j may assume.
LEMMA TaskHeld ==
  ASSUME Held, NEW j \in Jobs
  PROVE  /\ TypeOK /\ Facts /\ RecordsFit /\ TaskFits(j) /\ Restorable
         /\ FitsBefore(j) /\ FitsAfter(j) /\ FitsBack(j) /\ FitsEnd(j)
BY DEF Held, HostFits, Kept, Safe, Sound, TaskFits

\* A task that only moves on.
LEMMA MovesOn ==
  ASSUME Held, NEW j \in Jobs, ExecutorStep(j),
         UNCHANGED <<jobs, current, maint, curVer, snaps, apps, pg, data>>,
         env'.tag = env.tag, TaskFits(j)'
  PROVE  HostFits'
BY QuietFits, HostStep DEF ExecutorStep

\* Preflight touches nothing; it lets an update through only to a newer release.
LEMMA PreflightFits ==
  ASSUME Held, NEW j \in Jobs, ExecutorStep(j), Preflight(j)
  PROVE  HostFits'
<1>1. TypeOK /\ FitsBefore(j)
  BY TaskHeld
<1>2. /\ exec[j].pc = "preflight" /\ exec'[j].pc \in {"MaintenanceOn", "finalizeFailed"}
      /\ exec'[j].pc = "MaintenanceOn" => jobs[j].to > curVer /\ report'[j].from = curVer
      /\ UNCHANGED <<jobs, current, maint, curVer, snaps, hostVars>>
  BY <1>1 DEF Preflight, At, Goto, TypeOK, StateTypeOK, ProcessTypeOK, Executor, stateVars
<1>3. TaskFits(j)'
  BY <1>1, <1>2
     DEF TaskFits, FitsBefore, FitsAfter, FitsBack, FitsEnd, Recording, AtRest, BeforeSwap,
         PreSwapPhases, RollbackPhases, hostVars
<1> QED
  BY <1>2, <1>3, MovesOn DEF hostVars

\* Without a runner the task goes to restore what it has not stopped.
LEMMA BuildRunnerFits ==
  ASSUME Held, NEW j \in Jobs, ExecutorStep(j), BuildRunner(j)
  PROVE  HostFits'
<1>1. TypeOK /\ FitsBefore(j)
  BY TaskHeld
<1>2. /\ exec[j].pc = "runner" /\ exec'[j].pc \in {"Stopping", "preSwapCompose"}
      /\ exec'[j].pc = "Stopping" => exec'[j].scope = "App"
      /\ UNCHANGED <<stateVars, hostVars>>
  BY <1>1 DEF BuildRunner, At, Goto, TypeOK, ProcessTypeOK, Executor, stateVars, hostVars
<1>3. TaskFits(j)'
  BY <1>1, <1>2
     DEF TaskFits, FitsBefore, FitsAfter, FitsBack, FitsEnd, Recording, AtRest, BeforeSwap,
         PreSwapPhases, RollbackPhases, hostVars, stateVars
<1> QED
  BY <1>2, <1>3, MovesOn DEF hostVars, stateVars

\* The Compose file is installed before the tag is written.
LEMMA InstallComposeFits ==
  ASSUME Held, NEW j \in Jobs, ExecutorStep(j), InstallCompose(j)
  PROVE  HostFits'
<1>1. TypeOK /\ FitsBefore(j)
  BY TaskHeld
<1>2. /\ exec[j].pc = "install" /\ exec'[j].pc \in {"swapTag", "preSwapCompose"}
      /\ exec'[j].scope = exec[j].scope /\ exec'[j].recovering = exec[j].recovering
      /\ UNCHANGED <<stateVars, env, apps, pg, data>>
  BY <1>1 DEF InstallCompose, At, Goto, TypeOK, ProcessTypeOK, Executor, stateVars, hostVars
<1>3. TaskFits(j)'
  BY <1>1, <1>2
     DEF TaskFits, FitsBefore, FitsAfter, FitsBack, FitsEnd, Recording, AtRest, BeforeSwap,
         BackedUp, PreSwapPhases, RollbackPhases, stateVars
<1> QED
  BY <1>2, <1>3, MovesOn DEF stateVars

\* A new release that does not come up, or up to another version, is reverted.
LEMMA VerifyFits ==
  ASSUME Held, NEW j \in Jobs, ExecutorStep(j), Verify(j) \/ ProbeHealth(j)
  PROVE  HostFits'
<1>1. TypeOK /\ FitsAfter(j)
  BY TaskHeld
<1>2. /\ exec[j].pc \in {"verify", "probe"} /\ exec'[j].pc \in {"startNew", "commit", "revert"}
      /\ exec'[j].tag = exec[j].tag
      /\ exec'[j].pc = "commit" => apps = jobs[j].to
      /\ UNCHANGED <<stateVars, hostVars>>
  BY <1>1 DEF Verify, ProbeHealth, At, Goto, TypeOK, ProcessTypeOK, Executor, stateVars, hostVars
<1>3. TaskFits(j)'
  BY <1>1, <1>2
     DEF TaskFits, FitsBefore, FitsAfter, FitsBack, FitsEnd, Recording, AfterSwap, BackedUp,
         stateVars, hostVars
<1> QED
  BY <1>2, <1>3, MovesOn DEF stateVars, hostVars

\* A resumed update installs its Compose file again.
LEMMA ReinstallFits ==
  ASSUME Held, NEW j \in Jobs, ExecutorStep(j), ReinstallCompose(j)
  PROVE  HostFits'
<1>1. TypeOK /\ FitsAfter(j)
  BY TaskHeld
<1>2. /\ exec[j].pc = "reinstall" /\ exec'[j].pc \in {"StartingNew", "revert"}
      /\ exec'[j].tag = exec[j].tag
      /\ UNCHANGED <<stateVars, env, apps, pg, data>>
  BY <1>1 DEF ReinstallCompose, At, Goto, TypeOK, ProcessTypeOK, Executor, stateVars, hostVars
<1>3. TaskFits(j)'
  BY <1>1, <1>2
     DEF TaskFits, FitsBefore, FitsAfter, FitsBack, FitsEnd, AfterSwap, BackedUp, stateVars
<1> QED
  BY <1>2, <1>3, MovesOn DEF stateVars

\* The steps of a rollback that look, or restore the Compose file.
LEMMA RollbackMovesOn ==
  ASSUME Held, NEW j \in Jobs, ExecutorStep(j),
         RollbackRunner(j) \/ PlanComposeRestore(j) \/ OldHealth(j) \/ RestoreCompose(j)
  PROVE  HostFits'
<1>1. TypeOK /\ FitsBack(j)
  BY TaskHeld
<1>2. /\ \/ /\ exec[j].pc = "rollbackRunner" /\ exec'[j].pc \in {"plan", "manualJob"}
         \/ /\ exec[j].pc = "plan" /\ exec'[j].pc \in {"StopNew", "rollbackFailed"}
         \/ /\ exec[j].pc = "oldHealth" /\ exec'[j].pc \in {"recordRestored", "rollbackFailed"}
         \/ /\ exec[j].pc = "restoreCompose"
            /\ exec'[j].pc \in {"restoreProxyTag", "rollbackFailed"}
      /\ exec'[j].tag = exec[j].tag
      /\ UNCHANGED <<stateVars, env, apps, pg, data>>
  BY <1>1 DEF RollbackRunner, PlanComposeRestore, OldHealth, RestoreCompose, At, Goto,
              TypeOK, ProcessTypeOK, Executor, stateVars, hostVars
<1>3. TaskFits(j)'
  <2>1. FitsBack(j)'
    BY <1>1, <1>2 DEF FitsBack, Recording, BackedUp, stateVars
  <2>2. FitsBefore(j)' /\ FitsAfter(j)' /\ FitsEnd(j)'
    BY <1>1, <1>2, NoJobAssumption
       DEF FitsBack, FitsBefore, FitsAfter, FitsEnd, BackedUp, stateVars
  <2> QED
    BY <2>1, <2>2 DEF TaskFits
<1> QED
  BY <1>2, <1>3, MovesOn DEF stateVars

\* A pgdata no newer than some release is not half-written.
LEMMA NotDamaged ==
  ASSUME NEW v \in Versions, NEW d \in Schemas, d <= v
  PROVE  d # Damaged
BY MaxVersionAssumption DEF Versions, Schemas, Damaged

\* The points a task cannot come to, or not with what they need.
LEMMA NoSkip ==
  ASSUME Held, NEW j \in Jobs, SkipSnapshot(j) \/ SkipRestore(j) \/ SwapProxyTag(j)
  PROVE  FALSE
BY TaskHeld, NoJobAssumption
   DEF Restorable, SkipSnapshot, SkipRestore, SwapProxyTag, SkipsRestore, At, FitsAfter,
       FitsBack, BackedUp, Facts, JobFileFits, TypeOK, StateTypeOK, JobRecord, Kinds

\* The tag to go back to is that of the backup, where there is one.
LEMMA RestoreProxyTagFits ==
  ASSUME Held, NEW j \in Jobs, ExecutorStep(j), RestoreProxyTag(j)
  PROVE  HostFits'
<1>1. TypeOK /\ FitsBack(j) /\ Facts
  BY TaskHeld
<1>2. /\ exec[j].pc = "restoreProxyTag" /\ exec'[j].pc \in {"SwapTagBack", "rollbackFailed"}
      /\ exec'[j].pc = "SwapTagBack" => exec'[j].tag = PreviousTag(j)
      /\ UNCHANGED <<stateVars, apps, pg, data>> /\ env'.tag = env.tag
  BY <1>1 DEF RestoreProxyTag, At, Goto, TypeOK, ProcessTypeOK, HostTypeOK, Executor
<1>3. /\ PreviousTag(j) \in Versions
      /\ snaps[jobs[j].snap].taken => PreviousTag(j) = snaps[jobs[j].snap].version
  <2>1. CASE jobs[j].kind = "Update"
    BY <1>1, <1>2, <2>1 DEF FitsBack, BackedUp, PreviousTag, Facts, BackupsFit, SourceJob,
                            Versions, NoVersion
  <2>2. CASE jobs[j].kind = "Rollback"
    <3>1. exec[j].tag = NoVersion /\ jobs[j].snap \in Jobs /\ curVer \in Versions
      BY <1>1, <1>2, <2>2 DEF FitsBack, Facts, JobFileFits, TypeOK, StateTypeOK, JobRecord,
                              JobOrNone
    <3>2. snaps[jobs[j].snap].version \in Versions \cup {NoVersion}
      BY <1>1, <3>1 DEF TypeOK, StateTypeOK, Snapshot, VersionOrNone
    <3>3. snaps[jobs[j].snap].taken => snaps[jobs[j].snap].version \in Versions
      BY <1>1, <3>1 DEF Facts, BackupsFit
    <3>4. NoVersion \notin Versions
      BY DEF NoVersion, Versions
    <3> QED
      BY <3>1, <3>2, <3>3, <3>4, NoJobAssumption DEF PreviousTag, SourceJob
  <2> QED
    BY <1>1, <2>1, <2>2 DEF TypeOK, StateTypeOK, JobRecord, Kinds
<1>4. TaskFits(j)'
  <2>1. FitsBack(j)'
    BY <1>1, <1>2, <1>3 DEF FitsBack, Recording, BackedUp, stateVars
  <2>2. FitsBefore(j)' /\ FitsAfter(j)' /\ FitsEnd(j)'
    BY <1>1, <1>2, NoJobAssumption
       DEF FitsBack, FitsBefore, FitsAfter, FitsEnd, BackedUp, stateVars
  <2> QED
    BY <2>1, <2>2 DEF TaskFits
<1> QED
  BY <1>2, <1>4, MovesOn DEF stateVars

\* Before the swap the old Compose file comes back first.
LEMMA PreSwapComposeFits ==
  ASSUME Held, NEW j \in Jobs, ExecutorStep(j), PreSwapCompose(j)
  PROVE  HostFits'
<1>1. TypeOK /\ FitsEnd(j) /\ OnItsWay(j) /\ current = j
  BY TaskHeld, StepIsOwn DEF Held, TaskRecorded
<1>2. /\ exec[j].pc = "preSwapCompose"
      /\ exec'[j].pc \in {"preSwapUp", "recoveryFailed", "manualJob"}
      /\ exec'[j].scope = exec[j].scope /\ exec'[j].recovering = exec[j].recovering
      /\ exec'[j].pc = "manualJob" => ~exec[j].recovering
      /\ UNCHANGED <<stateVars, env, apps, pg, data>>
  BY <1>1 DEF PreSwapCompose, AfterRestoreFailure, At, Goto, TypeOK, ProcessTypeOK, Executor,
              stateVars, hostVars
<1>3. TaskFits(j)'
  BY <1>1, <1>2
     DEF TaskFits, FitsBefore, FitsAfter, FitsBack, FitsEnd, Recording, BeforeSwap, stateVars
<1> QED
  BY <1>2, <1>3, MovesOn DEF stateVars

\* A recovery that failed is left to an operator, or silently ends.
LEMMA RecoveryFailedFits ==
  ASSUME Held, NEW j \in Jobs, ExecutorStep(j), RecoveryFailed(j)
  PROVE  HostFits'
<1>1. TypeOK /\ FitsEnd(j)
  BY TaskHeld
<1>2. /\ exec[j].pc = "recoveryFailed" /\ exec'[j].pc \in {"recoveryJob", "idle"}
      /\ UNCHANGED <<stateVars, hostVars>>
  BY <1>1 DEF RecoveryFailed, At, Goto, Finish, NoExecutor, TypeOK, ProcessTypeOK, Executor
<1>3. TaskFits(j)'
  BY <1>1, <1>2
     DEF TaskFits, FitsBefore, FitsAfter, FitsBack, FitsEnd, Recording, BeforeSwap, stateVars
<1> QED
  BY <1>2, <1>3, MovesOn DEF stateVars, hostVars

\* Postgres stops and starts.
LEMMA StopPostgresFits ==
  ASSUME Held, NEW j \in Jobs, ExecutorStep(j), StopPostgres(j) \/ StartPostgres(j)
  PROVE  HostFits'
<1>1. TypeOK /\ FitsBefore(j) /\ Facts /\ RecordsFit
  BY TaskHeld
<1>2. /\ \/ exec[j].pc = "stopPostgres" /\ exec'[j].pc = "copy"
            /\ exec'[j].scope = "AppAndPostgres"
         \/ exec[j].pc = "stopPostgres" /\ exec'[j].pc = "preSwapCompose"
            /\ exec'[j].scope = "AppAndPostgres"
         \/ exec[j].pc = "startPostgres" /\ exec'[j].pc \in {"noteSnapshot", "preSwapCompose"}
            /\ exec'[j].scope = exec[j].scope
      /\ UNCHANGED <<stateVars, env, apps, data>>
  <2>1. CASE StopPostgres(j)
    <3>1. /\ exec[j].pc = "stopPostgres" /\ UNCHANGED <<stateVars, env, apps, data>>
          /\ \/ exec' = [exec EXCEPT ![j].pc = "copy", ![j].noted = FALSE,
                                     ![j].scope = "AppAndPostgres"]
             \/ exec' = [exec EXCEPT ![j].pc = "preSwapCompose", ![j].noted = FALSE,
                                     ![j].scope = "AppAndPostgres"]
      BY <2>1 DEF StopPostgres, At
    <3> QED
      BY <1>1, <3>1 DEF TypeOK, ProcessTypeOK, Executor
  <2>2. CASE StartPostgres(j)
    <3>1. /\ exec[j].pc = "startPostgres" /\ UNCHANGED <<stateVars, env, apps, data>>
          /\ Goto(j, "noteSnapshot") \/ Goto(j, "preSwapCompose")
      BY <2>2 DEF StartPostgres, At
    <3> QED
      BY <1>1, <3>1 DEF Goto, TypeOK, ProcessTypeOK, Executor
  <2> QED
    BY <2>1, <2>2
<1>3. TaskFits(j)'
  BY <1>1, <1>2
     DEF TaskFits, FitsBefore, FitsAfter, FitsBack, FitsEnd, Recording, BeforeSwap, stateVars,
         PreSwapPhases, RollbackPhases
<1>4. apps = Stopped /\ data # Damaged
  BY <1>1, <1>2, NotDamaged DEF FitsBefore, BeforeSwap, Facts, TypeOK, HostTypeOK
<1>5. Facts'
  BY <1>1, <1>2, <1>4 DEF Facts, NoOldCodeOnNewData, OpenFits, AtRest, BackupsFit, stateVars,
                          ExecutorStep
<1>6. RecordsFit'
  BY <1>1, <1>2, RecordsStay DEF stateVars
<1> QED
  BY <1>3, <1>5, <1>6, HostStep

\* Postgres is down before pgdata is wiped, and up again when it is refilled.
LEMMA StopForRestoreFits ==
  ASSUME Held, NEW j \in Jobs, ExecutorStep(j), StopForRestore(j) \/ StartRestored(j)
  PROVE  HostFits'
<1>1. TypeOK /\ FitsBack(j) /\ Facts /\ RecordsFit
  BY TaskHeld
<1>2. /\ \/ exec[j].pc = "stopForRestore" /\ exec'[j].pc = "wipe" /\ ~pg'
         \/ exec[j].pc = "stopForRestore" /\ exec'[j].pc = "rollbackFailed" /\ pg' \in {pg, FALSE}
         \/ exec[j].pc = "startRestored" /\ exec'[j].pc \in {"StartOld", "rollbackFailed"}
      /\ exec'[j].tag = exec[j].tag
      /\ UNCHANGED <<stateVars, env, apps, data>>
  <2>1. CASE StopForRestore(j)
    <3>1. /\ exec[j].pc = "stopForRestore" /\ UNCHANGED <<stateVars, env, apps, data>>
          /\ (Goto(j, "wipe") /\ ~pg') \/ (Goto(j, "rollbackFailed") /\ pg' \in {pg, FALSE})
      BY <2>1 DEF StopForRestore, At
    <3>2. CASE Goto(j, "wipe") /\ ~pg'
      BY <1>1, <3>1, <3>2 DEF Goto, TypeOK, ProcessTypeOK, Executor
    <3>3. CASE Goto(j, "rollbackFailed") /\ pg' \in {pg, FALSE}
      BY <1>1, <3>1, <3>3 DEF Goto, TypeOK, ProcessTypeOK, Executor
    <3> QED
      BY <3>1, <3>2, <3>3
  <2>2. CASE StartRestored(j)
    <3>1. /\ exec[j].pc = "startRestored" /\ UNCHANGED <<stateVars, env, apps, data>>
          /\ Goto(j, "StartOld") \/ Goto(j, "rollbackFailed")
      BY <2>2 DEF StartRestored, At
    <3> QED
      BY <1>1, <3>1 DEF Goto, TypeOK, ProcessTypeOK, Executor
  <2> QED
    BY <2>1, <2>2
<1>3. TaskFits(j)'
  <2>1. FitsBack(j)'
    BY <1>1, <1>2 DEF FitsBack, Recording, BackedUp, stateVars
  <2>2. FitsBefore(j)' /\ FitsAfter(j)' /\ FitsEnd(j)'
    BY <1>1, <1>2, NoJobAssumption
       DEF FitsBack, FitsBefore, FitsAfter, FitsEnd, BackedUp, stateVars
  <2> QED
    BY <2>1, <2>2 DEF TaskFits
<1>4. apps = Stopped
  BY <1>1, <1>2 DEF FitsBack
<1>5. data = Damaged => ~pg'
  <2>1. CASE exec[j].pc = "stopForRestore"
    BY <1>1, <1>2, <2>1 DEF Facts, NoOldCodeOnNewData
  <2>2. CASE exec[j].pc = "startRestored"
    BY <1>1, <2>2, NotDamaged DEF FitsBack, Facts, TypeOK, HostTypeOK
  <2> QED
    BY <1>2, <2>1, <2>2
<1>6. Facts'
  BY <1>1, <1>2, <1>4, <1>5 DEF Facts, NoOldCodeOnNewData, OpenFits, AtRest, BackupsFit,
                               stateVars, ExecutorStep
<1>7. RecordsFit'
  BY <1>1, <1>2, RecordsStay DEF stateVars
<1> QED
  BY <1>3, <1>6, <1>7, HostStep

\* The records of the running task's job fit if the host fits the phases they name.
LEMMA OwnRecords ==
  ASSUME NEW j \in Jobs, current' = j, maint'.job = j, Fits(j, jobs[j].work)',
         maint'.phase # "NeedsManual" => Fits(j, maint.phase)',
         maint'.phase \notin {"None", "Idle"}, maint'.phase = "NeedsManual" => maint'.active,
         maint'.active /\ jobs'[j].kind = "Update" => jobs'[j].work # "None",
         jobs'[j].kind = "Rollback" => maint'.phase \in RollbackPhases \cup {"NeedsManual"}
  PROVE  RecordsFit'
BY NoJobAssumption DEF RecordsFit, MaintFits, CurrentFits, PointerFresh, PointerAlone

\* The applications stop.
LEMMA StopAppsFits ==
  ASSUME Held, NEW j \in Jobs, ExecutorStep(j), StopApps(j)
  PROVE  HostFits'
<1>1. TypeOK /\ FitsBefore(j) /\ Facts /\ current = j
  BY TaskHeld, StepIsOwn DEF Held
<1>2. /\ exec[j].pc = "stopApps" /\ exec'[j].pc \in {"Snapshotting", "preSwapCompose"}
      /\ exec'[j].scope = exec[j].scope /\ exec'[j].recovering = exec[j].recovering
      /\ exec'[j].pc = "Snapshotting" => apps' = Stopped
      /\ apps' \in {apps, Stopped}
      /\ UNCHANGED <<stateVars, env, pg, data>>
  BY <1>1 DEF StopApps, At, Goto, TypeOK, ProcessTypeOK, Executor
<1>3. TaskFits(j)'
  BY <1>1, <1>2
     DEF TaskFits, FitsBefore, FitsAfter, FitsBack, FitsEnd, Recording, BeforeSwap, stateVars,
         PreSwapPhases, RollbackPhases
<1>4. Facts'
  BY <1>1, <1>2 DEF Facts, NoOldCodeOnNewData, OpenFits, BackupsFit, stateVars, ExecutorStep,
                    FitsBefore
<1>5. RecordsFit'
  BY <1>1, <1>2, OwnRecords
     DEF FitsBefore, Recording, Fits, BeforeSwap, PreSwapPhases, RollbackPhases, stateVars
<1> QED
  BY <1>3, <1>4, <1>5, HostStep

\* The copy of pgdata is one of the recorded release.
LEMMA CopySnapshotFits ==
  ASSUME Held, NEW j \in Jobs, ExecutorStep(j), CopySnapshot(j)
  PROVE  HostFits'
<1>1. TypeOK /\ FitsBefore(j) /\ Facts /\ current = j
  BY TaskHeld, StepIsOwn DEF Held
<1>2. /\ exec[j].pc = "copy" /\ exec'[j].pc \in {"startPostgres", "preSwapCompose"}
      /\ exec'[j].scope = exec[j].scope /\ exec'[j].recovering = exec[j].recovering
      /\ UNCHANGED <<jobs, current, maint, curVer, report, hostVars>>
  BY <1>1 DEF CopySnapshot, At, Goto, TypeOK, ProcessTypeOK, Executor, stateVars
<1>3. /\ exec'[j].pc = "startPostgres" =>
           snaps' = [snaps EXCEPT ![j] = [taken |-> TRUE, data |-> data, version |-> curVer]]
      /\ exec'[j].pc # "startPostgres" => snaps' = snaps
  BY <1>1 DEF CopySnapshot, At, Goto, TypeOK, ProcessTypeOK, Executor, stateVars, FitsBefore
<1>4. snaps' # snaps => exec'[j].pc = "startPostgres"
      /\ snaps'[j] = [taken |-> TRUE, data |-> data, version |-> curVer]
      /\ \A i \in Jobs \ {j} : snaps'[i] = snaps[i]
  BY <1>1, <1>3 DEF TypeOK, StateTypeOK
<1>5. TaskFits(j)'
  BY <1>1, <1>2, <1>3, <1>4
     DEF TaskFits, FitsBefore, FitsAfter, FitsBack, FitsEnd, Recording, BeforeSwap, hostVars,
         PreSwapPhases, RollbackPhases, TypeOK, StateTypeOK
<1>6. BackupsFit'
  BY <1>1, <1>2, <1>4 DEF Facts, BackupsFit, FitsBefore, BeforeSwap
<1>7. Facts'
  BY <1>1, <1>2, <1>6 DEF Facts, NoOldCodeOnNewData, OpenFits, AtRest, hostVars, ExecutorStep
<1>8. RecordsFit'
  BY <1>1, <1>2, OwnRecords
     DEF FitsBefore, Recording, Fits, BeforeSwap, PreSwapPhases, RollbackPhases, hostVars
<1> QED
  BY <1>5, <1>7, <1>8, HostStep

\* The tag moves to a newer release; the update has its backup by then.
LEMMA SwapTagFits ==
  ASSUME Held, NEW j \in Jobs, ExecutorStep(j), SwapTag(j)
  PROVE  HostFits'
<1>1. TypeOK /\ FitsBefore(j) /\ Facts /\ current = j /\ Restorable
  BY TaskHeld, StepIsOwn DEF Held
<1>2. /\ exec[j].pc = "swapTag" /\ exec'[j].pc \in {"StartingNew", "preSwapCompose"}
      /\ exec'[j].scope = exec[j].scope /\ exec'[j].recovering = exec[j].recovering
      /\ exec'[j].pc = "StartingNew" => env'.tag = jobs[j].to /\ exec'[j].tag = env.tag
      /\ exec'[j].pc = "preSwapCompose" => env' = env
      /\ UNCHANGED <<stateVars, apps, pg, data>>
  BY <1>1 DEF SwapTag, At, Goto, TypeOK, ProcessTypeOK, HostTypeOK, Executor, Restorable
<1>3. /\ jobs[j].kind = "Update" /\ jobs[j].from = curVer /\ jobs[j].status \in Inflight
      /\ jobs[j].to > curVer /\ maint.active /\ exec[j].scope # "None" /\ apps = Stopped
      /\ env.tag = curVer /\ data <= curVer /\ BackedUp(j) /\ Recording(j, {"SwapTag"})
  BY <1>1, <1>2 DEF FitsBefore, BeforeSwap
<1>4. jobs[j].to \in Versions /\ curVer \in Nat /\ jobs[j].to \in Nat /\ data \in Nat
  BY <1>1, <1>3, MaxVersionAssumption
     DEF Facts, JobFileFits, Inflight, Versions, TypeOK, HostTypeOK, Schemas, Damaged
<1>5. /\ exec'[j].pc = "StartingNew" => AfterSwap(j)'
      /\ exec'[j].pc = "preSwapCompose" => BeforeSwap'
  BY <1>2, <1>3, <1>4 DEF AfterSwap, BackedUp, BeforeSwap, stateVars
<1>6. TaskFits(j)'
  BY <1>1, <1>2, <1>3, <1>5
     DEF TaskFits, FitsBefore, FitsAfter, FitsBack, FitsEnd, Recording, BackedUp, stateVars,
         RollbackPhases
<1>7. Facts'
  BY <1>1, <1>2, <1>3, <1>4
     DEF Facts, NoOldCodeOnNewData, OpenFits, BackupsFit, stateVars, ExecutorStep
<1>8. Fits(j, "SwapTag")'
  BY <1>2, <1>3, <1>4, <1>5
     DEF Fits, Recording, PreSwapPhases, RollbackPhases, stateVars
<1>9. RecordsFit'
  BY <1>1, <1>2, <1>3, <1>8, OwnRecords DEF Recording, stateVars
<1> QED
  BY <1>6, <1>7, <1>9, HostStep

\* The new release starts, or an update turns back.
LEMMA StartNewFits ==
  ASSUME Held, NEW j \in Jobs, ExecutorStep(j), StartNew(j)
  PROVE  HostFits'
<1>1. TypeOK /\ FitsAfter(j) /\ Facts /\ current = j
  BY TaskHeld, StepIsOwn DEF Held
<1>2. /\ exec[j].pc = "startNew" /\ exec'[j].pc \in {"HealthProbing", "revert"}
      /\ exec'[j].tag = exec[j].tag
      /\ apps' \in {apps, Stopped, env.tag}
      /\ UNCHANGED <<stateVars, env, pg, data>>
  BY <1>1 DEF StartNew, At, Goto, TypeOK, ProcessTypeOK, Executor
<1>3. /\ AfterSwap(j) /\ maint.active /\ Recording(j, {"StartingNew", "HealthProbing"})
      /\ AfterSwap(j)' /\ exec[j].tag = jobs[j].from
  BY <1>1, <1>2 DEF FitsAfter, AfterSwap, BackedUp, stateVars
<1>4. TaskFits(j)'
  BY <1>2, <1>3
     DEF TaskFits, FitsBefore, FitsAfter, FitsBack, FitsEnd, Recording, AfterSwap, stateVars
<1>5. Facts'
  BY <1>1, <1>2, <1>3
     DEF Facts, NoOldCodeOnNewData, OpenFits, BackupsFit, AfterSwap, stateVars, ExecutorStep
<1>6. RecordsFit'
  BY <1>1, <1>2, <1>3, OwnRecords
     DEF Recording, Fits, AfterSwap, PreSwapPhases, RollbackPhases, stateVars
<1> QED
  BY <1>4, <1>5, <1>6, HostStep

\* The services that were stopped come back on the release they left.
LEMMA PreSwapUpFits ==
  ASSUME Held, NEW j \in Jobs, ExecutorStep(j), PreSwapUp(j)
  PROVE  HostFits'
<1>1. TypeOK /\ FitsEnd(j) /\ Facts /\ RecordsFit /\ current = j
  BY TaskHeld, StepIsOwn DEF Held
<1>2. /\ exec[j].pc = "preSwapUp" /\ exec'[j].recovering = exec[j].recovering
      /\ exec'[j].pc \in {"clearMaint", "finalizeFailed", "recoveryFailed", "manualJob"}
      /\ exec'[j].pc \in {"recoveryFailed", "clearMaint"} => exec[j].recovering
      /\ exec'[j].pc \in {"finalizeFailed", "manualJob"} => ~exec[j].recovering
  BY <1>1 DEF PreSwapUp, AfterRestoreFailure, At, Goto, TypeOK, ProcessTypeOK, Executor
<1>3. /\ exec'[j].pc \in {"clearMaint", "finalizeFailed"} =>
           apps' = IF exec[j].scope = "None" THEN apps ELSE env.tag
      /\ apps' \in {apps, Stopped, env.tag}
      /\ apps = env.tag => apps' = apps
      /\ UNCHANGED <<stateVars, env, data>>
  BY <1>1 DEF PreSwapUp, AfterRestoreFailure, At, Goto, TypeOK, ProcessTypeOK, Executor
<1>4. /\ BeforeSwap /\ BeforeSwap'
      /\ exec'[j].pc \in {"clearMaint", "finalizeFailed"} => AtRest'
  BY <1>1, <1>2, <1>3 DEF FitsEnd, BeforeSwap, AtRest, stateVars
<1>5. TaskFits(j)'
  BY <1>1, <1>2, <1>3, <1>4
     DEF TaskFits, FitsBefore, FitsAfter, FitsBack, FitsEnd, Recording, stateVars
<1>6. data # Damaged
  BY <1>1, <1>4, NotDamaged DEF Facts, BeforeSwap, TypeOK, HostTypeOK
<1>7. ~maint.active => AtRest'
  BY <1>1, <1>3 DEF Facts, OpenFits, AtRest, stateVars
<1>8. Facts'
  BY <1>1, <1>2, <1>3, <1>4, <1>6, <1>7
     DEF Facts, NoOldCodeOnNewData, OpenFits, BackupsFit, BeforeSwap, stateVars, ExecutorStep
<1>9. RecordsFit'
  <2>1. CASE apps = env.tag
    BY <1>1, <1>3, <2>1, RecordsStay DEF stateVars
  <2>2. CASE apps # env.tag
    <3>1. \A i \in Jobs : ~AfterSwap(i) /\ ~Committed(i) /\ ~AtRest
      BY <1>1, <1>4, <2>2 DEF AfterSwap, Committed, AtRest, BeforeSwap, BackedUp
    <3>2. ASSUME NEW i \in Jobs, NEW phase, Fits(i, phase)
          PROVE  Fits(i, phase)'
      BY <1>3, <1>4, <3>1, <3>2 DEF Fits, BackedUp, stateVars
    <3>3. ~AtRest
      BY <2>2, <1>4 DEF AtRest, BeforeSwap
    <3> QED
      BY <1>1, <1>3, <3>2, <3>3
         DEF RecordsFit, MaintFits, CurrentFits, PointerFresh, PointerAlone, OnlyFinishedBehind,
             stateVars, TypeOK, StateTypeOK, MaintenanceRecord, JobOrNone
  <2> QED
    BY <2>1, <2>2
<1> QED
  BY <1>5, <1>8, <1>9, HostStep

\* The new release stops.
LEMMA StopNewFits ==
  ASSUME Held, NEW j \in Jobs, ExecutorStep(j), StopNew(j)
  PROVE  HostFits'
<1>1. TypeOK /\ FitsBack(j) /\ Facts /\ current = j
  BY TaskHeld, StepIsOwn DEF Held
<1>2. /\ exec[j].pc = "stopNew" /\ exec'[j].pc \in {"restoreCompose", "rollbackFailed"}
      /\ exec'[j].tag = exec[j].tag
      /\ exec'[j].pc = "restoreCompose" => apps' = Stopped
      /\ apps' \in {apps, Stopped}
      /\ UNCHANGED <<stateVars, env, pg, data>>
  BY <1>1 DEF StopNew, At, Goto, TypeOK, ProcessTypeOK, Executor
<1>3. TaskFits(j)'
  <2>1. FitsBack(j)'
    BY <1>1, <1>2 DEF FitsBack, Recording, BackedUp, stateVars
  <2>2. FitsBefore(j)' /\ FitsAfter(j)' /\ FitsEnd(j)'
    BY <1>1, <1>2, NoJobAssumption
       DEF FitsBack, FitsBefore, FitsAfter, FitsEnd, BackedUp, stateVars
  <2> QED
    BY <2>1, <2>2 DEF TaskFits
<1>4. Facts'
  BY <1>1, <1>2 DEF Facts, NoOldCodeOnNewData, OpenFits, BackupsFit, stateVars, ExecutorStep,
                    FitsBack
<1>5. RecordsFit'
  BY <1>1, <1>2, OwnRecords
     DEF FitsBack, Recording, Fits, BackedUp, PreSwapPhases, RollbackPhases, Inflight, stateVars
<1> QED
  BY <1>3, <1>4, <1>5, HostStep

\* What a rollback does to the host while the applications are down.
LEMMA WayBackFits ==
  ASSUME Held, NEW j \in Jobs, ExecutorStep(j),
         In(j, TagPoints \cup RestorePoints \cup RestartPoints), FitsBack(j)',
         In(j, TagPoints \cup RestorePoints \cup RestartPoints \cup DonePoints \cup FailedPoints)',
         NoOldCodeOnNewData', env'.tag \in Versions, UNCHANGED stateVars
  PROVE  HostFits'
<1>1. TypeOK /\ FitsBack(j) /\ Facts /\ current = j
  BY TaskHeld, StepIsOwn DEF Held
<1>2. TaskFits(j)'
  BY <1>1, NoJobAssumption
     DEF TaskFits, FitsBack, FitsBefore, FitsAfter, FitsEnd, BackedUp, stateVars
<1>3. Facts'
  BY <1>1 DEF Facts, OpenFits, BackupsFit, stateVars, ExecutorStep, FitsBack
<1>4. RecordsFit'
  BY <1>1, OwnRecords
     DEF FitsBack, Recording, Fits, BackedUp, PreSwapPhases, RollbackPhases, Inflight, stateVars
<1> QED
  BY <1>2, <1>3, <1>4, HostStep

\* The tag comes back while the applications are stopped.
LEMMA SwapTagBackFits ==
  ASSUME Held, NEW j \in Jobs, ExecutorStep(j), SwapTagBack(j)
  PROVE  HostFits'
<1>1. TypeOK /\ FitsBack(j) /\ Facts
  BY TaskHeld
<1>2. /\ exec[j].pc = "swapTagBack" /\ exec'[j].pc \in {"RestoreSnapshot", "rollbackFailed"}
      /\ exec'[j].tag = exec[j].tag
      /\ exec'[j].pc = "RestoreSnapshot" => env'.tag = exec[j].tag
      /\ exec'[j].pc = "rollbackFailed" => env' = env
      /\ UNCHANGED <<stateVars, apps, pg, data>>
  BY <1>1 DEF SwapTagBack, At, Goto, TypeOK, ProcessTypeOK, HostTypeOK, Executor
<1>3. FitsBack(j)'
  BY <1>1, <1>2 DEF FitsBack, Recording, BackedUp, stateVars
<1>4. NoOldCodeOnNewData' /\ env'.tag \in Versions
  BY <1>1, <1>2 DEF Facts, NoOldCodeOnNewData, FitsBack
<1> QED
  BY <1>2, <1>3, <1>4, WayBackFits

\* pgdata is wiped with nothing running on it.
LEMMA WipeDataFits ==
  ASSUME Held, NEW j \in Jobs, ExecutorStep(j), WipeData(j)
  PROVE  HostFits'
<1>1. TypeOK /\ FitsBack(j) /\ Facts
  BY TaskHeld
<1>2. /\ exec[j].pc = "wipe" /\ exec'[j].pc \in {"refill", "rollbackFailed"}
      /\ exec'[j].tag = exec[j].tag
      /\ exec'[j].pc = "refill" => snaps[jobs[j].snap].taken
      /\ UNCHANGED <<stateVars, env, apps>>
  BY <1>1 DEF WipeData, At, Goto, TypeOK, ProcessTypeOK, Executor
<1>3. pg' = pg
  BY DEF WipeData
<1>4. FitsBack(j)'
  BY <1>1, <1>2, <1>3 DEF FitsBack, Recording, BackedUp, stateVars
<1>5. NoOldCodeOnNewData' /\ env'.tag \in Versions
  BY <1>1, <1>2, <1>3 DEF Facts, NoOldCodeOnNewData, FitsBack
<1> QED
  BY <1>2, <1>4, <1>5, WayBackFits

\* pgdata is refilled from the backup of the release the tag names.
LEMMA RefillDataFits ==
  ASSUME Held, NEW j \in Jobs, ExecutorStep(j), RefillData(j)
  PROVE  HostFits'
<1>1. TypeOK /\ FitsBack(j) /\ Facts
  BY TaskHeld
<1>2. /\ exec[j].pc = "refill" /\ exec'[j].pc \in {"startRestored", "rollbackFailed"}
      /\ exec'[j].tag = exec[j].tag
      /\ exec'[j].pc = "startRestored" => data' = snaps[jobs[j].snap].data
      /\ UNCHANGED <<stateVars, env, apps>>
  BY <1>1 DEF RefillData, At, Goto, TypeOK, ProcessTypeOK, Executor
<1>3. pg' = pg
  BY DEF RefillData
<1>4. jobs[j].snap \in Jobs
  BY <1>1, <1>2, NoJobAssumption DEF FitsBack, BackedUp, Facts, JobFileFits, TypeOK, StateTypeOK,
     JobRecord, JobOrNone, Kinds
<1>5. /\ exec[j].tag = snaps[jobs[j].snap].version
      /\ snaps[jobs[j].snap].data <= snaps[jobs[j].snap].version
      /\ jobs[j].kind = "Update" => exec[j].tag = jobs[j].from
  BY <1>1, <1>2, <1>4 DEF FitsBack, Facts, BackupsFit, BackedUp
<1>6. FitsBack(j)'
  BY <1>1, <1>2, <1>3, <1>5 DEF FitsBack, Recording, BackedUp, stateVars
<1>7. NoOldCodeOnNewData' /\ env'.tag \in Versions
  BY <1>1, <1>2, <1>3 DEF Facts, NoOldCodeOnNewData, FitsBack
<1> QED
  BY <1>2, <1>6, <1>7, WayBackFits

\* The old release starts on the pgdata it left.
LEMMA StartOldFits ==
  ASSUME Held, NEW j \in Jobs, ExecutorStep(j), StartOld(j)
  PROVE  HostFits'
<1>1. TypeOK /\ FitsBack(j) /\ Facts
  BY TaskHeld
<1>2. /\ exec[j].pc = "startOld" /\ exec'[j].pc \in {"oldStarted", "rollbackFailed"}
      /\ exec'[j].tag = exec[j].tag
      /\ exec'[j].pc = "oldStarted" => apps' = env.tag
      /\ apps' \in {apps, Stopped, env.tag}
      /\ UNCHANGED <<stateVars, env, pg, data>>
  BY <1>1 DEF StartOld, At, Goto, TypeOK, ProcessTypeOK, Executor
<1>3. FitsBack(j)'
  BY <1>1, <1>2 DEF FitsBack, Recording, BackedUp, stateVars
<1>4. NoOldCodeOnNewData' /\ env'.tag \in Versions
  BY <1>1, <1>2 DEF Facts, NoOldCodeOnNewData, FitsBack
<1> QED
  BY <1>2, <1>3, <1>4, WayBackFits

-----------------------------------------------------------------------------
(***************************************************************************)
(* Steps of the running task that write the records.                       *)
(***************************************************************************)
\* The host fits the work recorded of the job job.current names.
LEMMA WorkFits ==
  ASSUME RecordsFit, current # NoJob
  PROVE  Fits(current, jobs[current].work)
<1>1. CASE maint.job = NoJob
  BY <1>1 DEF RecordsFit, CurrentFits
<1>2. CASE maint.job = current
  BY <1>2 DEF RecordsFit, MaintFits
<1>3. CASE maint.job \notin {NoJob, current}
  BY <1>3 DEF RecordsFit, PointerFresh, Fits, PreSwapPhases, RollbackPhases
<1> QED
  BY <1>1, <1>2, <1>3

\* The host fits the phase of a maintenance record that names the task's job.
LEMMA PhaseFits ==
  ASSUME RecordsFit, maint.job # NoJob, maint.phase # "NeedsManual"
  PROVE  Fits(maint.job, maint.phase)
BY DEF RecordsFit, MaintFits

\* The facts do not depend on which records there are.
LEMMA FactsStay ==
  ASSUME Facts, UNCHANGED <<curVer, snaps, hostVars, probe>>,
         maint'.active \/ ~maint.active \/ AtRest,
         \A i \in Jobs : JobFileFits(jobs'[i])
  PROVE  Facts'
BY DEF Facts, NoOldCodeOnNewData, OpenFits, AtRest, BackupsFit, hostVars

\* maintenance.json gets the phase the task is about to work in.
LEMMA NoteMaintenanceFits ==
  ASSUME Held, NEW j \in Jobs, ExecutorStep(j), NoteMaintenance(j)
  PROVE  HostFits'
<1>1. TypeOK /\ TaskFits(j) /\ Facts /\ RecordsFit /\ current = j /\ jobs[j].status # "Absent"
  BY TaskHeld, StepIsOwn DEF Held
<1>2. FitsBefore(j) /\ FitsAfter(j) /\ FitsBack(j) /\ FitsEnd(j)
  BY <1>1 DEF TaskFits
<1> DEFINE pc == exec[j].pc
<1>3. /\ pc \in DOMAIN WorkOf
      /\ maint' = [active |-> TakesSiteOffline(pc), phase |-> pc, job |-> j]
      /\ UNCHANGED <<jobs, current, curVer, report, snaps, hostVars>>
      /\ exec'[j].pc = pc /\ exec'[j].tag = exec[j].tag /\ exec'[j].scope = exec[j].scope
      /\ exec'[j].recovering = exec[j].recovering
  BY <1>1 DEF NoteMaintenance, WriteMaint, TypeOK, ProcessTypeOK, Executor
<1>4. pc = "Preflight" => jobs[j].work = "None"
  BY <1>1 DEF Held, Kept, Safe, Exclusive, Unstarted, NeverStarted, At, Facts, JobFileFits
<1>5. /\ maint'.active = (pc # "Preflight") /\ maint'.phase = pc /\ maint'.job = j
      /\ pc \in {"Preflight", "MaintenanceOn", "Stopping", "Snapshotting", "SwapTag",
                 "StartingNew", "HealthProbing", "RollbackInProgress", "StopNew",
                 "SwapTagBack", "RestoreSnapshot", "StartOld"}
  BY <1>3 DEF TakesSiteOffline, WorkOf
<1> HIDE DEF pc
<1>6. Fits(j, pc)
  <2>1. pc \in PreSwapPhases => BeforeSwap
    BY <1>2, <1>5 DEF pc, FitsBefore, AtRest, BeforeSwap, PreSwapPhases
  <2>2. pc = "SwapTag" =>
          /\ jobs[j].kind = "Update" /\ jobs[j].to # jobs[j].from /\ jobs[j].from = curVer
          /\ jobs[j].work \in PreSwapPhases /\ BeforeSwap
    BY <1>1, <1>2, <1>5, MaxVersionAssumption
       DEF pc, FitsBefore, Facts, JobFileFits, Versions
  <2>3. pc \in {"StartingNew", "HealthProbing"} => AfterSwap(j)
    BY <1>2, <1>5 DEF pc, FitsAfter
  <2>4. pc \in RollbackPhases =>
          (jobs[j].kind = "Update" => BackedUp(j)) /\ jobs[j].status \in Inflight
    BY <1>2, <1>5 DEF pc, FitsBack, RollbackPhases
  <2> QED
    BY <1>5, <2>1, <2>2, <2>3, <2>4 DEF Fits, Inflight
<1>7. Fits(j, maint.phase)' /\ Fits(j, jobs[j].work)'
  <2>1. \A phase : Fits(j, phase) => Fits(j, phase)'
    BY <1>3 DEF Fits, AtRest, BeforeSwap, AfterSwap, BackedUp, Committed, hostVars
  <2>2. Fits(j, jobs[j].work)
    BY <1>1, WorkFits, NoJobAssumption
  <2>3. jobs'[j].work = jobs[j].work /\ maint'.phase = pc
    BY <1>3, <1>5
  <2> QED
    BY <1>6, <2>1, <2>2, <2>3
<1>8. RecordsFit'
  <2>1. current' = j /\ maint'.job = j /\ maint'.phase \notin {"NeedsManual", "None", "Idle"}
    BY <1>1, <1>3, <1>5
  <2>2. maint'.active /\ jobs'[j].kind = "Update" => jobs'[j].work # "None"
    BY <1>2, <1>3, <1>5
       DEF pc, FitsBefore, FitsAfter, FitsBack, AfterSwap, BackedUp, Recording, PreSwapPhases
  <2>3. jobs'[j].kind = "Rollback" => maint'.phase \in RollbackPhases
    BY <1>2, <1>3, <1>5 DEF pc, FitsBefore, FitsAfter, AfterSwap, RollbackPhases
  <2> QED
    BY <1>7, <2>1, <2>2, <2>3, OwnRecords
<1>9. Facts'
  BY <1>1, <1>2, <1>3, <1>5
     DEF pc, Facts, NoOldCodeOnNewData, OpenFits, BackupsFit, AtRest, hostVars, ExecutorStep,
         FitsBefore
<1>10. TaskFits(j)'
  <2>1. FitsBefore(j)'
    BY <1>2, <1>3, <1>4, <1>5
       DEF pc, FitsBefore, Recording, AtRest, BeforeSwap, BackedUp, hostVars, PreSwapPhases
  <2>2. FitsAfter(j)'
    BY <1>2, <1>3, <1>5 DEF pc, FitsAfter, Recording, AfterSwap, BackedUp, hostVars
  <2>3. FitsBack(j)'
    BY <1>2, <1>3, <1>5 DEF pc, FitsBack, Recording, BackedUp, hostVars, RollbackPhases
  <2>4. FitsEnd(j)'
    BY <1>2, <1>3, <1>5 DEF pc, FitsEnd
  <2> QED
    BY <2>1, <2>2, <2>3, <2>4 DEF TaskFits
<1> QED
  BY <1>8, <1>9, <1>10, HostStep

\* The job file gets it next, and the work begins.
LEMMA NoteStepFits ==
  ASSUME Held, NEW j \in Jobs, ExecutorStep(j), NoteStep(j)
  PROVE  HostFits'
<1>1. TypeOK /\ TaskFits(j) /\ Facts /\ RecordsFit /\ current = j /\ jobs[j].status # "Absent"
  BY TaskHeld, StepIsOwn DEF Held
<1>2. FitsBefore(j) /\ FitsAfter(j) /\ FitsBack(j) /\ FitsEnd(j)
  BY <1>1 DEF TaskFits
<1> DEFINE pc == exec[j].pc
<1>3. /\ pc \in DOMAIN WorkOf /\ exec[j].noted
      /\ exec'[j].pc = WorkOf[pc] /\ exec'[j].tag = exec[j].tag /\ exec'[j].scope = exec[j].scope
      /\ exec'[j].recovering = exec[j].recovering
      /\ UNCHANGED <<current, maint, curVer, report, snaps, hostVars>>
  BY <1>1 DEF NoteStep, WriteJob, Goto, TypeOK, ProcessTypeOK, Executor
<1>4. /\ jobs'[j].work = pc /\ jobs'[j].last = pc
      /\ jobs'[j].kind = jobs[j].kind /\ jobs'[j].snap = jobs[j].snap
      /\ jobs'[j].from = jobs[j].from /\ jobs'[j].to = jobs[j].to
      /\ jobs'[j].status # "Absent"
      /\ jobs[j].status \in Inflight => jobs'[j].status \in Inflight
      /\ \A i \in Jobs \ {j} : jobs'[i] = jobs[i]
  BY <1>1 DEF NoteStep, WriteJob, TypeOK, StateTypeOK, JobRecord, Inflight
<1>5. maint.active = (pc # "Preflight") /\ maint.phase = pc /\ maint.job = j
  BY <1>3 DEF Held, Kept, Safe, Exclusive, Noted, TakesSiteOffline, WorkOf
<1>6. \/ pc = "Preflight" /\ WorkOf[pc] = "preflight"
      \/ pc = "MaintenanceOn" /\ WorkOf[pc] = "runner"
      \/ pc = "Stopping" /\ WorkOf[pc] = "stopApps"
      \/ pc = "Snapshotting" /\ WorkOf[pc] = "stopPostgres"
      \/ pc = "SwapTag" /\ WorkOf[pc] = "install"
      \/ pc = "StartingNew" /\ WorkOf[pc] = "verify"
      \/ pc = "HealthProbing" /\ WorkOf[pc] = "probe"
      \/ pc = "RollbackInProgress" /\ WorkOf[pc] = "rollbackRunner"
      \/ pc = "StopNew" /\ WorkOf[pc] = "stopNew"
      \/ pc = "SwapTagBack" /\ WorkOf[pc] = "swapTagBack"
      \/ pc = "RestoreSnapshot" /\ WorkOf[pc] = "stopForRestore"
      \/ pc = "StartOld" /\ WorkOf[pc] = "startOld"
  BY <1>3 DEF WorkOf
<1> HIDE DEF pc
<1>7. Fits(j, jobs[j].work)'
  BY <1>1, <1>2, <1>3, <1>4, <1>6, MaxVersionAssumption
     DEF pc, Fits, FitsBefore, FitsAfter, FitsBack, AtRest, BeforeSwap, Recording, BackedUp,
         AfterSwap, PreSwapPhases, RollbackPhases, Inflight, hostVars, Facts, JobFileFits,
         Versions
<1>8. RecordsFit'
  <2>1. /\ current' = j /\ maint'.job = j
        /\ maint'.phase \notin {"NeedsManual", "None", "Idle"}
        /\ maint'.phase = jobs'[j].work
    BY <1>1, <1>3, <1>4, <1>5, <1>6
  <2>2. Fits(j, maint.phase)'
    BY <1>7, <2>1
  <2>3. jobs'[j].kind = "Rollback" => maint'.phase \in RollbackPhases
    BY <1>2, <1>3, <1>4, <1>5, <1>6 DEF pc, FitsBefore, FitsAfter, AfterSwap, RollbackPhases
  <2> QED
    BY <1>7, <2>1, <2>2, <2>3, OwnRecords
<1>9. Facts'
  <2>1. JobFileFits(jobs'[j])
    BY <1>1, <1>4, <1>6 DEF Facts, JobFileFits
  <2>2. ASSUME NEW i \in Jobs \ {j}
        PROVE  JobFileFits(jobs'[i])
    BY <1>1, <1>4 DEF Facts
  <2> QED
    BY <1>1, <1>3, <2>1, <2>2, FactsStay DEF ExecutorStep
<1>10. TaskFits(j)'
  <2>1. FitsBefore(j)'
    BY <1>2, <1>3, <1>4, <1>5, <1>6
       DEF pc, FitsBefore, Recording, AtRest, BeforeSwap, BackedUp, hostVars, PreSwapPhases
  <2>2. FitsAfter(j)'
    BY <1>2, <1>3, <1>4, <1>5, <1>6 DEF pc, FitsAfter, Recording, AfterSwap, BackedUp, hostVars
  <2>3. FitsBack(j)'
    <3>1. \/ In(j, {"RollbackInProgress"}) \/ In(j, BackPoints)
          \/ ~In(j, {"rollbackRunner"} \cup TurnPoints \cup BackPoints \cup FailedPoints)'
      BY <1>3, <1>6 DEF pc
    <3>2. CASE In(j, {"RollbackInProgress"})
      BY <1>2, <1>3, <1>4, <1>5, <1>6, <3>2 DEF pc, FitsBack, RollbackPhases
    <3>3. CASE In(j, BackPoints)
      BY <1>2, <1>3, <1>4, <1>5, <1>6, <3>3
         DEF pc, FitsBack, Recording, BackedUp, hostVars, RollbackPhases
    <3>4. CASE ~In(j, {"rollbackRunner"} \cup TurnPoints \cup BackPoints \cup FailedPoints)'
      BY <1>3, <1>6, <3>4 DEF pc, FitsBack
    <3> QED
      BY <3>1, <3>2, <3>3, <3>4
  <2>4. FitsEnd(j)'
    BY <1>2, <1>3, <1>6 DEF pc, FitsEnd
  <2> QED
    BY <2>1, <2>2, <2>3, <2>4 DEF TaskFits
<1> QED
  BY <1>8, <1>9, <1>10, HostStep

\* A job file that is written with the same story, by a job that is still open.
Reopens(j) ==
  /\ jobs[j].status \notin {"Absent", "Succeeded"} /\ jobs'[j].status \in Inflight
  /\ jobs'[j].kind = jobs[j].kind /\ jobs'[j].work = jobs[j].work
  /\ jobs'[j].snap = jobs[j].snap
  /\ jobs'[j].from = jobs[j].from /\ jobs'[j].to = jobs[j].to
  /\ jobs'[j].last \in {jobs[j].last, "NeedsManual"} /\ JobFileFits(jobs'[j])
  /\ \A i \in Jobs \ {j} : jobs'[i] = jobs[i]

\* A job that stays open fits what it fitted.
LEMMA ReopenedFits ==
  ASSUME NEW j \in Jobs, Reopens(j), UNCHANGED <<curVer, snaps, hostVars>>,
         NEW i \in Jobs, NEW phase, Fits(i, phase)
  PROVE  Fits(i, phase)'
BY DEF Reopens, Fits, AtRest, BeforeSwap, AfterSwap, BackedUp, Committed, IsCommitted, Inflight,
       hostVars

\* A job that stays open leaves the records fitting.
LEMMA ReopenedRecords ==
  ASSUME NEW j \in Jobs, TypeOK, Facts, RecordsFit, Reopens(j),
         current = j \/ (maint.job = j /\ RollbackWaits),
         UNCHANGED <<current, maint, curVer, snaps, hostVars, probe>>
  PROVE  RecordsFit' /\ Facts'
<1>1. \A i \in Jobs : \A phase : Fits(i, phase) => Fits(i, phase)'
  BY ReopenedFits
<1>2. /\ {maint.job, current} \subseteq Jobs \cup {NoJob}
      /\ \A i \in Jobs : jobs'[i].work = jobs[i].work /\ jobs'[i].kind = jobs[i].kind
      /\ \A i \in Jobs : i # j => jobs'[i] = jobs[i]
  BY DEF TypeOK, StateTypeOK, MaintenanceRecord, JobOrNone, Reopens
<1>3. MaintFits' /\ CurrentFits'
  BY <1>1, <1>2 DEF RecordsFit, MaintFits, CurrentFits
<1>4. PointerFresh' /\ PointerAlone'
  BY <1>2 DEF RecordsFit, PointerFresh, PointerAlone, OnlyFinishedBehind, Reopens, RollbackWaits,
              AtRest, hostVars
<1>5. \A i \in Jobs : JobFileFits(jobs'[i])
  <2>1. JobFileFits(jobs'[j])
    BY DEF Reopens, Facts, JobFileFits, Inflight
  <2>2. ASSUME NEW i \in Jobs \ {j}
        PROVE  JobFileFits(jobs'[i])
    BY DEF Facts, Reopens
  <2> QED
    BY <2>1, <2>2
<1> QED
  BY <1>3, <1>4, <1>5, FactsStay DEF RecordsFit

\* The steps by which a task notes how its job stands.
LEMMA NoteSnapshotFits ==
  ASSUME Held, NEW j \in Jobs, ExecutorStep(j), NoteSnapshot(j)
  PROVE  HostFits'
<1>1. TypeOK /\ FitsBefore(j) /\ Facts /\ current = j
  BY TaskHeld, StepIsOwn DEF Held
<1>2. /\ exec[j].pc = "noteSnapshot" /\ exec'[j].pc = "SwapTag" /\ exec'[j].scope = "App"
      /\ UNCHANGED <<current, maint, curVer, report, snaps, hostVars>>
  BY <1>1 DEF NoteSnapshot, WriteJob, At, TypeOK, ProcessTypeOK, Executor
<1>3. /\ jobs'[j] = [jobs[j] EXCEPT !.snap = j] /\ jobs[j] \in JobRecord
      /\ \A i \in Jobs \ {j} : jobs'[i] = jobs[i]
  BY <1>1 DEF NoteSnapshot, WriteJob, TypeOK, StateTypeOK
<1>4. /\ jobs'[j].work = jobs[j].work /\ jobs'[j].last = jobs[j].last
      /\ jobs'[j].kind = jobs[j].kind /\ jobs'[j].snap = j
      /\ jobs'[j].from = jobs[j].from /\ jobs'[j].to = jobs[j].to
      /\ jobs'[j].status = jobs[j].status
  BY <1>3 DEF JobRecord
<1>5. TaskFits(j)'
  BY <1>1, <1>2, <1>4
     DEF TaskFits, FitsBefore, FitsAfter, FitsBack, FitsEnd, Recording, BeforeSwap, BackedUp,
         PreSwapPhases, hostVars
<1>6. RecordsFit'
  BY <1>1, <1>2, <1>4, OwnRecords
     DEF FitsBefore, Recording, Fits, BeforeSwap, PreSwapPhases, RollbackPhases, hostVars
<1>7. \A i \in Jobs : JobFileFits(jobs'[i])
  <2>1. JobFileFits(jobs'[j])
    BY <1>1, <1>4, NoJobAssumption DEF Facts, JobFileFits
  <2>2. ASSUME NEW i \in Jobs \ {j}
        PROVE  JobFileFits(jobs'[i])
    BY <1>1, <1>3 DEF Facts
  <2> QED
    BY <2>1, <2>2
<1>8. Facts'
  BY <1>1, <1>2, <1>7, FactsStay DEF ExecutorStep
<1> QED
  BY <1>5, <1>6, <1>8, HostStep

\* An update commits with its release running.
LEMMA CommitFits ==
  ASSUME Held, NEW j \in Jobs, ExecutorStep(j), Commit(j)
  PROVE  HostFits'
<1>1. TypeOK /\ FitsAfter(j) /\ Facts /\ current = j
  BY TaskHeld, StepIsOwn DEF Held
<1>2. /\ exec[j].pc = "commit" /\ exec'[j].pc = "commitVersion"
      /\ UNCHANGED <<current, maint, curVer, report, snaps, hostVars>>
  BY <1>1 DEF Commit, WriteJob, At, Goto, TypeOK, ProcessTypeOK, Executor
<1>3. /\ jobs'[j] = [jobs[j] EXCEPT !.status = "Succeeded", !.last = "Finalize",
                                    !.work = "Finalize", !.ok = TRUE]
      /\ jobs[j] \in JobRecord /\ \A i \in Jobs \ {j} : jobs'[i] = jobs[i]
  BY <1>1 DEF Commit, WriteJob, TypeOK, StateTypeOK
<1>4. /\ jobs'[j].work = "Finalize" /\ jobs'[j].last = "Finalize"
      /\ jobs'[j].kind = jobs[j].kind /\ jobs'[j].to = jobs[j].to
      /\ jobs'[j].status = "Succeeded"
  BY <1>3 DEF JobRecord
<1>5. Committed(j)'
  BY <1>1, <1>2, <1>4 DEF FitsAfter, AfterSwap, Committed, IsCommitted, hostVars
<1>6. TaskFits(j)'
  BY <1>2, <1>5 DEF TaskFits, FitsBefore, FitsAfter, FitsBack, FitsEnd
<1>7. RecordsFit'
  BY <1>1, <1>2, <1>4, <1>5, OwnRecords
     DEF FitsAfter, AfterSwap, Recording, Fits, PreSwapPhases, RollbackPhases
<1>8. \A i \in Jobs : JobFileFits(jobs'[i])
  <2>1. JobFileFits(jobs'[j])
    BY <1>1, <1>2, <1>4 DEF Facts, JobFileFits, FitsAfter, AfterSwap, Inflight
  <2>2. ASSUME NEW i \in Jobs \ {j}
        PROVE  JobFileFits(jobs'[i])
    BY <1>1, <1>3 DEF Facts
  <2> QED
    BY <2>1, <2>2
<1>9. Facts'
  BY <1>1, <1>2, <1>8, FactsStay DEF ExecutorStep
<1> QED
  BY <1>6, <1>7, <1>9, HostStep

\* updater.json follows the tag the update has moved.
LEMMA VersionFits ==
  ASSUME Facts, RecordsFit, TypeOK, NEW j \in Jobs, Committed(j),
         maint.job = j \/ (maint.job = NoJob /\ current = j),
         UNCHANGED <<jobs, current, maint, snaps, hostVars, probe>>,
         curVer' = jobs[j].to
  PROVE  RecordsFit' /\ Facts' /\ AtRest'
<1>2. jobs[j].kind = "Update" /\ jobs[j].work = "Finalize" /\ jobs[j].status = "Succeeded"
      /\ jobs[j].last = "Finalize"
  BY DEF Committed, IsCommitted, Facts, JobFileFits
<1>3. env.tag = jobs[j].to /\ apps = env.tag /\ data <= env.tag
  BY DEF Committed
<1>4. AtRest' /\ Committed(j)'
  BY <1>2, <1>3 DEF AtRest, Committed, IsCommitted, hostVars
<1>5. Facts'
  <2>1. curVer' \in Versions
    BY <1>2 DEF Facts, JobFileFits
  <2> QED
    BY <1>4, <2>1 DEF Facts, OpenFits, BackupsFit, NoOldCodeOnNewData, hostVars
<1>7. ASSUME NEW phase, Fits(j, phase)
      PROVE  Fits(j, phase)'
  <2>1. phase \notin RollbackPhases
    BY <1>2, <1>7 DEF Fits, IsRestored
  <2>2. phase # "SwapTag"
    BY <1>2, <1>7 DEF Fits, PreSwapPhases
  <2>3. BeforeSwap'
    BY <1>4 DEF AtRest, BeforeSwap
  <2> QED
    BY <1>4, <1>7, <2>1, <2>2, <2>3 DEF Fits
<1>8. RecordsFit'
  BY <1>4, <1>7, NoJobAssumption
     DEF RecordsFit, MaintFits, CurrentFits, PointerFresh, PointerAlone, OnlyFinishedBehind
<1> QED
  BY <1>4, <1>5, <1>8

\* updater.json gets the release of a committed update.
LEMMA CommitVersionFits ==
  ASSUME Held, NEW j \in Jobs, ExecutorStep(j), CommitVersion(j)
  PROVE  HostFits'
<1>1. TypeOK /\ FitsAfter(j) /\ Facts /\ RecordsFit /\ current = j
  BY TaskHeld, StepIsOwn DEF Held
<1>2. /\ exec[j].pc = "commitVersion" /\ exec'[j].pc = "clearMaint"
      /\ UNCHANGED <<jobs, current, maint, report, snaps, hostVars>>
      /\ curVer' = jobs[j].to
  BY <1>1 DEF CommitVersion, WriteUpdater, At, Goto, TypeOK, ProcessTypeOK, Executor
<1>3. Committed(j)
  BY <1>1, <1>2 DEF FitsAfter
<1>4. RecordsFit' /\ Facts' /\ AtRest'
  <2>1. maint.job \in {j, NoJob}
    BY <1>1, <1>3, NoJobAssumption
       DEF RecordsFit, PointerFresh, Committed, IsCommitted, Facts, JobFileFits
  <2> QED
    BY <1>1, <1>2, <1>3, <2>1, VersionFits DEF ExecutorStep
<1>5. jobs[j].work = "Finalize"
  BY <1>1, <1>3 DEF Committed, IsCommitted, Facts, JobFileFits
<1>6. TaskFits(j)'
  BY <1>2, <1>4, <1>5
     DEF TaskFits, FitsBefore, FitsAfter, FitsBack, FitsEnd, RollbackPhases
<1> QED
  BY <1>4, <1>6, HostStep

\* The record of a task that has tidied up is cleared, and the site opens.
LEMMA ClearMaintFits ==
  ASSUME Held, NEW j \in Jobs, ExecutorStep(j), ClearMaint(j)
  PROVE  HostFits'
<1>1. TypeOK /\ FitsEnd(j) /\ Facts /\ RecordsFit /\ current = j
  BY TaskHeld, StepIsOwn DEF Held
<1>2. /\ exec[j].pc = "clearMaint" /\ exec'[j].pc = "clearCurrent"
      /\ UNCHANGED <<jobs, current, curVer, report, snaps, hostVars>>
      /\ maint' = InactiveMaintenance
  BY <1>1 DEF ClearMaint, WriteMaint, At, Goto, TypeOK, ProcessTypeOK, Executor
<1>3. AtRest /\ jobs[j].work \in RollbackPhases => jobs[j].status \notin Inflight
  BY <1>1, <1>2 DEF FitsEnd
<1>4. TaskFits(j)'
  <2>1. AtRest'
    BY <1>1, <1>2 DEF FitsEnd, AtRest, hostVars
  <2> QED
    BY <1>2, <2>1 DEF TaskFits, FitsBefore, FitsAfter, FitsBack, FitsEnd
<1>5. RecordsFit'
  <2>1. Fits(j, jobs[j].work)
    BY <1>1, WorkFits, NoJobAssumption
  <2>2. Fits(j, jobs[j].work)'
    BY <1>2, <2>1 DEF Fits, AtRest, BeforeSwap, AfterSwap, BackedUp, Committed, hostVars
  <2>3. /\ maint'.job = NoJob /\ maint'.phase = "Idle" /\ ~maint'.active /\ current' = j
        /\ jobs' = jobs
    BY <1>1, <1>2 DEF InactiveMaintenance
  <2>4. jobs[j].work \in RollbackPhases => jobs[j].status \notin Inflight
    BY <1>1, <1>2 DEF FitsEnd
  <2> QED
    BY <2>2, <2>3, <2>4 DEF RecordsFit, MaintFits, CurrentFits, PointerFresh, PointerAlone
<1>6. Facts'
  BY <1>1, <1>2, FactsStay DEF FitsEnd, Facts, ExecutorStep
<1> QED
  BY <1>4, <1>5, <1>6, HostStep

\* The pointer after it.
LEMMA ClearCurrentFits ==
  ASSUME Held, NEW j \in Jobs, ExecutorStep(j), ClearCurrent(j)
  PROVE  HostFits'
<1>1. TypeOK /\ Facts /\ RecordsFit /\ current = j
  BY TaskHeld, StepIsOwn DEF Held
<1>2. /\ exec[j].pc = "clearCurrent" /\ exec'[j].pc = "idle"
      /\ UNCHANGED <<jobs, maint, curVer, report, snaps, hostVars>> /\ current' = NoJob
  BY <1>1 DEF ClearCurrent, SetCurrent, At, Finish, NoExecutor, TypeOK, ProcessTypeOK
<1>3. maint.job = NoJob /\ ~maint.active
  BY <1>2 DEF Held, Kept, Safe, Exclusive, IdleRecords, At
<1>4. TaskFits(j)'
  BY <1>2 DEF TaskFits, FitsBefore, FitsAfter, FitsBack, FitsEnd
<1>5. RecordsFit'
  BY <1>1, <1>2, <1>3 DEF RecordsFit, MaintFits, CurrentFits, PointerFresh, PointerAlone
<1>6. Facts'
  BY <1>1, <1>2, FactsStay DEF Facts, ExecutorStep
<1> QED
  BY <1>4, <1>5, <1>6, HostStep

\* An update that did not swap the tag has failed.
LEMMA FinalizeFailedFits ==
  ASSUME Held, NEW j \in Jobs, ExecutorStep(j), FinalizeFailed(j)
  PROVE  HostFits'
<1>1. TypeOK /\ FitsEnd(j) /\ Facts /\ RecordsFit /\ current = j /\ jobs[j].status # "Absent"
  BY TaskHeld, StepIsOwn DEF Held
<1>2. /\ exec[j].pc = "finalizeFailed" /\ exec'[j].pc = "clearMaint"
      /\ UNCHANGED <<current, maint, curVer, report, snaps, hostVars>>
      /\ jobs' = [jobs EXCEPT ![j] = [jobs[j] EXCEPT !.status = "Failed"]]
  BY <1>1 DEF FinalizeFailed, WriteJob, At, Goto, TypeOK, ProcessTypeOK, Executor
<1>3. /\ jobs'[j].work = jobs[j].work /\ jobs'[j].kind = jobs[j].kind
      /\ jobs'[j].last = jobs[j].last /\ jobs'[j].snap = jobs[j].snap
      /\ jobs'[j].from = jobs[j].from /\ jobs'[j].to = jobs[j].to
      /\ jobs'[j].status = "Failed"
      /\ \A i \in Jobs \ {j} : jobs'[i] = jobs[i]
  BY <1>1, <1>2 DEF TypeOK, StateTypeOK, JobRecord
<1>4. AtRest /\ Recording(j, PreSwapPhases \cup {"SwapTag"})
  BY <1>1, <1>2 DEF FitsEnd
<1>5. TaskFits(j)'
  BY <1>2, <1>3, <1>4
     DEF TaskFits, FitsBefore, FitsAfter, FitsBack, FitsEnd, AtRest, Inflight, hostVars
<1>6. RecordsFit'
  <2>1. /\ jobs[j].work = "SwapTag" => Fits(j, "SwapTag")
        /\ maint.phase = "SwapTag" => Fits(j, "SwapTag")
    BY <1>1, <1>4, NoJobAssumption DEF Recording, RecordsFit, MaintFits
  <2>2. BeforeSwap'
    BY <1>2, <1>4 DEF AtRest, BeforeSwap, hostVars
  <2>3. Fits(j, jobs[j].work)' /\ Fits(j, maint.phase)'
    BY <1>2, <1>3, <1>4, <2>1, <2>2 DEF Recording, Fits, PreSwapPhases, RollbackPhases
  <2>4. /\ current' = j /\ maint'.job = j
        /\ maint'.phase \notin {"NeedsManual", "None", "Idle"} /\ jobs'[j].work # "None"
        /\ jobs'[j].kind = "Update"
    BY <1>1, <1>2, <1>3, <1>4 DEF FitsEnd, Recording, PreSwapPhases
  <2> QED
    BY <2>3, <2>4, OwnRecords
<1>7. \A i \in Jobs : JobFileFits(jobs'[i])
  <2>1. JobFileFits(jobs'[j])
    BY <1>1, <1>3, <1>4 DEF Facts, JobFileFits, Recording, PreSwapPhases
  <2>2. ASSUME NEW i \in Jobs \ {j}
        PROVE  JobFileFits(jobs'[i])
    BY <1>1, <1>3 DEF Facts
  <2> QED
    BY <2>1, <2>2
<1>8. Facts'
  BY <1>1, <1>2, <1>7, FactsStay DEF ExecutorStep
<1> QED
  BY <1>5, <1>6, <1>8, HostStep

\* The steps that note a job as still open: it goes to an operator, the old release
\* has started or has not, a restarted updater runs it again.
LEMMA OpenJobFits ==
  ASSUME Held, NEW j \in Jobs, ExecutorStep(j),
         \/ ManualJob(j) \/ OldStarted(j) \/ RollbackFailed(j) \/ ResumeUpdate(j)
         \/ RecoveryJobFailed(j)
  PROVE  HostFits'
<1>1. /\ TypeOK /\ FitsAfter(j) /\ FitsBack(j) /\ FitsEnd(j) /\ Facts /\ RecordsFit
      /\ current = j /\ jobs[j].status # "Absent" /\ StillOpen(j)
  BY TaskHeld, StepIsOwn DEF Held, TaskRecorded
<1>2. UNCHANGED <<current, maint, curVer, report, snaps, hostVars>>
  BY DEF ManualJob, OldStarted, RollbackFailed, ResumeUpdate, RecoveryJobFailed, WriteJob,
         stateVars
<1>3. /\ \/ exec[j].pc = "manualJob" /\ exec'[j].pc = "manualMaint"
         \/ exec[j].pc = "oldStarted" /\ exec'[j].pc = "oldHealth"
         \/ exec[j].pc = "rollbackFailed" /\ exec'[j].pc = "manualJob"
         \/ exec[j].pc = "recoveryJob" /\ exec'[j].pc = "recoveryMaint"
         \/ /\ exec[j].pc \in {"resumeForward", "resumeBack"}
            /\ exec'[j].pc \in {"reinstall", "revert", "recoveryFailed"}
            /\ exec'[j].pc \in {"reinstall", "revert"} => exec'[j].tag = jobs[j].from
            /\ exec'[j].pc = "reinstall" => exec[j].pc = "resumeForward"
      /\ exec[j].pc \notin {"resumeForward", "resumeBack"} => exec'[j].tag = exec[j].tag
  <2>1. CASE ManualJob(j) \/ OldStarted(j) \/ RollbackFailed(j) \/ RecoveryJobFailed(j)
    BY <1>1, <2>1
       DEF ManualJob, OldStarted, RollbackFailed, RecoveryJobFailed, At, Goto, TypeOK,
           ProcessTypeOK, Executor
  <2>2. CASE ResumeUpdate(j)
    BY <1>1, <2>2 DEF ResumeUpdate, Goto, TypeOK, ProcessTypeOK, Executor
  <2> QED
    BY <2>1, <2>2
<1>4. jobs[j].status # "Succeeded"
  BY <1>1, <1>3 DEF StillOpen, EndPoints
<1>5. exec[j].pc # "recoveryJob" =>
        /\ jobs[j].status \in Inflight
        /\ maint.job = j \/ (jobs[j].kind = "Update" /\ maint.job = NoJob)
  BY <1>1, <1>3 DEF FitsAfter, FitsBack, AfterSwap
<1>6. Reopens(j)
  <2>1. jobs[j] \in JobRecord /\ jobs \in [Jobs -> JobRecord] /\ JobFileFits(jobs[j])
    BY <1>1 DEF TypeOK, StateTypeOK, Facts
  <2>2. /\ jobs[j].kind = "Update" => jobs[j].work # "None"
        /\ exec[j].pc = "oldStarted" \/ ResumeUpdate(j) => jobs[j].work # "None"
    BY <1>1, <1>3
       DEF FitsAfter, FitsBack, FitsEnd, AfterSwap, BackedUp, Recording, RollbackPhases,
           ResumeUpdate
  <2>3. /\ \A i \in Jobs \ {j} : jobs'[i] = jobs[i]
        /\ \/ jobs'[j] = jobs[j] /\ exec[j].pc = "rollbackFailed"
           \/ jobs'[j] = [jobs[j] EXCEPT !.ok = TRUE] /\ exec[j].pc = "oldStarted"
           \/ /\ jobs'[j] = [jobs[j] EXCEPT !.ok = FALSE] /\ exec[j].pc = "rollbackFailed"
              /\ jobs[j].kind = "Update"
           \/ jobs'[j] = [jobs[j] EXCEPT !.status = "NeedsManual"]
           \/ jobs'[j] = [jobs[j] EXCEPT !.status = "Running"] /\ ResumeUpdate(j)
           \/ jobs'[j] = [jobs[j] EXCEPT !.status = "NeedsManual", !.last = "NeedsManual",
                                        !.ok = FALSE]
    <3>1. CASE ManualJob(j) \/ RecoveryJobFailed(j) \/ ResumeUpdate(j)
      BY <2>1, <3>1 DEF ManualJob, RecoveryJobFailed, ResumeUpdate, WriteJob
    <3>2. CASE OldStarted(j)
      BY <2>1, <3>2 DEF OldStarted, WriteJob, At
    <3>3. CASE RollbackFailed(j)
      BY <2>1, <3>3 DEF RollbackFailed, WriteJob, At, stateVars
    <3> QED
      BY <3>1, <3>2, <3>3
  <2>4. /\ jobs'[j].status \in Inflight
        /\ jobs'[j].kind = jobs[j].kind /\ jobs'[j].work = jobs[j].work
        /\ jobs'[j].snap = jobs[j].snap
        /\ jobs'[j].from = jobs[j].from /\ jobs'[j].to = jobs[j].to
        /\ jobs'[j].last \in {jobs[j].last, "NeedsManual"}
        /\ jobs'[j].status = "NeedsManual" \/ jobs[j].work # "None" \/ jobs'[j] = jobs[j]
    BY <1>5, <2>1, <2>2, <2>3 DEF JobRecord, Inflight, ResumeUpdate, Phases
  <2>5. JobFileFits(jobs'[j])
    BY <1>1, <2>1, <2>2, <2>4 DEF JobFileFits, JobRecord, Kinds
  <2> QED
    BY <1>1, <1>4, <2>3, <2>4, <2>5 DEF Reopens
<1>7. RecordsFit' /\ Facts'
  <2>1. maint.job = j => RollbackWaits
    BY <1>1 DEF RollbackWaits
  <2> QED
    BY <1>1, <1>2, <1>6, <2>1, ReopenedRecords DEF ExecutorStep
<1>8. TaskFits(j)'
  <2>1. FitsAfter(j)' /\ FitsBefore(j)'
    BY <1>1, <1>2, <1>3, <1>6
       DEF FitsBefore, FitsAfter, FitsBack, AfterSwap, BackedUp, Reopens, hostVars
  <2>2. FitsBack(j)'
    BY <1>1, <1>2, <1>3, <1>6
       DEF FitsBack, FitsAfter, AfterSwap, Recording, BackedUp, Reopens, hostVars
  <2>3. FitsEnd(j)'
    BY <1>1, <1>2, <1>3, <1>6, NoJobAssumption
       DEF FitsEnd, FitsBack, FitsAfter, AfterSwap, BackedUp, Reopens, hostVars
  <2> QED
    BY <2>1, <2>2, <2>3 DEF TaskFits
<1> QED
  BY <1>7, <1>8, HostStep

\* updater.json gets the release that has come back.
LEMMA RecordRestoredFits ==
  ASSUME Held, NEW j \in Jobs, ExecutorStep(j), RecordRestored(j)
  PROVE  HostFits'
<1>1. TypeOK /\ FitsBack(j) /\ Facts /\ current = j
  BY TaskHeld, StepIsOwn DEF Held
<1>2. /\ exec[j].pc = "recordRestored" /\ exec'[j].pc = "rollbackDone"
      /\ exec'[j].tag = exec[j].tag
      /\ UNCHANGED <<jobs, current, maint, report, snaps, hostVars>>
      /\ curVer' = exec[j].tag
  BY <1>1 DEF RecordRestored, WriteUpdater, At, Goto, TypeOK, ProcessTypeOK, Executor
<1>3. /\ env.tag = exec[j].tag /\ apps = env.tag /\ data <= env.tag
      /\ jobs[j].status \in Inflight /\ Recording(j, RollbackPhases)
      /\ maint.active /\ maint.job = j
      /\ jobs[j].kind = "Update" => BackedUp(j) /\ exec[j].tag = jobs[j].from
  BY <1>1, <1>2 DEF FitsBack, Recording
<1>4. jobs[j].kind = "Update" => BackedUp(j)'
  BY <1>2, <1>3 DEF BackedUp
<1>5. TaskFits(j)'
  BY <1>2, <1>3, <1>4
     DEF TaskFits, FitsBefore, FitsAfter, FitsBack, FitsEnd, Recording, hostVars
<1>6. RecordsFit'
  BY <1>1, <1>2, <1>3, <1>4, OwnRecords
     DEF Recording, Fits, PreSwapPhases, RollbackPhases, Inflight
<1>7. Facts'
  BY <1>1, <1>2, <1>3
     DEF Facts, NoOldCodeOnNewData, OpenFits, BackupsFit, hostVars, ExecutorStep
<1> QED
  BY <1>5, <1>6, <1>7, HostStep

\* The way back is over.
LEMMA RollbackDoneFits ==
  ASSUME Held, NEW j \in Jobs, ExecutorStep(j), RollbackDone(j)
  PROVE  HostFits'
<1>1. TypeOK /\ FitsBack(j) /\ Facts /\ current = j /\ OldMarked(j)
  BY TaskHeld, StepIsOwn DEF Held, TaskRecorded
<1>2. /\ exec[j].pc = "rollbackDone" /\ exec'[j].pc = "clearMaint"
      /\ UNCHANGED <<current, maint, curVer, report, snaps, hostVars>>
  BY <1>1 DEF RollbackDone, WriteJob, At, Goto, TypeOK, ProcessTypeOK, Executor
<1>3. /\ jobs'[j].work = jobs[j].work /\ jobs'[j].kind = jobs[j].kind
      /\ jobs'[j].last = jobs[j].last /\ jobs'[j].snap = jobs[j].snap
      /\ jobs'[j].from = jobs[j].from /\ jobs'[j].ok = jobs[j].ok
      /\ jobs'[j].status \in {"Failed", "Succeeded"}
      /\ jobs[j].kind = "Update" => jobs'[j].to = jobs[j].to
      /\ \A i \in Jobs \ {j} : jobs'[i] = jobs[i]
  <2>1. jobs[j] \in JobRecord /\ jobs \in [Jobs -> JobRecord]
    BY <1>1 DEF TypeOK, StateTypeOK
  <2>2. CASE jobs[j].kind = "Update"
    BY <2>1, <2>2 DEF RollbackDone, WriteJob, JobRecord
  <2>3. CASE jobs[j].kind # "Update"
    BY <2>1, <2>3 DEF RollbackDone, WriteJob, JobRecord
  <2> QED
    BY <2>2, <2>3
<1>4. /\ env.tag = exec[j].tag /\ apps = env.tag /\ data <= env.tag /\ curVer = env.tag
      /\ jobs[j].status \in Inflight /\ Recording(j, RollbackPhases)
      /\ jobs[j].kind = "Update" => BackedUp(j)
      /\ jobs[j].last = "StartOld" /\ jobs[j].ok
  BY <1>1, <1>2 DEF FitsBack, OldMarked, OldPoints
<1>5. AtRest' /\ IsRestored(jobs'[j])
  BY <1>2, <1>3, <1>4 DEF AtRest, IsRestored, hostVars
<1>6. TaskFits(j)'
  BY <1>2, <1>3, <1>5 DEF TaskFits, FitsBefore, FitsAfter, FitsBack, FitsEnd, Inflight
<1>7. RecordsFit'
  <2>1. jobs[j].kind = "Update" => BackedUp(j)'
    BY <1>2, <1>3, <1>4 DEF BackedUp
  <2> QED
    BY <1>1, <1>2, <1>3, <1>4, <1>5, <2>1, OwnRecords
       DEF Recording, Fits, PreSwapPhases, RollbackPhases
<1>8. \A i \in Jobs : JobFileFits(jobs'[i])
  <2>1. JobFileFits(jobs'[j])
    BY <1>1, <1>3, <1>4 DEF Facts, JobFileFits, Inflight
  <2>2. ASSUME NEW i \in Jobs \ {j}
        PROVE  JobFileFits(jobs'[i])
    BY <1>1, <1>3 DEF Facts
  <2> QED
    BY <2>1, <2>2
<1>9. Facts'
  BY <1>1, <1>2, <1>8, FactsStay DEF ExecutorStep
<1> QED
  BY <1>6, <1>7, <1>9, HostStep

\* The record says that the job waits for an operator.
LEMMA WaitFits ==
  ASSUME Held, NEW j \in Jobs, ExecutorStep(j), ManualMaint(j) \/ RecoveryMaint(j)
  PROVE  HostFits'
<1>1. TypeOK /\ FitsBack(j) /\ FitsEnd(j) /\ Facts /\ RecordsFit /\ current = j
  BY TaskHeld, StepIsOwn DEF Held
<1>2. /\ \/ exec[j].pc = "manualMaint" /\ exec'[j].pc \in {"recoveryFailed", "idle"}
         \/ exec[j].pc = "recoveryMaint" /\ exec'[j].pc = "recoveryCurrent"
      /\ UNCHANGED <<jobs, current, curVer, report, snaps, hostVars>>
  <2>1. CASE ManualMaint(j)
    BY <1>1, <2>1
       DEF ManualMaint, WriteMaint, At, Goto, Finish, NoExecutor, TypeOK, ProcessTypeOK, Executor
  <2>2. CASE RecoveryMaint(j)
    BY <1>1, <2>2 DEF RecoveryMaint, WriteMaint, At, Goto, TypeOK, ProcessTypeOK, Executor
  <2> QED
    BY <2>1, <2>2
<1>3. maint' = [active |-> TRUE, phase |-> "NeedsManual", job |-> j]
  BY <1>1, <1>2 DEF ManualMaint, RecoveryMaint, WriteMaint, FitsBack, At
<1>4. jobs[j].kind = "Update" => jobs[j].work # "None"
  BY <1>1, <1>2 DEF FitsEnd
<1>5. TaskFits(j)'
  BY <1>2, <1>3, <1>4, NoJobAssumption DEF TaskFits, FitsBefore, FitsAfter, FitsBack, FitsEnd
<1>6. RecordsFit'
  <2>1. Fits(j, jobs[j].work)
    BY <1>1, WorkFits, NoJobAssumption
  <2>2. Fits(j, jobs[j].work)'
    BY <1>2, <2>1 DEF Fits, AtRest, BeforeSwap, AfterSwap, BackedUp, Committed, hostVars
  <2>3. maint'.job = j /\ maint'.phase = "NeedsManual" /\ current' = j /\ jobs' = jobs
    BY <1>1, <1>2, <1>3
  <2> QED
    BY <1>3, <1>4, <2>2, <2>3, OwnRecords
<1>7. Facts'
  BY <1>1, <1>2, <1>3, FactsStay DEF Facts, ExecutorStep
<1> QED
  BY <1>5, <1>6, <1>7, HostStep

\* Steps that leave records and host alone although they might have to write them.
LEMMA SettledFits ==
  ASSUME Held, NEW j \in Jobs, ExecutorStep(j), Revert(j) \/ RecoveryCurrent(j)
  PROVE  HostFits'
<1>1. TypeOK /\ FitsBack(j) /\ current = j
  BY TaskHeld, StepIsOwn DEF Held
<1>2. /\ \/ /\ exec[j].pc = "revert" /\ exec'[j].pc = "plan"
            /\ exec'[j].tag = exec[j].tag
         \/ exec[j].pc = "recoveryCurrent" /\ exec'[j].pc = "idle"
      /\ UNCHANGED <<jobs, current, maint, curVer, snaps, hostVars>>
  <2>1. CASE Revert(j)
    BY <1>1, <2>1
       DEF Revert, At, Goto, TypeOK, ProcessTypeOK, Executor, FitsBack, stateVars
  <2>2. CASE RecoveryCurrent(j)
    BY <1>1, <2>2
       DEF RecoveryCurrent, SetCurrent, At, Finish, NoExecutor, TypeOK, ProcessTypeOK
  <2> QED
    BY <2>1, <2>2
<1>3. TaskFits(j)'
  BY <1>1, <1>2 DEF TaskFits, FitsBefore, FitsAfter, FitsBack, FitsEnd, BackedUp
<1> QED
  BY <1>2, <1>3, MovesOn DEF hostVars

\* A step of the running task.
LEMMA TaskStepFits ==
  ASSUME Held, NEW j \in Jobs, ExecutorStep(j)
  PROVE  HostFits'
<1>1. CASE UpdateStep(j)
  BY <1>1, NoSkip, PreflightFits, BuildRunnerFits, StopAppsFits, StopPostgresFits,
     CopySnapshotFits, NoteSnapshotFits, InstallComposeFits, SwapTagFits, VerifyFits,
     StartNewFits, CommitFits, CommitVersionFits, OpenJobFits, ReinstallFits
     DEF UpdateStep
<1>2. CASE RollbackStep(j)
  BY <1>2, NoSkip, SettledFits, RollbackMovesOn, StopNewFits, RestoreProxyTagFits,
     SwapTagBackFits, StopForRestoreFits, WipeDataFits, RefillDataFits, StartOldFits,
     OpenJobFits, RecordRestoredFits, RollbackDoneFits
     DEF RollbackStep
<1>3. CASE CleanupStep(j)
  BY <1>3, PreSwapComposeFits, PreSwapUpFits, FinalizeFailedFits, OpenJobFits, WaitFits,
     ClearMaintFits, ClearCurrentFits, RecoveryFailedFits, SettledFits
     DEF CleanupStep
<1> QED
  BY <1>1, <1>2, <1>3, NoteMaintenanceFits, NoteStepFits DEF ExecutorStep

-----------------------------------------------------------------------------
(***************************************************************************)
(* Requests, admission, the death of the process and the backend.          *)
(***************************************************************************)
\* An idle task asks nothing of the host.
LEMMA IdleFits ==
  ASSUME NEW j \in Jobs, ~ExecutorRunning(j)
  PROVE  TaskFits(j)
BY DEF ExecutorRunning, TaskFits, FitsBefore, FitsAfter, FitsBack, FitsEnd

\* Where nobody is at work, nothing is said of the tasks.
LEMMA RestFits ==
  ASSUME NoExecutorRunning, UNCHANGED exec
  PROVE  \A j \in Jobs : TaskFits(j)'
BY DEF NoExecutorRunning, ExecutorRunning, TaskFits, FitsBefore, FitsAfter, FitsBack, FitsEnd

\* The file of a job no record names.
LEMMA FileFits ==
  ASSUME Sound, HostFits, NEW j \in Jobs, NEW record, Ready, NoExecutorRunning,
         WriteJob(j, record), loop' = j, UNCHANGED <<hostVars, exec, boot, probe>>,
         current # j, maint.job # j, JobFileFits(record),
         record.kind = "Update" => record.from = curVer /\ OnlyFinishedBehind
  PROVE  HostFits'
<1>1. TypeOK /\ Facts /\ RecordsFit
  BY DEF Sound, HostFits
<1>2. /\ UNCHANGED <<current, maint, curVer, report, snaps, hostVars, exec, boot, probe>>
      /\ jobs' = [jobs EXCEPT ![j] = record]
  BY DEF WriteJob
<1>3. jobs'[j] = record /\ \A i \in Jobs \ {j} : jobs'[i] = jobs[i]
  BY <1>1, <1>2 DEF TypeOK, StateTypeOK
<1>4. {current, maint.job} \subseteq Jobs \cup {NoJob}
  BY <1>1 DEF TypeOK, StateTypeOK, MaintenanceRecord, JobOrNone
<1>5. \A i \in Jobs \ {j} : \A phase : Fits(i, phase) => Fits(i, phase)'
  BY <1>2, <1>3 DEF Fits, AtRest, BeforeSwap, AfterSwap, BackedUp, Committed, hostVars
<1>6. RecordsFit'
  BY <1>1, <1>2, <1>3, <1>4, <1>5
     DEF RecordsFit, MaintFits, CurrentFits, PointerFresh, PointerAlone, OnlyFinishedBehind,
         AtRest, hostVars
<1>7. \A i \in Jobs : JobFileFits(jobs'[i])
  BY <1>1, <1>3 DEF Facts
<1>8. Facts'
  BY <1>1, <1>2, <1>7, FactsStay
<1>9. LoopFits'
  BY <1>2, <1>3, <1>4 DEF LoopFits, OnlyFinishedBehind
<1>10. \A i \in Jobs : TaskFits(i)'
  BY <1>2, RestFits
<1>11. BootFits'
  BY <1>2 DEF Ready, BootFits
<1> QED
  BY <1>6, <1>8, <1>9, <1>10, <1>11 DEF HostFits

\* No record names a job before it has a file.
LEMMA WriteFits ==
  ASSUME Sound, HostFits, NEW j \in Jobs, NEW record, Ready, NoExecutorRunning,
         Write(j, record), JobFileFits(record),
         record.kind = "Update" => record.from = curVer /\ OnlyFinishedBehind
  PROVE  HostFits'
<1>1. current # j /\ maint.job # j
  BY NoJobAssumption DEF Sound, Grounded, HasFile, Write
<1> QED
  BY <1>1, FileFits DEF Write

\* An update starts from the recorded release.
LEMMA RequestUpdateFits ==
  ASSUME Held, NEW j \in Jobs, NEW target \in Versions, RequestUpdate(j, target)
  PROVE  HostFits'
<1>1. /\ Ready /\ Write(j, NewUpdate(curVer, target)) /\ current = NoJob
  BY DEF RequestUpdate
<1>2. NoExecutorRunning /\ OnlyFinishedBehind
  BY <1>1, NoJobAssumption
     DEF Held, Kept, Safe, Exclusive, OwnerRuns, IdleRecords, NoExecutorRunning
<1>3. JobFileFits(NewUpdate(curVer, target)) /\ NewUpdate(curVer, target).from = curVer
  BY DEF JobFileFits, NewUpdate, NoRecord
<1> QED
  BY <1>1, <1>2, <1>3, WriteFits DEF Held, Kept, Safe

\* An operator's rollback has a backup to name.
LEMMA RequestRollbackFits ==
  ASSUME Sound, HostFits, NEW j \in Jobs, NEW s \in Jobs, NoExecutorRunning, RequestRollback(j, s)
  PROVE  HostFits'
<1>1. Ready /\ Write(j, NewRollback(curVer, s))
  BY DEF RequestRollback
<1>2. JobFileFits(NewRollback(curVer, s)) /\ NewRollback(curVer, s).kind = "Rollback"
  BY NoJobAssumption DEF JobFileFits, NewRollback, NoRecord
<1> QED
  BY <1>1, <1>2, WriteFits

\* The job admitted has not started: an open site is that of the recorded release.
LEMMA AdmitFits ==
  ASSUME TypeOK, HostFits, Admit, OwnerRuns, Unstarted, maint.active => maint.job # NoJob
  PROVE  HostFits'
<1> PICK j \in Jobs : j = loop
  BY DEF Admit, TypeOK, ProcessTypeOK, JobOrNone
<1>1. TypeOK /\ Facts /\ RecordsFit /\ LoopFits
  BY DEF HostFits
<1>2. /\ UNCHANGED <<jobs, maint, curVer, report, snaps, hostVars, boot, probe>>
      /\ current' = j /\ loop' = NoJob /\ loop = j /\ boot.pc = "up"
      /\ exec' = [exec EXCEPT ![j] = [NoExecutor EXCEPT !.pc = FirstPhase(jobs[j])]]
  BY DEF Admit, SetCurrent
<1>3. NeverStarted(jobs[j]) /\ maint.job # j /\ \A i \in Jobs : ~ExecutorRunning(i)
  BY <1>2, NoJobAssumption DEF Unstarted, OwnerRuns
<1>4. jobs[j].work = "None" /\ jobs[j].status = "Pending" /\ jobs[j].kind \in {"Update", "Rollback"}
  BY <1>1, <1>3 DEF NeverStarted, Facts, JobFileFits, TypeOK, StateTypeOK, JobRecord, Kinds
<1>5. jobs[j].kind = "Update" => OnlyFinishedBehind /\ jobs[j].from = curVer
  BY <1>1, <1>2, NoJobAssumption DEF LoopFits
<1>6. Facts'
  BY <1>1, <1>2, FactsStay DEF Facts
<1>7. RecordsFit'
  <2>1. \A i : \A phase : Fits(i, phase) => Fits(i, phase)'
    BY <1>2 DEF Fits, AtRest, BeforeSwap, AfterSwap, BackedUp, Committed, hostVars
  <2>2. MaintFits'
    BY <1>1, <1>2, <2>1 DEF RecordsFit, MaintFits
  <2>3. CurrentFits'
    BY <1>2, <1>4 DEF CurrentFits, Fits, PreSwapPhases, RollbackPhases
  <2>4. PointerFresh'
    BY <1>2, <1>4, <1>5 DEF PointerFresh, OnlyFinishedBehind
  <2>5. PointerAlone'
    <3>1. maint.job = NoJob => maint.phase = "Idle" /\ ~maint.active
      BY <1>1 DEF RecordsFit, PointerAlone
    <3> QED
      BY <1>2, <1>4, <3>1 DEF PointerAlone, RollbackPhases
  <2> QED
    BY <2>2, <2>3, <2>4, <2>5 DEF RecordsFit
<1>8. \A i \in Jobs \ {j} : TaskFits(i)'
  BY <1>1, <1>2, <1>3, IdleFits
     DEF TypeOK, ProcessTypeOK, ExecutorRunning, TaskFits, FitsBefore, FitsAfter, FitsBack, FitsEnd
<1>9. TaskFits(j)'
  <2>1. exec'[j] = [NoExecutor EXCEPT !.pc = FirstPhase(jobs[j])]
    BY <1>1, <1>2 DEF TypeOK, ProcessTypeOK
  <2>2. /\ exec'[j].tag = NoVersion
        /\ exec'[j].pc = IF jobs[j].kind = "Update" THEN "Preflight" ELSE "RollbackInProgress"
    BY <2>1 DEF NoExecutor, FirstPhase
  <2>3. jobs[j].kind = "Update" => AtRest'
    BY <1>1, <1>2, <1>5 DEF Facts, OpenFits, OnlyFinishedBehind, AtRest, hostVars
  <2> QED
    BY <1>2, <1>4, <1>5, <2>2, <2>3
       DEF TaskFits, FitsBefore, FitsAfter, FitsBack, FitsEnd, Inflight
<1>10. LoopFits' /\ BootFits'
  BY <1>2 DEF LoopFits, BootFits
<1> QED
  BY <1>6, <1>7, <1>8, <1>9, <1>10 DEF HostFits

\* A death leaves records and host as they are, and no task.
LEMMA CrashFits ==
  ASSUME Held, Crash
  PROVE  HostFits'
<1>1. /\ UNCHANGED <<jobs, current, maint, curVer, report, snaps, hostVars>>
      /\ probe' = NoVersion /\ loop' = NoJob /\ boot'.pc = "plan"
      /\ \A i \in Jobs : exec'[i].pc = "idle"
  BY DEF Crash, stateVars, NoExecutor
<1>2. Facts' /\ RecordsFit'
  BY <1>1, QuietFits DEF Held, HostFits, Facts, hostVars
<1>3. \A i \in Jobs : TaskFits(i)'
  BY <1>1 DEF TaskFits, FitsBefore, FitsAfter, FitsBack, FitsEnd
<1> QED
  BY <1>1, <1>2, <1>3 DEF HostFits, LoopFits, BootFits

\* The backend brings pgdata to the release it runs, and no further.
LEMMA MigrateFits ==
  ASSUME TypeOK, HostFits, Migrate
  PROVE  HostFits'
<1>1. TypeOK /\ HostFits
  OBVIOUS
<1>2. /\ UNCHANGED <<jobs, current, maint, curVer, report, snaps, env, apps, pg,
                     exec, loop, boot, probe>>
      /\ data' = apps /\ apps # Stopped
  BY DEF Migrate, Serving, stateVars, processVars
<1>3. apps \in Versions
  BY <1>1, <1>2 DEF TypeOK, HostTypeOK, VersionOrNone, Stopped
<1>4. /\ AtRest => AtRest'
      /\ BeforeSwap => BeforeSwap'
      /\ \A i : AfterSwap(i) => AfterSwap(i)'
      /\ \A i : Committed(i) => Committed(i)'
      /\ \A i : BackedUp(i) => BackedUp(i)'
      /\ \A v \in Versions : apps = v => data' <= v
  BY <1>2, <1>3, MaxVersionAssumption
     DEF AtRest, BeforeSwap, AfterSwap, Committed, BackedUp, Versions, Stopped
<1>5. Facts'
  <2>1. apps # Damaged
    BY <1>3, MaxVersionAssumption DEF Versions, Damaged
  <2>2. NoOldCodeOnNewData'
    BY <1>2, <1>3, <2>1, MaxVersionAssumption DEF NoOldCodeOnNewData, Versions
  <2> QED
    BY <1>1, <1>2, <1>4, <2>2 DEF HostFits, Facts, OpenFits, BackupsFit
<1>6. RecordsFit'
  <2>1. \A i : \A phase : Fits(i, phase) => Fits(i, phase)'
    BY <1>2, <1>4 DEF Fits
  <2> QED
    BY <1>1, <1>2, <1>4, <2>1
       DEF HostFits, RecordsFit, MaintFits, CurrentFits, PointerFresh, PointerAlone,
           OnlyFinishedBehind
<1>7. LoopFits' /\ BootFits'
  <2>1. LoopFits'
    BY <1>1, <1>2 DEF HostFits, LoopFits, OnlyFinishedBehind
  <2>2. BootFits'
    BY <1>1, <1>2, <1>4 DEF HostFits, BootFits, RollbackWaits, RecoveryJob
  <2> QED
    BY <2>1, <2>2
<1>8. ASSUME NEW j \in Jobs
      PROVE  TaskFits(j)'
  <2>1. FitsBefore(j) /\ FitsAfter(j) /\ FitsBack(j) /\ FitsEnd(j)
    BY <1>1 DEF HostFits, TaskFits
  <2>2. FitsBefore(j)' /\ FitsAfter(j)'
    BY <1>2, <1>4, <2>1 DEF FitsBefore, FitsAfter, Recording
  <2>3. apps = env.tag => data' <= env'.tag
    BY <1>2, <1>3, <1>4
  <2>4. FitsBack(j)'
    BY <1>2, <1>4, <2>1, <2>3 DEF FitsBack, Recording
  <2>5. FitsEnd(j)'
    BY <1>2, <1>4, <2>1 DEF FitsEnd, Recording
  <2> QED
    BY <2>2, <2>4, <2>5 DEF TaskFits
<1> QED
  BY <1>5, <1>6, <1>7, <1>8 DEF HostFits

-----------------------------------------------------------------------------
(***************************************************************************)
(* Startup recovery.                                                       *)
(***************************************************************************)
\* The host fits the phase recovery starts from; a job that only says that it needs
\* an operator is an operator's rollback, still open.
LEMMA EffectiveFits ==
  ASSUME TypeOK, Grounded, Facts, RecordsFit, NEW id \in Jobs, id = RecoveryJob(maint, current)
  PROVE  LET phase == EffectivePhase(maint, jobs[id])
         IN  /\ phase = "NeedsManual" => jobs[id].kind = "Rollback" /\ jobs[id].status \in Inflight
             /\ phase # "NeedsManual" => Fits(id, phase)
             /\ phase \in {jobs[id].work, jobs[id].last, maint.phase}
             /\ maint.phase \in RollbackPhases => phase = maint.phase
             /\ phase \in {"None", "Idle"} => phase = maint.phase
             /\ \/ Decisive(jobs[id].work)
                \/ jobs[id].work = "None" /\ jobs[id].last = "NeedsManual"
                => Decisive(phase)
<1> DEFINE job == jobs[id]
           recorded == IF maint.phase = "NeedsManual" /\ job.work # "None"
                       THEN job.work ELSE maint.phase
           step == IF job.work # "None" THEN job.work ELSE job.last
           useStep == /\ ~Decisive(recorded) /\ step # "None"
                      /\ \/ Decisive(step)
                         \/ ~maint.active /\ job.status \in Inflight
           phase == IF useStep THEN step ELSE recorded
<1>1. phase = EffectivePhase(maint, jobs[id])
  BY DEF EffectivePhase
<1>2. /\ JobFileFits(job) /\ job.status # "Absent" /\ job.kind \in {"Update", "Rollback"}
      /\ maint.phase \in Phases
  BY NoJobAssumption
     DEF Facts, Grounded, HasFile, RecoveryJob, TypeOK, StateTypeOK, JobRecord, Kinds,
         MaintenanceRecord
<1>3. maint.job = id \/ (maint.job = NoJob /\ current = id /\ maint.phase = "Idle")
  BY DEF RecoveryJob, RecordsFit, PointerAlone
<1>4. Fits(id, job.work)
  BY <1>3, NoJobAssumption DEF RecordsFit, MaintFits, CurrentFits
<1>5. maint.phase # "NeedsManual" => Fits(id, maint.phase)
  BY <1>3, NoJobAssumption DEF RecordsFit, MaintFits, Fits, PreSwapPhases, RollbackPhases
<1>6. maint.phase = "NeedsManual" => maint.job = id /\ (job.kind = "Update" => job.work # "None")
  BY <1>3, NoJobAssumption DEF RecordsFit, MaintFits
<1>7. /\ job.last \in {job.work, "NeedsManual"}
      /\ job.work = "None" =>
           \/ job.status = "Pending" /\ job.last = "None"
           \/ job.status = "NeedsManual" /\ job.kind = "Rollback"
  BY <1>2 DEF JobFileFits
<1>8. job.work # "NeedsManual" /\ ~Decisive("None") /\ Decisive("NeedsManual")
  BY <1>4 DEF Fits, Decisive, IsPostSwap, IsRollback, PostSwapPhases, RollbackPhases
<1> HIDE DEF job
<1>9. phase = "NeedsManual" => job.kind = "Rollback" /\ job.status \in Inflight
  BY <1>2, <1>6, <1>7, <1>8 DEF Inflight
<1>10. phase # "NeedsManual" => Fits(id, phase)
  BY <1>4, <1>5, <1>7, <1>8
<1>11. phase \in {job.work, job.last, maint.phase}
  OBVIOUS
<1>12. maint.phase \in RollbackPhases => phase = maint.phase
  BY <1>8 DEF Decisive, IsRollback, RollbackPhases
<1>13. phase \in {"None", "Idle"} => phase = maint.phase
  BY <1>2, <1>7 DEF JobFileFits
<1>14. /\ Decisive(job.work) => Decisive(phase)
       /\ job.work = "None" /\ job.last = "NeedsManual" => Decisive(phase)
  BY <1>8
<1> QED
  BY <1>1, <1>9, <1>10, <1>11, <1>12, <1>13, <1>14 DEF job

\* What the plan takes the host to be is what it is.
LEMMA PlanFits ==
  ASSUME Held, boot.pc = "plan", NEW tag \in {env.tag, NoVersion}
  PROVE  LET id == RecoveryJob(maint, current)
             plan == CrashPlan(maint, current, RecordOf(id), tag)
         IN  /\ plan.kind \in {"FailUnstarted", "ReleaseTerminalCurrent", "FinishRestored"}
                  => AtRest
             /\ plan.kind = "FailUnstarted" => ~maint.active
             /\ plan.kind = "FinishRestored" => id # NoJob /\ jobs[id].status \notin Inflight
             /\ plan.kind = "FinishCommitted" => Committed(id) /\ id # NoJob
             /\ plan.kind = "NeedsManual" =>
                  jobs[id].work \in PreSwapPhases \cup {"SwapTag"} /\ RollbackWaits
             /\ plan.kind = "ClearPreSwap" =>
                  /\ BeforeSwap /\ RollbackWaits
                  /\ jobs[id].work \notin {"None"} \cup RollbackPhases
                  /\ maint.phase \notin RollbackPhases
             /\ plan.kind = "Resume" =>
                  /\ jobs[id].status \in Inflight
                  /\ maint.job = NoJob =>
                       jobs[id].last = "NeedsManual" \/ jobs[id].work \in RollbackPhases
                  /\ jobs[id].kind = "Update" =>
                       /\ BackedUp(id)
                       /\ maint.job = NoJob =>
                            plan.rollback /\ jobs[id].work \in RollbackPhases
                       /\ ~plan.rollback => AfterSwap(id)
<1> DEFINE id == RecoveryJob(maint, current)
           job == RecordOf(id)
           phase == EffectivePhase(maint, job)
           plan == CrashPlan(maint, current, job, tag)
<1>1. /\ TypeOK /\ Grounded /\ Facts /\ RecordsFit /\ Exclusive
      /\ \A i \in Jobs : Marked(jobs[i])
  BY TaskHeld, BootFiles DEF Held, Kept, Safe, Sound, HostFits
<1>2. id \in Jobs \cup {NoJob}
  BY <1>1 DEF RecoveryJob, TypeOK, StateTypeOK, MaintenanceRecord, JobOrNone
<1>3. ASSUME ~maint.active
      PROVE  AtRest
  BY <1>1, <1>3 DEF Facts, OpenFits
<1>4. ASSUME plan.kind \in {"FailUnstarted", "ReleaseTerminalCurrent"}
      PROVE  ~maint.active
  BY <1>4 DEF CrashPlan, IsFailUnstarted
<1>5. CASE id = NoJob
  <2>1. plan.kind \in {"Idle", "ClearOrphanMaintenance"}
    BY <1>5 DEF CrashPlan, IsFailUnstarted, IsCommitted, IsRestored, RecordOf, NoRecord
  <2> QED
    BY <2>1
<1>6. CASE id \in Jobs
  <2> USE <1>6
  <2>1. job = jobs[id] /\ id # NoJob
    BY NoJobAssumption DEF RecordOf
  <2>2. /\ phase = "NeedsManual" => job.kind = "Rollback" /\ job.status \in Inflight
        /\ phase # "NeedsManual" => Fits(id, phase)
        /\ phase \in {job.work, job.last, maint.phase}
        /\ maint.phase \in RollbackPhases => phase = maint.phase
        /\ phase \in {"None", "Idle"} => phase = maint.phase
        /\ Decisive(job.work) => Decisive(phase)
        /\ job.work = "None" /\ job.last = "NeedsManual" => Decisive(phase)
    BY <1>1, <2>1, EffectiveFits
  <2>3. Fits(id, job.work) /\ JobFileFits(job) /\ job.status # "Absent" /\ job.kind \in Kinds
    BY <1>1, <2>1, NoJobAssumption
       DEF RecordsFit, MaintFits, CurrentFits, RecoveryJob, Facts, Grounded, HasFile, TypeOK,
           StateTypeOK, JobRecord
  <2>4. maint.job = id \/ (maint.job = NoJob /\ current = id)
    BY DEF RecoveryJob
  <2>5. IsCommitted(job) => Committed(id)
    BY <2>1, <2>3 DEF IsCommitted, JobFileFits, Fits
  <2>6. IsRestored(job) => AtRest /\ job.status \notin Inflight
    BY <2>1, <2>3 DEF IsRestored, JobFileFits, Fits, RollbackPhases, Inflight
  <2> DEFINE live == ~IsCommitted(job) /\ ~IsRestored(job)
             early == phase = "SwapTag" /\ TagUntouched(job, tag)
             late == /\ phase # "SwapTag" /\ ~Resumable(phase)
                     /\ IsInterruptedPreSwap(maint, job)
  <2>7. /\ plan.kind = "FinishRestored" => IsRestored(job)
        /\ plan.kind = "FinishCommitted" => IsCommitted(job)
        /\ plan.kind = "NeedsManual" => phase = "SwapTag"
        /\ plan.kind = "ClearPreSwap" => live /\ (early \/ late)
                                        /\ ~IsFailUnstarted(maint, id, job)
        /\ plan.kind = "Resume" =>
             live /\ (Resumable(phase) \/ (phase = "SwapTag" /\ TagWritten(job, tag)))
        /\ plan.rollback = IsRollback(phase)
    BY <2>1 DEF CrashPlan, IsInterruptedPreSwap, TagUnexplained
  <2> HIDE DEF plan, phase, live, early, late, id, job
  <2>8. /\ maint.phase \in Phases /\ job.work \in Phases /\ job.last \in Phases
        /\ job.status \in Statuses /\ Marked(job)
    BY <1>1, <2>1 DEF TypeOK, StateTypeOK, JobRecord, MaintenanceRecord
  <2>9. live => job.status \in Inflight \cup {"Failed"}
    BY <2>3, <2>8 DEF live, Marked, IsCommitted, IsRestored, Statuses, Inflight
  <2>10. phase \in RollbackPhases /\ live => job.status \in Inflight
    BY <2>1, <2>2, <2>9 DEF live, Fits, RollbackPhases
  <2>11. AfterSwap(id) => maint.job = id
    <3> SUFFICES ASSUME AfterSwap(id), maint.job # id
                 PROVE  FALSE
      OBVIOUS
    <3>1. AtRest
      BY <1>1, <1>3, <2>1, <2>4 DEF AfterSwap, RecordsFit, PointerAlone
    <3> QED
      BY <3>1 DEF AfterSwap, BackedUp, AtRest
  <2>12. phase \in PostSwapPhases /\ live => AfterSwap(id)
    BY <2>1, <2>2 DEF live, Fits, Committed, PostSwapPhases
  <2>13. ASSUME phase = "SwapTag", plan.kind \in {"NeedsManual", "ClearPreSwap"}
         PROVE  jobs[id].work \in PreSwapPhases \cup {"SwapTag"} /\ RollbackWaits
    <3>1. current # NoJob
      BY <2>13, PlanChoosesOwner DEF Held, Kept, plan, id, job
    <3>2. maint.job \notin {NoJob, current} => maint.phase # "Preflight" \/ job.work # "Preflight"
      BY <2>2, <2>3, <2>13 DEF JobFileFits
    <3>3. RollbackWaits
      BY <1>1, <2>1, <2>4, <3>1, <3>2
         DEF RecordsFit, PointerFresh, OnlyFinishedBehind, RollbackWaits
    <3> QED
      BY <2>1, <2>2, <2>13, <3>3 DEF Fits
  <2>14. ASSUME plan.kind = "Resume"
         PROVE  /\ jobs[id].status \in Inflight
                /\ maint.job = NoJob =>
                     jobs[id].last = "NeedsManual" \/ jobs[id].work \in RollbackPhases
                /\ jobs[id].kind = "Update" =>
                     /\ BackedUp(id)
                     /\ maint.job = NoJob =>
                          plan.rollback /\ jobs[id].work \in RollbackPhases
                     /\ ~plan.rollback => AfterSwap(id)
    <3>1. CASE phase = "SwapTag" /\ TagWritten(job, tag)
      <4>1. AfterSwap(id)
        BY <2>1, <2>2, <3>1 DEF Fits, TagWritten, BeforeSwap
      <4> QED
        BY <2>1, <2>11, <4>1, NoJobAssumption DEF AfterSwap
    <3>2. CASE phase \in PostSwapPhases
      <4>1. AfterSwap(id)
        BY <2>7, <2>12, <2>14, <3>2
      <4> QED
        BY <2>1, <2>11, <4>1, NoJobAssumption DEF AfterSwap
    <3>3. CASE phase \in RollbackPhases
      <4>1. job.status \in Inflight /\ (job.kind = "Update" => BackedUp(id)) /\ plan.rollback
        BY <2>1, <2>2, <2>7, <2>10, <2>14, <3>3 DEF Fits, IsRollback, RollbackPhases
      <4>2. maint.job = NoJob => job.work \in RollbackPhases
        BY <1>1, <2>2, <2>3, <3>3 DEF JobFileFits, RecordsFit, PointerAlone, RollbackPhases
      <4> QED
        BY <2>1, <4>1, <4>2
    <3>4. CASE phase = "NeedsManual"
      <4>1. maint.job = NoJob => job.last = "NeedsManual"
        BY <1>1, <2>2, <2>3, <3>4 DEF RecordsFit, PointerAlone, Fits
      <4> QED
        BY <2>1, <2>2, <3>4, <4>1
    <3> QED
      BY <2>7, <2>14, <3>1, <3>2, <3>3, <3>4 DEF Resumable, Decisive, IsPostSwap, IsRollback
  <2>15. ASSUME plan.kind = "ClearPreSwap"
         PROVE  /\ BeforeSwap /\ RollbackWaits
                /\ jobs[id].work \notin {"None"} \cup RollbackPhases
                /\ maint.phase \notin RollbackPhases
    <3>1. CASE early
      <4>1. phase = "SwapTag" /\ Fits(id, "SwapTag") /\ ~AfterSwap(id)
        BY <2>1, <2>2, <3>1 DEF early, TagUntouched, AfterSwap
      <4>2. RollbackWaits
        BY <2>13, <2>15, <4>1
      <4> QED
        BY <2>1, <2>2, <4>1, <4>2 DEF Fits, PreSwapPhases, RollbackPhases
    <3>2. CASE late
      <4>1. phase \notin RollbackPhases \cup PostSwapPhases \cup {"NeedsManual", "SwapTag"}
            /\ ~Decisive(phase)
        BY <3>2 DEF late, Resumable, Decisive, IsPostSwap, IsRollback
      <4>2. /\ maint.phase \notin RollbackPhases
            /\ job.work \notin RollbackPhases \cup PostSwapPhases \cup {"NeedsManual", "SwapTag"}
        BY <2>2, <4>1 DEF Decisive, IsPostSwap, IsRollback
      <4>3. job.work # "None"
        <5> SUFFICES ASSUME job.work = "None"
                     PROVE  FALSE
          OBVIOUS
        <5>1. job.last = "None"
          BY <2>2, <2>3, <4>1 DEF JobFileFits
        <5>2. CASE maint.job = NoJob
          <6>1. maint.phase = "Idle" /\ ~maint.active
            BY <1>1, <2>1, <2>4, <5>1, <5>2 DEF RecordsFit, PointerAlone, RollbackPhases
          <6> QED
            BY <2>2, <3>2, <5>1, <6>1 DEF late, IsInterruptedPreSwap, phase, PreSwapPhases
        <5>3. CASE maint.job = id /\ job.kind = "Rollback"
          <6>1. maint.phase = "NeedsManual"
            BY <1>1, <2>1, <4>2, <5>3 DEF RecordsFit, MaintFits
          <6>2. phase = "NeedsManual"
            BY <6>1 DEF phase, EffectivePhase, Decisive
          <6> QED
            BY <4>1, <6>2
        <5>4. CASE maint.job = id /\ job.kind = "Update"
          <6>1. maint.active
            BY <2>1, <2>3, <2>7, <2>15, <5>1, <5>4 DEF JobFileFits, NeverStarted, IsFailUnstarted
          <6> QED
            BY <1>1, <2>1, <5>4, <6>1 DEF RecordsFit, MaintFits
        <5> QED
          BY <2>3, <2>4, <5>2, <5>3, <5>4 DEF Kinds
      <4>4. BeforeSwap
        BY <2>3, <2>8, <4>2, <4>3 DEF Fits, Phases, JobFileFits, PreSwapPhases, PostSwapPhases,
                                      RollbackPhases
      <4>5. RollbackWaits
        <5> SUFFICES ASSUME maint.job \notin {NoJob, current}, jobs[current].kind # "Rollback"
                     PROVE  FALSE
          BY DEF RollbackWaits
        <5>1. current # NoJob
          BY <2>15, PlanChoosesOwner DEF Held, Kept, plan, id, job
        <5>2. ~maint.active /\ jobs[maint.job].status \in {"Succeeded", "Failed"}
          BY <1>1, <5>1 DEF RecordsFit, PointerFresh, OnlyFinishedBehind
        <5> QED
          BY <2>1, <2>4, <3>2, <5>2 DEF late, IsInterruptedPreSwap, Inflight
      <4> QED
        BY <2>1, <4>2, <4>3, <4>4, <4>5
    <3> QED
      BY <2>7, <2>15, <3>1, <3>2
  <2>16. plan.kind = "NeedsManual" =>
           jobs[id].work \in PreSwapPhases \cup {"SwapTag"} /\ RollbackWaits
    BY <2>7, <2>13
  <2> QED
    BY <1>3, <1>4, <2>1, <2>5, <2>6, <2>7, <2>14, <2>15, <2>16 DEF plan, id, job
<1> QED
  BY <1>2, <1>5, <1>6

\* A step of recovery runs beside no task and no admission.
LEMMA BootFrame ==
  ASSUME Held, BootStep, UNCHANGED exec, boot.pc # "up", Facts', RecordsFit', BootFits'
  PROVE  HostFits'
<1>1. loop = NoJob /\ loop' = NoJob /\ \A i \in Jobs : ~ExecutorRunning(i)
  BY BootFiles DEF Held, BootStep
<1>2. \A i \in Jobs : TaskFits(i)'
  BY <1>1 DEF ExecutorRunning, TaskFits, FitsBefore, FitsAfter, FitsBack, FitsEnd
<1> QED
  BY <1>1, <1>2 DEF HostFits, LoopFits

\* What the steps of recovery may assume.
LEMMA BootHeld ==
  ASSUME Held, boot.pc # "up"
  PROVE  /\ TypeOK /\ Grounded /\ Exclusive /\ RecoveryRecorded
         /\ Facts /\ RecordsFit /\ BootFits
         /\ boot.pc \in JobPoints =>
              /\ boot.job \in Jobs /\ jobs[boot.job].status # "Absent"
              /\ boot.job = RecoveryJob(maint, current)
              /\ maint.job = boot.job \/ (maint.job = NoJob /\ current = boot.job)
<1>1. /\ TypeOK /\ Grounded /\ Exclusive /\ RecoveryRecorded
      /\ Facts /\ RecordsFit /\ BootFits
  BY BootFiles DEF Held, HostFits
<1>2. ASSUME boot.pc \in JobPoints
      PROVE  /\ boot.job \in Jobs /\ jobs[boot.job].status # "Absent"
             /\ boot.job = RecoveryJob(maint, current)
  BY <1>1, <1>2 DEF Grounded, HasFile, RecoveryRecorded, TypeOK, ProcessTypeOK, JobOrNone
<1> QED
  BY <1>1, <1>2 DEF RecoveryJob

\* The plan sends recovery where the host is.
LEMMA BootPlanFits ==
  ASSUME Held, BootStep, BootPlan
  PROVE  HostFits'
<1> DEFINE id == RecoveryJob(maint, current)
           plan(tag) == CrashPlan(maint, current, RecordOf(id), tag)
<1> PICK tag \in {env.tag, NoVersion} :
      boot' = [pc |-> FirstBootPoint[plan(tag).kind], job |-> plan(tag).job,
               rollback |-> plan(tag).rollback]
  BY DEF BootPlan
<1> DEFINE kind == plan(tag).kind
           rollback == plan(tag).rollback
<1>1. /\ boot.pc = "plan" /\ UNCHANGED <<jobs, current, maint, curVer, snaps, exec>>
      /\ UNCHANGED <<hostVars, probe>>
  BY DEF BootPlan, BootStep, stateVars
<1>2. kind \in PlanKinds
  BY DEF CrashPlan, PlanKinds
<1>3. /\ kind \in {"FailUnstarted", "ReleaseTerminalCurrent", "FinishRestored"} => AtRest
      /\ kind = "FailUnstarted" => ~maint.active
      /\ kind = "FinishRestored" => id # NoJob /\ jobs[id].status \notin Inflight
      /\ kind = "FinishCommitted" => Committed(id) /\ id # NoJob
      /\ kind = "NeedsManual" => jobs[id].work \in PreSwapPhases \cup {"SwapTag"} /\ RollbackWaits
      /\ kind = "ClearPreSwap" =>
           /\ BeforeSwap /\ RollbackWaits
           /\ jobs[id].work \notin {"None"} \cup RollbackPhases
           /\ maint.phase \notin RollbackPhases
      /\ kind = "Resume" =>
           /\ jobs[id].status \in Inflight
           /\ maint.job = NoJob =>
                jobs[id].last = "NeedsManual" \/ jobs[id].work \in RollbackPhases
           /\ jobs[id].kind = "Update" =>
                /\ BackedUp(id)
                /\ maint.job = NoJob => rollback /\ jobs[id].work \in RollbackPhases
                /\ ~rollback => AfterSwap(id)
  BY <1>1, PlanFits
<1>4. boot'.pc = FirstBootPoint[kind] /\ boot'.job = id /\ boot'.rollback = rollback
  BY <1>1, PlanRecorded DEF Held
<1> HIDE DEF plan, kind, rollback
<1>5. /\ boot'.pc = "failUnstarted" => kind = "FailUnstarted"
      /\ boot'.pc = "clearMaint" => kind = "FinishRestored"
      /\ boot'.pc = "clearCurrent" => kind = "ReleaseTerminalCurrent"
      /\ boot'.pc = "commitVersion" => kind = "FinishCommitted"
      /\ boot'.pc = "manualJob" => kind = "NeedsManual"
      /\ boot'.pc = "failPreSwap" => kind = "ClearPreSwap"
      /\ boot'.pc = "reviveMaint" => kind = "Resume"
      /\ boot'.pc \notin {"serveRestore", "serveResume", "manualMaint", "manualCurrent",
                          "reviveCurrent"}
  BY <1>2, <1>4 DEF FirstBootPoint, PlanKinds
<1>6. Facts' /\ RecordsFit'
  BY <1>1, QuietFits DEF hostVars
<1>7. BootFits'
  BY <1>1, <1>3, <1>4, <1>5
     DEF BootFits, AtRest, BeforeSwap, BackedUp, AfterSwap, Committed, RollbackWaits, RecoveryJob,
         hostVars
<1> QED
  BY <1>1, <1>6, <1>7, BootFrame

\* A job that never started has failed, and left the host alone.
LEMMA BootFailUnstartedFits ==
  ASSUME Held, BootStep, BootFailUnstarted
  PROVE  HostFits'
<1>1. boot.pc = "failUnstarted" /\ boot.pc \in JobPoints
  BY DEF BootFailUnstarted, JobPoints
<1> PICK b \in Jobs : b = boot.job
  BY <1>1, BootHeld
<1>2. /\ TypeOK /\ Exclusive /\ Facts /\ RecordsFit /\ jobs[b].status # "Absent"
      /\ maint.job = b \/ (maint.job = NoJob /\ current = b)
      /\ b = RecoveryJob(maint, current)
      /\ AtRest /\ ~maint.active
  <2>1. BootFits
    BY <1>1, BootHeld
  <2> QED
    BY <1>1, <2>1, BootHeld DEF BootFits
<1>3. /\ UNCHANGED <<current, maint, curVer, report, snaps, hostVars, exec, probe>>
      /\ boot'.pc = "clearMaint" /\ boot'.job = b
  BY <1>2 DEF BootFailUnstarted, BootStep, BootGoto, WriteJob, TypeOK, ProcessTypeOK
<1>4. /\ jobs'[b] = [jobs[b] EXCEPT !.status = "Failed", !.last = "Preflight",
                                    !.work = "Preflight", !.ok = FALSE]
      /\ \A i \in Jobs \ {b} : jobs'[i] = jobs[i]
      /\ jobs[b] \in JobRecord
  BY <1>2 DEF BootFailUnstarted, WriteJob, TypeOK, StateTypeOK
<1>5. /\ jobs'[b].status = "Failed" /\ jobs'[b].last = "Preflight" /\ jobs'[b].work = "Preflight"
      /\ jobs'[b].kind = jobs[b].kind /\ jobs'[b].to = jobs[b].to /\ jobs'[b].snap = jobs[b].snap
  BY <1>4 DEF JobRecord
<1>6. maint.job = b => maint.phase = "Preflight"
  BY <1>2, NoJobAssumption DEF Exclusive, OpenOnlyInPreflight, LeftBehind
<1>7. AtRest' /\ Fits(b, jobs[b].work)' /\ (maint.job = b => Fits(b, maint.phase)')
  BY <1>2, <1>3, <1>5, <1>6
     DEF Fits, AtRest, BeforeSwap, RollbackPhases, PreSwapPhases, hostVars
<1>8. RecordsFit'
  <2>1. current \in Jobs \cup {NoJob}
    BY <1>2 DEF TypeOK, StateTypeOK, JobOrNone
  <2>2. MaintFits'
    BY <1>2, <1>3, <1>5, <1>6, <1>7 DEF RecordsFit, MaintFits, RollbackPhases
  <2>3. CurrentFits'
    BY <1>2, <1>3, <1>5, <1>7, NoJobAssumption DEF CurrentFits
  <2>4. PointerFresh'
    BY <1>2, <1>3, <1>4, <1>5, <1>6, <2>1 DEF RecordsFit, PointerFresh, OnlyFinishedBehind
  <2>5. PointerAlone'
    BY <1>2, <1>3, <1>5, NoJobAssumption DEF RecordsFit, PointerAlone, RollbackPhases
  <2> QED
    BY <2>2, <2>3, <2>4, <2>5 DEF RecordsFit
<1>9. Facts'
  <2>1. JobFileFits(jobs'[b])
    BY <1>2, <1>5 DEF Facts, JobFileFits
  <2>2. ASSUME NEW i \in Jobs \ {b}
        PROVE  JobFileFits(jobs'[i])
    BY <1>2, <1>4 DEF Facts
  <2> QED
    BY <1>2, <1>3, <2>1, <2>2, FactsStay
<1>10. BootFits'
  BY <1>2, <1>3, <1>5, <1>7 DEF BootFits, RecoveryJob, Inflight
<1> QED
  BY <1>1, <1>3, <1>8, <1>9, <1>10, BootFrame

\* A committed update gets its version recorded.
LEMMA BootCommitVersionFits ==
  ASSUME Held, BootStep, BootCommitVersion
  PROVE  HostFits'
<1>1. boot.pc = "commitVersion" /\ boot.pc \in JobPoints
  BY DEF BootCommitVersion, JobPoints
<1> PICK b \in Jobs : b = boot.job
  BY <1>1, BootHeld
<1>2. /\ TypeOK /\ Facts /\ RecordsFit
      /\ maint.job = b \/ (maint.job = NoJob /\ current = b)
      /\ b = RecoveryJob(maint, current) /\ Committed(b)
  <2>1. BootFits
    BY <1>1, BootHeld
  <2> QED
    BY <1>1, <2>1, BootHeld DEF BootFits
<1>3. /\ UNCHANGED <<jobs, current, maint, report, snaps, hostVars, exec, probe>>
      /\ boot'.pc = "clearMaint" /\ boot'.job = b /\ curVer' = jobs[b].to
  BY <1>2 DEF BootCommitVersion, BootStep, BootGoto, WriteUpdater, TypeOK, ProcessTypeOK
<1>4. RecordsFit' /\ Facts' /\ AtRest'
  BY <1>2, <1>3, VersionFits
<1>5. jobs[b].work = "Finalize"
  BY <1>2 DEF Committed, IsCommitted, Facts, JobFileFits
<1>6. BootFits'
  BY <1>2, <1>3, <1>4, <1>5 DEF BootFits, RecoveryJob, RollbackPhases
<1> QED
  BY <1>1, <1>3, <1>4, <1>6, BootFrame

\* The site opens on the release that is recorded.
LEMMA BootClearMaintFits ==
  ASSUME Held, BootStep, BootClearMaint
  PROVE  HostFits'
<1>1. boot.pc = "clearMaint"
  BY DEF BootClearMaint
<1>2. /\ TypeOK /\ Facts /\ RecordsFit /\ AtRest /\ boot.job = RecoveryJob(maint, current)
      /\ boot.job # NoJob /\ jobs[boot.job].work \in RollbackPhases
           => jobs[boot.job].status \notin Inflight
  BY <1>1, BootHeld DEF BootFits
<1>3. /\ UNCHANGED <<jobs, current, curVer, report, snaps, hostVars, exec, probe>>
      /\ boot'.pc = "clearCurrent" /\ maint' = InactiveMaintenance
  BY <1>2 DEF BootClearMaint, BootStep, BootGoto, WriteMaint, TypeOK, ProcessTypeOK
<1>4. current # NoJob => Fits(current, jobs[current].work)'
  <2>1. current # NoJob => Fits(current, jobs[current].work)
    BY <1>2, WorkFits
  <2> QED
    BY <1>3, <2>1 DEF Fits, AtRest, BeforeSwap, AfterSwap, BackedUp, Committed, hostVars
<1>5. current # NoJob /\ jobs[current].work \in RollbackPhases
        => jobs[current].status \notin Inflight
  BY <1>2 DEF RecoveryJob, RecordsFit, PointerFresh, RollbackPhases
<1>6. RecordsFit'
  BY <1>3, <1>4, <1>5
     DEF RecordsFit, MaintFits, CurrentFits, PointerFresh, PointerAlone, InactiveMaintenance
<1>7. Facts'
  BY <1>2, <1>3, FactsStay DEF Facts
<1>8. BootFits'
  BY <1>2, <1>3 DEF BootFits, AtRest, hostVars
<1> QED
  BY <1>1, <1>3, <1>6, <1>7, <1>8, BootFrame

\* The pointer to a job that is over is cleared.
LEMMA BootClearCurrentFits ==
  ASSUME Held, BootStep, BootClearCurrent
  PROVE  HostFits'
<1>1. boot.pc = "clearCurrent"
  BY DEF BootClearCurrent
<1>2. TypeOK /\ Facts /\ RecordsFit /\ OnlyFinishedBehind
  BY <1>1, BootHeld DEF Exclusive, IdleRecords
<1>3. /\ UNCHANGED <<jobs, maint, curVer, report, snaps, hostVars, exec, probe>>
      /\ boot'.pc = "serve" /\ current' = NoJob
  BY <1>2 DEF BootClearCurrent, BootStep, BootGoto, SetCurrent, TypeOK, ProcessTypeOK
<1>4. RecordsFit'
  <2>1. \A i : \A phase : Fits(i, phase) => Fits(i, phase)'
    BY <1>3 DEF Fits, AtRest, BeforeSwap, AfterSwap, BackedUp, Committed, hostVars
  <2> QED
    BY <1>2, <1>3, <2>1
       DEF RecordsFit, MaintFits, CurrentFits, PointerFresh, PointerAlone, OnlyFinishedBehind
<1>5. Facts'
  BY <1>2, <1>3, FactsStay DEF Facts
<1>6. BootFits'
  BY <1>3 DEF BootFits
<1> QED
  BY <1>1, <1>3, <1>4, <1>5, <1>6, BootFrame

\* A job whose tag nobody can explain is handed to an operator.
LEMMA BootManualJobFits ==
  ASSUME Held, BootStep, BootManualJob
  PROVE  HostFits'
<1>1. boot.pc = "manualJob" /\ boot.pc \in JobPoints \ {"commitVersion"}
  BY DEF BootManualJob, JobPoints
<1> PICK b \in Jobs : b = boot.job
  BY <1>1, BootHeld
<1>2. /\ TypeOK /\ Facts /\ RecordsFit /\ jobs[b].status \notin {"Absent", "Succeeded"}
      /\ maint.job = b \/ (maint.job = NoJob /\ current = b)
      /\ jobs[b].work \in PreSwapPhases \cup {"SwapTag"} /\ RollbackWaits
  <2>1. BootFits /\ RecoveryRecorded
    BY <1>1, BootHeld
  <2> QED
    BY <1>1, <2>1, BootHeld DEF BootFits, RecoveryRecorded
<1>3. /\ UNCHANGED <<current, maint, curVer, report, snaps, hostVars, exec, probe>>
      /\ boot'.pc = "manualMaint" /\ boot'.job = b
  BY <1>2 DEF BootManualJob, BootStep, BootGoto, WriteJob, TypeOK, ProcessTypeOK
<1>4. /\ jobs'[b] = [jobs[b] EXCEPT !.status = "NeedsManual", !.last = "NeedsManual", !.ok = FALSE]
      /\ \A i \in Jobs \ {b} : jobs'[i] = jobs[i]
      /\ jobs[b] \in JobRecord
  BY <1>2 DEF BootManualJob, WriteJob, TypeOK, StateTypeOK
<1>5. /\ jobs'[b].status = "NeedsManual" /\ jobs'[b].last = "NeedsManual"
      /\ jobs'[b].work = jobs[b].work /\ jobs'[b].from = jobs[b].from
      /\ jobs'[b].kind = jobs[b].kind /\ jobs'[b].to = jobs[b].to /\ jobs'[b].snap = jobs[b].snap
  BY <1>4 DEF JobRecord
<1>6. Reopens(b)
  <2>1. JobFileFits(jobs[b])
    BY <1>2 DEF Facts
  <2>2. JobFileFits(jobs'[b])
    BY <1>2, <1>5, <2>1 DEF JobFileFits, PreSwapPhases
  <2> QED
    BY <1>2, <1>4, <1>5, <2>2 DEF Reopens, Inflight
<1>7. RecordsFit' /\ Facts'
  <2>1. jobs[b].work \notin RollbackPhases
    BY <1>2 DEF PreSwapPhases, RollbackPhases
  <2> QED
    BY <1>2, <1>3, <1>6, <2>1, ReopenedRecords
<1>8. BootFits'
  <2>1. \A i \in Jobs : jobs'[i].kind = jobs[i].kind
    BY <1>4, <1>5
  <2>2. current \in Jobs
    BY <1>1, <1>2, BootHeld DEF Exclusive, RecoveryOwns, TypeOK, StateTypeOK, JobOrNone
  <2>3. RollbackWaits'
    BY <1>2, <1>3, <2>1, <2>2 DEF RollbackWaits
  <2> QED
    BY <1>2, <1>3, <1>5, <2>3 DEF BootFits
<1> QED
  BY <1>1, <1>3, <1>7, <1>8, BootFrame

\* The site closes behind a job for an operator, in the phase it failed in.
LEMMA BootManualMaintFits ==
  ASSUME Held, BootStep, BootManualMaint
  PROVE  HostFits'
<1>1. boot.pc = "manualMaint" /\ boot.pc \in JobPoints
  BY DEF BootManualMaint, JobPoints
<1> PICK b \in Jobs : b = boot.job
  BY <1>1, BootHeld
<1>2. /\ TypeOK /\ Facts /\ RecordsFit
      /\ maint.job = b \/ (maint.job = NoJob /\ current = b)
      /\ jobs[b].work \in PreSwapPhases \cup {"SwapTag"} /\ RollbackWaits
  <2>1. BootFits
    BY <1>1, BootHeld
  <2> QED
    BY <1>1, <2>1, BootHeld DEF BootFits
<1>3. /\ UNCHANGED <<jobs, current, curVer, report, snaps, hostVars, exec, probe>>
      /\ boot'.pc = "manualCurrent" /\ boot'.job = b
      /\ maint' = [active |-> TRUE, phase |-> "NeedsManual", job |-> b]
  BY <1>2 DEF BootManualMaint, BootStep, BootGoto, WriteMaint, TypeOK, ProcessTypeOK
<1>4. Fits(b, jobs[b].work)'
  <2>1. Fits(b, jobs[b].work)
    BY <1>2, NoJobAssumption DEF RecordsFit, MaintFits, CurrentFits
  <2> QED
    BY <1>3, <2>1 DEF Fits, AtRest, BeforeSwap, AfterSwap, BackedUp, Committed, hostVars
<1>5. RecordsFit'
  <2>1. maint'.job = b /\ maint'.phase = "NeedsManual" /\ maint'.active
    BY <1>3
  <2>2. jobs[b].work # "None"
    BY <1>2 DEF PreSwapPhases
  <2>3. MaintFits'
    BY <1>3, <1>4, <2>1, <2>2 DEF MaintFits
  <2>4. current \notin {NoJob, b} => jobs[current].work = "None" /\ jobs[current].kind = "Rollback"
    BY <1>2, NoJobAssumption DEF RecordsFit, PointerFresh, RollbackWaits
  <2>5. PointerFresh' /\ CurrentFits' /\ PointerAlone'
    BY <1>3, <2>1, <2>4, NoJobAssumption DEF PointerFresh, CurrentFits, PointerAlone
  <2> QED
    BY <2>3, <2>5 DEF RecordsFit
<1>6. Facts'
  BY <1>2, <1>3, FactsStay DEF Facts
<1>7. BootFits'
  BY <1>2, <1>3 DEF BootFits
<1> QED
  BY <1>1, <1>3, <1>5, <1>6, <1>7, BootFrame

\* The pointer follows the record.
LEMMA BootManualCurrentFits ==
  ASSUME Held, BootStep, BootManualCurrent
  PROVE  HostFits'
<1>1. boot.pc = "manualCurrent" /\ boot.pc \in JobPoints
  BY DEF BootManualCurrent, JobPoints
<1> PICK b \in Jobs : b = boot.job
  BY <1>1, BootHeld
<1>2. TypeOK /\ Facts /\ RecordsFit /\ maint.job = b
  BY <1>1, BootHeld DEF RecoveryRecorded
<1>3. /\ UNCHANGED <<jobs, maint, curVer, report, snaps, hostVars, exec, probe>>
      /\ boot'.pc = "serve" /\ current' = b
  BY <1>2 DEF BootManualCurrent, BootStep, BootGoto, SetCurrent, TypeOK, ProcessTypeOK
<1>4. RecordsFit'
  <2>1. \A i : \A phase : Fits(i, phase) => Fits(i, phase)'
    BY <1>3 DEF Fits, AtRest, BeforeSwap, AfterSwap, BackedUp, Committed, hostVars
  <2> QED
    BY <1>2, <1>3, <2>1, NoJobAssumption
       DEF RecordsFit, MaintFits, CurrentFits, PointerFresh, PointerAlone
<1>5. Facts'
  BY <1>2, <1>3, FactsStay DEF Facts
<1>6. BootFits'
  BY <1>3 DEF BootFits
<1> QED
  BY <1>1, <1>3, <1>4, <1>5, <1>6, BootFrame

\* A job interrupted before the swap has failed, or waits on.
LEMMA BootFailPreSwapFits ==
  ASSUME Held, BootStep, BootFailPreSwap
  PROVE  HostFits'
<1>1. boot.pc = "failPreSwap" /\ boot.pc \in JobPoints \ {"commitVersion"}
  BY DEF BootFailPreSwap, JobPoints
<1> PICK b \in Jobs : b = boot.job
  BY <1>1, BootHeld
<1>2. /\ TypeOK /\ Facts /\ RecordsFit /\ jobs[b].status \notin {"Absent", "Succeeded"}
      /\ maint.job = b \/ (maint.job = NoJob /\ current = b)
      /\ BeforeSwap /\ RollbackWaits
      /\ jobs[b].work \notin {"None"} \cup RollbackPhases
      /\ maint.phase \notin RollbackPhases
  <2>1. BootFits /\ RecoveryRecorded
    BY <1>1, BootHeld
  <2> QED
    BY <1>1, <2>1, BootHeld DEF BootFits, RecoveryRecorded
<1>3. /\ UNCHANGED <<current, maint, curVer, report, snaps, hostVars, exec, probe>>
      /\ boot'.pc = "serveRestore" /\ boot'.job = b
  BY <1>2 DEF BootFailPreSwap, BootStep, BootGoto, WriteJob, TypeOK, ProcessTypeOK
<1>4. /\ \/ jobs'[b] = [jobs[b] EXCEPT !.status = "Failed"]
         \/ jobs'[b] = jobs[b]
      /\ \A i \in Jobs \ {b} : jobs'[i] = jobs[i]
      /\ jobs[b] \in JobRecord
  BY <1>2 DEF BootFailPreSwap, WriteJob, TypeOK, StateTypeOK, JobRecord
<1>5. /\ jobs'[b].status \in {"Failed", jobs[b].status} /\ jobs'[b].last = jobs[b].last
      /\ jobs'[b].work = jobs[b].work /\ jobs'[b].from = jobs[b].from
      /\ jobs'[b].kind = jobs[b].kind /\ jobs'[b].to = jobs[b].to /\ jobs'[b].snap = jobs[b].snap
  BY <1>4 DEF JobRecord
<1>6. \A phase \in Phases : phase \notin RollbackPhases /\ Fits(b, phase) => Fits(b, phase)'
  <2>1. ~AfterSwap(b) /\ ~Committed(b)
    BY <1>2 DEF BeforeSwap, AfterSwap, BackedUp, Committed, IsCommitted
  <2>2. BeforeSwap'
    BY <1>2, <1>3 DEF BeforeSwap, hostVars
  <2> QED
    BY <1>3, <1>5, <2>1, <2>2 DEF Fits
<1>7. RecordsFit'
  <2>1. /\ current \in Jobs \cup {NoJob} /\ maint.phase \in Phases /\ jobs[b].work \in Phases
    BY <1>2 DEF TypeOK, StateTypeOK, JobOrNone, MaintenanceRecord, JobRecord
  <2>2. Fits(b, jobs[b].work)'
    <3>1. Fits(b, jobs[b].work)
      BY <1>2, NoJobAssumption DEF RecordsFit, MaintFits, CurrentFits
    <3> QED
      BY <1>2, <1>5, <1>6, <2>1, <3>1
  <2>3. maint.job = b /\ maint.phase # "NeedsManual" => Fits(b, maint.phase)'
    <3>1. maint.job = b /\ maint.phase # "NeedsManual" => Fits(b, maint.phase)
      BY NoJobAssumption, <1>2 DEF RecordsFit, MaintFits
    <3> QED
      BY <1>2, <1>3, <1>6, <2>1, <3>1
  <2>4. MaintFits'
    BY <1>2, <1>3, <1>5, <2>2, <2>3 DEF RecordsFit, MaintFits
  <2>5. CurrentFits'
    BY <1>2, <1>3, <2>2, NoJobAssumption DEF CurrentFits
  <2>6. PointerFresh'
    BY <1>2, <1>3, <1>4, <1>5, <2>1 DEF RecordsFit, PointerFresh, RollbackWaits
  <2>7. PointerAlone'
    BY <1>2, <1>3, <1>5, NoJobAssumption DEF RecordsFit, PointerAlone
  <2> QED
    BY <2>4, <2>5, <2>6, <2>7 DEF RecordsFit
<1>8. Facts'
  <2>1. JobFileFits(jobs'[b])
    BY <1>2, <1>5 DEF Facts, JobFileFits
  <2>2. ASSUME NEW i \in Jobs \ {b}
        PROVE  JobFileFits(jobs'[i])
    BY <1>2, <1>4 DEF Facts
  <2> QED
    BY <1>2, <1>3, <2>1, <2>2, FactsStay
<1>9. BootFits'
  <2>1. current \in Jobs /\ \A i \in Jobs : jobs'[i].kind = jobs[i].kind
    BY <1>1, <1>2, <1>4, <1>5, BootHeld
       DEF Exclusive, RecoveryOwns, TypeOK, StateTypeOK, JobOrNone
  <2>2. RollbackWaits' /\ BeforeSwap'
    BY <1>2, <1>3, <2>1 DEF RollbackWaits, BeforeSwap, hostVars
  <2> QED
    BY <1>2, <1>3, <1>5, <2>2 DEF BootFits
<1> QED
  BY <1>1, <1>3, <1>7, <1>8, <1>9, BootFrame

\* The site closes before an interrupted job is taken up again.
LEMMA BootReviveMaintFits ==
  ASSUME Held, BootStep, BootReviveMaint
  PROVE  HostFits'
<1>1. boot.pc = "reviveMaint" /\ boot.pc \in JobPoints
  BY DEF BootReviveMaint, JobPoints
<1> PICK b \in Jobs : b = boot.job
  BY <1>1, BootHeld
<1>2. /\ TypeOK /\ Facts /\ RecordsFit /\ current # NoJob
      /\ maint.job = b \/ (maint.job = NoJob /\ current = b)
      /\ jobs[b].status \in Inflight
      /\ maint.job = NoJob => jobs[b].last = "NeedsManual" \/ jobs[b].work \in RollbackPhases
      /\ jobs[b].kind = "Update" =>
           /\ BackedUp(b)
           /\ maint.job = NoJob => boot.rollback /\ jobs[b].work \in RollbackPhases
           /\ ~boot.rollback => AfterSwap(b)
  <2>1. BootFits /\ Exclusive
    BY <1>1, BootHeld
  <2> QED
    BY <1>1, <2>1, BootHeld DEF BootFits, Exclusive, RecoveryOwns
<1>3. /\ UNCHANGED <<jobs, current, curVer, report, snaps, hostVars, exec, probe>>
      /\ boot'.pc = "reviveCurrent" /\ boot'.job = b /\ boot'.rollback = boot.rollback
      /\ maint'.active /\ maint'.job = maint.job /\ maint'.phase = maint.phase
  BY <1>2 DEF BootReviveMaint, BootStep, BootGoto, WriteMaint, TypeOK, ProcessTypeOK, StateTypeOK,
              MaintenanceRecord
<1>4. RecordsFit'
  <2>1. \A i : \A phase : Fits(i, phase) => Fits(i, phase)'
    BY <1>3 DEF Fits, AtRest, BeforeSwap, AfterSwap, BackedUp, Committed, hostVars
  <2>2. MaintFits' /\ CurrentFits'
    BY <1>2, <1>3, <2>1 DEF RecordsFit, MaintFits, CurrentFits, BackedUp
  <2>3. PointerFresh'
    BY <1>2, <1>3 DEF RecordsFit, PointerFresh, OnlyFinishedBehind, Inflight
  <2>4. jobs[b].kind \in {"Update", "Rollback"}
    BY <1>2 DEF TypeOK, StateTypeOK, JobRecord, Kinds
  <2>5. PointerAlone'
    BY <1>2, <1>3, <2>4, NoJobAssumption
       DEF RecordsFit, PointerAlone, Facts, OpenFits, AtRest, hostVars
  <2> QED
    BY <2>2, <2>3, <2>5 DEF RecordsFit
<1>5. Facts'
  BY <1>2, <1>3, FactsStay DEF Facts
<1>6. BootFits'
  BY <1>2, <1>3 DEF BootFits, AfterSwap, BackedUp, hostVars
<1> QED
  BY <1>1, <1>3, <1>4, <1>5, <1>6, BootFrame

\* The pointer follows the record before the task is spawned.
LEMMA BootReviveCurrentFits ==
  ASSUME Held, BootStep, BootReviveCurrent
  PROVE  HostFits'
<1>1. boot.pc = "reviveCurrent" /\ boot.pc \in JobPoints
  BY DEF BootReviveCurrent, JobPoints
<1> PICK b \in Jobs : b = boot.job
  BY <1>1, BootHeld
<1>2. /\ TypeOK /\ Facts /\ RecordsFit
      /\ maint.job = b \/ (maint.job = NoJob /\ current = b)
      /\ jobs[b].status \in Inflight
      /\ maint.job = NoJob => jobs[b].last = "NeedsManual" \/ jobs[b].work \in RollbackPhases
      /\ jobs[b].kind = "Update" =>
           /\ BackedUp(b)
           /\ maint.job = NoJob => boot.rollback /\ jobs[b].work \in RollbackPhases
           /\ ~boot.rollback => AfterSwap(b)
  <2>1. BootFits
    BY <1>1, BootHeld
  <2> QED
    BY <1>1, <2>1, BootHeld DEF BootFits
<1>3. /\ UNCHANGED <<jobs, maint, curVer, report, snaps, hostVars, exec, probe>>
      /\ boot'.pc = "serveResume" /\ boot'.job = b /\ boot'.rollback = boot.rollback
      /\ current' = b
  BY <1>2 DEF BootReviveCurrent, BootStep, BootGoto, SetCurrent, TypeOK, ProcessTypeOK
<1>4. RecordsFit'
  <2>1. \A i : \A phase : Fits(i, phase) => Fits(i, phase)'
    BY <1>3 DEF Fits, AtRest, BeforeSwap, AfterSwap, BackedUp, Committed, hostVars
  <2>2. MaintFits' /\ CurrentFits'
    BY <1>2, <1>3, <2>1, NoJobAssumption DEF RecordsFit, MaintFits, CurrentFits
  <2>3. PointerFresh' /\ PointerAlone'
    BY <1>2, <1>3, NoJobAssumption DEF RecordsFit, PointerFresh, PointerAlone, AtRest, hostVars
  <2> QED
    BY <2>2, <2>3 DEF RecordsFit
<1>5. Facts'
  BY <1>2, <1>3, FactsStay DEF Facts
<1>6. BootFits'
  BY <1>2, <1>3 DEF BootFits, AfterSwap, BackedUp, hostVars
<1> QED
  BY <1>1, <1>3, <1>4, <1>5, <1>6, BootFrame

\* The process serves, and the task recovery left finds the host as it needs it.
LEMMA ServeFits ==
  ASSUME Held, BootStep, Serve
  PROVE  HostFits'
<1>1. /\ boot.pc \in {"serve", "serveRestore", "serveResume"} /\ boot'.pc = "up"
      /\ UNCHANGED <<jobs, current, maint, curVer, report, snaps, hostVars, loop, probe>>
  BY TaskHeld DEF Held, Kept, Safe, Sound, Serve, BootStep, stateVars, TypeOK, ProcessTypeOK
<1>2. /\ loop = NoJob /\ TypeOK /\ Exclusive /\ RecordsFit /\ BootFits
      /\ \A i \in Jobs : ~ExecutorRunning(i)
  BY <1>1, BootFiles, BootHeld DEF Held
<1>3. Facts' /\ RecordsFit'
  BY <1>1, QuietFits DEF hostVars
<1>4. BootFits' /\ LoopFits'
  BY <1>1, <1>2 DEF BootFits, LoopFits
<1>5. ASSUME UNCHANGED exec
      PROVE  \A i \in Jobs : TaskFits(i)'
  BY <1>2, <1>5 DEF ExecutorRunning, TaskFits, FitsBefore, FitsAfter, FitsBack, FitsEnd
<1>6. CASE boot.pc = "serve"
  <2>1. UNCHANGED exec
    BY <1>6 DEF Serve
  <2> QED
    BY <1>3, <1>4, <1>5, <2>1 DEF HostFits
<1>7. CASE boot.pc \in {"serveRestore", "serveResume"}
  <2>1. boot.pc \in JobPoints /\ current \in Jobs
    <3>1. boot.pc \in JobPoints /\ boot.job \in Jobs
      BY <1>7, BootHeld DEF JobPoints
    <3>2. current # NoJob
      BY <1>2, <1>7, <3>1, NoJobAssumption DEF Exclusive, RecoveryOwns
    <3> QED
      BY <1>2, <3>1, <3>2 DEF TypeOK, StateTypeOK, JobOrNone
  <2> PICK b \in Jobs : b = boot.job
    BY <1>1, <2>1, BootHeld
  <2> PICK k \in Jobs : k = current
    BY <2>1
  <2>2. maint.job = b \/ (maint.job = NoJob /\ k = b)
    BY <1>1, <1>7, <2>1, BootHeld
  <2>3. jobs[k].kind \in {"Update", "Rollback"}
    BY <1>2 DEF TypeOK, StateTypeOK, JobRecord, Kinds
  <2>4. CASE boot.pc = "serveRestore"
    <3>1. /\ \A i \in Jobs \ {k} : exec'[i] = exec[i]
          /\ exec'[k].pc = "preSwapCompose" /\ exec'[k].scope = "AppAndPostgres"
          /\ exec'[k].recovering
      <4>1. Spawn(k, "preSwapCompose", "AppAndPostgres")
        BY <2>4, NoJobAssumption DEF Serve
      <4> QED
        BY <4>1, <1>2 DEF Spawn, NoExecutor, TypeOK, ProcessTypeOK
    <3>2. /\ BeforeSwap /\ RollbackWaits /\ jobs[b].work \notin {"None"} \cup RollbackPhases
      BY <1>2, <2>4 DEF BootFits
    <3>3. /\ jobs[k].work \notin RollbackPhases
          /\ jobs[k].kind = "Update" => maint.job \in {k, NoJob} /\ jobs[k].work # "None"
      BY <1>2, <2>2, <2>3, <3>2, NoJobAssumption
         DEF RollbackWaits, RecordsFit, PointerFresh, RollbackPhases
    <3>4. TaskFits(k)'
      BY <1>1, <3>1, <3>2, <3>3
         DEF TaskFits, FitsBefore, FitsAfter, FitsBack, FitsEnd, BeforeSwap, hostVars
    <3>5. \A i \in Jobs \ {k} : TaskFits(i)'
      BY <1>2, <3>1 DEF ExecutorRunning, TaskFits, FitsBefore, FitsAfter, FitsBack, FitsEnd
    <3> QED
      BY <1>3, <1>4, <3>4, <3>5 DEF HostFits
  <2>5. CASE boot.pc = "serveResume"
    <3>1. /\ k = b /\ maint.active /\ jobs[k].status \in Inflight
          /\ jobs[k].kind = "Update" =>
               /\ BackedUp(k)
               /\ maint.job = NoJob => boot.rollback
               /\ ~boot.rollback => AfterSwap(k)
      BY <1>2, <2>5 DEF BootFits, Exclusive, RecoveryOwns
    <3>2. /\ \A i \in Jobs \ {k} : exec'[i] = exec[i]
          /\ exec'[k].tag = NoVersion
          /\ exec'[k].pc = ResumePoint(jobs[k], boot.rollback)
      <4>1. Spawn(k, ResumePoint(jobs[k], boot.rollback), "None")
        BY <2>5, <3>1 DEF Serve
      <4> QED
        BY <4>1, <1>2 DEF Spawn, ResumePoint, NoExecutor, TypeOK, ProcessTypeOK
    <3>3. /\ jobs[k].kind = "Rollback" => exec'[k].pc = "RollbackInProgress"
          /\ jobs[k].kind = "Update" => exec'[k].pc \in {"resumeBack", "resumeForward"}
          /\ exec'[k].pc = "resumeForward" => ~boot.rollback
      BY <2>3, <3>2 DEF ResumePoint
    <3>4. TaskFits(k)'
      BY <1>1, <2>2, <2>3, <3>1, <3>2, <3>3
         DEF TaskFits, FitsBefore, FitsAfter, FitsBack, FitsEnd, AfterSwap, BackedUp, hostVars
    <3>5. \A i \in Jobs \ {k} : TaskFits(i)'
      BY <1>2, <3>2 DEF ExecutorRunning, TaskFits, FitsBefore, FitsAfter, FitsBack, FitsEnd
    <3> QED
      BY <1>3, <1>4, <3>4, <3>5 DEF HostFits
  <2> QED
    BY <1>7, <2>4, <2>5
<1> QED
  BY <1>1, <1>6, <1>7

\* So recovery keeps the host fitting.
LEMMA BootStepFits ==
  ASSUME Held, BootStep
  PROVE  HostFits'
<1>1. ~BootFreeze
  BY BootHeld DEF BootFreeze, Exclusive, RecoveryOwns
<1> QED
  BY <1>1, BootPlanFits, BootFailUnstartedFits, BootCommitVersionFits, BootClearMaintFits,
     BootClearCurrentFits, BootManualJobFits, BootManualMaintFits, BootManualCurrentFits,
     BootFailPreSwapFits, BootReviveMaintFits, BootReviveCurrentFits, ServeFits
     DEF BootStep

\* What does not change goes on fitting.
LEMMA StillFits ==
  ASSUME HostFits, UNCHANGED vars
  PROVE  HostFits'
<1>1. /\ UNCHANGED <<jobs, current, maint, curVer, report, snaps, hostVars, exec, loop, boot>>
      /\ UNCHANGED probe
  BY DEF vars, stateVars, processVars
<1>2. Facts' /\ RecordsFit'
  BY <1>1, RecordsStay
     DEF HostFits, Facts, NoOldCodeOnNewData, OpenFits, AtRest, BackupsFit, hostVars
<1>3. LoopFits'
  BY <1>1 DEF HostFits, LoopFits, OnlyFinishedBehind
<1>4. BootFits'
  BY <1>1
     DEF HostFits, BootFits, AtRest, BeforeSwap, BackedUp, AfterSwap, Committed, RollbackWaits,
         RecoveryJob, hostVars
<1>5. ASSUME NEW j \in Jobs
      PROVE  TaskFits(j)'
  <2>1. TaskFits(j)
    BY DEF HostFits
  <2> QED
    BY <1>1, <2>1
       DEF TaskFits, FitsBefore, FitsAfter, FitsBack, FitsEnd, Recording, AtRest, BeforeSwap,
           BackedUp, AfterSwap, Committed, hostVars
<1> QED
  BY <1>2, <1>3, <1>4, <1>5 DEF HostFits

\* Nothing to reconcile is read, and a quiet updater changes nothing.
LEMMA IdleStepFits ==
  ASSUME Held, ReconcileProbe \/ ReconcileWrite \/ Quiet \/ UNCHANGED vars
  PROVE  HostFits'
<1>1. Restorable /\ HostFits /\ probe = NoVersion /\ probes \in Nat
  BY DEF Held, HostFits, Facts, Kept, Safe, Sound, TypeOK, BoundTypeOK
<1>2. UNCHANGED vars
  BY <1>1, BoundAssumption DEF ReconcileProbe, ReconcileWrite, Quiet, Restorable
<1> QED
  BY <1>1, <1>2, StillFits

-----------------------------------------------------------------------------
(***************************************************************************)
(* What a deployment with a pgdata to restore can rely on.                 *)
(***************************************************************************)
LEMMA StepHeld ==
  ASSUME Held, [PatientNext]_vars
  PROVE  Held'
<1>1. Kept'
  BY PatientStepKeeps DEF Held
<1>2. HostFits'
  <2>1. CASE \E j \in Jobs : ExecutorStep(j)
    BY <2>1, TaskStepFits
  <2>2. CASE Crash \/ BootStep
    BY <2>2, CrashFits, BootStepFits
  <2>3. CASE ReconcileProbe \/ ReconcileWrite \/ Quiet \/ UNCHANGED vars
    BY <2>3, IdleStepFits
  <2>4. CASE RequestAnyUpdate \/ (NoExecutorRunning /\ RequestAnyRollback)
    BY <2>4, RequestUpdateFits, RequestRollbackFits
       DEF RequestAnyUpdate, RequestAnyRollback, Held, Kept, Safe
  <2>5. CASE Migrate
    BY <2>5, MigrateFits DEF Held, Kept, Safe, Sound
  <2>6. CASE Admit
    <3>1. TypeOK /\ HostFits /\ OwnerRuns /\ Unstarted /\ ClosedWaits
      BY DEF Held, Kept, Safe, Sound, Exclusive, Recorded
    <3>2. maint.active => maint.job # NoJob
      BY <2>6, <3>1 DEF Admit, OwnerRuns, ClosedWaits, Waits, NoExecutorRunning
    <3> QED
      BY <2>6, <3>1, <3>2, AdmitFits
  <2> QED
    BY <2>1, <2>2, <2>3, <2>4, <2>5, <2>6 DEF PatientNext, Internal
<1> QED
  BY <1>1, <1>2 DEF Held, Restorable

\* The records fit the host at every step: the tag, the containers, the database and
\* the backups are what the phase of the job in flight says they are.
THEOREM UpdaterRecordsFitHost ==
  ASSUME Restorable
  PROVE  PatientSpec => []HostFits
<1>1. Init => Held
  BY InitSound, InitExclusive, InitRecorded, InitFits DEF Held, Kept, Safe
<1>2. Held /\ [PatientNext]_vars => Held'
  BY StepHeld
<1>3. Held => HostFits
  BY DEF Held
<1> QED
  BY <1>1, <1>2, <1>3, PTL DEF PatientSpec

\* However an update or a rollback goes, and wherever the updater dies, the
\* applications never run on a pgdata that a newer release has migrated, and nothing
\* runs on one that is half restored: the tag goes back and pgdata is replaced only
\* while they are stopped, and recovery never starts one without the other.
THEOREM UpdaterNoOldCodeOnNewData ==
  ASSUME Restorable
  PROVE  PatientSpec => []NoOldCodeOnNewData
<1>1. HostFits => NoOldCodeOnNewData
  BY DEF HostFits, Facts
<1> QED
  BY <1>1, UpdaterRecordsFitHost, PTL

\* Once everything has ended and the site is open, updater.json, .env and the
\* containers name one release.
THEOREM UpdaterRecordMatchesSite ==
  ASSUME Restorable
  PROVE  PatientSpec => []RecordMatchesSite
<1>1. HostFits => RecordMatchesSite
  BY DEF HostFits, Facts, OpenFits, AtRest, RecordMatchesSite
<1> QED
  BY <1>1, UpdaterRecordsFitHost, PTL

-----------------------------------------------------------------------------
(***************************************************************************)
(* Updates that only the death of the updater disturbs.                    *)
(***************************************************************************)
\* What a step may assume before and after which nothing has failed and no rollback
\* was asked for.
Steady == MaxProbes = 0 /\ Kept /\ OnlyCrashes /\ OnlyCrashes' /\ Calm

\* Such a step does not fail.
LEMMA NoFailure ==
  ASSUME Steady
  PROVE  ~Fails
BY DEF Steady, OnlyCrashes, Fails

\* What a step of the task of j may assume.
LEMMA TaskSteady ==
  ASSUME Steady, NEW j \in Jobs
  PROVE  /\ TypeOK /\ CalmFacts /\ CalmRecords /\ CalmFile(j) /\ jobs[j].kind = "Update"
         /\ CalmBefore(j) /\ CalmForward(j) /\ CalmBack(j) /\ CalmEnd(j)
BY DEF Steady, Calm, CalmTask, CalmFacts, OnlyCrashes, Kept, Safe, Sound

\* A step of the running task that leaves the records and the host in order.
LEMMA CalmStep ==
  ASSUME Steady, NEW j \in Jobs, ExecutorStep(j), CalmFacts', CalmRecords', CalmTask(j)'
  PROVE  Calm'
<1>1. /\ boot.pc = "up" /\ UNCHANGED <<loop, boot>> /\ loop = NoJob
      /\ \A i \in Jobs \ {j} : exec'[i].pc = "idle"
  BY StepIsOwn
     DEF Steady, Kept, Safe, Exclusive, OwnerRuns, Advance, ExecutorRunning, KeepsRecords
<1>2. ASSUME NEW i \in Jobs \ {j}
      PROVE  CalmTask(i)'
  <2>1. exec'[i].pc = "idle"
    BY <1>1
  <2> QED
    BY <2>1 DEF CalmTask, CalmBefore, CalmForward, CalmBack, CalmEnd, ForwardPoints
<1>3. CalmBoot'
  BY <1>1 DEF CalmBoot
<1> QED
  BY <1>2, <1>3 DEF Calm

\* Records and host that do not change stay in order, whatever runs.
LEMMA QuietCalm ==
  ASSUME Steady, UNCHANGED <<jobs, current, maint, curVer, report, snaps, env, data, probe>>,
         External => pg'
  PROVE  CalmFacts' /\ CalmRecords'
<1>1. CalmFacts /\ CalmRecords
  BY DEF Steady, Calm
<1>2. CalmFacts'
  BY <1>1 DEF CalmFacts, CalmFile, Rests, Selects
<1>3. \A i \in Jobs : \A phase : Believed(i, phase) => Believed(i, phase)'
  BY DEF Believed, Prepared, Landed, Rests, Selects
<1>4. {maint.job, current} \subseteq Jobs \cup {NoJob}
  BY DEF Steady, Kept, Safe, Sound, TypeOK, StateTypeOK, MaintenanceRecord, JobOrNone
<1>5. CalmRecords'
  BY <1>1, <1>3, <1>4 DEF CalmRecords, OnlyFinishedBehind
<1> QED
  BY <1>2, <1>5

\* A task that only moves on.
LEMMA CalmMovesOn ==
  ASSUME Steady, NEW j \in Jobs, ExecutorStep(j),
         UNCHANGED <<jobs, current, maint, curVer, report, snaps, env, data>>,
         External => pg', CalmTask(j)'
  PROVE  Calm'
BY QuietCalm, CalmStep DEF ExecutorStep

\* A preflight lets an update through to a newer release, or ends it.
LEMMA PreflightCalm ==
  ASSUME Steady, NEW j \in Jobs, ExecutorStep(j), Preflight(j)
  PROVE  Calm'
<1>1. TypeOK /\ CalmFacts /\ CalmRecords /\ CalmFile(j) /\ CalmBefore(j) /\ current = j
      /\ jobs[j].status # "Absent"
  BY TaskSteady, StepIsOwn DEF Steady
<1>2. exec[j].pc = "preflight" /\ UNCHANGED hostVars /\ UNCHANGED <<jobs, current, maint, curVer, snaps, probe>>
      /\ \/ /\ jobs[j].to > curVer /\ exec'[j].pc = "MaintenanceOn"
            /\ report' = [report EXCEPT ![j] =
                 [ready |-> TRUE, from |-> curVer, compose |-> compose,
                  proxy |-> IF ShipsProxy THEN env.proxy ELSE NoVersion]]
         \/ exec'[j].pc = "finalizeFailed" /\ UNCHANGED report
  BY <1>1 DEF Preflight, At, Goto, TypeOK, ProcessTypeOK, Executor, stateVars, ExecutorStep
<1>3. Rests /\ jobs[j].from = curVer /\ jobs[j].status \in Inflight /\ Recording(j, {"Preflight"})
  BY <1>1, <1>2 DEF CalmBefore
<1>4. /\ \A i \in Jobs \ {j} : report'[i] = report[i]
      /\ exec'[j].pc = "MaintenanceOn" =>
           /\ jobs[j].to # curVer /\ report'[j].ready
      /\ report'[j].ready => (ShipsProxy => report'[j].proxy = jobs[j].from)
  <2>1. CASE UNCHANGED report /\ exec'[j].pc = "finalizeFailed"
    BY <1>1, <2>1 DEF CalmFile
  <2>2. CASE /\ jobs[j].to > curVer
             /\ report' = [report EXCEPT ![j] =
                 [ready |-> TRUE, from |-> curVer, compose |-> compose,
                  proxy |-> IF ShipsProxy THEN env.proxy ELSE NoVersion]]
    <3>1. curVer \in Nat /\ jobs[j].to \in Nat
      BY <1>1, MaxVersionAssumption DEF CalmFacts, CalmFile, Versions
    <3>2. report'[j] = [ready |-> TRUE, from |-> curVer, compose |-> compose,
                  proxy |-> IF ShipsProxy THEN env.proxy ELSE NoVersion]
      BY <1>1, <2>2 DEF TypeOK, StateTypeOK
    <3> QED
      BY <1>1, <1>3, <2>2, <3>1, <3>2 DEF TypeOK, StateTypeOK, Rests, Selects
  <2> QED
    BY <1>2, <2>1, <2>2
<1>5. CalmFacts'
  <2>1. ASSUME NEW i \in Jobs
        PROVE  CalmFile(i)'
    BY <1>1, <1>2, <1>4 DEF CalmFacts, CalmFile
  <2> QED
    BY <1>1, <1>2, <2>1 DEF CalmFacts, Rests, Selects, hostVars
<1>6. CalmRecords'
  <2>1. maint.job = j /\ maint.phase = "Preflight" /\ jobs[j].work = "Preflight" /\ j # NoJob
    BY <1>3, NoJobAssumption DEF Recording
  <2>2. Believed(j, "Preflight")'
    BY <1>2, <1>3 DEF Believed, Rests, Selects, PreSwapPhases, RollbackPhases, hostVars
  <2> QED
    BY <1>1, <1>2, <2>1, <2>2 DEF CalmRecords
<1>7. CalmTask(j)'
  BY <1>1, <1>2, <1>3, <1>4
     DEF CalmTask, CalmBefore, CalmForward, CalmBack, CalmEnd, ForwardPoints, Recording, Rests,
         Selects, PreSwapPhases, hostVars
<1> QED
  BY <1>5, <1>6, <1>7, CalmStep

\* The steps up to the swap that leave the records and the data alone.
LEMMA BeforeMovesOn ==
  ASSUME Steady, NEW j \in Jobs, ExecutorStep(j),
         \/ BuildRunner(j) \/ StopApps(j) \/ SkipSnapshot(j) \/ StopPostgres(j)
         \/ StartPostgres(j) \/ InstallCompose(j)
  PROVE  Calm'
<1>1. TypeOK /\ CalmFacts /\ CalmBefore(j) /\ ~Fails
  BY TaskSteady, NoFailure
<1>2. /\ UNCHANGED <<stateVars, env, data>>
      /\ External => pg'
      /\ \/ exec[j].pc = "runner" /\ exec'[j].pc = "Stopping"
         \/ exec[j].pc = "stopApps" /\ exec'[j].pc = "Snapshotting"
         \/ exec[j].pc = "stopPostgres" /\ External /\ exec'[j].pc = "SwapTag"
         \/ exec[j].pc = "stopPostgres" /\ ~External /\ exec'[j].pc = "copy"
         \/ exec[j].pc = "startPostgres" /\ exec'[j].pc = "noteSnapshot"
         \/ exec[j].pc = "install" /\ exec'[j].pc = "swapTag"
  <2>1. CASE BuildRunner(j) \/ SkipSnapshot(j) \/ InstallCompose(j)
    BY <1>1, <2>1 DEF BuildRunner, SkipSnapshot, InstallCompose, At, Goto, TypeOK,
                      ProcessTypeOK, Executor, stateVars, hostVars, CalmFacts
  <2>2. CASE StopApps(j) \/ StartPostgres(j)
    BY <1>1, <2>2 DEF StopApps, StartPostgres, At, Goto, TypeOK, ProcessTypeOK, Executor,
                      stateVars, CalmFacts
  <2>3. CASE StopPostgres(j)
    BY <1>1, <2>3 DEF StopPostgres, At, TypeOK, ProcessTypeOK, Executor, stateVars
  <2> QED
    BY <2>1, <2>2, <2>3
<1>3. CalmTask(j)'
  BY <1>1, <1>2
     DEF CalmTask, CalmBefore, CalmForward, CalmBack, CalmEnd, ForwardPoints, Recording, Rests,
         Selects, Prepared, PreSwapPhases, stateVars
<1> QED
  BY <1>2, <1>3, CalmMovesOn DEF stateVars

\* The steps of the new release that only look, or start containers.
LEMMA ForwardMovesOn ==
  ASSUME Steady, NEW j \in Jobs, ExecutorStep(j),
         \/ Verify(j) \/ StartNew(j) \/ ProbeHealth(j) \/ ReinstallCompose(j) \/ Revert(j)
  PROVE  Calm'
<1>1. TypeOK /\ CalmFacts /\ CalmFile(j) /\ CalmForward(j) /\ ~Fails
  BY TaskSteady, NoFailure
<1>2. /\ UNCHANGED <<stateVars, env, data, pg>> /\ exec'[j].tag = exec[j].tag
      /\ \/ exec[j].pc = "verify" /\ exec'[j].pc = "startNew" /\ SelectsPreflightImages(j)
         \/ exec[j].pc = "startNew" /\ exec'[j].pc = "HealthProbing"
         \/ exec[j].pc = "probe" /\ exec'[j].pc = "commit" /\ data # Damaged
         \/ exec[j].pc = "reinstall" /\ exec'[j].pc = "StartingNew"
         \/ exec[j].pc \in {"verify", "probe"} /\ exec'[j].pc = "revert"
         \/ exec[j].pc = "revert" /\ exec'[j].pc = "plan"
  <2>1. exec[j].pc = "revert" => maint.active
    BY <1>1 DEF CalmForward
  <2> QED
    BY <1>1, <2>1
       DEF Verify, StartNew, ProbeHealth, ReinstallCompose, Revert, At, Goto, TypeOK,
           ProcessTypeOK, Executor, hostVars, stateVars, Healthy, Serving
<1>3. SelectsPreflightImages(j) /\ exec[j].pc = "verify" => Selects(jobs[j].to)
  BY <1>1 DEF SelectsPreflightImages, Selects, CalmForward, ForwardPoints, Prepared, CalmFile,
              Versions, NoVersion
<1>4. CalmTask(j)'
  BY <1>1, <1>2, <1>3
     DEF CalmTask, CalmBefore, CalmForward, CalmBack, CalmEnd, ForwardPoints, Recording,
         Selects, Prepared, stateVars
<1> QED
  BY <1>1, <1>2, <1>4, CalmMovesOn DEF stateVars, CalmFacts

\* The steps of the way back that leave the records and the data alone.
LEMMA BackMovesOn ==
  ASSUME Steady, NEW j \in Jobs, ExecutorStep(j),
         \/ PlanComposeRestore(j) \/ StopNew(j) \/ RestoreCompose(j) \/ SkipRestore(j)
         \/ StopForRestore(j) \/ StartRestored(j) \/ StartOld(j) \/ OldHealth(j)
  PROVE  Calm'
<1>1. TypeOK /\ CalmFacts /\ CalmFile(j) /\ CalmForward(j) /\ CalmBack(j) /\ ~Fails
  BY TaskSteady, NoFailure
<1>2. exec[j].pc = "oldHealth" => Serving
  BY <1>1 DEF CalmBack, Serving
<1>3. exec[j].pc = "stopForRestore" => (SkipsRestore(j) <=> External)
  BY <1>1, NoJobAssumption DEF CalmForward, Prepared, SkipsRestore
<1>4. /\ UNCHANGED <<stateVars, env, data>>
      /\ External => pg'
      /\ exec'[j].tag = exec[j].tag
      /\ \/ exec[j].pc = "plan" /\ exec'[j].pc = "StopNew"
         \/ exec[j].pc = "stopNew" /\ exec'[j].pc = "restoreCompose"
         \/ exec[j].pc = "restoreCompose" /\ exec'[j].pc = "restoreProxyTag"
         \/ exec[j].pc = "stopForRestore" /\ External /\ exec'[j].pc = "StartOld"
         \/ exec[j].pc = "stopForRestore" /\ ~External /\ exec'[j].pc = "wipe"
         \/ exec[j].pc = "startRestored" /\ exec'[j].pc = "StartOld" /\ pg'
         \/ exec[j].pc = "startOld" /\ exec'[j].pc = "oldStarted" /\ apps' = env.tag
            /\ (pg => pg')
         \/ exec[j].pc = "oldHealth" /\ exec'[j].pc = "recordRestored"
            /\ (pg => pg')
  <2>1. CASE PlanComposeRestore(j) \/ StopNew(j) \/ RestoreCompose(j)
    BY <1>1, <2>1 DEF PlanComposeRestore, StopNew, RestoreCompose, At, Goto, TypeOK,
                      ProcessTypeOK, Executor, hostVars, CalmFacts
  <2>2. CASE SkipRestore(j) \/ StopForRestore(j) \/ StartRestored(j)
    BY <1>1, <1>3, <2>2 DEF SkipRestore, StopForRestore, StartRestored, At, Goto, TypeOK,
                            ProcessTypeOK, Executor, hostVars, CalmFacts
  <2>3. CASE StartOld(j) \/ OldHealth(j)
    BY <1>1, <1>2, <2>3 DEF StartOld, OldHealth, At, Goto, TypeOK, ProcessTypeOK, Executor,
                            hostVars, CalmFacts
  <2> QED
    BY <2>1, <2>2, <2>3
<1>5. CalmBack(j)'
  <2>1. exec[j].pc = "startOld" => env.tag # Stopped
    BY <1>1 DEF CalmBack, Selects, CalmFacts, Versions, Stopped, NoVersion
  <2>2. exec[j].pc = "stopForRestore" /\ External => pg /\ data # Damaged
    BY <1>1 DEF CalmFacts
  <2> QED
    BY <1>1, <1>4, <2>1, <2>2 DEF CalmBack, Recording, Selects, stateVars
<1>6. CalmBefore(j)' /\ CalmForward(j)' /\ CalmEnd(j)'
  BY <1>1, <1>4 DEF CalmBefore, CalmForward, CalmEnd, ForwardPoints, Prepared, stateVars
<1> QED
  BY <1>4, <1>5, <1>6, CalmMovesOn DEF CalmTask, stateVars

\* The services come back before the swap, for the recovery that called for them.
LEMMA RestoreMovesOn ==
  ASSUME Steady, NEW j \in Jobs, ExecutorStep(j), PreSwapCompose(j) \/ PreSwapUp(j)
  PROVE  Calm'
<1>1. TypeOK /\ CalmFacts /\ CalmEnd(j) /\ ~Fails
  BY TaskSteady, NoFailure
<1>2. /\ UNCHANGED <<stateVars, env, data>>
      /\ External => pg'
      /\ exec[j].recovering => exec'[j].recovering
      /\ \/ exec[j].pc = "preSwapCompose" /\ exec'[j].pc = "preSwapUp"
         \/ exec[j].pc = "preSwapUp" /\ exec'[j].pc = "clearMaint"
  BY <1>1 DEF PreSwapCompose, PreSwapUp, At, Goto, TypeOK, ProcessTypeOK, Executor, hostVars,
              CalmFacts, CalmEnd
<1>3. CalmTask(j)'
  BY <1>1, <1>2
     DEF CalmTask, CalmBefore, CalmForward, CalmBack, CalmEnd, ForwardPoints, Rests, Selects,
         stateVars
<1> QED
  BY <1>2, <1>3, CalmMovesOn DEF stateVars

\* A step that the records of its own job account for.
LEMMA OwnCalm ==
  ASSUME Steady, NEW j \in Jobs, ExecutorStep(j),
         \A i \in Jobs \ {j} :
           jobs'[i] = jobs[i] /\ report'[i] = report[i] /\ snaps'[i] = snaps[i],
         CalmFile(j)', CalmTask(j)',
         curVer' \in Versions, ~maint'.active => Rests',
         External => pg' /\ data' # Damaged,
         current' = j, maint'.job = j, maint'.phase # "None",
         maint'.active => jobs'[j].work # "None",
         Believed(j, jobs[j].work)', Believed(j, maint.phase)'
  PROVE  Calm'
<1>1. CalmFacts /\ probe' = probe
  BY TaskSteady DEF ExecutorStep
<1>2. ASSUME NEW i \in Jobs
      PROVE  CalmFile(i)'
  <2>1. CASE i = j
    BY <2>1
  <2>2. CASE i # j
    BY <1>1, <2>2 DEF CalmFacts, CalmFile
  <2> QED
    BY <2>1, <2>2
<1>3. CalmFacts'
  BY <1>1, <1>2 DEF CalmFacts
<1>4. CalmRecords'
  BY NoJobAssumption DEF CalmRecords
<1> QED
  BY <1>3, <1>4, CalmStep

\* The update has its copy of pgdata.
LEMMA CopySnapshotCalm ==
  ASSUME Steady, NEW j \in Jobs, ExecutorStep(j), CopySnapshot(j)
  PROVE  Calm'
<1>1. /\ TypeOK /\ CalmFacts /\ CalmRecords /\ CalmFile(j) /\ CalmBefore(j) /\ ~Fails
      /\ current = j
  BY TaskSteady, NoFailure, StepIsOwn DEF Steady
<1>2. /\ exec[j].pc = "copy" /\ exec'[j].pc = "startPostgres"
      /\ UNCHANGED hostVars /\ UNCHANGED <<jobs, current, maint, curVer, report>>
      /\ snaps' = [snaps EXCEPT ![j] =
             [taken |-> TRUE, data |-> data, version |-> report[j].from]]
  BY <1>1 DEF CopySnapshot, At, Goto, TypeOK, ProcessTypeOK, Executor
<1>3. /\ snaps'[j].taken /\ snaps'[j].data = data
      /\ \A i \in Jobs \ {j} : snaps'[i] = snaps[i]
  BY <1>1, <1>2 DEF TypeOK, StateTypeOK
<1>4. data # Damaged /\ maint.job = j /\ jobs[j].work # "None"
  BY <1>1, <1>2 DEF CalmBefore, Rests, Recording, PreSwapPhases
<1>5. CalmFile(j)'
  BY <1>1, <1>2, <1>3, <1>4 DEF CalmFile
<1>6. \A phase : Believed(j, phase) => Believed(j, phase)'
  BY <1>2, <1>3 DEF Believed, Prepared, Landed, Rests, Selects, hostVars
<1>7. CalmTask(j)'
  BY <1>1, <1>2, <1>3
     DEF CalmTask, CalmBefore, CalmForward, CalmBack, CalmEnd, ForwardPoints, Recording, Rests,
         Selects, Prepared, PreSwapPhases, hostVars
<1>8. Believed(j, jobs[j].work)' /\ Believed(j, maint.phase)' /\ maint.phase # "None"
  BY <1>1, <1>2, <1>4, <1>6, NoJobAssumption DEF CalmRecords
<1>9. ~maint'.active => Rests'
  BY <1>1, <1>2 DEF CalmFacts, Rests, Selects, hostVars
<1> QED
  BY <1>1, <1>2, <1>3, <1>4, <1>5, <1>7, <1>8, <1>9, OwnCalm
     DEF CalmFacts, hostVars

\* The update knows its copy: it can be taken back.
LEMMA NoteSnapshotCalm ==
  ASSUME Steady, NEW j \in Jobs, ExecutorStep(j), NoteSnapshot(j)
  PROVE  Calm'
<1>1. /\ TypeOK /\ CalmFacts /\ CalmRecords /\ CalmFile(j) /\ CalmBefore(j)
      /\ current = j
  BY TaskSteady, StepIsOwn DEF Steady
<1>2. /\ exec[j].pc = "noteSnapshot" /\ exec'[j].pc = "SwapTag"
      /\ UNCHANGED hostVars /\ UNCHANGED <<current, maint, curVer, report, snaps>>
      /\ jobs' = [jobs EXCEPT ![j] = [jobs[j] EXCEPT !.snap = j]]
  BY <1>1 DEF NoteSnapshot, WriteJob, At, TypeOK, ProcessTypeOK, Executor
<1>3. /\ jobs'[j].status = jobs[j].status /\ jobs'[j].last = jobs[j].last
      /\ jobs'[j].work = jobs[j].work /\ jobs'[j].from = jobs[j].from
      /\ jobs'[j].to = jobs[j].to /\ jobs'[j].snap = j /\ jobs'[j].kind = jobs[j].kind
      /\ \A i \in Jobs \ {j} : jobs'[i] = jobs[i]
  BY <1>1, <1>2 DEF TypeOK, StateTypeOK, JobRecord
<1>4. Recording(j, PreSwapPhases \cup {"SwapTag"}) /\ jobs[j].work # "SwapTag" /\ Rests
  BY <1>1, <1>2 DEF CalmBefore
<1>5. Prepared(j)'
  BY <1>1, <1>2, <1>3, <1>4 DEF Prepared, CalmBefore, Recording, PreSwapPhases
<1>6. CalmFile(j)'
  BY <1>1, <1>2, <1>3 DEF CalmFile
<1>7. Rests'
  BY <1>2, <1>4 DEF Rests, Selects, hostVars
<1>8. Believed(j, jobs[j].work)' /\ Believed(j, maint.phase)' /\ maint.phase # "None"
  BY <1>2, <1>3, <1>4, <1>5, <1>7 DEF Believed, Recording, PreSwapPhases, RollbackPhases
<1>9. CalmTask(j)'
  BY <1>1, <1>2, <1>3, <1>4, <1>5, <1>7
     DEF CalmTask, CalmBefore, CalmForward, CalmBack, CalmEnd, ForwardPoints, Recording,
         PreSwapPhases
<1> QED
  BY <1>1, <1>2, <1>3, <1>4, <1>5, <1>6, <1>7, <1>8, <1>9, OwnCalm
     DEF CalmFacts, hostVars, Recording, Prepared

\* The tags of .env move to the release of the update, one after the other.
LEMMA SwapCalm ==
  ASSUME Steady, NEW j \in Jobs, ExecutorStep(j), SwapTag(j) \/ SwapProxyTag(j)
  PROVE  Calm'
<1>1. /\ TypeOK /\ CalmFacts /\ CalmFile(j) /\ CalmBefore(j) /\ CalmForward(j) /\ ~Fails
      /\ current = j
  BY TaskSteady, NoFailure, StepIsOwn DEF Steady
<1>2. /\ Prepared(j) /\ Recording(j, {"SwapTag"}) /\ maint.active
      /\ jobs[j].status \in Inflight
  BY <1>1 DEF CalmBefore, CalmForward, SwapTag, SwapProxyTag, At, ForwardPoints
<1>3. /\ UNCHANGED <<stateVars, pg, data>> /\ env'.tag = jobs[j].to
      /\ exec'[j].tag = jobs[j].from
      /\ exec'[j].pc \in {"swapProxyTag", "StartingNew"}
  <2>1. CASE SwapTag(j)
    <3>1. env.tag = jobs[j].from
      BY <1>1, <2>1 DEF SwapTag, At, CalmBefore, Rests, Selects
    <3> QED
      BY <1>1, <2>1, <3>1
         DEF SwapTag, TypeOK, ProcessTypeOK, Executor, HostTypeOK, stateVars
  <2>2. CASE SwapProxyTag(j)
    BY <1>1, <2>2 DEF SwapProxyTag, At, Goto, CalmForward, TypeOK, ProcessTypeOK, Executor,
                      HostTypeOK, stateVars, ForwardPoints
  <2> QED
    BY <2>1, <2>2
<1>4. Prepared(j)'
  BY <1>2, <1>3 DEF Prepared, stateVars
<1>5. CalmFile(j)'
  BY <1>1, <1>3 DEF CalmFile, stateVars
<1>6. Believed(j, jobs[j].work)' /\ Believed(j, maint.phase)' /\ maint.phase # "None"
  BY <1>2, <1>3, <1>4 DEF Believed, Recording, PreSwapPhases, RollbackPhases, stateVars
<1>7. CalmTask(j)'
  BY <1>1, <1>2, <1>3, <1>4
     DEF CalmTask, CalmBefore, CalmForward, CalmBack, CalmEnd, ForwardPoints, Recording, stateVars
<1> QED
  BY <1>1, <1>2, <1>3, <1>5, <1>6, <1>7, OwnCalm DEF CalmFacts, Recording, stateVars

\* The success is recorded: in the file of the job, then as the current release.
LEMMA CommitCalm ==
  ASSUME Steady, NEW j \in Jobs, ExecutorStep(j), Commit(j)
  PROVE  Calm'
<1>1. /\ TypeOK /\ CalmFacts /\ CalmFile(j) /\ CalmForward(j) /\ jobs[j].kind = "Update"
      /\ current = j /\ jobs[j].status # "Absent"
  BY TaskSteady, StepIsOwn DEF Steady
<1>2. /\ exec[j].pc = "commit" /\ exec'[j].pc = "commitVersion"
      /\ UNCHANGED hostVars /\ UNCHANGED <<current, maint, curVer, report, snaps>>
      /\ jobs' = [jobs EXCEPT ![j] = [jobs[j] EXCEPT
           !.status = "Succeeded", !.last = "Finalize", !.work = "Finalize", !.ok = TRUE]]
  BY <1>1 DEF Commit, WriteJob, At, Goto, TypeOK, ProcessTypeOK, Executor
<1>3. /\ jobs'[j].status = "Succeeded" /\ jobs'[j].last = "Finalize"
      /\ jobs'[j].work = "Finalize" /\ jobs'[j].from = jobs[j].from
      /\ jobs'[j].to = jobs[j].to /\ jobs'[j].snap = jobs[j].snap /\ jobs'[j].kind = "Update"
      /\ \A i \in Jobs \ {j} : jobs'[i] = jobs[i]
  BY <1>1, <1>2 DEF TypeOK, StateTypeOK, JobRecord
<1>4. Landed(j)' /\ maint.job = j /\ maint.active
      /\ Recording(j, {"StartingNew", "HealthProbing"})
  BY <1>1, <1>2, <1>3 DEF Landed, IsCommitted, Selects, CalmForward, ForwardPoints, hostVars
<1>5. CalmFile(j)'
  BY <1>1, <1>2, <1>3 DEF CalmFile
<1>6. Believed(j, jobs[j].work)' /\ Believed(j, maint.phase)' /\ maint.phase # "None"
  BY <1>2, <1>3, <1>4 DEF Believed, Recording, PreSwapPhases, RollbackPhases
<1>7. CalmTask(j)'
  BY <1>1, <1>2, <1>4
     DEF CalmTask, CalmBefore, CalmForward, CalmBack, CalmEnd, ForwardPoints
<1> QED
  BY <1>1, <1>2, <1>3, <1>4, <1>5, <1>6, <1>7, OwnCalm DEF CalmFacts, hostVars

\* An update that has succeeded has its release recorded, by its task or after a
\* restart: the records agree with it.
LEMMA LandedRecorded ==
  ASSUME NEW j \in Jobs, TypeOK, CalmFacts, CalmFile(j), Landed(j), curVer' = jobs[j].to,
         UNCHANGED <<jobs, current, maint, report, snaps, env, data>>
  PROVE  /\ curVer' \in Versions /\ Rests' /\ CalmFile(j)'
         /\ Landed(j)' /\ \A phase : Believed(j, phase) => Believed(j, phase)'
<1>1. curVer' \in Versions /\ Rests' /\ CalmFile(j)' /\ Landed(j)'
  BY DEF Landed, IsCommitted, Rests, Selects, CalmFile
<1>2. /\ jobs[j].work = "Finalize" /\ jobs[j].status \notin Inflight
      /\ ~(Prepared(j) /\ Rests)
  BY DEF Landed, IsCommitted, CalmFile, Rests, Selects, Prepared, Inflight
<1> QED
  BY <1>1, <1>2 DEF Believed, PreSwapPhases

LEMMA CommitVersionCalm ==
  ASSUME Steady, NEW j \in Jobs, ExecutorStep(j), CommitVersion(j)
  PROVE  Calm'
<1>1. /\ TypeOK /\ CalmFacts /\ CalmRecords /\ CalmFile(j) /\ CalmForward(j)
      /\ current = j
  BY TaskSteady, StepIsOwn DEF Steady
<1>2. /\ exec[j].pc = "commitVersion" /\ exec'[j].pc = "clearMaint" /\ curVer' = jobs[j].to
      /\ UNCHANGED hostVars /\ UNCHANGED <<jobs, current, maint, report, snaps>>
  BY <1>1 DEF CommitVersion, WriteUpdater, At, Goto, TypeOK, ProcessTypeOK, Executor
<1>3. Landed(j) /\ maint.job = j /\ jobs[j].work # "None"
  BY <1>1, <1>2 DEF CalmForward, Landed, IsCommitted, CalmFile
<1>4. /\ curVer' \in Versions /\ Rests' /\ CalmFile(j)' /\ Landed(j)'
      /\ \A phase : Believed(j, phase) => Believed(j, phase)'
  BY <1>1, <1>2, <1>3, LandedRecorded DEF hostVars
<1>5. Believed(j, jobs[j].work)' /\ Believed(j, maint.phase)' /\ maint.phase # "None"
  BY <1>1, <1>2, <1>3, <1>4, NoJobAssumption DEF CalmRecords
<1>6. CalmTask(j)'
  BY <1>1, <1>2, <1>4
     DEF CalmTask, CalmBefore, CalmForward, CalmBack, CalmEnd, ForwardPoints, Landed,
         IsCommitted, Inflight
<1> QED
  BY <1>1, <1>2, <1>3, <1>4, <1>5, <1>6, OwnCalm DEF CalmFacts, hostVars

\* Maintenance is cleared, behind a host that rests.
LEMMA ClearMaintCalm ==
  ASSUME Steady, NEW j \in Jobs, ExecutorStep(j), ClearMaint(j)
  PROVE  Calm'
<1>1. /\ TypeOK /\ CalmFacts /\ CalmRecords /\ CalmEnd(j) /\ current = j
  BY TaskSteady, StepIsOwn DEF Steady
<1>2. /\ exec[j].pc = "clearMaint" /\ exec'[j].pc = "clearCurrent"
      /\ maint' = InactiveMaintenance
      /\ UNCHANGED hostVars /\ UNCHANGED <<jobs, current, curVer, report, snaps, probe>>
  BY <1>1 DEF ClearMaint, WriteMaint, At, Goto, TypeOK, ProcessTypeOK, Executor, ExecutorStep
<1>3. Rests /\ jobs[j].status \notin Inflight
  BY <1>1, <1>2 DEF CalmEnd
<1>4. Rests' /\ CalmFacts'
  BY <1>1, <1>2, <1>3 DEF CalmFacts, CalmFile, Rests, Selects, hostVars
<1>5. Believed(j, jobs[j].work)'
  <2>1. Believed(j, jobs[j].work)
    BY <1>1, NoJobAssumption
       DEF CalmRecords, Believed, PreSwapPhases, RollbackPhases
  <2> QED
    BY <1>2, <2>1 DEF Believed, Prepared, Landed, Rests, Selects, hostVars
<1>6. CalmRecords'
  BY <1>1, <1>2, <1>3, <1>5 DEF CalmRecords, InactiveMaintenance
<1>7. CalmTask(j)'
  BY <1>1, <1>2, <1>4
     DEF CalmTask, CalmBefore, CalmForward, CalmBack, CalmEnd, ForwardPoints
<1> QED
  BY <1>4, <1>6, <1>7, CalmStep

LEMMA ClearCurrentCalm ==
  ASSUME Steady, NEW j \in Jobs, ExecutorStep(j), ClearCurrent(j)
  PROVE  Calm'
<1>1. /\ TypeOK /\ CalmFacts /\ CalmRecords /\ IdleRecords
  BY TaskSteady DEF Steady, Kept, Safe, Exclusive
<1>2. /\ exec[j].pc = "clearCurrent" /\ exec'[j].pc = "idle" /\ current' = NoJob
      /\ UNCHANGED hostVars /\ UNCHANGED <<jobs, maint, curVer, report, snaps, probe>>
  BY <1>1 DEF ClearCurrent, SetCurrent, At, Finish, NoExecutor, TypeOK, ProcessTypeOK, Executor,
              ExecutorStep
<1>3. ~maint.active /\ maint.job = NoJob
  BY <1>1, <1>2 DEF IdleRecords, At
<1>4. CalmFacts'
  BY <1>1, <1>2 DEF CalmFacts, CalmFile, Rests, Selects, hostVars
<1>5. CalmRecords'
  BY <1>1, <1>2, <1>3 DEF CalmRecords
<1>6. CalmTask(j)'
  BY <1>2 DEF CalmTask, CalmBefore, CalmForward, CalmBack, CalmEnd, ForwardPoints
<1> QED
  BY <1>4, <1>5, <1>6, CalmStep

\* An update ends in its preflight, or was taken back: its file says that it failed.
LEMMA FailedCalm ==
  ASSUME Steady, NEW j \in Jobs, ExecutorStep(j), FinalizeFailed(j) \/ RollbackDone(j)
  PROVE  Calm'
<1>1. /\ TypeOK /\ CalmFacts /\ CalmRecords /\ CalmFile(j) /\ CalmBefore(j)
      /\ CalmForward(j) /\ CalmBack(j) /\ current = j /\ jobs[j].kind = "Update"
      /\ jobs[j].status # "Absent"
  BY TaskSteady, StepIsOwn DEF Steady
<1>2. /\ exec[j].pc \in {"finalizeFailed", "rollbackDone"} /\ exec'[j].pc = "clearMaint"
      /\ UNCHANGED hostVars /\ UNCHANGED <<current, maint, curVer, report, snaps>>
      /\ jobs' = [jobs EXCEPT ![j] = [jobs[j] EXCEPT !.status = "Failed"]]
  BY <1>1 DEF FinalizeFailed, RollbackDone, WriteJob, At, Goto, TypeOK, ProcessTypeOK, Executor
<1>3. /\ jobs'[j].status = "Failed" /\ jobs'[j].last = jobs[j].last
      /\ jobs'[j].work = jobs[j].work /\ jobs'[j].from = jobs[j].from
      /\ jobs'[j].to = jobs[j].to /\ jobs'[j].snap = jobs[j].snap
      /\ \A i \in Jobs \ {j} : jobs'[i] = jobs[i]
  BY <1>1, <1>2 DEF TypeOK, StateTypeOK, JobRecord
<1>4. \/ Rests /\ Recording(j, {"Preflight"})
      \/ Rests /\ Recording(j, RollbackPhases) /\ Prepared(j) /\ IsRestored(jobs[j])'
  <2>1. CASE exec[j].pc = "finalizeFailed"
    BY <1>1, <2>1 DEF CalmBefore
  <2>2. CASE exec[j].pc = "rollbackDone"
    <3>1. jobs[j].last = "StartOld" /\ jobs[j].ok
      BY <2>2, StepIsOwn DEF Steady, TaskRecorded, OldMarked, OldPoints
    <3>2. jobs'[j].ok
      BY <1>1, <1>2, <3>1 DEF TypeOK, StateTypeOK, JobRecord
    <3>3. IsRestored(jobs[j])'
      BY <1>3, <3>1, <3>2 DEF IsRestored
    <3> QED
      BY <1>1, <2>2, <3>3 DEF CalmForward, CalmBack, ForwardPoints, Rests
  <2> QED
    BY <1>2, <2>1, <2>2
<1>5. Rests'
  BY <1>2, <1>4 DEF Rests, Selects, hostVars
<1>6. CalmFile(j)'
  BY <1>1, <1>2, <1>3, <1>4 DEF CalmFile, Recording, RollbackPhases
<1>7. Believed(j, jobs[j].work)' /\ Believed(j, maint.phase)' /\ maint.phase # "None"
  BY <1>2, <1>3, <1>4, <1>5
     DEF Believed, Recording, PreSwapPhases, RollbackPhases, Prepared
<1>8. CalmTask(j)'
  BY <1>1, <1>2, <1>3, <1>5
     DEF CalmTask, CalmBefore, CalmForward, CalmBack, CalmEnd, ForwardPoints, Inflight
<1> QED
  BY <1>1, <1>2, <1>3, <1>4, <1>5, <1>6, <1>7, <1>8, OwnCalm
     DEF CalmFacts, hostVars, Recording, Prepared

\* The tags of .env move back.
LEMMA TagsBackCalm ==
  ASSUME Steady, NEW j \in Jobs, ExecutorStep(j), RestoreProxyTag(j) \/ SwapTagBack(j)
  PROVE  Calm'
<1>1. /\ TypeOK /\ CalmFacts /\ CalmFile(j) /\ CalmForward(j) /\ CalmBack(j) /\ ~Fails
      /\ current = j /\ jobs[j].status # "Absent"
  BY TaskSteady, NoFailure, StepIsOwn DEF Steady
<1>2. exec[j].pc \in {"restoreProxyTag", "swapTagBack"}
  BY DEF RestoreProxyTag, SwapTagBack, At
<1>3. /\ Prepared(j) /\ Recording(j, RollbackPhases) /\ maint.active
      /\ jobs[j].status \in Inflight /\ exec[j].tag = curVer /\ jobs[j].from = curVer
  BY <1>1, <1>2 DEF CalmForward, CalmBack, Prepared
<1>4. curVer # NoVersion /\ SourceJob(j) = j
  BY <1>1 DEF CalmFacts, Versions, NoVersion, CalmFile, SourceJob
<1>5. /\ UNCHANGED <<stateVars, pg, data>> /\ exec'[j].tag = curVer
      /\ ShipsProxy => env'.proxy = curVer
      /\ \/ exec[j].pc = "restoreProxyTag" /\ exec'[j].pc = "SwapTagBack"
         \/ /\ exec[j].pc = "swapTagBack" /\ exec'[j].pc = "RestoreSnapshot"
            /\ env'.tag = curVer
  <2>1. CASE RestoreProxyTag(j)
    <3>1. ShipsProxy => report[SourceJob(j)].proxy = curVer
      BY <1>1, <1>3, <1>4 DEF CalmFile, Prepared
    <3>2. PreviousTag(j) = curVer
      BY <1>3, <1>4 DEF PreviousTag
    <3> QED
      BY <1>1, <1>4, <2>1, <3>1, <3>2
         DEF RestoreProxyTag, At, TypeOK, ProcessTypeOK, Executor, HostTypeOK, stateVars
  <2>2. CASE SwapTagBack(j)
    BY <1>1, <1>3, <2>2
       DEF SwapTagBack, At, Goto, CalmBack, TypeOK, ProcessTypeOK, Executor, HostTypeOK, stateVars
  <2> QED
    BY <2>1, <2>2
<1>6. Prepared(j)' /\ CalmFile(j)'
  BY <1>1, <1>3, <1>5 DEF Prepared, CalmFile, stateVars
<1>7. Believed(j, jobs[j].work)' /\ Believed(j, maint.phase)' /\ maint.phase # "None"
  BY <1>3, <1>5, <1>6 DEF Believed, Recording, PreSwapPhases, RollbackPhases, stateVars
<1>8. CalmTask(j)'
  BY <1>1, <1>3, <1>5, <1>6
     DEF CalmTask, CalmBefore, CalmForward, CalmBack, CalmEnd, ForwardPoints, Recording, Selects,
         stateVars
<1> QED
  BY <1>1, <1>3, <1>5, <1>6, <1>7, <1>8, OwnCalm
     DEF CalmFacts, Recording, Prepared, stateVars

\* pgdata is wiped, and filled from the copy.
LEMMA RestoreDataCalm ==
  ASSUME Steady, NEW j \in Jobs, ExecutorStep(j), WipeData(j) \/ RefillData(j)
  PROVE  Calm'
<1>1. /\ TypeOK /\ CalmFacts /\ CalmFile(j) /\ CalmForward(j) /\ CalmBack(j) /\ ~Fails
      /\ current = j /\ jobs[j].status # "Absent"
  BY TaskSteady, NoFailure, StepIsOwn DEF Steady
<1>2. exec[j].pc \in {"wipe", "refill"}
  BY DEF WipeData, RefillData, At
<1>3. /\ Prepared(j) /\ Recording(j, RollbackPhases) /\ maint.active /\ ~External
      /\ jobs[j].status \in Inflight /\ exec[j].tag = jobs[j].from /\ Selects(curVer)
  BY <1>1, <1>2 DEF CalmForward, CalmBack
<1>4. snaps[jobs[j].snap].taken /\ snaps[jobs[j].snap].data # Damaged
  BY <1>1, <1>3 DEF Prepared, CalmFile
<1>5. /\ UNCHANGED <<stateVars, env, pg>> /\ exec'[j].tag = exec[j].tag
      /\ \/ exec'[j].pc = "refill"
         \/ exec'[j].pc = "startRestored" /\ data' # Damaged
  <2>1. CASE WipeData(j)
    BY <1>1, <1>4, <2>1
       DEF WipeData, At, Goto, TypeOK, ProcessTypeOK, Executor, stateVars
  <2>2. CASE RefillData(j)
    BY <1>1, <1>4, <2>2
       DEF RefillData, At, Goto, TypeOK, ProcessTypeOK, Executor, stateVars
  <2> QED
    BY <2>1, <2>2
<1>6. Prepared(j)' /\ CalmFile(j)' /\ Selects(curVer)'
  BY <1>1, <1>3, <1>5 DEF Prepared, CalmFile, Selects, stateVars
<1>7. Believed(j, jobs[j].work)' /\ Believed(j, maint.phase)' /\ maint.phase # "None"
  BY <1>3, <1>5, <1>6 DEF Believed, Recording, PreSwapPhases, RollbackPhases, stateVars
<1>8. CalmTask(j)'
  BY <1>1, <1>3, <1>5, <1>6
     DEF CalmTask, CalmBefore, CalmForward, CalmBack, CalmEnd, ForwardPoints, Recording,
         stateVars
<1> QED
  BY <1>1, <1>3, <1>5, <1>6, <1>7, <1>8, OwnCalm
     DEF CalmFacts, Recording, Prepared, stateVars

\* The services of the old release run, and are found to serve.
LEMMA RestoredCalm ==
  ASSUME Steady, NEW j \in Jobs, ExecutorStep(j), OldStarted(j) \/ RecordRestored(j)
  PROVE  Calm'
<1>1. /\ TypeOK /\ CalmFacts /\ CalmFile(j) /\ CalmForward(j) /\ CalmBack(j)
      /\ current = j /\ jobs[j].status # "Absent"
  BY TaskSteady, StepIsOwn DEF Steady
<1>2. exec[j].pc \in {"oldStarted", "recordRestored"}
  BY DEF OldStarted, RecordRestored, At
<1>3. /\ Prepared(j) /\ Recording(j, RollbackPhases) /\ maint.active
      /\ jobs[j].status \in Inflight /\ exec[j].tag = jobs[j].from /\ Selects(curVer)
      /\ data # Damaged
  BY <1>1, <1>2 DEF CalmForward, CalmBack
<1>4. /\ UNCHANGED <<current, maint, curVer, report, snaps>> /\ UNCHANGED hostVars
      /\ exec'[j].tag = exec[j].tag
      /\ \/ exec[j].pc = "oldStarted" /\ exec'[j].pc = "oldHealth"
         \/ exec[j].pc = "recordRestored" /\ exec'[j].pc = "rollbackDone"
      /\ \/ UNCHANGED jobs
         \/ jobs' = [jobs EXCEPT ![j] = [jobs[j] EXCEPT !.ok = TRUE]]
  BY <1>1, <1>3
     DEF OldStarted, RecordRestored, WriteJob, WriteUpdater, At, Goto, Prepared, TypeOK,
         ProcessTypeOK, Executor
<1>5. /\ jobs'[j].status = jobs[j].status /\ jobs'[j].last = jobs[j].last
      /\ jobs'[j].work = jobs[j].work /\ jobs'[j].from = jobs[j].from
      /\ jobs'[j].to = jobs[j].to /\ jobs'[j].snap = jobs[j].snap
      /\ \A i \in Jobs \ {j} : jobs'[i] = jobs[i]
  BY <1>1, <1>4 DEF TypeOK, StateTypeOK, JobRecord
<1>6. Prepared(j)' /\ CalmFile(j)' /\ Selects(curVer)'
  BY <1>1, <1>3, <1>4, <1>5 DEF Prepared, CalmFile, Selects, hostVars
<1>7. Believed(j, jobs[j].work)' /\ Believed(j, maint.phase)' /\ maint.phase # "None"
  BY <1>3, <1>4, <1>5, <1>6 DEF Believed, Recording, PreSwapPhases, RollbackPhases
<1>8. CalmTask(j)'
  BY <1>1, <1>3, <1>4, <1>5, <1>6
     DEF CalmTask, CalmBefore, CalmForward, CalmBack, CalmEnd, ForwardPoints, Recording,
         hostVars
<1> QED
  BY <1>1, <1>3, <1>4, <1>5, <1>6, <1>7, <1>8, OwnCalm
     DEF CalmFacts, Recording, Prepared, hostVars

\* Recovery takes the update up again where the records have it.
LEMMA ResumeCalm ==
  ASSUME Steady, NEW j \in Jobs, ExecutorStep(j), ResumeUpdate(j)
  PROVE  Calm'
<1>1. /\ TypeOK /\ CalmFacts /\ CalmRecords /\ CalmFile(j) /\ CalmForward(j) /\ ~Fails
      /\ current = j /\ jobs[j].status # "Absent"
  BY TaskSteady, NoFailure, StepIsOwn DEF Steady
<1>2. exec[j].pc \in {"resumeForward", "resumeBack"}
  BY DEF ResumeUpdate
<1>3. Prepared(j) /\ maint.job = j /\ maint.active /\ jobs[j].status \in Inflight
  BY <1>1, <1>2 DEF CalmForward, ForwardPoints
<1>4. /\ UNCHANGED <<current, maint, curVer, report, snaps>> /\ UNCHANGED hostVars
      /\ exec'[j].tag = jobs[j].from /\ exec'[j].pc \in {"reinstall", "revert"}
      /\ jobs' = [jobs EXCEPT ![j] = [jobs[j] EXCEPT !.status = "Running"]]
  BY <1>1, <1>2 DEF ResumeUpdate, WriteJob, TypeOK, ProcessTypeOK, Executor
<1>5. /\ jobs'[j].status = "Running" /\ jobs'[j].last = jobs[j].last
      /\ jobs'[j].work = jobs[j].work /\ jobs'[j].from = jobs[j].from
      /\ jobs'[j].to = jobs[j].to /\ jobs'[j].snap = jobs[j].snap
      /\ \A i \in Jobs \ {j} : jobs'[i] = jobs[i]
  BY <1>1, <1>4 DEF TypeOK, StateTypeOK, JobRecord
<1>6. Prepared(j)'
  BY <1>3, <1>4, <1>5 DEF Prepared
<1>7. Believed(j, jobs[j].work) /\ Believed(j, maint.phase) /\ maint.phase # "None"
  BY <1>1, <1>3, NoJobAssumption DEF CalmRecords
<1>8. CalmFile(j)'
  BY <1>1, <1>3, <1>4, <1>5 DEF CalmFile, Prepared
<1>9. Believed(j, jobs[j].work)' /\ Believed(j, maint.phase)'
  BY <1>3, <1>4, <1>5, <1>6, <1>7
     DEF Believed, Rests, Selects, Landed, IsCommitted, Inflight, hostVars
<1>10. CalmTask(j)'
  BY <1>1, <1>3, <1>4, <1>5, <1>6
     DEF CalmTask, CalmBefore, CalmForward, CalmBack, CalmEnd, ForwardPoints, Inflight
<1> QED
  BY <1>1, <1>3, <1>4, <1>5, <1>7, <1>8, <1>9, <1>10, OwnCalm
     DEF CalmFacts, Prepared, hostVars

\* A task is about to record a phase the host is in.
LEMMA PhaseBelieved ==
  ASSUME Steady, NEW j \in Jobs, exec[j].pc \in DOMAIN WorkOf
  PROVE  /\ Believed(j, exec[j].pc)
         /\ In(j, FirstPoints) => Rests
         /\ ~In(j, FirstPoints) => maint.job = j /\ jobs[j].work # "None"
         /\ jobs[j].status \in Inflight /\ exec[j].pc # "RollbackInProgress"
<1>1. CalmBefore(j) /\ CalmForward(j) /\ CalmBack(j)
  BY TaskSteady
<1>2. exec[j].pc \in {"Preflight", "MaintenanceOn", "Stopping", "Snapshotting", "SwapTag",
         "StartingNew", "HealthProbing", "StopNew", "SwapTagBack", "RestoreSnapshot", "StartOld"}
  BY <1>1 DEF WorkOf, CalmBack
<1>3. CASE exec[j].pc \in {"Preflight", "MaintenanceOn", "Stopping", "Snapshotting"}
  BY <1>1, <1>3 DEF CalmBefore, Believed, PreSwapPhases, RollbackPhases, Recording
<1>4. CASE exec[j].pc = "SwapTag"
  BY <1>1, <1>4 DEF CalmBefore, Believed, PreSwapPhases, RollbackPhases, Recording
<1>5. CASE exec[j].pc \in {"StartingNew", "HealthProbing"}
  BY <1>1, <1>5 DEF CalmForward, ForwardPoints, Believed, Prepared, PreSwapPhases, RollbackPhases
<1>6. CASE exec[j].pc \in {"StopNew", "SwapTagBack", "RestoreSnapshot", "StartOld"}
  BY <1>1, <1>6 DEF CalmForward, Believed, Prepared, PreSwapPhases, RollbackPhases
<1> QED
  BY <1>2, <1>3, <1>4, <1>5, <1>6

\* PhaseRecorder::enter, its first write.
LEMMA NoteMaintenanceCalm ==
  ASSUME Steady, NEW j \in Jobs, ExecutorStep(j), NoteMaintenance(j)
  PROVE  Calm'
<1>1. /\ TypeOK /\ CalmFacts /\ CalmRecords /\ CalmFile(j) /\ CalmBefore(j)
      /\ CalmForward(j) /\ CalmBack(j) /\ current = j /\ jobs[j].status # "Absent"
      /\ Unstarted
  BY TaskSteady, StepIsOwn DEF Steady, Kept, Safe, Exclusive
<1>2. /\ exec[j].pc \in DOMAIN WorkOf /\ exec'[j].pc = exec[j].pc
      /\ exec'[j].tag = exec[j].tag
      /\ UNCHANGED hostVars /\ UNCHANGED <<jobs, current, curVer, report, snaps>>
      /\ maint' = [active |-> TakesSiteOffline(exec[j].pc), phase |-> exec[j].pc, job |-> j]
  BY <1>1 DEF NoteMaintenance, WriteMaint, TypeOK, ProcessTypeOK, Executor
<1>3. /\ Believed(j, exec[j].pc)
      /\ In(j, FirstPoints) => Rests
      /\ ~In(j, FirstPoints) => maint.job = j /\ jobs[j].work # "None"
      /\ exec[j].pc # "RollbackInProgress"
  BY <1>2, PhaseBelieved
<1>4. exec[j].pc \notin {"Idle", "None"}
  BY <1>2 DEF WorkOf
<1>5. Believed(j, jobs[j].work)
  <2>1. CASE maint.job = j
    BY <1>1, <2>1, NoJobAssumption DEF CalmRecords
  <2>2. CASE In(j, FirstPoints)
    <3>1. exec[j].pc = "Preflight"
      BY <1>2, <2>2 DEF WorkOf
    <3>2. jobs[j].work = "None"
      BY <1>1, <3>1 DEF Unstarted, At, NeverStarted, CalmFile
    <3> QED
      BY <3>2 DEF Believed, PreSwapPhases, RollbackPhases
  <2> QED
    BY <1>3, <2>1, <2>2
<1>6. \A phase : Believed(j, phase) => Believed(j, phase)'
  BY <1>2 DEF Believed, Prepared, Landed, Rests, Selects, hostVars
<1>7. Believed(j, jobs[j].work)' /\ Believed(j, maint.phase)' /\ maint'.phase # "None"
  BY <1>2, <1>3, <1>4, <1>5, <1>6
<1>8. ~maint'.active => Rests'
  BY <1>2, <1>3, <1>4 DEF TakesSiteOffline, Rests, Selects, hostVars
<1>9. CalmFile(j)'
  BY <1>1, <1>2 DEF CalmFile, hostVars
<1>10. maint'.job = j /\ maint'.phase = exec[j].pc /\ (exec[j].pc # "Preflight" => maint'.active)
  BY <1>2, <1>4 DEF TakesSiteOffline
<1>11. maint'.active => jobs'[j].work # "None"
  <2>1. maint'.active => exec[j].pc \notin {"Preflight", "preflight"}
    BY <1>2 DEF TakesSiteOffline, WorkOf
  <2> QED
    BY <1>2, <1>3, <2>1
<1>12. CalmBefore(j)'
  BY <1>1, <1>2, <1>10
     DEF CalmBefore, Recording, Rests, Selects, Prepared, PreSwapPhases, WorkOf, hostVars
<1>13. CalmForward(j)' /\ CalmBack(j)' /\ CalmEnd(j)'
  BY <1>1, <1>2, <1>10
     DEF CalmForward, CalmBack, CalmEnd, ForwardPoints, Recording, Selects, Prepared,
         RollbackPhases, WorkOf, hostVars
<1> QED
  BY <1>1, <1>2, <1>7, <1>8, <1>9, <1>10, <1>11, <1>12, <1>13, OwnCalm
     DEF CalmFacts, CalmTask, hostVars

\* And its second one: the step of the job.
LEMMA NoteStepCalm ==
  ASSUME Steady, NEW j \in Jobs, ExecutorStep(j), NoteStep(j)
  PROVE  Calm'
<1>1. /\ TypeOK /\ CalmFacts /\ CalmRecords /\ CalmFile(j) /\ CalmBefore(j)
      /\ CalmForward(j) /\ CalmBack(j) /\ current = j /\ jobs[j].status # "Absent"
      /\ Noted
  BY TaskSteady, StepIsOwn DEF Steady, Kept, Safe, Exclusive
<1>2. /\ exec[j].pc \in DOMAIN WorkOf /\ exec[j].noted
      /\ UNCHANGED hostVars /\ UNCHANGED <<current, maint, curVer, report, snaps>>
      /\ jobs' = [jobs EXCEPT ![j] = [jobs[j] EXCEPT
           !.last = exec[j].pc, !.work = exec[j].pc, !.ok = FALSE,
           !.status = IF @ = "Pending" THEN "Running" ELSE @]]
  BY DEF NoteStep, WriteJob
<1>3. exec'[j].pc = WorkOf[exec[j].pc] /\ exec'[j].tag = exec[j].tag
  BY <1>1 DEF NoteStep, Goto, TypeOK, ProcessTypeOK, Executor
<1>4. /\ jobs'[j].status = IF jobs[j].status = "Pending" THEN "Running" ELSE jobs[j].status
      /\ jobs'[j].last = exec[j].pc /\ jobs'[j].work = exec[j].pc
      /\ jobs'[j].from = jobs[j].from
      /\ jobs'[j].to = jobs[j].to /\ jobs'[j].snap = jobs[j].snap
      /\ \A i \in Jobs \ {j} : jobs'[i] = jobs[i]
  BY <1>1, <1>2 DEF TypeOK, StateTypeOK, JobRecord
<1>5. /\ Believed(j, exec[j].pc)
      /\ In(j, FirstPoints) => Rests
      /\ jobs[j].status \in Inflight /\ exec[j].pc # "RollbackInProgress"
  BY <1>2, PhaseBelieved
<1>6. /\ maint.phase = exec[j].pc /\ maint.job = j
      /\ exec[j].pc # "Preflight" => maint.active
  <2>1. maint = [active |-> TakesSiteOffline(exec[j].pc), phase |-> exec[j].pc, job |-> j]
    BY <1>1, <1>2 DEF Noted
  <2>2. exec[j].pc # "Preflight" => TakesSiteOffline(exec[j].pc)
    BY <1>2 DEF TakesSiteOffline, WorkOf
  <2> QED
    BY <2>1, <2>2
<1>7. exec[j].pc \notin {"Idle", "None"} /\ jobs'[j].status \in Inflight
      /\ jobs'[j].status \notin {"NeedsManual", "Absent"}
  BY <1>1, <1>2, <1>4, <1>5 DEF WorkOf, Inflight, CalmFile
<1>8. CalmFile(j)'
  BY <1>1, <1>2, <1>4, <1>7 DEF CalmFile
<1>9. Believed(j, jobs[j].work)'
  BY <1>2, <1>4, <1>5, <1>7
     DEF Believed, Prepared, Landed, IsCommitted, Inflight, Rests, Selects, PreSwapPhases, hostVars
<1>10. Recording(j, {jobs[j].work})'
  BY <1>2, <1>4, <1>6 DEF Recording
<1>11. CalmTask(j)'
  <2>1. CASE exec[j].pc = "Preflight"
    <3>1. exec'[j].pc = "preflight"
      BY <1>3, <2>1 DEF WorkOf
    <3> QED
      BY <1>1, <1>2, <1>4, <1>5, <1>7, <1>10, <2>1, <3>1
         DEF CalmTask, CalmBefore, CalmForward, CalmBack, CalmEnd, ForwardPoints, Recording, Rests,
             Selects, hostVars
  <2>2. CASE exec[j].pc \in {"MaintenanceOn", "Stopping", "Snapshotting", "SwapTag"}
    <3>1. /\ exec'[j].pc \in {"runner", "stopApps", "stopPostgres", "install"}
          /\ exec'[j].pc = "install" <=> exec[j].pc = "SwapTag"
      BY <1>3, <2>2 DEF WorkOf
    <3>2. CalmBefore(j)'
      BY <1>1, <1>2, <1>4, <1>6, <1>7, <1>10, <2>2, <3>1
         DEF CalmBefore, Recording, Rests, Selects, Prepared, PreSwapPhases, hostVars
    <3> QED
      BY <3>1, <3>2 DEF CalmTask, CalmForward, CalmBack, CalmEnd, ForwardPoints
  <2>3. CASE exec[j].pc \in {"StartingNew", "HealthProbing"}
    <3>1. /\ exec'[j].pc \in {"verify", "probe"}
          /\ exec'[j].pc = "probe" <=> exec[j].pc = "HealthProbing"
      BY <1>3, <2>3 DEF WorkOf
    <3>2. CalmForward(j)'
      BY <1>1, <1>2, <1>3, <1>4, <1>6, <1>7, <1>10, <2>3, <3>1
         DEF CalmForward, ForwardPoints, Recording, Selects, Prepared, hostVars
    <3> QED
      BY <3>1, <3>2 DEF CalmTask, CalmBefore, CalmBack, CalmEnd
  <2>4. CASE exec[j].pc \in {"StopNew", "SwapTagBack", "RestoreSnapshot", "StartOld"}
    <3>1. \/ exec[j].pc = "StopNew" /\ exec'[j].pc = "stopNew"
          \/ exec[j].pc = "SwapTagBack" /\ exec'[j].pc = "swapTagBack"
          \/ exec[j].pc = "RestoreSnapshot" /\ exec'[j].pc = "stopForRestore"
          \/ exec[j].pc = "StartOld" /\ exec'[j].pc = "startOld"
      BY <1>3, <2>4 DEF WorkOf
    <3>2. CalmForward(j)'
      BY <1>1, <1>2, <1>3, <1>4, <1>6, <1>7, <3>1
         DEF CalmForward, ForwardPoints, Prepared, hostVars
    <3>3. CalmBack(j)'
      BY <1>1, <1>2, <1>4, <1>10, <3>1
         DEF CalmBack, Recording, Selects, RollbackPhases, hostVars
    <3> QED
      BY <3>1, <3>2, <3>3 DEF CalmTask, CalmBefore, CalmEnd
  <2> QED
    BY <1>2, <1>5, <2>1, <2>2, <2>3, <2>4 DEF WorkOf
<1>12. ~maint'.active => Rests'
  BY <1>1, <1>2 DEF CalmFacts, Rests, Selects, hostVars
<1>13. Believed(j, maint.phase)' /\ maint'.phase # "None"
  <2>1. maint'.phase = jobs'[j].work
    BY <1>2, <1>4, <1>6
  <2> QED
    BY <1>4, <1>7, <1>9, <2>1
<1> QED
  BY <1>1, <1>2, <1>4, <1>6, <1>8, <1>9, <1>11, <1>12, <1>13, OwnCalm DEF CalmFacts, hostVars

\* Every step of a task.
LEMMA TaskCalm ==
  ASSUME Steady, NEW j \in Jobs, ExecutorStep(j)
  PROVE  Calm'
<1>1. CalmBack(j) /\ CalmEnd(j)
  BY TaskSteady
<1>2. /\ ~RollbackRunner(j) /\ ~RollbackFailed(j) /\ ~ManualJob(j) /\ ~ManualMaint(j)
      /\ ~RecoveryFailed(j) /\ ~RecoveryJobFailed(j) /\ ~RecoveryMaint(j) /\ ~RecoveryCurrent(j)
  BY <1>1
     DEF CalmBack, CalmEnd, RollbackRunner, RollbackFailed, ManualJob, ManualMaint,
         RecoveryFailed, RecoveryJobFailed, RecoveryMaint, RecoveryCurrent, At
<1>3. CASE NoteMaintenance(j) \/ NoteStep(j)
  BY <1>3, NoteMaintenanceCalm, NoteStepCalm
<1>4. CASE UpdateStep(j)
  BY <1>4, PreflightCalm, BeforeMovesOn, ForwardMovesOn, CopySnapshotCalm, NoteSnapshotCalm,
     SwapCalm, CommitCalm, CommitVersionCalm, ResumeCalm
     DEF UpdateStep
<1>5. CASE RollbackStep(j)
  BY <1>2, <1>5, ForwardMovesOn, BackMovesOn, TagsBackCalm, RestoreDataCalm, RestoredCalm,
     FailedCalm
     DEF RollbackStep
<1>6. CASE CleanupStep(j)
  BY <1>2, <1>6, RestoreMovesOn, FailedCalm, ClearMaintCalm, ClearCurrentCalm
     DEF CleanupStep
<1> QED
  BY <1>3, <1>4, <1>5, <1>6 DEF ExecutorStep

\* A task that does not run is where it should be.
LEMMA IdleCalm ==
  ASSUME NEW j \in Jobs, ~ExecutorRunning(j)
  PROVE  CalmTask(j)
BY DEF ExecutorRunning, CalmTask, CalmBefore, CalmForward, CalmBack, CalmEnd, ForwardPoints

\* An update is asked for on an open site, and starts from the recorded release.
LEMMA RequestUpdateCalm ==
  ASSUME Steady, NEW j \in Jobs, NEW target \in Versions, RequestUpdate(j, target)
  PROVE  Calm'
<1>1. /\ TypeOK /\ Grounded /\ CalmFacts /\ CalmRecords /\ Exclusive
  BY DEF Steady, Kept, Safe, Sound, Calm
<1>2. /\ jobs[j].status = "Absent" /\ loop' = j /\ current = NoJob /\ boot.pc = "up"
      /\ UNCHANGED <<current, maint, curVer, report, snaps, hostVars, exec, boot, probe>>
      /\ jobs' = [jobs EXCEPT ![j] = NewUpdate(curVer, target)]
  BY DEF RequestUpdate, Ready, Write, WriteJob
<1>3. OnlyFinishedBehind /\ \A i \in Jobs : ~ExecutorRunning(i)
  BY <1>1, <1>2, NoJobAssumption DEF Exclusive, OwnerRuns, IdleRecords
<1>4. /\ jobs'[j].status = "Pending" /\ jobs'[j].last = "None" /\ jobs'[j].work = "None"
      /\ jobs'[j].from = curVer /\ jobs'[j].to = target /\ jobs'[j].snap = NoJob
      /\ \A i \in Jobs \ {j} : jobs'[i] = jobs[i]
  BY <1>1, <1>2 DEF TypeOK, StateTypeOK, NewUpdate, NoRecord
<1>5. maint.job # j /\ maint.job \in Jobs \cup {NoJob}
  BY <1>1, <1>2, NoJobAssumption
     DEF Grounded, HasFile, TypeOK, StateTypeOK, MaintenanceRecord, JobOrNone
<1>6. CalmFacts'
  <2>1. CalmFile(j)'
    BY <1>1, <1>2, <1>4 DEF CalmFacts, CalmFile, hostVars
  <2>2. ASSUME NEW i \in Jobs \ {j}
        PROVE  CalmFile(i)'
    BY <1>1, <1>2, <1>4 DEF CalmFacts, CalmFile, hostVars
  <2> QED
    BY <1>1, <1>2, <2>1, <2>2 DEF CalmFacts, Rests, Selects, hostVars
<1>7. CalmRecords'
  <2>1. \A i \in Jobs \ {j} : \A phase : Believed(i, phase) => Believed(i, phase)'
    BY <1>2, <1>4 DEF Believed, Prepared, Landed, Rests, Selects, hostVars
  <2> QED
    BY <1>1, <1>2, <1>4, <1>5, <2>1 DEF CalmRecords
<1>8. CalmBoot'
  BY <1>2, <1>3, <1>4, <1>5 DEF CalmBoot, OnlyFinishedBehind
<1>9. \A i \in Jobs : CalmTask(i)'
  BY <1>2, <1>3
     DEF ExecutorRunning, CalmTask, CalmBefore, CalmForward, CalmBack, CalmEnd, ForwardPoints
<1> QED
  BY <1>6, <1>7, <1>8, <1>9 DEF Calm

\* The job admitted is an update that has not started.
LEMMA AdmitCalm ==
  ASSUME Steady, Admit
  PROVE  Calm'
<1> PICK j \in Jobs : j = loop
  BY DEF Steady, Kept, Safe, Sound, Admit, TypeOK, ProcessTypeOK, JobOrNone
<1>1. TypeOK /\ CalmFacts /\ CalmRecords /\ CalmBoot /\ jobs[j].kind = "Update"
  BY TaskSteady DEF Steady, Calm
<1>2. /\ UNCHANGED <<jobs, maint, curVer, report, snaps, hostVars, boot, probe>>
      /\ current' = j /\ loop' = NoJob /\ loop = j /\ boot.pc = "up"
      /\ exec' = [exec EXCEPT ![j] = [NoExecutor EXCEPT !.pc = "Preflight"]]
  BY <1>1 DEF Admit, SetCurrent, FirstPhase
<1>3. NeverStarted(jobs[j]) /\ maint.job # j /\ \A i \in Jobs : ~ExecutorRunning(i)
  BY <1>2, NoJobAssumption DEF Steady, Kept, Safe, Exclusive, Unstarted, OwnerRuns
<1>4. jobs[j].work = "None" /\ jobs[j].status = "Pending"
  BY <1>1, <1>3 DEF NeverStarted, CalmFacts, CalmFile
<1>5. OnlyFinishedBehind /\ jobs[j].from = curVer
  BY <1>1, <1>2, NoJobAssumption DEF CalmBoot
<1>6. Rests
  BY <1>1, <1>5 DEF OnlyFinishedBehind, CalmFacts
<1>7. CalmFacts' /\ Rests'
  BY <1>1, <1>2, <1>6 DEF CalmFacts, CalmFile, Rests, Selects, hostVars
<1>8. CalmRecords'
  <2>1. \A i : \A phase : Believed(i, phase) => Believed(i, phase)'
    BY <1>2 DEF Believed, Prepared, Landed, Rests, Selects, hostVars
  <2>2. Believed(j, jobs[j].work)'
    BY <1>2, <1>4 DEF Believed, PreSwapPhases, RollbackPhases
  <2> QED
    BY <1>1, <1>2, <1>4, <1>5, <2>1, <2>2 DEF CalmRecords, OnlyFinishedBehind
<1>9. \A i \in Jobs \ {j} : CalmTask(i)'
  BY <1>1, <1>2, <1>3
     DEF TypeOK, ProcessTypeOK, ExecutorRunning, CalmTask, CalmBefore, CalmForward, CalmBack,
         CalmEnd, ForwardPoints
<1>10. CalmTask(j)'
  <2>1. exec'[j].pc = "Preflight"
    BY <1>1, <1>2 DEF TypeOK, ProcessTypeOK, NoExecutor
  <2> QED
    BY <1>2, <1>4, <1>5, <1>7, <2>1
       DEF CalmTask, CalmBefore, CalmForward, CalmBack, CalmEnd, ForwardPoints, Inflight
<1>11. CalmBoot'
  BY <1>2 DEF CalmBoot
<1> QED
  BY <1>7, <1>8, <1>9, <1>10, <1>11 DEF Calm

\* A death leaves records and host as they are, and no task.
LEMMA CrashCalm ==
  ASSUME Steady, Crash
  PROVE  Calm'
<1>1. /\ UNCHANGED <<jobs, current, maint, curVer, report, snaps, hostVars>>
      /\ probe' = NoVersion /\ loop' = NoJob /\ boot'.pc = "plan"
      /\ \A i \in Jobs : exec'[i].pc = "idle"
  BY DEF Crash, stateVars, NoExecutor
<1>2. CalmFacts' /\ CalmRecords'
  BY <1>1, QuietCalm DEF Steady, Calm, CalmFacts, hostVars
<1>3. \A i \in Jobs : CalmTask(i)'
  BY <1>1 DEF CalmTask, CalmBefore, CalmForward, CalmBack, CalmEnd, ForwardPoints
<1> QED
  BY <1>1, <1>2, <1>3 DEF Calm, CalmBoot

\* Only a backend on a readable pgdata migrates it.
LEMMA MigrateCalm ==
  ASSUME Steady, Migrate
  PROVE  Calm'
<1>1. TypeOK /\ CalmFacts /\ CalmRecords /\ CalmBoot /\ \A j \in Jobs : CalmTask(j)
  BY DEF Steady, Kept, Safe, Sound, Calm
<1>2. /\ UNCHANGED <<jobs, current, maint, curVer, report, snaps, env, apps, pg,
                     exec, loop, boot, probe>>
      /\ data' = apps /\ apps # Stopped /\ data # Damaged
  BY DEF Migrate, Serving, stateVars, processVars
<1>3. data' # Damaged
  BY <1>1, <1>2, MaxVersionAssumption
     DEF TypeOK, HostTypeOK, VersionOrNone, Versions, NoVersion, Damaged
<1>4. /\ Rests => Rests'
      /\ \A i : Landed(i) => Landed(i)'
      /\ \A i : Prepared(i) => Prepared(i)'
  BY <1>2, <1>3 DEF Rests, Landed, Prepared, Selects
<1>5. \A i : \A phase : Believed(i, phase) => Believed(i, phase)'
  BY <1>2, <1>4 DEF Believed
<1>6. CalmFacts'
  <2>1. \A i \in Jobs : CalmFile(i)'
    BY <1>1, <1>2 DEF CalmFacts, CalmFile
  <2> QED
    BY <1>1, <1>2, <1>3, <1>4, <2>1 DEF CalmFacts
<1>7. CalmRecords'
  BY <1>1, <1>2, <1>5 DEF CalmRecords, OnlyFinishedBehind
<1>8. CalmBoot'
  BY <1>1, <1>2, <1>4 DEF CalmBoot, OnlyFinishedBehind, RecoveryJob
<1>9. ASSUME NEW j \in Jobs
      PROVE  CalmTask(j)'
  <2>1. CalmBefore(j) /\ CalmForward(j) /\ CalmBack(j) /\ CalmEnd(j)
    BY <1>1 DEF CalmTask
  <2>2. CalmBefore(j)' /\ CalmEnd(j)'
    BY <1>2, <1>4, <2>1 DEF CalmBefore, CalmEnd, Recording
  <2>3. CalmForward(j)' /\ CalmBack(j)'
    BY <1>2, <1>3, <1>4, <2>1 DEF CalmForward, CalmBack, ForwardPoints, Recording, Selects
  <2> QED
    BY <2>2, <2>3 DEF CalmTask
<1> QED
  BY <1>6, <1>7, <1>8, <1>9 DEF Calm

\* Nothing to reconcile is read, and a quiet updater changes nothing.
LEMMA IdleStepCalm ==
  ASSUME Steady, ReconcileProbe \/ ReconcileWrite \/ Quiet \/ UNCHANGED vars
  PROVE  Calm'
<1>1. MaxProbes = 0 /\ Calm /\ probe = NoVersion /\ probes \in Nat
  BY DEF Steady, Calm, CalmFacts, Kept, Safe, Sound, TypeOK, BoundTypeOK
<1>2. UNCHANGED vars
  BY <1>1, BoundAssumption DEF ReconcileProbe, ReconcileWrite, Quiet
<1>3. /\ UNCHANGED <<jobs, current, maint, curVer, report, snaps, hostVars, exec, loop, boot>>
      /\ UNCHANGED probe
  BY <1>2 DEF vars, stateVars, processVars
<1>4. CalmFacts' /\ CalmRecords'
  BY <1>3, QuietCalm DEF Steady, Calm, CalmFacts, hostVars
<1>5. CalmBoot'
  BY <1>1, <1>3
     DEF Calm, CalmBoot, OnlyFinishedBehind, RecoveryJob, Rests, Selects, Landed, Prepared,
         hostVars
<1>6. ASSUME NEW j \in Jobs
      PROVE  CalmTask(j)'
  <2>1. CalmTask(j)
    BY <1>1 DEF Calm
  <2> QED
    BY <1>3, <2>1
       DEF CalmTask, CalmBefore, CalmForward, CalmBack, CalmEnd, ForwardPoints, Recording, Rests,
           Selects, Landed, Prepared, hostVars
<1> QED
  BY <1>4, <1>5, <1>6 DEF Calm

\* Recovery starts from a phase one of the two records names, and the host is in it.
LEMMA EffectiveCalm ==
  ASSUME TypeOK, CalmFacts, CalmRecords, NEW id \in Jobs, id = RecoveryJob(maint, current)
  PROVE  LET phase == EffectivePhase(maint, jobs[id])
         IN  /\ phase \in {jobs[id].work, maint.phase} /\ phase # "None"
             /\ phase # "Idle" => Believed(id, phase)
             /\ phase = "Idle" => maint.job = NoJob
             /\ Decisive(jobs[id].work) => Decisive(phase)
             /\ Decisive(maint.phase) => phase = maint.phase
<1> DEFINE job == jobs[id]
<1>1. maint.job = id \/ (maint.job = NoJob /\ current = id /\ maint.phase = "Idle")
  BY DEF RecoveryJob, CalmRecords
<1>2. Believed(id, job.work) /\ job.last = job.work
  BY <1>1, NoJobAssumption DEF CalmRecords, CalmFacts, CalmFile
<1>3. maint.job = id => Believed(id, maint.phase) /\ maint.phase # "None"
  BY NoJobAssumption DEF CalmRecords
<1>4. maint.phase # "NeedsManual" /\ job.work # "Idle"
  BY <1>1, <1>2, <1>3 DEF Believed
<1>5. ~Decisive("None") /\ ~Decisive("Idle")
  BY DEF Decisive, IsPostSwap, IsRollback, PostSwapPhases, RollbackPhases
<1>6. /\ EffectivePhase(maint, job) \in {job.work, maint.phase} \ {"None"}
      /\ Decisive(job.work) => Decisive(EffectivePhase(maint, job))
      /\ Decisive(maint.phase) => EffectivePhase(maint, job) = maint.phase
  BY <1>1, <1>2, <1>3, <1>4, <1>5 DEF EffectivePhase
<1>7. maint.phase = "Idle" => maint.job = NoJob
  BY <1>1, <1>3 DEF Believed
<1> HIDE DEF job
<1> QED
  BY <1>1, <1>2, <1>3, <1>4, <1>6, <1>7 DEF job

\* The plan never is to call for an operator, and what it is to undo or finish is
\* what the host needs.
LEMMA PlanCalm ==
  ASSUME Steady, boot.pc = "plan"
  PROVE  LET id == RecoveryJob(maint, current)
             plan == CrashPlan(maint, current, RecordOf(id), env.tag)
         IN  /\ plan.kind # "NeedsManual"
             /\ plan.kind \in {"FailUnstarted", "ReleaseTerminalCurrent", "FinishRestored",
                               "ClearPreSwap"} => Rests
             /\ plan.kind = "FailUnstarted" => ~maint.active
             /\ plan.kind = "FinishRestored" => id # NoJob /\ jobs[id].status \notin Inflight
             /\ plan.kind = "FinishCommitted" => Landed(id)
             /\ plan.kind = "ClearPreSwap" =>
                  /\ id = current /\ jobs[id].work # "None"
                  /\ ~Resumable(jobs[id].work) /\ ~Resumable(maint.phase)
             /\ plan.kind = "Resume" =>
                  Prepared(id) /\ maint.job = id /\ jobs[id].status \in Inflight
<1> DEFINE id == RecoveryJob(maint, current)
           job == RecordOf(id)
           tag == env.tag
           phase == EffectivePhase(maint, job)
           plan == CrashPlan(maint, current, job, tag)
<1>1. /\ TypeOK /\ Grounded /\ CalmFacts /\ CalmRecords
      /\ \A i \in Jobs : Marked(jobs[i])
  BY BootFiles DEF Steady, Calm, Kept, Safe, Sound
<1>2. id \in Jobs \cup {NoJob}
  BY <1>1 DEF RecoveryJob, TypeOK, StateTypeOK, MaintenanceRecord, JobOrNone
<1>3. ~maint.active => Rests
  BY <1>1 DEF CalmFacts
<1>4. ASSUME plan.kind \in {"FailUnstarted", "ReleaseTerminalCurrent"}
      PROVE  ~maint.active
  BY <1>4 DEF CrashPlan, IsFailUnstarted
<1>5. CASE id = NoJob
  <2>1. plan.kind \in {"Idle", "ClearOrphanMaintenance"}
    BY <1>5 DEF CrashPlan, IsFailUnstarted, IsCommitted, IsRestored, RecordOf, NoRecord
  <2> QED
    BY <2>1
<1>6. CASE id \in Jobs
  <2> USE <1>6
  <2>1. job = jobs[id] /\ id # NoJob
    BY NoJobAssumption DEF RecordOf
  <2>2. /\ phase \in {job.work, maint.phase} /\ phase # "None"
        /\ phase # "Idle" => Believed(id, phase)
        /\ phase = "Idle" => maint.job = NoJob
        /\ Decisive(job.work) => Decisive(phase)
        /\ Decisive(maint.phase) => phase = maint.phase
    BY <1>1, <2>1, EffectiveCalm
  <2>3. maint.job = id \/ (maint.job = NoJob /\ current = id)
    BY DEF RecoveryJob
  <2>4. /\ Believed(id, job.work) /\ CalmFile(id) /\ job.status # "Absent"
        /\ maint.active => maint.job = id /\ job.work # "None"
    BY <1>1, <2>1, <2>3, NoJobAssumption
       DEF CalmRecords, CalmFacts, RecoveryJob, Grounded, HasFile
  <2>5. IsCommitted(job) => Landed(id)
    BY <2>1, <2>4 DEF IsCommitted, CalmFile, Believed
  <2>6. IsRestored(job) => Rests /\ job.status \notin Inflight
    BY <2>1, <2>4 DEF IsRestored, CalmFile, Believed, RollbackPhases, Inflight
  <2> DEFINE live == ~IsCommitted(job) /\ ~IsRestored(job)
             busy == job.status \in Inflight \/ maint.active
             early == phase = "SwapTag" /\ TagUntouched(job, tag) /\ busy
             late == /\ phase # "SwapTag" /\ ~Resumable(phase)
                     /\ IsInterruptedPreSwap(maint, job)
             back == Resumable(phase) /\ busy
  <2>7. phase # "NeedsManual"
    BY <2>2 DEF Believed
  <2>8. /\ plan.kind = "FinishRestored" => IsRestored(job)
        /\ plan.kind = "FinishCommitted" => IsCommitted(job)
        /\ plan.kind = "NeedsManual" => phase = "SwapTag" /\ TagUnexplained(job, tag)
        /\ plan.kind = "ClearPreSwap" => live /\ (early \/ late)
                                        /\ ~IsFailUnstarted(maint, id, job)
        /\ plan.kind = "Resume" =>
             live /\ (back \/ (phase = "SwapTag" /\ TagWritten(job, tag)))
    BY <2>1, <2>7 DEF CrashPlan, IsInterruptedPreSwap, TagUnexplained
  <2> HIDE DEF plan, phase, live, busy, early, late, back, id, job, tag
  <2>9. phase = "SwapTag" =>
          /\ Prepared(id) /\ job.work # "None"
          /\ Rests \/ (tag = job.to /\ job.status \in Inflight)
    BY <2>1, <2>2 DEF Believed, tag, PreSwapPhases
  <2>10. /\ job.from \in Versions /\ job.to \in Versions
         /\ Rests => tag = curVer
         /\ Prepared(id) => job.from = curVer /\ job.to # curVer /\ job.work # "None"
         /\ NoVersion \notin Versions
    BY <2>1, <2>4 DEF CalmFile, Rests, Selects, Prepared, tag, Versions, NoVersion
  <2>11. plan.kind # "NeedsManual"
    BY <2>8, <2>9, <2>10 DEF TagUnexplained, TagWritten, TagUntouched
  <2>12. phase # "Idle" /\ busy => maint.job = id
    BY <1>1, <2>1, <2>2, <2>3, <2>4 DEF busy, CalmRecords, phase, Believed
  <2>13. ASSUME plan.kind = "Resume"
         PROVE  Prepared(id) /\ maint.job = id /\ job.status \in Inflight
    <3>1. CASE phase = "SwapTag" /\ TagWritten(job, tag)
      <4>1. ~Rests
        BY <2>9, <2>10, <3>1 DEF TagWritten
      <4> QED
        BY <1>3, <2>4, <2>9, <3>1, <4>1
    <3>2. CASE back
      <4>1. phase \in PostSwapPhases \cup RollbackPhases /\ busy /\ live
        BY <2>7, <2>8, <2>13, <3>2 DEF back, Resumable, Decisive, IsPostSwap, IsRollback
      <4>2. ~Landed(id) /\ ~IsRestored(job)
        BY <2>1, <4>1 DEF live, Landed
      <4>3. Prepared(id) /\ job.status \in Inflight /\ phase # "Idle"
        BY <2>1, <2>2, <4>1, <4>2 DEF Believed, PostSwapPhases, RollbackPhases
      <4> QED
        BY <2>12, <4>1, <4>3
    <3> QED
      BY <2>8, <2>13, <3>1, <3>2
  <2>14. ASSUME plan.kind = "ClearPreSwap"
         PROVE  /\ Rests /\ id = current /\ job.work # "None"
                /\ ~Resumable(job.work) /\ ~Resumable(maint.phase)
    <3>1. busy
      BY <2>8, <2>14 DEF early, late, busy, IsInterruptedPreSwap
    <3>2. Rests /\ job.work # "None" /\ ~Resumable(job.work) /\ ~Resumable(maint.phase)
      <4>1. CASE early
        <5>1. phase = "SwapTag" /\ Rests /\ job.work # "None"
          BY <2>9, <2>10, <4>1 DEF early, TagUntouched
        <5>2. job.work \in PreSwapPhases \cup {"SwapTag"}
          BY <2>1, <2>2, <5>1 DEF Believed
        <5> QED
          BY <2>2, <5>1, <5>2
             DEF Resumable, Decisive, IsPostSwap, IsRollback, PreSwapPhases, PostSwapPhases,
                 RollbackPhases
      <4>2. CASE late
        <5>1. ~Decisive(phase) /\ ~Decisive(job.work)
          BY <2>2, <4>2 DEF late, Resumable, Decisive, IsPostSwap, IsRollback, PostSwapPhases,
                            RollbackPhases
        <5>2. job.work = "None" => ~maint.active /\ job.status = "Pending" /\ job.last = "None"
          BY <2>1, <2>4 DEF CalmFile
        <5>3. job.work # "None"
          BY <2>1, <2>8, <2>14, <5>2 DEF IsFailUnstarted, NeverStarted
        <5>4. phase # "Idle"
          BY <1>1, <2>1, <2>2, <2>3, <2>4, <3>1, <5>3 DEF CalmRecords, busy
        <5>5. phase \in Phases \ {"None", "Idle"}
          BY <1>1, <2>1, <2>2, <2>12, <3>1, <5>3, <5>4
             DEF TypeOK, StateTypeOK, JobRecord, MaintenanceRecord, CalmRecords
        <5>6. phase \in PreSwapPhases
          BY <5>1, <5>5 DEF Phases, Decisive, IsPostSwap, IsRollback
        <5> QED
          BY <2>2, <5>1, <5>3, <5>4, <5>6 DEF Believed, Resumable
      <4> QED
        BY <2>8, <2>14, <4>1, <4>2
    <3>3. id = current
      <4> SUFFICES ASSUME maint.job = id, id # current
                   PROVE  FALSE
        BY <2>3
      <4>1. current # NoJob
        BY <2>14, PlanChoosesOwner DEF Steady, Kept, plan, id, job, tag
      <4>2. OnlyFinishedBehind
        BY <1>1, <2>1, <4>1 DEF CalmRecords
      <4> QED
        BY <2>1, <3>1, <4>2 DEF OnlyFinishedBehind, busy, Inflight
    <3> QED
      BY <3>2, <3>3
  <2> QED
    BY <1>3, <1>4, <2>1, <2>5, <2>6, <2>8, <2>11, <2>13, <2>14 DEF plan, id, job, tag
<1> QED
  BY <1>2, <1>5, <1>6

\* A step of recovery runs beside no task and no admission.
LEMMA BootCalm ==
  ASSUME Steady, BootStep, UNCHANGED exec, boot.pc # "up", CalmFacts', CalmRecords', CalmBoot'
  PROVE  Calm'
<1>1. \A i \in Jobs : ~ExecutorRunning(i)
  BY BootFiles DEF Steady
<1>2. \A i \in Jobs : CalmTask(i)'
  BY <1>1
     DEF ExecutorRunning, CalmTask, CalmBefore, CalmForward, CalmBack, CalmEnd, ForwardPoints
<1> QED
  BY <1>2 DEF Calm

\* What the steps of recovery may assume.
LEMMA BootSteady ==
  ASSUME Steady, boot.pc # "up"
  PROVE  /\ TypeOK /\ Grounded /\ Exclusive /\ RecoveryRecorded /\ loop = NoJob
         /\ CalmFacts /\ CalmRecords /\ CalmBoot
         /\ boot.pc \in JobPoints =>
              /\ boot.job \in Jobs /\ jobs[boot.job].status # "Absent"
              /\ boot.job = RecoveryJob(maint, current)
              /\ maint.job = boot.job \/ (maint.job = NoJob /\ current = boot.job)
<1>1. /\ TypeOK /\ Grounded /\ Exclusive /\ RecoveryRecorded /\ loop = NoJob
      /\ CalmFacts /\ CalmRecords /\ CalmBoot
  BY BootFiles DEF Steady, Calm
<1>2. ASSUME boot.pc \in JobPoints
      PROVE  /\ boot.job \in Jobs /\ jobs[boot.job].status # "Absent"
             /\ boot.job = RecoveryJob(maint, current)
  BY <1>1, <1>2 DEF Grounded, HasFile, RecoveryRecorded, TypeOK, ProcessTypeOK, JobOrNone
<1> QED
  BY <1>1, <1>2 DEF RecoveryJob

\* The plan sends recovery where the host is.
LEMMA BootPlanCalm ==
  ASSUME Steady, BootStep, BootPlan
  PROVE  Calm'
<1> DEFINE id == RecoveryJob(maint, current)
           plan == CrashPlan(maint, current, RecordOf(id), env.tag)
           kind == plan.kind
<1>1. /\ boot.pc = "plan" /\ UNCHANGED <<jobs, current, maint, curVer, report, snaps, exec>>
      /\ UNCHANGED <<hostVars, loop, probe>>
      /\ boot' = [pc |-> FirstBootPoint[kind], job |-> plan.job, rollback |-> plan.rollback]
  BY NoFailure DEF BootPlan, BootStep, stateVars
<1>2. kind \in PlanKinds
  BY DEF CrashPlan, PlanKinds
<1>3. /\ kind # "NeedsManual"
      /\ kind \in {"FailUnstarted", "ReleaseTerminalCurrent", "FinishRestored", "ClearPreSwap"}
           => Rests
      /\ kind = "FailUnstarted" => ~maint.active
      /\ kind = "FinishRestored" => id # NoJob /\ jobs[id].status \notin Inflight
      /\ kind = "FinishCommitted" => Landed(id)
      /\ kind = "ClearPreSwap" =>
           /\ id = current /\ jobs[id].work # "None"
           /\ ~Resumable(jobs[id].work) /\ ~Resumable(maint.phase)
      /\ kind = "Resume" => Prepared(id) /\ maint.job = id /\ jobs[id].status \in Inflight
  BY <1>1, PlanCalm
<1>4. boot'.pc = FirstBootPoint[kind] /\ boot'.job = id
  BY <1>1, PlanRecorded DEF Steady
<1> HIDE DEF plan, kind
<1>5. /\ boot'.pc = "failUnstarted" => kind = "FailUnstarted"
      /\ boot'.pc = "clearMaint" => kind = "FinishRestored"
      /\ boot'.pc = "clearCurrent" => kind = "ReleaseTerminalCurrent"
      /\ boot'.pc = "commitVersion" => kind = "FinishCommitted"
      /\ boot'.pc = "failPreSwap" => kind = "ClearPreSwap"
      /\ boot'.pc = "reviveMaint" => kind = "Resume"
      /\ boot'.pc \notin {"serveRestore", "serveResume", "manualJob", "manualMaint",
                          "manualCurrent", "reviveCurrent"}
  BY <1>2, <1>3, <1>4 DEF FirstBootPoint, PlanKinds
<1>6. CalmFacts' /\ CalmRecords' /\ loop' = NoJob
  BY <1>1, QuietCalm, BootSteady DEF CalmFacts, hostVars
<1>7. CalmBoot'
  BY <1>1, <1>3, <1>4, <1>5, <1>6
     DEF CalmBoot, Rests, Selects, Prepared, Landed, RecoveryJob, hostVars
<1> QED
  BY <1>1, <1>6, <1>7, BootCalm

\* A job that never started has failed, and left the host alone.
LEMMA BootFailUnstartedCalm ==
  ASSUME Steady, BootStep, BootFailUnstarted
  PROVE  Calm'
<1>1. boot.pc = "failUnstarted" /\ boot.pc \in JobPoints
  BY DEF BootFailUnstarted, JobPoints
<1> PICK b \in Jobs : b = boot.job
  BY <1>1, BootSteady
<1>2. /\ TypeOK /\ Exclusive /\ CalmFacts /\ CalmRecords /\ jobs[b].status # "Absent"
      /\ maint.job = b \/ (maint.job = NoJob /\ current = b)
      /\ b = RecoveryJob(maint, current) /\ loop = NoJob
      /\ Rests /\ ~maint.active
  <2>1. CalmBoot
    BY <1>1, BootSteady
  <2> QED
    BY <1>1, <2>1, BootSteady DEF CalmBoot
<1>3. /\ UNCHANGED <<current, maint, curVer, report, snaps, hostVars, exec, loop, probe>>
      /\ boot'.pc = "clearMaint" /\ boot'.job = b
  BY <1>2 DEF BootFailUnstarted, BootStep, BootGoto, WriteJob, TypeOK, ProcessTypeOK
<1>4. /\ jobs'[b] = [jobs[b] EXCEPT !.status = "Failed", !.last = "Preflight",
                                    !.work = "Preflight", !.ok = FALSE]
      /\ \A i \in Jobs \ {b} : jobs'[i] = jobs[i]
      /\ jobs[b] \in JobRecord
  BY <1>2 DEF BootFailUnstarted, WriteJob, TypeOK, StateTypeOK
<1>5. /\ jobs'[b].status = "Failed" /\ jobs'[b].last = "Preflight" /\ jobs'[b].work = "Preflight"
      /\ jobs'[b].from = jobs[b].from /\ jobs'[b].to = jobs[b].to /\ jobs'[b].snap = jobs[b].snap
  BY <1>4 DEF JobRecord
<1>6. maint.job = b => maint.phase = "Preflight"
  BY <1>2, NoJobAssumption DEF Exclusive, OpenOnlyInPreflight, LeftBehind
<1>7. Rests'
  BY <1>2, <1>3 DEF Rests, Selects, hostVars
<1>8. Believed(b, jobs[b].work)' /\ (maint.job = b => Believed(b, maint.phase)')
  BY <1>3, <1>5, <1>6, <1>7 DEF Believed, PreSwapPhases, RollbackPhases
<1>9. CalmRecords'
  <2>1. current \in Jobs \cup {NoJob}
    BY <1>2 DEF TypeOK, StateTypeOK, JobOrNone
  <2> QED
    BY <1>2, <1>3, <1>4, <1>5, <1>6, <1>8, <2>1, NoJobAssumption
       DEF CalmRecords, OnlyFinishedBehind, Inflight
<1>10. CalmFacts'
  <2>1. CalmFile(b)'
    BY <1>2, <1>3, <1>5 DEF CalmFacts, CalmFile
  <2>2. ASSUME NEW i \in Jobs \ {b}
        PROVE  CalmFile(i)'
    BY <1>2, <1>3, <1>4 DEF CalmFacts, CalmFile
  <2> QED
    BY <1>2, <1>3, <1>7, <2>1, <2>2 DEF CalmFacts, hostVars
<1>11. CalmBoot'
  BY <1>2, <1>3, <1>5, <1>7, NoJobAssumption DEF CalmBoot, RecoveryJob, Inflight
<1> QED
  BY <1>1, <1>3, <1>9, <1>10, <1>11, BootCalm

\* A committed update gets its version recorded.
LEMMA BootCommitVersionCalm ==
  ASSUME Steady, BootStep, BootCommitVersion
  PROVE  Calm'
<1>1. boot.pc = "commitVersion" /\ boot.pc \in JobPoints
  BY DEF BootCommitVersion, JobPoints
<1> PICK b \in Jobs : b = boot.job
  BY <1>1, BootSteady
<1>2. /\ TypeOK /\ CalmFacts /\ CalmRecords /\ loop = NoJob
      /\ maint.job = b \/ (maint.job = NoJob /\ current = b)
      /\ b = RecoveryJob(maint, current) /\ Landed(b)
  <2>1. CalmBoot
    BY <1>1, BootSteady
  <2> QED
    BY <1>1, <2>1, BootSteady DEF CalmBoot
<1>3. /\ UNCHANGED <<jobs, current, maint, report, snaps, hostVars, exec, loop, probe>>
      /\ boot'.pc = "clearMaint" /\ boot'.job = b /\ curVer' = jobs[b].to
  BY <1>2 DEF BootCommitVersion, BootStep, BootGoto, WriteUpdater, TypeOK, ProcessTypeOK
<1>4. /\ curVer' \in Versions /\ Rests'
      /\ \A phase : Believed(b, phase) => Believed(b, phase)'
  BY <1>2, <1>3, LandedRecorded DEF CalmFacts, hostVars
<1>5. CalmFacts'
  BY <1>2, <1>3, <1>4 DEF CalmFacts, CalmFile, hostVars
<1>6. CalmRecords'
  BY <1>2, <1>3, <1>4, NoJobAssumption DEF CalmRecords, OnlyFinishedBehind
<1>7. CalmBoot'
  BY <1>2, <1>3, <1>4, NoJobAssumption
     DEF CalmBoot, RecoveryJob, Landed, IsCommitted, Inflight
<1> QED
  BY <1>1, <1>3, <1>5, <1>6, <1>7, BootCalm

\* Maintenance is cleared, then the pointer.
LEMMA BootClearCalm ==
  ASSUME Steady, BootStep, BootClearMaint \/ BootClearCurrent
  PROVE  Calm'
<1>1. boot.pc \in {"clearMaint", "clearCurrent"}
  BY DEF BootClearMaint, BootClearCurrent
<1>2. /\ TypeOK /\ CalmFacts /\ CalmRecords /\ CalmBoot /\ loop = NoJob /\ Rests
  <2>1. CalmBoot
    BY <1>1, BootSteady
  <2> QED
    BY <1>1, <2>1, BootSteady DEF CalmBoot
<1>3. CASE BootClearMaint
  <2>1. /\ UNCHANGED <<jobs, current, curVer, report, snaps, hostVars, exec, loop, probe>>
        /\ boot'.pc = "clearCurrent" /\ maint' = InactiveMaintenance /\ boot.pc = "clearMaint"
    BY <1>2, <1>3 DEF BootClearMaint, BootStep, BootGoto, WriteMaint, TypeOK, ProcessTypeOK
  <2>2. \A i : \A phase : Believed(i, phase) => Believed(i, phase)'
    BY <2>1 DEF Believed, Prepared, Landed, Rests, Selects, hostVars
  <2>3. current # NoJob =>
          /\ Believed(current, jobs[current].work)
          /\ jobs[current].status \in Inflight => jobs[current].work = "None"
    <3>1. /\ boot.job # NoJob /\ boot.job = RecoveryJob(maint, current)
          /\ jobs[boot.job].status \notin Inflight
      BY <1>2, <2>1 DEF CalmBoot
    <3>2. CASE maint.job \in {NoJob, current}
      BY <1>2, <3>1, <3>2 DEF CalmRecords, RecoveryJob
    <3>3. CASE maint.job \notin {NoJob, current}
      BY <1>2, <3>3 DEF CalmRecords, Believed, PreSwapPhases, RollbackPhases
    <3> QED
      BY <3>2, <3>3
  <2>4. CalmRecords'
    BY <2>1, <2>2, <2>3 DEF CalmRecords, InactiveMaintenance
  <2>5. Rests' /\ CalmFacts'
    BY <1>2, <2>1 DEF CalmFacts, CalmFile, Rests, Selects, hostVars
  <2>6. CalmBoot'
    BY <1>2, <2>1, <2>5 DEF CalmBoot
  <2> QED
    BY <1>1, <2>1, <2>4, <2>5, <2>6, BootCalm
<1>4. CASE BootClearCurrent
  <2>1. /\ UNCHANGED <<jobs, maint, curVer, report, snaps, hostVars, exec, loop, probe>>
        /\ boot'.pc = "serve" /\ current' = NoJob
    BY <1>2, <1>4 DEF BootClearCurrent, BootStep, BootGoto, SetCurrent, TypeOK, ProcessTypeOK
  <2>2. \A i : \A phase : Believed(i, phase) => Believed(i, phase)'
    BY <2>1 DEF Believed, Prepared, Landed, Rests, Selects, hostVars
  <2>3. CalmRecords'
    BY <1>2, <2>1, <2>2 DEF CalmRecords
  <2>4. CalmFacts'
    BY <1>2, <2>1 DEF CalmFacts, CalmFile, Rests, Selects, hostVars
  <2>5. CalmBoot'
    BY <1>2, <2>1 DEF CalmBoot
  <2> QED
    BY <1>1, <2>1, <2>3, <2>4, <2>5, BootCalm
<1> QED
  BY <1>3, <1>4

\* A job that had not swapped the tag ends, before its services are restored.
LEMMA BootFailPreSwapCalm ==
  ASSUME Steady, BootStep, BootFailPreSwap
  PROVE  Calm'
<1>1. boot.pc = "failPreSwap" /\ boot.pc \in JobPoints
  BY DEF BootFailPreSwap, JobPoints
<1> PICK b \in Jobs : b = boot.job
  BY <1>1, BootSteady
<1>2. /\ TypeOK /\ CalmFacts /\ CalmRecords /\ jobs[b].status # "Absent"
      /\ maint.job = b \/ (maint.job = NoJob /\ current = b)
      /\ Rests /\ current = b /\ jobs[b].work # "None" /\ loop = NoJob
      /\ ~Resumable(jobs[b].work) /\ ~Resumable(maint.phase)
  <2>1. CalmBoot
    BY <1>1, BootSteady
  <2> QED
    BY <1>1, <2>1, BootSteady DEF CalmBoot
<1>3. /\ UNCHANGED <<current, maint, curVer, report, snaps, hostVars, exec, loop, probe>>
      /\ boot'.pc = "serveRestore" /\ boot'.job = b
  BY <1>2 DEF BootFailPreSwap, BootStep, BootGoto, WriteJob, TypeOK, ProcessTypeOK
<1>4. /\ jobs'[b] = [jobs[b] EXCEPT
           !.status = IF @ \in {"Pending", "Running"} THEN "Failed" ELSE @]
      /\ \A i \in Jobs \ {b} : jobs'[i] = jobs[i]
      /\ jobs[b] \in JobRecord
  BY <1>2 DEF BootFailPreSwap, WriteJob, TypeOK, StateTypeOK
<1>5. /\ jobs'[b].status =
           IF jobs[b].status \in {"Pending", "Running"} THEN "Failed" ELSE jobs[b].status
      /\ jobs'[b].last = jobs[b].last /\ jobs'[b].ok = jobs[b].ok
      /\ jobs'[b].work = jobs[b].work /\ jobs'[b].from = jobs[b].from
      /\ jobs'[b].kind = jobs[b].kind /\ jobs'[b].to = jobs[b].to /\ jobs'[b].snap = jobs[b].snap
  BY <1>4 DEF JobRecord
<1>6. /\ jobs'[b].status \notin Inflight /\ Rests' /\ CalmFile(b) /\ CalmFile(b)'
  <2>1. CalmFile(b)
    BY <1>2 DEF CalmFacts
  <2> QED
    BY <1>2, <1>3, <1>5, <2>1 DEF CalmFile, Rests, Selects, Inflight, hostVars
<1>7. ASSUME NEW phase \in {jobs[b].work, maint.phase}, Believed(b, phase)
      PROVE  Believed(b, phase)'
  <2>1. phase \notin PostSwapPhases \cup RollbackPhases
    <3>1. ~Resumable(phase)
      BY <1>2
    <3> QED
      BY <3>1
         DEF Resumable, Decisive, IsPostSwap, IsRollback, PostSwapPhases, RollbackPhases
  <2>2. Prepared(b) => Prepared(b)'
    BY <1>3, <1>5 DEF Prepared
  <2>3. phase \notin {"Idle", "NeedsManual"} /\ (phase = "SwapTag" => Prepared(b))
    BY <1>7 DEF Believed
  <2> QED
    BY <1>5, <1>6, <1>7, <2>1, <2>2, <2>3 DEF Believed, PostSwapPhases
<1>8. CalmRecords'
  BY <1>2, <1>3, <1>5, <1>6, <1>7, NoJobAssumption DEF CalmRecords
<1>9. CalmFacts'
  <2>1. ASSUME NEW i \in Jobs \ {b}
        PROVE  CalmFile(i)'
    BY <1>2, <1>3, <1>4 DEF CalmFacts, CalmFile
  <2> QED
    BY <1>2, <1>3, <1>6, <2>1 DEF CalmFacts, hostVars
<1>10. CalmBoot'
  BY <1>2, <1>3, <1>6 DEF CalmBoot
<1> QED
  BY <1>1, <1>3, <1>8, <1>9, <1>10, BootCalm

\* The site closes before an interrupted update is taken up again.
LEMMA BootReviveMaintCalm ==
  ASSUME Steady, BootStep, BootReviveMaint
  PROVE  Calm'
<1>1. boot.pc = "reviveMaint" /\ boot.pc \in JobPoints
  BY DEF BootReviveMaint, JobPoints
<1> PICK b \in Jobs : b = boot.job
  BY <1>1, BootSteady
<1>2. /\ TypeOK /\ CalmFacts /\ CalmRecords /\ loop = NoJob
      /\ Prepared(b) /\ maint.job = b /\ jobs[b].status \in Inflight
  <2>1. CalmBoot
    BY <1>1, BootSteady
  <2> QED
    BY <1>1, <2>1, BootSteady DEF CalmBoot
<1>3. /\ UNCHANGED <<jobs, current, curVer, report, snaps, hostVars, exec, loop, probe>>
      /\ boot'.pc = "reviveCurrent" /\ boot'.job = b
      /\ maint'.active /\ maint'.job = maint.job /\ maint'.phase = maint.phase
  BY <1>2 DEF BootReviveMaint, BootStep, BootGoto, WriteMaint, TypeOK, ProcessTypeOK, StateTypeOK,
              MaintenanceRecord
<1>4. /\ Prepared(b)'
      /\ \A i : \A phase : Believed(i, phase) => Believed(i, phase)'
  BY <1>2, <1>3 DEF Believed, Prepared, Landed, Rests, Selects, hostVars
<1>5. current \in {b, NoJob}
  BY <1>2, NoJobAssumption DEF CalmRecords, OnlyFinishedBehind, Inflight
<1>6. CalmRecords'
  BY <1>2, <1>3, <1>4, <1>5, NoJobAssumption DEF CalmRecords, Prepared
<1>7. CalmFacts'
  BY <1>2, <1>3 DEF CalmFacts, CalmFile, hostVars
<1>8. CalmBoot'
  BY <1>2, <1>3, <1>4 DEF CalmBoot
<1> QED
  BY <1>1, <1>3, <1>6, <1>7, <1>8, BootCalm

\* The pointer follows the record before the task is spawned.
LEMMA BootReviveCurrentCalm ==
  ASSUME Steady, BootStep, BootReviveCurrent
  PROVE  Calm'
<1>1. boot.pc = "reviveCurrent" /\ boot.pc \in JobPoints
  BY DEF BootReviveCurrent, JobPoints
<1> PICK b \in Jobs : b = boot.job
  BY <1>1, BootSteady
<1>2. /\ TypeOK /\ CalmFacts /\ CalmRecords /\ loop = NoJob
      /\ Prepared(b) /\ maint.job = b /\ jobs[b].status \in Inflight
  <2>1. CalmBoot
    BY <1>1, BootSteady
  <2> QED
    BY <1>1, <2>1, BootSteady DEF CalmBoot
<1>3. /\ UNCHANGED <<jobs, maint, curVer, report, snaps, hostVars, exec, loop, probe>>
      /\ boot'.pc = "serveResume" /\ boot'.job = b /\ current' = b
  BY <1>2 DEF BootReviveCurrent, BootStep, BootGoto, SetCurrent, TypeOK, ProcessTypeOK
<1>4. /\ Prepared(b)'
      /\ \A i : \A phase : Believed(i, phase) => Believed(i, phase)'
  BY <1>2, <1>3 DEF Believed, Prepared, Landed, Rests, Selects, hostVars
<1>5. CalmRecords'
  BY <1>2, <1>3, <1>4, NoJobAssumption DEF CalmRecords
<1>6. CalmFacts'
  BY <1>2, <1>3 DEF CalmFacts, CalmFile, Rests, Selects, hostVars
<1>7. CalmBoot'
  BY <1>2, <1>3, <1>4 DEF CalmBoot
<1> QED
  BY <1>1, <1>3, <1>5, <1>6, <1>7, BootCalm

\* The process serves, and the task recovery left can finish what it takes up.
LEMMA ServeCalm ==
  ASSUME Steady, BootStep, Serve
  PROVE  Calm'
<1>1. /\ boot.pc \in {"serve", "serveRestore", "serveResume"} /\ boot'.pc = "up"
      /\ UNCHANGED <<jobs, current, maint, curVer, report, snaps, hostVars, loop, probe>>
  BY DEF Steady, Kept, Safe, Sound, Serve, BootStep, stateVars, TypeOK, ProcessTypeOK
<1>2. /\ loop = NoJob /\ TypeOK /\ Exclusive /\ CalmFacts /\ CalmRecords /\ CalmBoot
      /\ \A i \in Jobs : ~ExecutorRunning(i)
  BY <1>1, BootFiles, BootSteady DEF Steady
<1>3. CalmFacts' /\ CalmRecords'
  BY <1>1, <1>2, QuietCalm DEF CalmFacts, hostVars
<1>4. CalmBoot'
  BY <1>1, <1>2 DEF CalmBoot
<1>5. ASSUME NEW i \in Jobs, exec'[i] = exec[i]
      PROVE  CalmTask(i)'
  BY <1>2, <1>5
     DEF ExecutorRunning, CalmTask, CalmBefore, CalmForward, CalmBack, CalmEnd, ForwardPoints
<1>6. CASE boot.pc = "serve"
  <2>1. UNCHANGED exec
    BY <1>6 DEF Serve
  <2> QED
    BY <1>3, <1>4, <1>5, <2>1 DEF Calm
<1>7. CASE boot.pc = "serveRestore"
  <2> PICK b \in Jobs : b = boot.job
    BY <1>7, BootSteady DEF JobPoints
  <2>1. /\ b = current /\ Rests /\ jobs[b].status \notin Inflight
    BY <1>2, <1>7 DEF CalmBoot
  <2>2. /\ \A i \in Jobs \ {b} : exec'[i] = exec[i]
        /\ exec'[b].pc = "preSwapCompose" /\ exec'[b].recovering
    <3>1. Spawn(b, "preSwapCompose", "AppAndPostgres")
      BY <1>7, <2>1, NoJobAssumption DEF Serve
    <3> QED
      BY <3>1, <1>2 DEF Spawn, NoExecutor, TypeOK, ProcessTypeOK
  <2>3. CalmTask(b)'
    BY <1>1, <2>1, <2>2
       DEF CalmTask, CalmBefore, CalmForward, CalmBack, CalmEnd, ForwardPoints, Rests, Selects,
           hostVars
  <2> QED
    BY <1>3, <1>4, <1>5, <2>2, <2>3 DEF Calm
<1>8. CASE boot.pc = "serveResume"
  <2> PICK b \in Jobs : b = boot.job
    BY <1>8, BootSteady DEF JobPoints
  <2>1. /\ Prepared(b) /\ maint.job = b /\ maint.active /\ jobs[b].status \in Inflight
        /\ jobs[b].kind = "Update"
    BY <1>2, <1>8, TaskSteady DEF CalmBoot, Exclusive, RecoveryOwns
  <2>2. /\ \A i \in Jobs \ {b} : exec'[i] = exec[i]
        /\ exec'[b].pc \in {"resumeBack", "resumeForward"}
    <3>1. Spawn(b, ResumePoint(jobs[b], boot.rollback), "None")
      BY <1>8 DEF Serve
    <3> QED
      BY <3>1, <1>2, <2>1 DEF Spawn, ResumePoint, NoExecutor, TypeOK, ProcessTypeOK
  <2>3. /\ Prepared(b)' /\ maint'.job = b /\ maint'.active /\ jobs'[b].status \in Inflight
    BY <1>1, <2>1 DEF Prepared, hostVars
  <2>4. CalmTask(b)'
    BY <2>2, <2>3 DEF CalmTask, CalmBefore, CalmForward, CalmBack, CalmEnd, ForwardPoints
  <2> QED
    BY <1>3, <1>4, <1>5, <2>2, <2>4 DEF Calm
<1> QED
  BY <1>1, <1>6, <1>7, <1>8

\* So recovery never calls for an operator.
LEMMA BootStepCalm ==
  ASSUME Steady, BootStep
  PROVE  Calm'
<1>1. ~BootFreeze
  BY BootSteady DEF BootFreeze, Exclusive, RecoveryOwns
<1>2. boot.pc # "up" => CalmBoot
  BY BootSteady
<1>3. ~BootManualJob /\ ~BootManualMaint /\ ~BootManualCurrent
  BY <1>2 DEF BootManualJob, BootManualMaint, BootManualCurrent, CalmBoot
<1> QED
  BY <1>1, <1>3, BootPlanCalm, BootFailUnstartedCalm, BootCommitVersionCalm, BootClearCalm,
     BootFailPreSwapCalm, BootReviveMaintCalm, BootReviveCurrentCalm, ServeCalm
     DEF BootStep

-----------------------------------------------------------------------------
(***************************************************************************)
(* What a deployment where only the updater dies can rely on.              *)
(***************************************************************************)
\* What every state of an updater that reconciles nothing has.
Trusty == MaxProbes = 0 /\ Kept /\ CalmFits

LEMMA InitCalm ==
  ASSUME Init
  PROVE  CalmFits
<1>1. /\ jobs = [j \in Jobs |-> NoRecord] /\ exec = [j \in Jobs |-> NoExecutor]
      /\ report = [j \in Jobs |-> NoReport] /\ snaps = [j \in Jobs |-> NoSnapshot]
      /\ current = NoJob /\ maint = InactiveMaintenance /\ boot.pc = "up" /\ loop = NoJob
      /\ curVer = 1 /\ env = [tag |-> 1, proxy |-> 1] /\ data = 1 /\ probe = NoVersion /\ pg
  BY DEF Init
<1>2. 1 \in Versions /\ data # Damaged
  BY <1>1, MaxVersionAssumption DEF Versions, Damaged
<1>3. CalmFacts
  <2>1. \A j \in Jobs : CalmFile(j)
    BY <1>1 DEF CalmFile, NoRecord, NoReport, NoSnapshot
  <2> QED
    BY <1>1, <1>2, <2>1 DEF CalmFacts, Rests, Selects
<1>4. CalmRecords /\ CalmBoot
  BY <1>1 DEF CalmRecords, CalmBoot, InactiveMaintenance
<1>5. \A j \in Jobs : CalmTask(j)
  BY <1>1, IdleCalm DEF ExecutorRunning, NoExecutor
<1>6. \A j \in Jobs : jobs[j].kind = "Update"
  BY <1>1 DEF NoRecord
<1> QED
  BY <1>3, <1>4, <1>5, <1>6 DEF CalmFits, Calm

\* No job's kind changes, and none of the files goes.
SameKinds ==
  \A i \in Jobs : /\ jobs'[i].kind = jobs[i].kind
                  /\ jobs'[i].status = "Absent" => jobs[i].status = "Absent"

LEMMA KindWritten ==
  ASSUME TypeOK, NEW j \in Jobs, NEW record, WriteJob(j, record),
         record.kind = jobs[j].kind, record.status = "Absent" => jobs[j].status = "Absent"
  PROVE  SameKinds
BY DEF TypeOK, StateTypeOK, WriteJob, SameKinds

LEMMA TaskKeepsKind ==
  ASSUME TypeOK, Grounded, NEW j \in Jobs, ExecutorStep(j)
  PROVE  SameKinds
<1>1. \/ UNCHANGED jobs
      \/ NoteStep(j) \/ NoteSnapshot(j) \/ Commit(j) \/ ResumeUpdate(j) \/ OldStarted(j)
      \/ RollbackDone(j) \/ (RollbackFailed(j) /\ jobs[j].kind = "Update")
      \/ FinalizeFailed(j) \/ ManualJob(j) \/ RecoveryJobFailed(j)
  <2>1. CASE NoteMaintenance(j) \/ NoteStep(j)
    BY <2>1 DEF NoteMaintenance, WriteMaint
  <2>2. CASE UpdateStep(j)
    BY <2>2
       DEF UpdateStep, stateVars, Preflight, BuildRunner, StopApps, SkipSnapshot, StopPostgres,
           CopySnapshot, StartPostgres, InstallCompose, SwapTag, SwapProxyTag, Verify, StartNew,
           ProbeHealth, CommitVersion, WriteUpdater, ReinstallCompose
  <2>3. CASE RollbackStep(j)
    BY <2>3
       DEF RollbackStep, stateVars, Revert, WriteMaint, RollbackRunner, PlanComposeRestore,
           StopNew, RestoreCompose, RestoreProxyTag, SwapTagBack, SkipRestore, StopForRestore,
           WipeData, RefillData, StartRestored, StartOld, OldHealth, RecordRestored,
           WriteUpdater, RollbackFailed
  <2>4. CASE CleanupStep(j)
    BY <2>4
       DEF CleanupStep, stateVars, PreSwapCompose, PreSwapUp, ManualMaint, ClearMaint,
           ClearCurrent, RecoveryFailed, RecoveryMaint, RecoveryCurrent, WriteMaint, SetCurrent
  <2> QED
    BY <2>1, <2>2, <2>3, <2>4 DEF ExecutorStep
<1>2. jobs[j] \in JobRecord
  BY DEF TypeOK, StateTypeOK
<1>3. jobs'[j].kind = jobs[j].kind
  <2>1. CASE NoteStep(j)
    <3>1. jobs'[j] = [jobs[j] EXCEPT
             !.last = exec[j].pc, !.work = exec[j].pc, !.ok = FALSE,
             !.status = IF @ = "Pending" THEN "Running" ELSE @]
      BY <2>1 DEF NoteStep, WriteJob, TypeOK, StateTypeOK
    <3> QED
      BY <1>2, <3>1 DEF JobRecord
  <2>2. CASE NoteSnapshot(j) \/ Commit(j) \/ ResumeUpdate(j) \/ OldStarted(j)
    BY <1>2, <2>2
       DEF TypeOK, StateTypeOK, JobRecord, WriteJob, NoteSnapshot, Commit, ResumeUpdate,
           OldStarted
  <2>3. CASE RollbackDone(j) \/ (RollbackFailed(j) /\ jobs[j].kind = "Update")
    BY <1>2, <2>3 DEF TypeOK, StateTypeOK, JobRecord, WriteJob, RollbackDone, RollbackFailed
  <2>4. CASE FinalizeFailed(j) \/ ManualJob(j) \/ RecoveryJobFailed(j)
    BY <1>2, <2>4
       DEF TypeOK, StateTypeOK, JobRecord, WriteJob, FinalizeFailed, ManualJob,
           RecoveryJobFailed
  <2> QED
    BY <1>1, <2>1, <2>2, <2>3, <2>4
<1>4. \A i \in Jobs \ {j} : jobs'[i] = jobs[i]
  BY TaskAdvances DEF Advance, KeepsRecords
<1> QED
  BY <1>3, <1>4, TaskAdvances DEF Advance, KeepsRecords, SameKinds

LEMMA BootKeepsKind ==
  ASSUME TypeOK, Grounded, BootStep
  PROVE  SameKinds
<1>1. \/ UNCHANGED jobs
      \/ BootFailUnstarted \/ BootManualJob \/ BootFailPreSwap
  BY DEF BootStep, stateVars, BootPlan, BootCommitVersion, BootClearMaint, BootClearCurrent,
         BootManualMaint, BootManualCurrent, BootReviveMaint, BootReviveCurrent, BootFreeze,
         Serve, WriteUpdater, WriteMaint, SetCurrent
<1>2. CASE BootFailUnstarted \/ BootManualJob \/ BootFailPreSwap
  <2> PICK b \in Jobs : b = boot.job
    BY <1>2
       DEF Grounded, TypeOK, ProcessTypeOK, JobOrNone, JobPoints, BootFailUnstarted,
           BootManualJob, BootFailPreSwap
  <2>1. jobs[b] \in JobRecord
    BY DEF TypeOK, StateTypeOK
  <2> QED
    BY <1>2, <2>1, KindWritten
       DEF JobRecord, BootFailUnstarted, BootManualJob, BootFailPreSwap
<1> QED
  BY <1>1, <1>2 DEF SameKinds

\* A job keeps its kind from its request on, and no failure is forgotten: what has gone
\* well after a step had gone well before it.
LEMMA CalmBefores ==
  ASSUME TypeOK, Grounded, \A j \in Jobs : jobs[j].status = "Absent" => jobs[j].kind = "Update",
         [PatientNext]_vars
  PROVE  /\ \A j \in Jobs : jobs'[j].status = "Absent" => jobs'[j].kind = "Update"
         /\ OnlyCrashes' => OnlyCrashes
<1>1. Succeeds \/ Fails
  <2>1. CASE \E j \in Jobs : ExecutorStep(j)
    BY <2>1, TaskRuns
  <2>2. CASE Admit \/ ReconcileProbe \/ ReconcileWrite \/ Crash \/ Migrate \/ Quiet
             \/ UNCHANGED vars
    BY <2>2
       DEF Admit, ReconcileProbe, ReconcileWrite, Crash, Migrate, Quiet, vars, boundVars,
           Succeeds
  <2>3. CASE BootStep
    BY <2>3
       DEF BootStep, BootPlan, BootFailUnstarted, BootCommitVersion, BootClearMaint,
           BootClearCurrent, BootManualJob, BootManualMaint, BootManualCurrent,
           BootFailPreSwap, BootReviveMaint, BootReviveCurrent, BootFreeze, Serve, BootGoto
  <2>4. CASE RequestAnyUpdate \/ RequestAnyRollback
    BY <2>4
       DEF RequestAnyUpdate, RequestAnyRollback, RequestUpdate, RequestRollback, Write,
           boundVars, Succeeds
  <2> QED
    BY <2>1, <2>2, <2>3, <2>4 DEF PatientNext, Internal
<1>2. faults' = 0 => faults = 0
  BY <1>1 DEF Succeeds, Fails, TypeOK, BoundTypeOK
<1>3. CASE RequestAnyUpdate \/ RequestAnyRollback
  <2>1. PICK j \in Jobs :
          /\ jobs[j].status = "Absent" /\ jobs'[j].status # "Absent"
          /\ \A i \in Jobs \ {j} : jobs'[i] = jobs[i]
    <3>1. \A v, w : NewUpdate(v, w).status # "Absent" /\ NewRollback(v, w).status # "Absent"
      BY DEF NewUpdate, NewRollback, NoRecord
    <3>2. CASE RequestAnyUpdate
      <4> PICK j \in Jobs, target \in Versions : RequestUpdate(j, target)
        BY <3>2 DEF RequestAnyUpdate
      <4> QED
        BY <3>1 DEF RequestUpdate, Write, WriteJob, TypeOK, StateTypeOK
    <3>3. CASE RequestAnyRollback
      <4> PICK j \in Jobs, snapshot \in Jobs : RequestRollback(j, snapshot)
        BY <3>3 DEF RequestAnyRollback
      <4> QED
        BY <3>1 DEF RequestRollback, Write, WriteJob, TypeOK, StateTypeOK
    <3> QED
      BY <1>3, <3>2, <3>3
  <2> QED
    BY <1>2, <2>1 DEF OnlyCrashes
<1>4. CASE SameKinds
  BY <1>2, <1>4 DEF SameKinds, OnlyCrashes
<1>5. CASE UNCHANGED jobs
  BY <1>4, <1>5 DEF SameKinds
<1>6. CASE Admit \/ ReconcileProbe \/ ReconcileWrite \/ Crash \/ Migrate \/ Quiet
           \/ UNCHANGED vars
  BY <1>5, <1>6
     DEF Admit, ReconcileProbe, ReconcileWrite, Crash, Migrate, Quiet, vars, stateVars,
         SetCurrent, WriteUpdater
<1> QED
  BY <1>3, <1>4, <1>6, TaskKeepsKind, BootKeepsKind DEF PatientNext, Internal

\* Every step of such a deployment keeps it calm.
LEMMA StepCalm ==
  ASSUME Steady, [PatientNext]_vars
  PROVE  Calm'
<1>1. CASE \E j \in Jobs : ExecutorStep(j)
  BY <1>1, TaskCalm
<1>2. CASE Admit \/ Crash \/ BootStep \/ Migrate
  BY <1>2, AdmitCalm, CrashCalm, BootStepCalm, MigrateCalm
<1>3. CASE ReconcileProbe \/ ReconcileWrite \/ Quiet \/ UNCHANGED vars
  BY <1>3, IdleStepCalm
<1>4. CASE RequestAnyUpdate
  BY <1>4, RequestUpdateCalm DEF RequestAnyUpdate
<1>5. ~RequestAnyRollback
  <2> SUFFICES ASSUME NEW j \in Jobs, NEW s \in Jobs, RequestRollback(j, s)
               PROVE  FALSE
    BY DEF RequestAnyRollback
  <2>1. jobs'[j].kind = "Rollback"
    BY DEF Steady, Kept, Safe, Sound, TypeOK, StateTypeOK, RequestRollback, Write, WriteJob,
           NewRollback, NoRecord
  <2> QED
    BY <2>1 DEF Steady, OnlyCrashes
<1> QED
  BY <1>1, <1>2, <1>3, <1>4, <1>5 DEF PatientNext, Internal

\* As long as nothing fails and nobody asks for a rollback, the records of an update say
\* what its recovery needs: that it may be taken back, or that it has landed.
THEOREM UpdaterCalmFits ==
  ASSUME MaxProbes = 0
  PROVE  PatientSpec => []CalmFits
<1>1. Init => Trusty
  BY InitSound, InitExclusive, InitRecorded, InitCalm DEF Trusty, Kept, Safe
<1>2. Trusty /\ [PatientNext]_vars => Trusty'
  <2> SUFFICES ASSUME Trusty, [PatientNext]_vars
               PROVE  Trusty'
    OBVIOUS
  <2>1. Kept'
    BY PatientStepKeeps DEF Trusty
  <2>2. /\ \A j \in Jobs : jobs'[j].status = "Absent" => jobs'[j].kind = "Update"
        /\ OnlyCrashes' => OnlyCrashes
    BY CalmBefores DEF Trusty, Kept, Safe, Sound, CalmFits
  <2>3. OnlyCrashes' => Calm'
    BY <2>2, StepCalm DEF Trusty, Steady, CalmFits
  <2> QED
    BY <2>1, <2>2, <2>3 DEF Trusty, CalmFits
<1>3. Trusty => CalmFits
  BY DEF Trusty
<1> QED
  BY <1>1, <1>2, <1>3, PTL DEF PatientSpec

\* An updater that is only killed, however often and wherever, with either database,
\* finishes or takes back every update on its own: recovery never gives one up.
THEOREM UpdaterNoOperatorNeeded ==
  ASSUME MaxProbes = 0
  PROVE  PatientSpec => []NoOperatorNeeded
<1>1. CalmFits => NoOperatorNeeded
  BY DEF CalmFits, Calm, CalmFacts, CalmFile, NoOperatorNeeded
<1> QED
  BY <1>1, UpdaterCalmFits, PTL

\* And an open site it has left alone runs the proxy of the release it runs.
THEOREM UpdaterTagsAgree ==
  ASSUME MaxProbes = 0, ShipsProxy
  PROVE  PatientSpec => []TagsAgree
<1>1. CalmFits => TagsAgree
  BY DEF CalmFits, Calm, CalmFacts, Rests, Selects, TagsAgree
<1> QED
  BY <1>1, UpdaterCalmFits, PTL

-----------------------------------------------------------------------------
(***************************************************************************)
(* The updater implements the deployment, for any number of jobs,          *)
(* releases, failures and deaths of the process, while nobody asks for a   *)
(* rollback and there is a pgdata to restore (Restorable).                 *)
(*                                                                         *)
(* SiteFits adds to HostFits what the Compose file and the schema of       *)
(* pgdata are: at the phases before the swap and at the end of a rollback  *)
(* those of the recorded release, once an update has committed those of    *)
(* its target, and in between something a report and a snapshot can put    *)
(* back.  So the site is always a whole release, and a step of the updater *)
(* either leaves it or is one of the steps the deployment may make.        *)
(***************************************************************************)
\* The names of the sets of points say no more than their members.
USE DEF In, FirstPoints, LeavingPoints, StopPoints, StoppedPoints, SwapPoints, ResumePoints,
        NewPoints, TurnPoints, DownPoints, DownedPoints, TagPoints, RestorePoints,
        RestartPoints, DonePoints, FailedPoints, RecoveryFailedPoints, BeforePoints,
        BackPoints, UntouchedPoints, PutBackPoints, TemplateBackPoints

\* What every step may assume here.
Standing == Held /\ SiteFits /\ \A i \in Jobs : jobs'[i].kind = "Update"

\* What a step of the task of j may assume.
LEMMA TaskStands ==
  ASSUME Standing, NEW j \in Jobs
  PROVE  /\ TypeOK /\ Facts /\ RecordsFit /\ ~External /\ Kept
         /\ FitsBefore(j) /\ FitsAfter(j) /\ FitsBack(j) /\ FitsEnd(j)
         /\ SiteFacts /\ SiteTask(j) /\ Described(j)
         /\ jobs[j].kind = "Update" /\ jobs'[j].kind = "Update"
BY TaskHeld DEF Standing, Held, SiteFits, SiteFacts, Restorable

\* A step of the running task that leaves the site in order.
LEMMA SiteStep ==
  ASSUME Standing, NEW j \in Jobs, ExecutorStep(j), SiteFacts', SiteTask(j)'
  PROVE  SiteFits'
<1>1. /\ boot.pc = "up" /\ UNCHANGED boot
      /\ \A i \in Jobs \ {j} : exec'[i].pc = "idle"
  BY StepIsOwn DEF Standing, Held, Advance, ExecutorRunning
<1>2. ASSUME NEW i \in Jobs \ {j}
      PROVE  SiteTask(i)'
  <2>1. exec'[i].pc = "idle"
    BY <1>1
  <2> QED
    BY <2>1 DEF SiteTask
<1> QED
  BY <1>1, <1>2 DEF SiteFits, SiteBoot

\* Records and site that do not change stay in order.
LEMMA QuietSite ==
  ASSUME Standing, UNCHANGED <<jobs, current, maint, curVer, report, snaps, compose, data>>,
         env'.tag = env.tag
  PROVE  SiteFacts'
BY DEF Standing, SiteFits, SiteFacts, Described, Stands, Whole, ReportHolds, Restores, BackedUp,
       Landing

\* A task that only moves on.
LEMMA SiteMovesOn ==
  ASSUME Standing, NEW j \in Jobs, ExecutorStep(j), UNCHANGED <<stateVars, compose, data>>,
         env'.tag = env.tag, SiteTask(j)'
  PROVE  SiteFits'
BY QuietSite, SiteStep DEF stateVars

\* The job job.current names stands where its file and the maintenance record have it.
LEMMA OwnStands ==
  ASSUME Standing, NEW j \in Jobs, current = j
  PROVE  Stands(j, jobs[j].work) /\ (maint.job = j => Stands(j, maint.phase))
<1>1. RecordsFit /\ SiteFacts /\ j # NoJob
  BY TaskStands, NoJobAssumption
<1>2. maint.job = j => Stands(j, jobs[j].work) /\ Stands(j, maint.phase)
  BY <1>1 DEF SiteFacts
<1>3. maint.job = NoJob => Stands(j, jobs[j].work)
  BY <1>1 DEF SiteFacts
<1>4. maint.job \notin {NoJob, j} => Stands(j, jobs[j].work)
  BY <1>1 DEF RecordsFit, PointerFresh, Stands, PreSwapPhases, PostSwapPhases, RollbackPhases
<1> QED
  BY <1>2, <1>3, <1>4

\* A step that the records of its own job account for.
LEMMA OwnSite ==
  ASSUME Standing, NEW j \in Jobs, ExecutorStep(j),
         \A i \in Jobs \ {j} :
           jobs'[i] = jobs[i] /\ report'[i] = report[i] /\ snaps'[i] = snaps[i],
         Described(j)', SiteTask(j)', ~maint'.active => Whole',
         current' = j, maint'.job \in {j, NoJob}, Stands(j, jobs[j].work)',
         maint'.job = j => Stands(j, maint.phase)'
  PROVE  SiteFits'
<1>1. \A i \in Jobs \ {j} : Described(i)'
  BY DEF Standing, SiteFits, SiteFacts, Described
<1>2. SiteFacts'
  BY <1>1, NoJobAssumption DEF Standing, SiteFacts
<1> QED
  BY <1>2, SiteStep

\* The job of a task past its preflight is the one the maintenance record names, if any.
LEMMA OwnRecord ==
  ASSUME Standing, NEW j \in Jobs, current = j,
         ~In(j, {"idle", "Preflight", "clearMaint", "clearCurrent"})
  PROVE  maint.job \in {j, NoJob}
<1>1. /\ TypeOK /\ RecordsFit /\ FitsBefore(j) /\ FitsAfter(j) /\ FitsBack(j) /\ FitsEnd(j)
      /\ jobs[j].kind = "Update" /\ Facts
  BY TaskStands
<1>2. CASE In(j, {"commitVersion"})
  <2>1. jobs[j].work # "None"
    BY <1>1, <1>2 DEF FitsAfter, Committed, IsCommitted, Facts, JobFileFits
  <2> QED
    BY <1>1, <2>1, NoJobAssumption DEF RecordsFit, PointerFresh
<1>3. CASE ~In(j, {"commitVersion"})
  <2>1. exec[j].pc \in Points
    BY <1>1 DEF TypeOK, ProcessTypeOK, Executor
  <2> QED
    BY <1>1, <1>3, <2>1
       DEF Points, WorkOf, UpdatePoints, RollbackPoints, CleanupPoints, FitsBefore, FitsAfter,
           FitsBack, FitsEnd, Recording
<1> QED
  BY <1>2, <1>3

-----------------------------------------------------------------------------
(***************************************************************************)
(* The steps of a task.                                                    *)
(***************************************************************************)
\* The preflight describes the deployment it finds, which is the recorded one.
LEMMA PreflightSite ==
  ASSUME Standing, NEW j \in Jobs, ExecutorStep(j), Preflight(j)
  PROVE  SiteFits'
<1>1. /\ TypeOK /\ FitsBefore(j) /\ SiteFacts /\ SiteTask(j) /\ Described(j) /\ current = j
  BY TaskStands, StepIsOwn DEF Standing, Held
<1>2. /\ exec[j].pc = "preflight" /\ UNCHANGED hostVars
      /\ UNCHANGED <<jobs, current, maint, curVer, snaps>>
      /\ \/ /\ exec'[j].pc = "MaintenanceOn"
            /\ report' = [report EXCEPT ![j] =
                 [ready |-> TRUE, from |-> curVer, compose |-> compose,
                  proxy |-> IF ShipsProxy THEN env.proxy ELSE NoVersion]]
         \/ exec'[j].pc = "finalizeFailed" /\ UNCHANGED report
  BY <1>1 DEF Preflight, At, Goto, TypeOK, ProcessTypeOK, Executor, stateVars
<1>3. /\ Whole /\ jobs[j].from = curVer /\ jobs[j].status \in Inflight
      /\ maint.job = j /\ jobs[j].work # "None"
  BY <1>1, <1>2 DEF SiteTask, FitsBefore, Recording, PreSwapPhases
<1>4. /\ \A i \in Jobs \ {j} : report'[i] = report[i]
      /\ exec'[j].pc = "MaintenanceOn" => report'[j].ready
      /\ report'[j].ready /\ exec'[j].pc = "MaintenanceOn" =>
           report'[j].from = curVer /\ report'[j].compose = compose
      /\ exec'[j].pc # "MaintenanceOn" => UNCHANGED report
  BY <1>1, <1>2 DEF TypeOK, StateTypeOK
<1>5. Whole' /\ ReportHolds(j)'
  BY <1>2, <1>3 DEF Whole, ReportHolds, hostVars
<1>6. Described(j)'
  BY <1>1, <1>2, <1>3, <1>4 DEF Described, Inflight, Whole, hostVars
<1>7. \A phase : Stands(j, phase) => Stands(j, phase)'
  BY <1>2, <1>5 DEF Stands, Restores, BackedUp, Landing, Whole, hostVars
<1>8. SiteTask(j)'
  BY <1>2, <1>4, <1>5 DEF SiteTask
<1> QED
  BY <1>1, <1>2, <1>3, <1>4, <1>5, <1>6, <1>7, <1>8, OwnStands, OwnSite

\* The steps up to the swap that leave records, Compose file and pgdata alone.
LEMMA BeforeMoves ==
  ASSUME Standing, NEW j \in Jobs, ExecutorStep(j),
         BuildRunner(j) \/ StopApps(j) \/ StopPostgres(j) \/ StartPostgres(j)
  PROVE  SiteFits'
<1>1. TypeOK /\ SiteTask(j) /\ FitsBefore(j)
  BY TaskStands
<1>2. /\ UNCHANGED <<stateVars, env, compose, data>>
      /\ \/ exec[j].pc = "runner" /\ exec'[j].pc = "Stopping"
         \/ exec[j].pc = "stopApps" /\ exec'[j].pc = "Snapshotting"
         \/ exec[j].pc = "stopPostgres" /\ exec'[j].pc = "copy"
         \/ exec[j].pc = "startPostgres" /\ exec'[j].pc = "noteSnapshot"
         \/ /\ exec[j].pc \in {"runner", "stopApps", "stopPostgres", "startPostgres"}
            /\ exec'[j].pc = "preSwapCompose"
  <2>1. CASE BuildRunner(j)
    BY <1>1, <2>1 DEF BuildRunner, At, Goto, TypeOK, ProcessTypeOK, Executor, hostVars
  <2>2. CASE StopApps(j) \/ StartPostgres(j)
    BY <1>1, <2>2 DEF StopApps, StartPostgres, At, Goto, TypeOK, ProcessTypeOK, Executor
  <2>3. CASE StopPostgres(j)
    <3>1. \/ exec' = [exec EXCEPT ![j].pc = "copy", ![j].noted = FALSE,
                                  ![j].scope = "AppAndPostgres"]
          \/ exec' = [exec EXCEPT ![j].pc = "preSwapCompose", ![j].noted = FALSE,
                                  ![j].scope = "AppAndPostgres"]
      BY <2>3 DEF StopPostgres
    <3> QED
      BY <1>1, <2>3, <3>1 DEF StopPostgres, At, TypeOK, ProcessTypeOK, Executor
  <2> QED
    BY <2>1, <2>2, <2>3
<1>3. /\ exec[j].pc \in {"runner", "stopApps", "stopPostgres", "startPostgres"}
      /\ Whole /\ jobs[j].from = curVer
  BY <1>1, <1>2 DEF SiteTask, FitsBefore
<1>4. SiteTask(j)'
  BY <1>1, <1>2, <1>3 DEF SiteTask, Whole, Restores, ReportHolds, stateVars
<1> QED
  BY <1>2, <1>4, SiteMovesOn

\* The copy is of the release the update starts from.
LEMMA CopySnapshotSite ==
  ASSUME Standing, NEW j \in Jobs, ExecutorStep(j), CopySnapshot(j)
  PROVE  SiteFits'
<1>1. /\ TypeOK /\ FitsBefore(j) /\ SiteFacts /\ SiteTask(j) /\ Described(j) /\ current = j
  BY TaskStands, StepIsOwn DEF Standing, Held
<1>2. exec[j].pc = "copy"
  BY DEF CopySnapshot, At
<1>3. /\ Whole /\ jobs[j].from = curVer /\ jobs[j].to > curVer /\ report[j].ready
      /\ report[j].from = curVer /\ maint.job = j /\ jobs[j].work # "None"
  BY <1>1, <1>2 DEF SiteTask, FitsBefore, Recording, PreSwapPhases
<1>4. CASE UNCHANGED stateVars /\ Goto(j, "preSwapCompose")
  <2>1. UNCHANGED hostVars /\ exec'[j].pc = "preSwapCompose"
    BY <1>1, <1>4 DEF CopySnapshot, Goto, TypeOK, ProcessTypeOK, Executor
  <2>2. SiteTask(j)'
    BY <1>3, <1>4, <2>1 DEF SiteTask, Whole, Restores, ReportHolds, stateVars, hostVars
  <2> QED
    BY <1>4, <2>1, <2>2, SiteMovesOn DEF hostVars
<1>5. CASE /\ snaps' = [snaps EXCEPT ![j] =
                [taken |-> TRUE, data |-> data, version |-> report[j].from]]
           /\ UNCHANGED <<jobs, current, maint, curVer, report>>
           /\ Goto(j, "startPostgres")
  <2>1. UNCHANGED hostVars /\ exec'[j].pc = "startPostgres"
    BY <1>1, <1>5 DEF CopySnapshot, Goto, TypeOK, ProcessTypeOK, Executor
  <2>2. /\ snaps'[j].taken /\ snaps'[j].version = report[j].from /\ snaps'[j].data = data
        /\ \A i \in Jobs \ {j} : snaps'[i] = snaps[i]
    BY <1>1, <1>5 DEF TypeOK, StateTypeOK
  <2>3. Described(j)'
    BY <1>1, <1>3, <1>5, <2>1, <2>2 DEF Described, Whole, hostVars
  <2>4. Whole' /\ ReportHolds(j)'
    BY <1>3, <1>5, <2>1 DEF Whole, ReportHolds, hostVars
  <2>5. \A phase : Stands(j, phase) => Stands(j, phase)'
    BY <1>5, <2>1, <2>2, <2>4 DEF Stands, Restores, Landing, Whole, hostVars
  <2>6. SiteTask(j)'
    BY <2>1, <2>4 DEF SiteTask
  <2> QED
    BY <1>1, <1>3, <1>5, <2>2, <2>3, <2>4, <2>5, <2>6, OwnStands, OwnSite
<1> QED
  BY <1>4, <1>5 DEF CopySnapshot

\* The update knows its copy.
LEMMA NoteSnapshotSite ==
  ASSUME Standing, NEW j \in Jobs, ExecutorStep(j), NoteSnapshot(j)
  PROVE  SiteFits'
<1>1. /\ TypeOK /\ FitsBefore(j) /\ SiteFacts /\ SiteTask(j) /\ Described(j) /\ current = j
  BY TaskStands, StepIsOwn DEF Standing, Held
<1>2. /\ exec[j].pc = "noteSnapshot" /\ exec'[j].pc = "SwapTag"
      /\ UNCHANGED hostVars /\ UNCHANGED <<current, maint, curVer, report, snaps>>
      /\ jobs' = [jobs EXCEPT ![j] = [jobs[j] EXCEPT !.snap = j]]
  BY <1>1 DEF NoteSnapshot, WriteJob, At, TypeOK, ProcessTypeOK, Executor
<1>3. /\ jobs'[j].status = jobs[j].status /\ jobs'[j].work = jobs[j].work
      /\ jobs'[j].from = jobs[j].from /\ jobs'[j].to = jobs[j].to
      /\ \A i \in Jobs \ {j} : jobs'[i] = jobs[i]
  BY <1>1, <1>2 DEF TypeOK, StateTypeOK, JobRecord
<1>4. Whole /\ jobs[j].from = curVer /\ Recording(j, PreSwapPhases)
  BY <1>1, <1>2 DEF SiteTask, FitsBefore
<1>5. Whole' /\ ReportHolds(j)' /\ Described(j)'
  BY <1>1, <1>2, <1>3, <1>4 DEF Whole, ReportHolds, Described, hostVars
<1>6. Stands(j, jobs[j].work)' /\ Stands(j, maint.phase)'
  BY <1>2, <1>3, <1>4, <1>5
     DEF Stands, Recording, PreSwapPhases, PostSwapPhases, RollbackPhases
<1>7. SiteTask(j)'
  BY <1>2, <1>5 DEF SiteTask
<1> QED
  BY <1>1, <1>2, <1>3, <1>4, <1>5, <1>6, <1>7, OwnSite DEF Recording

\* The template of the target is put down while the old one can be put back.
LEMMA InstallComposeSite ==
  ASSUME Standing, NEW j \in Jobs, ExecutorStep(j), InstallCompose(j)
  PROVE  SiteFits'
<1>1. /\ TypeOK /\ FitsBefore(j) /\ SiteFacts /\ SiteTask(j) /\ Described(j) /\ current = j
  BY TaskStands, StepIsOwn DEF Standing, Held
<1>2. exec[j].pc = "install"
  BY DEF InstallCompose, At
<1>3. /\ Whole /\ BackedUp(j) /\ Recording(j, {"SwapTag"}) /\ maint.active
      /\ jobs[j].status \in Inflight
  BY <1>1, <1>2 DEF SiteTask, FitsBefore
<1>4. /\ UNCHANGED <<stateVars, env, apps, pg, data>>
      /\ \/ compose' = jobs[j].to /\ exec'[j].pc = "swapTag"
         \/ compose' = compose /\ exec'[j].pc = "preSwapCompose"
  BY <1>1 DEF InstallCompose, Goto, TypeOK, ProcessTypeOK, Executor
<1>5. Described(j)' /\ Restores(j)' /\ data' = curVer'
  BY <1>1, <1>3, <1>4 DEF Described, Restores, Whole, ReportHolds, BackedUp, stateVars
<1>6. Stands(j, jobs[j].work)' /\ Stands(j, maint.phase)'
  BY <1>3, <1>4, <1>5
     DEF Stands, Recording, PreSwapPhases, PostSwapPhases, RollbackPhases, stateVars
<1>7. SiteTask(j)'
  BY <1>4, <1>5 DEF SiteTask, stateVars
<1> QED
  BY <1>1, <1>3, <1>4, <1>5, <1>6, <1>7, OwnSite DEF Recording, stateVars

\* The tag moves to the target, whose template is in place.
LEMMA SwapTagSite ==
  ASSUME Standing, NEW j \in Jobs, ExecutorStep(j), SwapTag(j)
  PROVE  SiteFits'
<1>1. /\ TypeOK /\ FitsBefore(j) /\ SiteFacts /\ SiteTask(j) /\ Described(j) /\ current = j
      /\ Restorable
  BY TaskStands, StepIsOwn DEF Standing, Held
<1>2. exec[j].pc = "swapTag"
  BY DEF SwapTag, At
<1>3. /\ data = curVer /\ BackedUp(j) /\ Recording(j, {"SwapTag"}) /\ maint.active
      /\ compose = jobs[j].to /\ jobs[j].status \in Inflight
  BY <1>1, <1>2 DEF SiteTask, FitsBefore
<1>4. /\ UNCHANGED <<stateVars, compose, apps, pg, data>>
      /\ exec'[j].pc \in {"StartingNew", "preSwapCompose"}
  BY <1>1 DEF SwapTag, Goto, TypeOK, ProcessTypeOK, Executor, Restorable
<1>5. Described(j)' /\ Restores(j)'
  BY <1>1, <1>3, <1>4 DEF Described, Restores, ReportHolds, BackedUp, stateVars
<1>6. Stands(j, jobs[j].work)' /\ Stands(j, maint.phase)'
  BY <1>3, <1>4, <1>5
     DEF Stands, Recording, PreSwapPhases, PostSwapPhases, RollbackPhases, stateVars
<1>7. SiteTask(j)'
  BY <1>3, <1>4, <1>5 DEF SiteTask, stateVars
<1> QED
  BY <1>1, <1>3, <1>4, <1>5, <1>6, <1>7, OwnSite DEF Recording, stateVars

\* The steps of the new release that only look, or start containers: a release found
\* healthy has migrated pgdata to its schema.
LEMMA ForwardMoves ==
  ASSUME Standing, NEW j \in Jobs, ExecutorStep(j),
         Verify(j) \/ StartNew(j) \/ ProbeHealth(j) \/ Revert(j)
  PROVE  SiteFits'
<1>1. TypeOK /\ SiteTask(j) /\ FitsAfter(j) /\ FitsBack(j)
  BY TaskStands
<1>2. /\ UNCHANGED <<stateVars, env, compose, data>>
      /\ \/ exec[j].pc = "verify" /\ exec'[j].pc = "startNew"
         \/ exec[j].pc = "startNew" /\ exec'[j].pc = "HealthProbing"
         \/ /\ exec[j].pc = "probe" /\ exec'[j].pc = "commit"
            /\ data >= apps /\ apps = jobs[j].to
         \/ exec'[j].pc \in {"revert", "plan"}
  <2>1. exec[j].pc = "revert" => maint.active
    BY <1>1 DEF FitsBack
  <2> QED
    BY <1>1, <2>1
       DEF Verify, StartNew, ProbeHealth, Revert, Healthy, At, Goto, TypeOK, ProcessTypeOK,
           Executor, hostVars, stateVars
<1>3. exec'[j].pc = "commit" => data = jobs[j].to
  <2> SUFFICES ASSUME exec'[j].pc = "commit"
               PROVE  data = jobs[j].to
    OBVIOUS
  <2>1. /\ exec[j].pc = "probe" /\ data >= jobs[j].to
    BY <1>2
  <2>2. data <= jobs[j].to
    BY <1>1, <2>1 DEF FitsAfter, AfterSwap
  <2>3. data \in Nat /\ jobs[j].to \in Nat
    BY <1>1, MaxVersionAssumption
       DEF TypeOK, HostTypeOK, StateTypeOK, JobRecord, VersionOrNone, Versions, NoVersion,
           Schemas, Damaged
  <2> QED
    BY <2>1, <2>2, <2>3
<1>4. SiteTask(j)'
  BY <1>1, <1>2, <1>3 DEF SiteTask, stateVars
<1> QED
  BY <1>2, <1>4, SiteMovesOn

\* Recovery puts the template of the target down again.
LEMMA ReinstallSite ==
  ASSUME Standing, NEW j \in Jobs, ExecutorStep(j), ReinstallCompose(j)
  PROVE  SiteFits'
<1>1. /\ TypeOK /\ FitsAfter(j) /\ SiteFacts /\ SiteTask(j) /\ Described(j) /\ current = j
      /\ RecordsFit /\ Facts
  BY TaskStands, StepIsOwn DEF Standing, Held
<1>2. exec[j].pc = "reinstall"
  BY DEF ReinstallCompose, At
<1>3. AfterSwap(j) /\ maint.active /\ maint.job = j /\ env.tag # curVer
  BY <1>1, <1>2 DEF FitsAfter, AfterSwap, BackedUp
<1>4. /\ UNCHANGED <<stateVars, env, apps, pg, data>>
      /\ \/ compose' = jobs[j].to /\ exec'[j].pc = "StartingNew"
         \/ exec'[j].pc = "revert"
  BY <1>1 DEF ReinstallCompose, Goto, TypeOK, ProcessTypeOK, Executor
<1>5. jobs[j].work \notin PreSwapPhases /\ maint.phase \notin PreSwapPhases
  BY <1>1, <1>3, NoJobAssumption DEF RecordsFit, MaintFits, Fits, BeforeSwap, PreSwapPhases
<1>6. Stands(j, jobs[j].work)' /\ Stands(j, maint.phase)'
  BY <1>3, <1>4, <1>5 DEF Stands, AfterSwap, IsCommitted, Inflight, stateVars
<1>7. Described(j)' /\ SiteTask(j)'
  BY <1>1, <1>4 DEF Described, SiteTask, stateVars
<1> QED
  BY <1>1, <1>3, <1>4, <1>6, <1>7, OwnSite DEF stateVars

\* The success is recorded: in the file of the job, then as the current release.
LEMMA CommitSite ==
  ASSUME Standing, NEW j \in Jobs, ExecutorStep(j), Commit(j)
  PROVE  SiteFits'
<1>1. /\ TypeOK /\ FitsAfter(j) /\ SiteFacts /\ SiteTask(j) /\ Described(j) /\ current = j
  BY TaskStands, StepIsOwn DEF Standing, Held
<1>2. /\ exec[j].pc = "commit" /\ exec'[j].pc = "commitVersion"
      /\ UNCHANGED hostVars /\ UNCHANGED <<current, maint, curVer, report, snaps>>
      /\ jobs' = [jobs EXCEPT ![j] = [jobs[j] EXCEPT
           !.status = "Succeeded", !.last = "Finalize", !.work = "Finalize", !.ok = TRUE]]
  BY <1>1 DEF Commit, WriteJob, At, Goto, TypeOK, ProcessTypeOK, Executor
<1>3. /\ jobs'[j].status = "Succeeded" /\ jobs'[j].work = "Finalize"
      /\ jobs'[j].from = jobs[j].from /\ jobs'[j].to = jobs[j].to
      /\ \A i \in Jobs \ {j} : jobs'[i] = jobs[i]
  BY <1>1, <1>2 DEF TypeOK, StateTypeOK, JobRecord
<1>4. /\ BackedUp(j) /\ maint.active /\ data = jobs[j].to /\ compose = jobs[j].to
      /\ Recording(j, {"StartingNew", "HealthProbing"})
  BY <1>1, <1>2 DEF FitsAfter, AfterSwap, SiteTask
<1>5. Landing(j)' /\ Described(j)'
  BY <1>1, <1>2, <1>3, <1>4 DEF Landing, BackedUp, Described, hostVars
<1>6. Stands(j, jobs[j].work)' /\ Stands(j, maint.phase)'
  BY <1>2, <1>3, <1>4, <1>5 DEF Stands, Recording, PreSwapPhases, RollbackPhases
<1>7. SiteTask(j)'
  BY <1>2, <1>5 DEF SiteTask
<1> QED
  BY <1>1, <1>2, <1>3, <1>4, <1>5, <1>6, <1>7, OwnSite DEF Recording

\* An update that has committed stands where the records have it when its release is
\* recorded, by its task or after a restart.
LEMMA LandingRecorded ==
  ASSUME NEW j \in Jobs, Facts, Committed(j), Landing(j), curVer' = jobs[j].to,
         UNCHANGED <<jobs, report, snaps, env, compose, data>>
  PROVE  /\ Whole'
         /\ \A phase \in Phases :
              Stands(j, phase) /\ (phase # "NeedsManual" => Fits(j, phase)) => Stands(j, phase)'
<1>1. Whole'
  BY DEF Landing, Whole
<1>2. jobs[j].work = "Finalize" /\ env.tag = jobs[j].to /\ jobs[j].status = "Succeeded"
  BY DEF Facts, JobFileFits, Committed, IsCommitted
<1>3. ASSUME NEW phase \in Phases, Stands(j, phase), phase # "NeedsManual" => Fits(j, phase)
      PROVE  Stands(j, phase)'
  <2>1. phase \in PreSwapPhases => ReportHolds(j)'
    BY <1>2, <1>3 DEF Stands, Fits, BeforeSwap, ReportHolds, PreSwapPhases
  <2>2. phase # "SwapTag"
    BY <1>2, <1>3 DEF Fits, PreSwapPhases
  <2> QED
    BY <1>1, <2>1, <2>2 DEF Stands, Landing
<1> QED
  BY <1>1, <1>3

LEMMA CommitVersionSite ==
  ASSUME Standing, NEW j \in Jobs, ExecutorStep(j), CommitVersion(j)
  PROVE  SiteFits'
<1>1. /\ TypeOK /\ FitsAfter(j) /\ SiteFacts /\ SiteTask(j) /\ Described(j) /\ current = j
      /\ Facts /\ RecordsFit
  BY TaskStands, StepIsOwn DEF Standing, Held
<1>2. /\ exec[j].pc = "commitVersion" /\ exec'[j].pc = "clearMaint" /\ curVer' = jobs[j].to
      /\ UNCHANGED hostVars /\ UNCHANGED <<jobs, current, maint, report, snaps>>
  BY <1>1 DEF CommitVersion, WriteUpdater, At, Goto, TypeOK, ProcessTypeOK, Executor
<1>3. Committed(j) /\ Landing(j) /\ maint.job \in {j, NoJob}
  BY <1>1, <1>2, OwnRecord DEF FitsAfter, SiteTask
<1>4. /\ Whole'
      /\ \A phase \in Phases :
           Stands(j, phase) /\ (phase # "NeedsManual" => Fits(j, phase)) => Stands(j, phase)'
  BY <1>1, <1>2, <1>3, LandingRecorded DEF hostVars
<1>5. /\ Fits(j, jobs[j].work) /\ jobs[j].work \in Phases /\ maint.phase \in Phases
      /\ maint.job = j /\ maint.phase # "NeedsManual" => Fits(j, maint.phase)
  BY <1>1, <1>3, NoJobAssumption
     DEF RecordsFit, MaintFits, CurrentFits, TypeOK, StateTypeOK, JobRecord, MaintenanceRecord
<1>6. Stands(j, jobs[j].work)' /\ (maint'.job = j => Stands(j, maint.phase)')
  BY <1>1, <1>2, <1>4, <1>5, OwnStands
<1>7. Described(j)' /\ SiteTask(j)'
  BY <1>1, <1>2, <1>4 DEF Described, SiteTask
<1> QED
  BY <1>1, <1>2, <1>3, <1>4, <1>6, <1>7, OwnSite

\* Recovery takes the update up again where the records have it.
LEMMA ResumeSite ==
  ASSUME Standing, NEW j \in Jobs, ExecutorStep(j), ResumeUpdate(j)
  PROVE  SiteFits'
<1>1. /\ TypeOK /\ FitsAfter(j) /\ FitsBack(j) /\ SiteFacts /\ SiteTask(j) /\ Described(j)
      /\ current = j
  BY TaskStands, StepIsOwn DEF Standing, Held
<1>2. /\ exec[j].pc \in {"resumeForward", "resumeBack"}
      /\ exec'[j].pc \in {"reinstall", "revert", "recoveryFailed"}
      /\ UNCHANGED <<current, maint, curVer, report, snaps>> /\ UNCHANGED hostVars
      /\ jobs' = [jobs EXCEPT ![j] = [jobs[j] EXCEPT !.status = "Running"]]
  BY <1>1 DEF ResumeUpdate, WriteJob, Goto, TypeOK, ProcessTypeOK, Executor
<1>3. /\ jobs'[j].status = "Running" /\ jobs'[j].work = jobs[j].work
      /\ jobs'[j].snap = jobs[j].snap
      /\ jobs'[j].from = jobs[j].from /\ jobs'[j].to = jobs[j].to
      /\ \A i \in Jobs \ {j} : jobs'[i] = jobs[i]
  BY <1>1, <1>2 DEF TypeOK, StateTypeOK, JobRecord
<1>4. maint.job \in {j, NoJob} /\ maint.active
  BY <1>1, <1>2 DEF FitsAfter, FitsBack
<1>5. \A phase : Stands(j, phase) => Stands(j, phase)'
  BY <1>2, <1>3
     DEF Stands, Whole, ReportHolds, Restores, BackedUp, IsCommitted, Inflight, hostVars
<1>6. Described(j)' /\ SiteTask(j)'
  BY <1>1, <1>2, <1>3 DEF Described, SiteTask
<1> QED
  BY <1>1, <1>2, <1>3, <1>4, <1>5, <1>6, OwnStands, OwnSite

\* The steps of the way back that leave records, Compose file and pgdata alone.
LEMMA BackMoves ==
  ASSUME Standing, NEW j \in Jobs, ExecutorStep(j),
         \/ PlanComposeRestore(j) \/ StopNew(j) \/ RestoreProxyTag(j) \/ StopForRestore(j)
         \/ StartRestored(j) \/ StartOld(j) \/ OldHealth(j)
  PROVE  SiteFits'
<1>1. TypeOK /\ SiteTask(j)
  BY TaskStands
<1>2. /\ UNCHANGED <<stateVars, compose, data>> /\ env'.tag = env.tag
      /\ \/ exec[j].pc = "plan" /\ exec'[j].pc = "StopNew"
         \/ exec[j].pc = "stopNew" /\ exec'[j].pc = "restoreCompose"
         \/ exec[j].pc = "restoreProxyTag" /\ exec'[j].pc = "SwapTagBack"
         \/ exec[j].pc = "stopForRestore" /\ exec'[j].pc = "wipe"
         \/ exec[j].pc = "startRestored" /\ exec'[j].pc = "StartOld"
         \/ exec[j].pc = "startOld" /\ exec'[j].pc = "oldStarted"
         \/ exec[j].pc = "oldHealth" /\ exec'[j].pc = "recordRestored"
         \/ exec'[j].pc = "rollbackFailed"
  <2>1. CASE PlanComposeRestore(j) \/ StopNew(j)
    BY <1>1, <2>1 DEF PlanComposeRestore, StopNew, At, Goto, TypeOK, ProcessTypeOK, Executor,
                      hostVars
  <2>2. CASE RestoreProxyTag(j)
    BY <1>1, <2>2 DEF RestoreProxyTag, At, Goto, TypeOK, ProcessTypeOK, HostTypeOK, Executor
  <2>3. CASE StopForRestore(j) \/ StartRestored(j)
    BY <1>1, <2>3 DEF StopForRestore, StartRestored, At, Goto, TypeOK, ProcessTypeOK, Executor
  <2>4. CASE StartOld(j) \/ OldHealth(j)
    BY <1>1, <2>4 DEF StartOld, OldHealth, At, Goto, TypeOK, ProcessTypeOK, Executor, hostVars
  <2> QED
    BY <2>1, <2>2, <2>3, <2>4
<1>3. SiteTask(j)'
  BY <1>1, <1>2 DEF SiteTask, Whole, stateVars
<1> QED
  BY <1>2, <1>3, SiteMovesOn

\* A step of the way back writes the host, of which the records say nothing yet.
LEMMA BackWrites ==
  ASSUME Standing, NEW j \in Jobs, ExecutorStep(j), UNCHANGED stateVars,
         In(j, {"restoreCompose"} \cup TagPoints \cup RestorePoints), SiteTask(j)'
  PROVE  SiteFits'
<1>1. FitsBack(j) /\ Described(j) /\ current = j
  BY TaskStands, StepIsOwn DEF Standing, Held
<1>2. Recording(j, RollbackPhases) /\ maint.active /\ jobs[j].status \in Inflight
  BY <1>1 DEF FitsBack
<1>3. Stands(j, jobs[j].work)' /\ Stands(j, maint.phase)'
  BY <1>2
     DEF Recording, Stands, PreSwapPhases, PostSwapPhases, RollbackPhases, stateVars
<1>4. Described(j)'
  BY <1>1 DEF Described, stateVars
<1> QED
  BY <1>1, <1>2, <1>3, <1>4, OwnSite DEF Recording, stateVars

\* Template, tag and pgdata come back to what the report and the copy have kept.
LEMMA WayBackSite ==
  ASSUME Standing, NEW j \in Jobs, ExecutorStep(j),
         RestoreCompose(j) \/ SwapTagBack(j) \/ WipeData(j) \/ RefillData(j)
  PROVE  SiteFits'
<1>1. /\ TypeOK /\ FitsBack(j) /\ SiteTask(j) /\ Described(j)
      /\ exec[j].pc \in {"restoreCompose", "swapTagBack", "wipe", "refill"}
  BY TaskStands DEF RestoreCompose, SwapTagBack, WipeData, RefillData, At
<1>2. BackedUp(j) /\ jobs[j].snap = j /\ j # NoJob /\ jobs[j].from = curVer
  BY <1>1, TaskStands, NoJobAssumption DEF FitsBack, BackedUp
<1>3. /\ report[j].ready /\ report[j].compose = curVer
      /\ snaps[j].taken /\ snaps[j].data = curVer
  BY <1>1, <1>2 DEF Described, BackedUp
<1>4. /\ UNCHANGED stateVars
      /\ \/ exec'[j].pc = "restoreProxyTag" /\ compose' = curVer
         \/ exec'[j].pc \in {"RestoreSnapshot", "refill"} /\ UNCHANGED compose
         \/ exec'[j].pc = "startRestored" /\ UNCHANGED compose /\ data' = curVer
         \/ exec'[j].pc = "rollbackFailed"
  <2>1. CASE RestoreCompose(j)
    BY <1>1, <1>2, <1>3, <2>1
       DEF RestoreCompose, SourceJob, Goto, TypeOK, ProcessTypeOK, Executor
  <2>2. CASE SwapTagBack(j)
    BY <1>1, <2>2 DEF SwapTagBack, Goto, TypeOK, ProcessTypeOK, Executor
  <2>3. CASE WipeData(j) \/ RefillData(j)
    BY <1>1, <1>2, <1>3, <2>3
       DEF WipeData, RefillData, Goto, TypeOK, ProcessTypeOK, Executor
  <2> QED
    BY <2>1, <2>2, <2>3
<1>5. exec[j].pc # "restoreCompose" => compose = curVer
  BY <1>1 DEF SiteTask
<1>6. exec'[j].pc \in {"RestoreSnapshot", "refill", "startRestored"}
        => exec[j].pc # "restoreCompose"
  BY <1>1 DEF RestoreCompose, SwapTagBack, WipeData, RefillData, At, Goto, TypeOK,
              ProcessTypeOK, Executor
<1>7. SiteTask(j)'
  BY <1>4, <1>5, <1>6 DEF SiteTask, Whole, stateVars
<1> QED
  BY <1>1, <1>4, <1>7, BackWrites

\* The services of the old release run, and are found to serve.
LEMMA RestoredSite ==
  ASSUME Standing, NEW j \in Jobs, ExecutorStep(j), OldStarted(j) \/ RecordRestored(j)
  PROVE  SiteFits'
<1>1. /\ TypeOK /\ FitsBack(j) /\ SiteTask(j) /\ Described(j) /\ current = j
      /\ exec[j].pc \in {"oldStarted", "recordRestored"}
  BY TaskStands, StepIsOwn DEF Standing, Held, OldStarted, RecordRestored, At
<1>2. /\ BackedUp(j) /\ exec[j].tag = curVer /\ Recording(j, RollbackPhases)
      /\ maint.active /\ jobs[j].status \in Inflight /\ Whole
  BY <1>1, TaskStands DEF FitsBack, BackedUp, SiteTask
<1>3. /\ UNCHANGED <<current, maint, curVer, report, snaps>> /\ UNCHANGED hostVars
      /\ exec'[j].pc \in {"oldHealth", "rollbackDone"}
      /\ \/ UNCHANGED jobs
         \/ jobs' = [jobs EXCEPT ![j] = [jobs[j] EXCEPT !.ok = TRUE]]
  BY <1>1, <1>2
     DEF OldStarted, RecordRestored, WriteJob, WriteUpdater, Goto, TypeOK, ProcessTypeOK,
         Executor
<1>4. /\ jobs'[j].status = jobs[j].status /\ jobs'[j].work = jobs[j].work
      /\ jobs'[j].from = jobs[j].from /\ jobs'[j].to = jobs[j].to
      /\ \A i \in Jobs \ {j} : jobs'[i] = jobs[i]
  BY <1>1, <1>3 DEF TypeOK, StateTypeOK, JobRecord
<1>5. Stands(j, jobs[j].work)' /\ Stands(j, maint.phase)'
  BY <1>2, <1>3, <1>4 DEF Recording, Stands, PreSwapPhases, PostSwapPhases, RollbackPhases
<1>6. Described(j)' /\ SiteTask(j)'
  BY <1>1, <1>2, <1>3, <1>4 DEF Described, SiteTask, Whole, hostVars
<1> QED
  BY <1>1, <1>2, <1>3, <1>4, <1>5, <1>6, OwnSite DEF Recording

\* A file that says its job failed, over a site that is whole.
LEMMA FailedSite ==
  ASSUME Standing, NEW j \in Jobs, ExecutorStep(j), FinalizeFailed(j) \/ RollbackDone(j)
  PROVE  SiteFits'
<1>1. /\ TypeOK /\ SiteTask(j) /\ Described(j) /\ SiteFacts /\ current = j
      /\ jobs[j].kind = "Update"
  BY TaskStands, StepIsOwn DEF Standing, Held
<1>2. /\ exec[j].pc \in {"finalizeFailed", "rollbackDone"} /\ exec'[j].pc = "clearMaint"
      /\ UNCHANGED hostVars /\ UNCHANGED <<current, maint, curVer, report, snaps>>
      /\ jobs' = [jobs EXCEPT ![j] = [jobs[j] EXCEPT !.status = "Failed"]]
  BY <1>1 DEF FinalizeFailed, RollbackDone, WriteJob, At, Goto, TypeOK, ProcessTypeOK, Executor
<1>3. /\ jobs'[j].status = "Failed" /\ jobs'[j].work = jobs[j].work
      /\ jobs'[j].from = jobs[j].from /\ jobs'[j].to = jobs[j].to
      /\ jobs'[j].snap = jobs[j].snap
      /\ \A i \in Jobs \ {j} : jobs'[i] = jobs[i]
  BY <1>1, <1>2 DEF TypeOK, StateTypeOK, JobRecord
<1>4. Whole /\ Whole'
  BY <1>1, <1>2 DEF SiteTask, Whole, hostVars
<1>5. \A phase : Stands(j, phase) => Stands(j, phase)'
  BY <1>2, <1>3, <1>4
     DEF Stands, Whole, ReportHolds, Restores, BackedUp, IsCommitted, hostVars
<1>6. Described(j)' /\ SiteTask(j)'
  BY <1>1, <1>2, <1>3, <1>4 DEF Described, SiteTask
<1>7. maint.job \in {j, NoJob}
  BY <1>1, <1>2, OwnRecord
<1> QED
  BY <1>1, <1>2, <1>3, <1>4, <1>5, <1>6, <1>7, OwnStands, OwnSite

\* A rollback that fails, and what is recorded of it, leaves the site where it is.
LEMMA GivenUpSite ==
  ASSUME Standing, NEW j \in Jobs, ExecutorStep(j),
         RollbackFailed(j) \/ ManualJob(j) \/ RecoveryJobFailed(j)
  PROVE  SiteFits'
<1>1. /\ TypeOK /\ SiteTask(j) /\ Described(j) /\ SiteFacts /\ current = j /\ FitsBack(j)
      /\ FitsEnd(j) /\ jobs[j].kind = "Update" /\ jobs[j].status # "Absent"
      /\ exec[j].pc \in {"rollbackFailed", "manualJob", "recoveryJob"}
  BY TaskStands, StepIsOwn DEF Standing, Held, RollbackFailed, ManualJob, RecoveryJobFailed, At
<1>2. /\ exec'[j].pc \in {"manualJob", "manualMaint", "recoveryMaint"}
      /\ UNCHANGED hostVars /\ UNCHANGED <<current, maint, curVer, report, snaps>>
      /\ \/ /\ exec[j].pc = "rollbackFailed"
            /\ jobs' = [jobs EXCEPT ![j] = [jobs[j] EXCEPT !.ok = FALSE]]
         \/ jobs' = [jobs EXCEPT ![j] = [jobs[j] EXCEPT !.status = "NeedsManual"]]
         \/ jobs' = [jobs EXCEPT ![j] = [jobs[j] EXCEPT
              !.status = "NeedsManual", !.last = "NeedsManual", !.ok = FALSE]]
  BY <1>1 DEF RollbackFailed, ManualJob, RecoveryJobFailed, WriteJob, At, Goto, TypeOK,
              ProcessTypeOK, Executor
<1>3. /\ jobs'[j].status \in Inflight /\ jobs'[j].work = jobs[j].work
      /\ jobs'[j].from = jobs[j].from /\ jobs'[j].to = jobs[j].to
      /\ jobs'[j].snap = jobs[j].snap
      /\ \A i \in Jobs \ {j} : jobs'[i] = jobs[i]
  <2>1. exec[j].pc = "rollbackFailed" => jobs[j].status \in Inflight
    BY <1>1 DEF FitsBack
  <2> QED
    <3>1. jobs[j] \in JobRecord
      BY <1>1 DEF TypeOK, StateTypeOK
    <3>2. \/ jobs[j].status \in Inflight /\ jobs'[j] = [jobs[j] EXCEPT !.ok = FALSE]
          \/ jobs'[j] = [jobs[j] EXCEPT !.status = "NeedsManual"]
          \/ jobs'[j] = [jobs[j] EXCEPT
               !.status = "NeedsManual", !.last = "NeedsManual", !.ok = FALSE]
      BY <1>1, <1>2, <2>1 DEF TypeOK, StateTypeOK
    <3>3. \A i \in Jobs \ {j} : jobs'[i] = jobs[i]
      BY <1>1, <1>2 DEF TypeOK, StateTypeOK
    <3> QED
      BY <3>1, <3>2, <3>3 DEF JobRecord, Inflight
<1>4. \A phase : Stands(j, phase) => Stands(j, phase)'
  BY <1>2, <1>3
     DEF Stands, Whole, ReportHolds, Restores, BackedUp, IsCommitted, Inflight, hostVars
<1>5. Described(j)' /\ SiteTask(j)'
  BY <1>1, <1>2, <1>3 DEF Described, SiteTask, Inflight
<1>6. ~maint'.active => Whole'
  BY <1>1, <1>2 DEF SiteFacts, Whole, hostVars
<1>7. maint.job \in {j, NoJob}
  BY <1>1, OwnRecord
<1> QED
  BY <1>1, <1>2, <1>3, <1>4, <1>5, <1>6, <1>7, OwnStands, OwnSite

\* The maintenance record is left to an operator.
LEMMA WaitingSite ==
  ASSUME Standing, NEW j \in Jobs, ExecutorStep(j), ManualMaint(j) \/ RecoveryMaint(j)
  PROVE  SiteFits'
<1>1. /\ TypeOK /\ Described(j) /\ current = j /\ jobs[j].kind = "Update"
  BY TaskStands, StepIsOwn DEF Standing, Held
<1>2. /\ UNCHANGED hostVars /\ UNCHANGED <<jobs, current, curVer, report, snaps>>
      /\ maint' = [active |-> TRUE, phase |-> "NeedsManual", job |-> j]
      /\ exec'[j].pc \in {"recoveryFailed", "idle", "recoveryCurrent"}
  BY <1>1 DEF ManualMaint, RecoveryMaint, WriteMaint, Goto, Finish, NoExecutor, TypeOK,
              ProcessTypeOK, Executor
<1>3. \A phase : Stands(j, phase) => Stands(j, phase)'
  BY <1>2 DEF Stands, Whole, ReportHolds, Restores, BackedUp, Landing, hostVars
<1>4. Stands(j, jobs[j].work)' /\ Stands(j, maint.phase)'
  <2>1. Stands(j, jobs[j].work)' /\ maint'.phase = "NeedsManual"
    BY <1>1, <1>2, <1>3, OwnStands
  <2> QED
    BY <2>1 DEF Stands, PreSwapPhases, PostSwapPhases, RollbackPhases
<1>5. Described(j)' /\ SiteTask(j)'
  BY <1>1, <1>2 DEF Described, SiteTask
<1> QED
  BY <1>1, <1>2, <1>4, <1>5, OwnSite

\* The steps of a failed recovery that write nothing new.
LEMMA EndMoves ==
  ASSUME Standing, NEW j \in Jobs, ExecutorStep(j),
         RecoveryFailed(j) \/ RecoveryCurrent(j) \/ PreSwapUp(j)
  PROVE  SiteFits'
<1>1. TypeOK /\ SiteTask(j) /\ current = j
  BY TaskStands, StepIsOwn DEF Standing, Held
<1>2. /\ UNCHANGED <<stateVars, env, compose, data>>
      /\ \/ exec'[j].pc \in {"idle", "recoveryJob", "manualJob", "recoveryFailed"}
         \/ exec[j].pc = "preSwapUp" /\ exec'[j].pc \in {"clearMaint", "finalizeFailed"}
  <2>1. CASE RecoveryFailed(j) \/ RecoveryCurrent(j)
    BY <1>1, <2>1 DEF RecoveryFailed, RecoveryCurrent, SetCurrent, Goto, Finish, NoExecutor,
                      TypeOK, ProcessTypeOK, Executor, hostVars, stateVars
  <2>2. CASE PreSwapUp(j)
    <3>1. /\ UNCHANGED <<stateVars, env, compose, data>> /\ exec[j].pc = "preSwapUp"
          /\ \/ Goto(j, IF exec[j].recovering THEN "clearMaint" ELSE "finalizeFailed")
             \/ Goto(j, AfterRestoreFailure(j))
      BY <2>2 DEF PreSwapUp, At
    <3> QED
      BY <1>1, <3>1 DEF Goto, AfterRestoreFailure, TypeOK, ProcessTypeOK, Executor
  <2> QED
    BY <2>1, <2>2
<1>3. SiteTask(j)'
  BY <1>1, <1>2 DEF SiteTask, Whole, stateVars
<1> QED
  BY <1>2, <1>3, SiteMovesOn

\* The template of the release the update started from is put back.
LEMMA PreSwapComposeSite ==
  ASSUME Standing, NEW j \in Jobs, ExecutorStep(j), PreSwapCompose(j)
  PROVE  SiteFits'
<1>1. /\ TypeOK /\ SiteTask(j) /\ Described(j) /\ SiteFacts /\ current = j /\ FitsEnd(j)
      /\ Facts /\ RecordsFit /\ jobs[j].kind = "Update" /\ exec[j].pc = "preSwapCompose"
      /\ jobs[j].status # "Absent"
  BY TaskStands, StepIsOwn DEF Standing, Held, PreSwapCompose, At
<1>2. Restores(j) /\ RestoreOwner(j) = j /\ j # NoJob /\ maint.job \in {j, NoJob} /\ BeforeSwap
  BY <1>1, OwnRecord, NoJobAssumption DEF SiteTask, RestoreOwner, FitsEnd
<1>3. CASE compose' = compose /\ Goto(j, AfterRestoreFailure(j))
  <2>1. UNCHANGED <<stateVars, env, data>> /\ exec'[j].pc \in {"recoveryFailed", "manualJob"}
    BY <1>1, <1>3 DEF PreSwapCompose, AfterRestoreFailure, Goto, TypeOK, ProcessTypeOK, Executor
  <2>2. SiteTask(j)'
    BY <2>1 DEF SiteTask
  <2> QED
    BY <1>3, <2>1, <2>2, SiteMovesOn
<1>4. CASE /\ compose' = IF RestoreOwner(j) # NoJob /\ report[RestoreOwner(j)].ready
                         THEN report[RestoreOwner(j)].compose ELSE compose
           /\ Goto(j, "preSwapUp")
  <2>1. UNCHANGED <<stateVars, env, apps, pg, data>> /\ exec'[j].pc = "preSwapUp"
    BY <1>1, <1>4 DEF PreSwapCompose, Goto, TypeOK, ProcessTypeOK, Executor
  <2>2. compose' = curVer
    <3>1. CASE report[j].ready
      BY <1>1, <1>2, <1>4, <3>1 DEF Restores, ReportHolds, Described
    <3>2. CASE ~report[j].ready
      BY <1>1, <1>2, <1>4, <3>2 DEF Restores, BackedUp, Described
    <3> QED
      BY <3>1, <3>2
  <2>3. Whole' /\ Restores(j)'
    BY <1>2, <2>1, <2>2 DEF Whole, Restores, ReportHolds, stateVars
  <2>4. ASSUME NEW phase, Stands(j, phase), phase # "NeedsManual" => Fits(j, phase)
        PROVE  Stands(j, phase)'
    <3>1. CASE phase \in PostSwapPhases /\ IsCommitted(jobs[j])
      <4>1. Committed(j)
        BY <2>4, <3>1 DEF Fits, PostSwapPhases, AfterSwap, IsCommitted, Inflight
      <4>2. Landing(j)'
        BY <1>2, <2>1, <2>3, <4>1 DEF Committed, BeforeSwap, Landing, Whole, stateVars
      <4> QED
        BY <3>1, <4>2 DEF Stands, PreSwapPhases, PostSwapPhases, RollbackPhases
    <3>2. CASE ~(phase \in PostSwapPhases /\ IsCommitted(jobs[j]))
      BY <2>1, <2>3, <3>2 DEF Stands, Restores, stateVars
    <3> QED
      BY <3>1, <3>2
  <2>5. Stands(j, jobs[j].work)' /\ (maint'.job = j => Stands(j, maint.phase)')
    <3>1. /\ Fits(j, jobs[j].work)
          /\ maint.job = j /\ maint.phase # "NeedsManual" => Fits(j, maint.phase)
      BY <1>1, <1>2, NoJobAssumption DEF RecordsFit, MaintFits, CurrentFits
    <3>2. Stands(j, jobs[j].work) /\ (maint.job = j => Stands(j, maint.phase))
      BY <1>1, OwnStands
    <3> QED
      BY <2>1, <2>4, <3>1, <3>2 DEF stateVars
  <2>6. Described(j)' /\ SiteTask(j)'
    BY <1>1, <2>1, <2>3 DEF Described, SiteTask, stateVars
  <2> QED
    BY <1>1, <1>2, <2>1, <2>3, <2>5, <2>6, OwnSite DEF stateVars
<1> QED
  BY <1>3, <1>4 DEF PreSwapCompose

\* Maintenance is cleared over a whole site, and the pointer after it.
LEMMA ClearSite ==
  ASSUME Standing, NEW j \in Jobs, ExecutorStep(j), ClearMaint(j) \/ ClearCurrent(j)
  PROVE  SiteFits'
<1>1. /\ TypeOK /\ SiteTask(j) /\ Described(j) /\ SiteFacts /\ current = j /\ IdleRecords
      /\ exec[j].pc \in {"clearMaint", "clearCurrent"}
  BY TaskStands, StepIsOwn
     DEF Standing, Held, Kept, Safe, Exclusive, ClearMaint, ClearCurrent, At
<1>2. Whole /\ UNCHANGED hostVars /\ UNCHANGED <<jobs, curVer, report, snaps>>
  BY <1>1 DEF SiteTask, ClearMaint, ClearCurrent, WriteMaint, SetCurrent
<1>3. Whole' /\ \A i : Described(i) => Described(i)'
  BY <1>2 DEF Whole, Described, hostVars
<1>4. CASE ClearMaint(j)
  <2>1. UNCHANGED current /\ maint' = InactiveMaintenance /\ exec'[j].pc = "clearCurrent"
    BY <1>1, <1>4 DEF ClearMaint, WriteMaint, Goto, TypeOK, ProcessTypeOK, Executor
  <2>2. \A phase : Stands(j, phase) => Stands(j, phase)'
    BY <1>2 DEF Stands, Whole, ReportHolds, Restores, BackedUp, Landing, hostVars
  <2>3. Stands(j, jobs[j].work)'
    BY <1>1, <1>2, <2>2, OwnStands
  <2>4. maint'.job = NoJob /\ SiteTask(j)'
    BY <1>3, <2>1 DEF InactiveMaintenance, SiteTask
  <2> QED
    BY <1>1, <1>2, <1>3, <2>1, <2>3, <2>4, NoJobAssumption, OwnSite
<1>5. CASE ClearCurrent(j)
  <2>1. UNCHANGED maint /\ current' = NoJob /\ exec'[j].pc = "idle" /\ maint.job = NoJob
    BY <1>1, <1>5
       DEF ClearCurrent, SetCurrent, Finish, NoExecutor, At, IdleRecords, TypeOK,
           ProcessTypeOK, Executor
  <2>2. SiteFacts'
    BY <1>1, <1>2, <1>3, <2>1 DEF Standing, SiteFacts
  <2>3. SiteTask(j)'
    BY <2>1 DEF SiteTask
  <2> QED
    BY <2>2, <2>3, SiteStep
<1> QED
  BY <1>4, <1>5

\* A task is about to record a phase the site is in.
LEMMA PhaseStands ==
  ASSUME Standing, NEW j \in Jobs, exec[j].pc \in DOMAIN WorkOf
  PROVE  /\ Stands(j, exec[j].pc)
         /\ jobs[j].status \in Inflight /\ exec[j].pc # "RollbackInProgress"
         /\ exec[j].pc \in RollbackPhases => BackedUp(j)
<1>1. /\ FitsBefore(j) /\ FitsAfter(j) /\ FitsBack(j) /\ SiteTask(j) /\ jobs[j].kind = "Update"
  BY TaskStands
<1>2. exec[j].pc \in {"Preflight", "MaintenanceOn", "Stopping", "Snapshotting", "SwapTag",
         "StartingNew", "HealthProbing", "StopNew", "SwapTagBack", "RestoreSnapshot", "StartOld"}
  BY <1>1 DEF WorkOf, FitsBack
<1>3. CASE exec[j].pc \in {"Preflight", "MaintenanceOn", "Stopping", "Snapshotting", "SwapTag"}
  BY <1>1, <1>3
     DEF FitsBefore, SiteTask, Stands, Whole, ReportHolds, Restores, PreSwapPhases,
         PostSwapPhases, RollbackPhases
<1>4. CASE exec[j].pc \in {"StartingNew", "HealthProbing"}
  BY <1>1, <1>4
     DEF FitsAfter, AfterSwap, Stands, IsCommitted, Inflight, PreSwapPhases, RollbackPhases
<1>5. CASE exec[j].pc \in {"StopNew", "SwapTagBack", "RestoreSnapshot", "StartOld"}
  BY <1>1, <1>5 DEF FitsBack, Stands, PreSwapPhases, PostSwapPhases
<1> QED
  BY <1>2, <1>3, <1>4, <1>5 DEF RollbackPhases

\* PhaseRecorder::enter, its first write.
LEMMA NoteMaintenanceSite ==
  ASSUME Standing, NEW j \in Jobs, ExecutorStep(j), NoteMaintenance(j)
  PROVE  SiteFits'
<1>1. TypeOK /\ SiteTask(j) /\ Described(j) /\ current = j
  BY TaskStands, StepIsOwn DEF Standing, Held
<1>2. /\ exec[j].pc \in DOMAIN WorkOf /\ exec'[j].pc = exec[j].pc
      /\ UNCHANGED hostVars /\ UNCHANGED <<jobs, current, curVer, report, snaps>>
      /\ maint' = [active |-> TakesSiteOffline(exec[j].pc), phase |-> exec[j].pc, job |-> j]
  BY <1>1 DEF NoteMaintenance, WriteMaint, TypeOK, ProcessTypeOK, Executor
<1>3. Stands(j, exec[j].pc) /\ Stands(j, jobs[j].work)
  BY <1>1, <1>2, PhaseStands, OwnStands
<1>4. \A phase : Stands(j, phase) => Stands(j, phase)'
  BY <1>2 DEF Stands, Whole, ReportHolds, Restores, BackedUp, Landing, hostVars
<1>5. Stands(j, jobs[j].work)' /\ Stands(j, maint.phase)'
  BY <1>2, <1>3, <1>4
<1>6. ~maint'.active => Whole'
  <2>1. ~maint'.active => exec[j].pc = "Preflight"
    BY <1>2 DEF TakesSiteOffline, WorkOf
  <2> QED
    BY <1>1, <1>2, <2>1 DEF SiteTask, Whole, hostVars
<1>7. Described(j)' /\ SiteTask(j)'
  BY <1>1, <1>2
     DEF Described, SiteTask, Whole, Restores, ReportHolds, BackedUp, Landing, hostVars
<1> QED
  BY <1>1, <1>2, <1>5, <1>6, <1>7, OwnSite

\* And its second one: the step of the job.
LEMMA NoteStepSite ==
  ASSUME Standing, NEW j \in Jobs, ExecutorStep(j), NoteStep(j)
  PROVE  SiteFits'
<1>1. /\ TypeOK /\ SiteTask(j) /\ Described(j) /\ SiteFacts /\ current = j /\ Noted
  BY TaskStands, StepIsOwn DEF Standing, Held, Kept, Safe, Exclusive
<1>2. /\ exec[j].pc \in DOMAIN WorkOf /\ exec[j].noted
      /\ UNCHANGED hostVars /\ UNCHANGED <<current, maint, curVer, report, snaps>>
      /\ jobs' = [jobs EXCEPT ![j] = [jobs[j] EXCEPT
           !.last = exec[j].pc, !.work = exec[j].pc, !.ok = FALSE,
           !.status = IF @ = "Pending" THEN "Running" ELSE @]]
  BY DEF NoteStep, WriteJob
<1>3. exec'[j].pc = WorkOf[exec[j].pc]
  BY <1>1 DEF NoteStep, Goto, TypeOK, ProcessTypeOK, Executor
<1>4. /\ jobs'[j].status = IF jobs[j].status = "Pending" THEN "Running" ELSE jobs[j].status
      /\ jobs'[j].work = exec[j].pc
      /\ jobs'[j].from = jobs[j].from
      /\ jobs'[j].to = jobs[j].to /\ jobs'[j].snap = jobs[j].snap
      /\ \A i \in Jobs \ {j} : jobs'[i] = jobs[i]
  BY <1>1, <1>2 DEF TypeOK, StateTypeOK, JobRecord
<1>5. /\ Stands(j, exec[j].pc) /\ jobs[j].status \in Inflight
      /\ exec[j].pc # "RollbackInProgress"
  BY <1>2, PhaseStands
<1>6. maint.job = j /\ maint.phase = exec[j].pc
  BY <1>1, <1>2 DEF Noted
<1>7. jobs'[j].status \in Inflight /\ exec[j].pc # "None"
  BY <1>2, <1>4, <1>5 DEF Inflight, WorkOf
<1>8. Stands(j, jobs[j].work)' /\ Stands(j, maint.phase)'
  <2>1. maint'.phase = jobs'[j].work
    BY <1>2, <1>4, <1>6
  <2>2. Stands(j, maint.phase)'
    BY <1>2, <1>4, <1>5, <1>6, <1>7
       DEF Stands, Whole, ReportHolds, Restores, BackedUp, IsCommitted, Inflight, hostVars
  <2> QED
    BY <2>1, <2>2
<1>9. Described(j)'
  BY <1>1, <1>2, <1>4, <1>7 DEF Described, Inflight, hostVars
<1>10. SiteTask(j)'
  <2>1. \/ exec[j].pc = "Preflight" /\ exec'[j].pc = "preflight"
        \/ exec[j].pc = "MaintenanceOn" /\ exec'[j].pc = "runner"
        \/ exec[j].pc = "Stopping" /\ exec'[j].pc = "stopApps"
        \/ exec[j].pc = "Snapshotting" /\ exec'[j].pc = "stopPostgres"
        \/ exec[j].pc = "SwapTag" /\ exec'[j].pc = "install"
        \/ exec[j].pc = "StartingNew" /\ exec'[j].pc = "verify"
        \/ exec[j].pc = "HealthProbing" /\ exec'[j].pc = "probe"
        \/ exec[j].pc = "StopNew" /\ exec'[j].pc = "stopNew"
        \/ exec[j].pc = "SwapTagBack" /\ exec'[j].pc = "swapTagBack"
        \/ exec[j].pc = "RestoreSnapshot" /\ exec'[j].pc = "stopForRestore"
        \/ exec[j].pc = "StartOld" /\ exec'[j].pc = "startOld"
    BY <1>2, <1>3, <1>5 DEF WorkOf
  <2> QED
    BY <1>1, <1>2, <1>4, <2>1 DEF SiteTask, Whole, hostVars
<1>11. ~maint'.active => Whole'
  BY <1>1, <1>2 DEF SiteFacts, Whole, hostVars
<1> QED
  BY <1>1, <1>2, <1>4, <1>6, <1>8, <1>9, <1>10, <1>11, OwnSite

\* Every step of a task.
LEMMA TaskSite ==
  ASSUME Standing, NEW j \in Jobs, ExecutorStep(j)
  PROVE  SiteFits'
<1>1. /\ ~SkipSnapshot(j) /\ ~SkipRestore(j) /\ ~SwapProxyTag(j) /\ ~RollbackRunner(j)
  BY NoSkip, TaskStands DEF Standing, FitsBack, RollbackRunner, At
<1>2. CASE NoteMaintenance(j) \/ NoteStep(j)
  BY <1>2, NoteMaintenanceSite, NoteStepSite
<1>3. CASE UpdateStep(j)
  BY <1>1, <1>3, PreflightSite, BeforeMoves, CopySnapshotSite, NoteSnapshotSite,
     InstallComposeSite, SwapTagSite, ForwardMoves, CommitSite, CommitVersionSite, ResumeSite,
     ReinstallSite
     DEF UpdateStep
<1>4. CASE RollbackStep(j)
  BY <1>1, <1>4, ForwardMoves, BackMoves, WayBackSite, RestoredSite, FailedSite, GivenUpSite
     DEF RollbackStep
<1>5. CASE CleanupStep(j)
  BY <1>5, PreSwapComposeSite, EndMoves, FailedSite, GivenUpSite, WaitingSite, ClearSite
     DEF CleanupStep
<1> QED
  BY <1>2, <1>3, <1>4, <1>5 DEF ExecutorStep

-----------------------------------------------------------------------------
(***************************************************************************)
(* The worker loop, the death of the process, and the backend.             *)
(***************************************************************************)
\* A job without a task asks nothing of the site.
LEMMA NoTaskSite ==
  ASSUME NEW j \in Jobs, exec'[j].pc = "idle"
  PROVE  SiteTask(j)'
BY DEF SiteTask

\* A new update has no report and no copy yet.
LEMMA RequestUpdateSite ==
  ASSUME Standing, NEW j \in Jobs, NEW target \in Versions, RequestUpdate(j, target)
  PROVE  SiteFits'
<1>1. TypeOK /\ Grounded /\ SiteFacts /\ OwnerRuns /\ Described(j)
  BY TaskStands DEF Standing, Held, Kept, Safe, Sound, Exclusive
<1>2. /\ jobs[j].status = "Absent" /\ loop' = j /\ current = NoJob /\ boot.pc = "up"
      /\ UNCHANGED <<current, maint, curVer, report, snaps, hostVars, exec, boot>>
      /\ jobs' = [jobs EXCEPT ![j] = NewUpdate(curVer, target)]
  BY DEF RequestUpdate, Ready, Write, WriteJob
<1>3. \A i \in Jobs \ {j} : jobs'[i] = jobs[i]
  BY <1>1, <1>2 DEF TypeOK, StateTypeOK
<1>4. maint.job # j /\ maint.job \in Jobs \cup {NoJob}
  BY <1>1, <1>2, NoJobAssumption
     DEF Grounded, HasFile, TypeOK, StateTypeOK, MaintenanceRecord, JobOrNone
<1>5. \A i \in Jobs : Described(i)'
  <2>1. ~report[j].ready /\ ~snaps[j].taken
    BY <1>1, <1>2 DEF Described
  <2> QED
    BY <1>1, <1>2, <1>3, <2>1 DEF SiteFacts, Described
<1>6. \A i \in Jobs \ {j} : \A phase : Stands(i, phase) => Stands(i, phase)'
  BY <1>2, <1>3 DEF Stands, Whole, ReportHolds, Restores, BackedUp, Landing, hostVars
<1>7. SiteFacts'
  BY <1>1, <1>2, <1>3, <1>4, <1>5, <1>6 DEF Standing, SiteFacts, Whole, hostVars
<1>8. \A i \in Jobs : SiteTask(i)'
  <2>1. \A i \in Jobs : ~ExecutorRunning(i)
    BY <1>1, <1>2, NoJobAssumption DEF OwnerRuns
  <2> QED
    BY <1>2, <2>1, NoTaskSite DEF ExecutorRunning
<1>9. SiteBoot'
  BY <1>2 DEF SiteBoot
<1> QED
  BY <1>7, <1>8, <1>9 DEF SiteFits

\* The job admitted has not started, and the site is open.
LEMMA AdmitSite ==
  ASSUME Standing, Admit
  PROVE  SiteFits'
<1> PICK j \in Jobs : j = loop
  BY DEF Standing, Held, Kept, Safe, Sound, Admit, TypeOK, ProcessTypeOK, JobOrNone
<1>1. /\ TypeOK /\ Facts /\ SiteFacts /\ LoopFits /\ Exclusive /\ jobs[j].kind = "Update"
      /\ jobs'[j].kind = "Update"
  BY TaskStands DEF Standing, Held, HostFits, Kept, Safe
<1>2. /\ UNCHANGED <<jobs, maint, curVer, report, snaps, hostVars, boot>>
      /\ current' = j /\ loop = j /\ boot.pc = "up"
      /\ exec' = [exec EXCEPT ![j] = [NoExecutor EXCEPT !.pc = FirstPhase(jobs[j])]]
  BY DEF Admit, SetCurrent
<1>3. NeverStarted(jobs[j]) /\ \A i \in Jobs : ~ExecutorRunning(i)
  BY <1>1, <1>2, NoJobAssumption DEF Exclusive, Unstarted, OwnerRuns
<1>4. jobs[j].work = "None"
  BY <1>1, <1>3 DEF NeverStarted, Facts, JobFileFits
<1>5. Whole
  BY <1>1, <1>2, NoJobAssumption DEF LoopFits, OnlyFinishedBehind, SiteFacts
<1>6. \A i : \A phase : Stands(i, phase) => Stands(i, phase)'
  BY <1>2 DEF Stands, Whole, ReportHolds, Restores, BackedUp, Landing, hostVars
<1>7. Stands(j, jobs[j].work)'
  BY <1>2, <1>4 DEF Stands, PreSwapPhases, PostSwapPhases, RollbackPhases
<1>8. Whole' /\ SiteFacts'
  BY <1>1, <1>2, <1>5, <1>6, <1>7 DEF Standing, SiteFacts, Described, Whole, hostVars
<1>9. ASSUME NEW i \in Jobs
      PROVE  SiteTask(i)'
  <2>1. CASE i = j
    <3>1. exec'[j].pc = "Preflight"
      BY <1>1, <1>2 DEF TypeOK, ProcessTypeOK, NoExecutor, FirstPhase
    <3> QED
      BY <1>8, <2>1, <3>1 DEF SiteTask
  <2>2. CASE i # j
    BY <1>1, <1>2, <1>3, <2>2, NoTaskSite DEF ExecutorRunning, TypeOK, ProcessTypeOK
  <2> QED
    BY <2>1, <2>2
<1>10. SiteBoot'
  BY <1>2 DEF SiteBoot
<1> QED
  BY <1>8, <1>9, <1>10 DEF SiteFits

\* A death leaves the site as it is.
LEMMA CrashSite ==
  ASSUME Standing, Crash
  PROVE  SiteFits'
<1>1. /\ UNCHANGED <<stateVars, hostVars>> /\ boot'.pc = "plan"
      /\ \A i \in Jobs : exec'[i].pc = "idle"
  BY DEF Crash, NoExecutor
<1>2. SiteFacts'
  BY <1>1, QuietSite DEF stateVars, hostVars
<1> QED
  BY <1>1, <1>2, NoTaskSite DEF SiteFits, SiteBoot

\* A backend that has to migrate is that of the target, while the update is between its
\* swap and its success.
LEMMA Migrating ==
  ASSUME Standing, Migrate
  PROVE  /\ apps # Stopped /\ data # apps
         /\ UNCHANGED <<stateVars, env, compose, apps, pg, exec, loop, boot>>
         /\ Whole => ~AtRest /\ ~BeforeSwap
         /\ \A i \in Jobs : Landing(i) => ~Committed(i)
         /\ \A i \in Jobs : Restores(i) => ~BeforeSwap
<1>1. /\ apps # Stopped /\ data < apps
      /\ UNCHANGED <<stateVars, env, compose, apps, pg, exec, loop, boot>>
  BY DEF Migrate, Serving, processVars
<1>2. data \in Nat /\ apps \in Nat
  BY MaxVersionAssumption
     DEF Standing, Held, Kept, Safe, Sound, TypeOK, HostTypeOK, Schemas, Damaged, VersionOrNone,
         Versions, NoVersion
<1>3. data # apps
  BY <1>1, <1>2
<1> QED
  BY <1>1, <1>3 DEF Whole, AtRest, BeforeSwap, Landing, Committed, Restores

LEMMA MigrateSite ==
  ASSUME Standing, Migrate
  PROVE  SiteFits'
<1>1. /\ TypeOK /\ Grounded /\ Facts /\ RecordsFit /\ SiteFacts /\ SiteBoot /\ BootFits
      /\ \A i \in Jobs : Described(i)
  BY DEF Standing, Held, HostFits, Kept, Safe, Sound, SiteFits, SiteFacts
<1>2. /\ apps # Stopped /\ data # apps
      /\ UNCHANGED <<jobs, current, maint, curVer, report, snaps, env, compose, apps, pg>>
      /\ UNCHANGED <<exec, loop, boot>>
      /\ Whole => ~AtRest /\ ~BeforeSwap
      /\ \A i \in Jobs : Landing(i) => ~Committed(i)
      /\ \A i \in Jobs : Restores(i) => ~BeforeSwap
  BY Migrating DEF stateVars
<1>3. ASSUME NEW i \in Jobs, jobs[i].status # "Absent", NEW phase,
             phase # "NeedsManual" => Fits(i, phase), Stands(i, phase)
      PROVE  Stands(i, phase)'
  <2>1. phase \notin PreSwapPhases
    BY <1>2, <1>3 DEF Stands, Fits, PreSwapPhases
  <2>2. ~(phase = "SwapTag" /\ env.tag = curVer)
    BY <1>2, <1>3 DEF Stands, Fits, AfterSwap, BackedUp
  <2>3. ~(phase \in PostSwapPhases /\ IsCommitted(jobs[i]))
    BY <1>2, <1>3 DEF Stands, Fits, PostSwapPhases, AfterSwap, IsCommitted, Inflight
  <2>4. ~(phase \in RollbackPhases /\ jobs[i].status \notin Inflight)
    <3>1. jobs[i].status \in Statuses
      BY <1>1 DEF TypeOK, StateTypeOK, JobRecord
    <3> QED
      BY <1>2, <1>3, <3>1 DEF Stands, Fits, RollbackPhases, Inflight, Statuses
  <2> QED
    BY <1>2, <2>1, <2>2, <2>3, <2>4 DEF Stands
<1>4. maint.active
  BY <1>1, <1>2 DEF SiteFacts, Facts, OpenFits
<1>5. SiteFacts'
  <2>1. /\ maint.job \in Jobs \cup {NoJob} /\ current \in Jobs \cup {NoJob}
        /\ maint.job # NoJob => jobs[maint.job].status # "Absent"
        /\ current # NoJob => jobs[current].status # "Absent"
    BY <1>1 DEF TypeOK, StateTypeOK, MaintenanceRecord, JobOrNone, Grounded, HasFile
  <2>2. maint.job # NoJob =>
          Stands(maint.job, jobs[maint.job].work)' /\ Stands(maint.job, maint.phase)'
    BY <1>1, <1>2, <1>3, <2>1 DEF SiteFacts, RecordsFit, MaintFits
  <2>3. maint.job = NoJob /\ current # NoJob => Stands(current, jobs[current].work)'
    BY <1>1, <1>2, <1>3, <2>1 DEF SiteFacts, RecordsFit, CurrentFits
  <2>4. \A i \in Jobs : Described(i)'
    BY <1>1, <1>2 DEF Described
  <2> QED
    BY <1>2, <1>4, <2>2, <2>3, <2>4 DEF Standing, SiteFacts
<1>6. SiteBoot'
  <2>1. boot.pc = "commitVersion" => boot.job \in Jobs
    BY <1>1 DEF Grounded, JobPoints, TypeOK, ProcessTypeOK, JobOrNone
  <2>2. boot.pc \in {"failPreSwap", "serveRestore"} => boot.job \in Jobs
    BY <1>1 DEF Grounded, JobPoints, TypeOK, ProcessTypeOK, JobOrNone
  <2>3. boot.pc \notin {"failUnstarted", "clearMaint", "clearCurrent", "commitVersion",
                        "failPreSwap", "serveRestore"}
    BY <1>1, <1>2, <2>1, <2>2 DEF SiteBoot, BootFits
  <2> QED
    BY <1>2, <2>3 DEF SiteBoot
<1>7. ASSUME NEW j \in Jobs
      PROVE  SiteTask(j)'
  <2>1. /\ FitsBefore(j) /\ FitsAfter(j) /\ FitsBack(j) /\ FitsEnd(j) /\ SiteTask(j)
        /\ jobs[j].kind = "Update"
    BY TaskStands
  <2>2. ~In(j, UntouchedPoints \cup PutBackPoints)
    BY <1>2, <2>1 DEF SiteTask, FitsBefore, FitsEnd
  <2>3. ~In(j, RestartPoints \cup DonePoints)
    BY <1>2, <2>1 DEF SiteTask, FitsBack, BackedUp, Whole
  <2>4. ~In(j, {"swapTag", "preSwapCompose"})
    BY <1>2, <2>1 DEF SiteTask, FitsBefore, FitsEnd, BeforeSwap
  <2>5. ~In(j, {"commit", "commitVersion"})
    BY <1>2, <2>1 DEF SiteTask, FitsAfter, AfterSwap
  <2> QED
    BY <1>2, <2>1, <2>2, <2>3, <2>4, <2>5 DEF SiteTask
<1> QED
  BY <1>5, <1>6, <1>7 DEF SiteFits

\* Nothing to reconcile is read, and a quiet updater changes nothing.
LEMMA IdleStepSite ==
  ASSUME Standing, ReconcileProbe \/ ReconcileWrite \/ Quiet \/ UNCHANGED vars
  PROVE  SiteFits'
<1>1. Restorable /\ probe = NoVersion /\ probes \in Nat
  BY DEF Standing, Held, HostFits, Facts, Kept, Safe, Sound, TypeOK, BoundTypeOK
<1>2. UNCHANGED vars
  BY <1>1, BoundAssumption DEF ReconcileProbe, ReconcileWrite, Quiet, Restorable
<1>3. UNCHANGED <<jobs, current, maint, curVer, report, snaps, hostVars, exec, boot>>
  BY <1>2 DEF vars, stateVars, processVars
<1>4. SiteFacts'
  BY <1>3, QuietSite DEF hostVars
<1>5. SiteBoot'
  BY <1>3
     DEF Standing, SiteFits, SiteBoot, Whole, Landing, Restores, ReportHolds, BackedUp, hostVars
<1>6. ASSUME NEW j \in Jobs
      PROVE  SiteTask(j)'
  <2>1. SiteTask(j)
    BY TaskStands
  <2> QED
    BY <1>3, <2>1
       DEF SiteTask, Whole, Landing, Restores, ReportHolds, BackedUp, hostVars
<1> QED
  BY <1>4, <1>5, <1>6 DEF SiteFits

-----------------------------------------------------------------------------
(***************************************************************************)
(* Startup recovery.                                                       *)
(***************************************************************************)
\* A step of recovery runs beside no task.
LEMMA BootSite ==
  ASSUME Standing, UNCHANGED exec, boot.pc # "up", SiteFacts', SiteBoot'
  PROVE  SiteFits'
<1>1. \A i \in Jobs : ~ExecutorRunning(i)
  BY BootFiles DEF Standing, Held
<1> QED
  BY <1>1, NoTaskSite DEF ExecutorRunning, SiteFits

\* What the steps of recovery may assume.
LEMMA BootStanding ==
  ASSUME Standing, boot.pc # "up"
  PROVE  /\ TypeOK /\ Grounded /\ Exclusive /\ RecoveryRecorded
         /\ Facts /\ RecordsFit /\ BootFits /\ SiteFacts /\ SiteBoot
         /\ \A i \in Jobs : Described(i) /\ jobs[i].kind = "Update" /\ jobs'[i].kind = "Update"
         /\ boot.pc \in JobPoints =>
              /\ boot.job \in Jobs /\ jobs[boot.job].status # "Absent"
              /\ boot.job = RecoveryJob(maint, current)
              /\ maint.job = boot.job \/ (maint.job = NoJob /\ current = boot.job)
BY BootHeld DEF Standing, SiteFits, SiteFacts

\* The job recovery works on stands where its file and the maintenance record have it.
LEMMA BootStands ==
  ASSUME Standing, NEW id \in Jobs, id = RecoveryJob(maint, current)
  PROVE  /\ Stands(id, jobs[id].work) /\ Fits(id, jobs[id].work)
         /\ maint.job = id => /\ Stands(id, maint.phase)
                              /\ maint.phase # "NeedsManual" => Fits(id, maint.phase)
<1>1. SiteFacts /\ RecordsFit
  BY DEF Standing, Held, HostFits, SiteFits
<1>2. maint.job = id \/ (maint.job = NoJob /\ current = id)
  BY DEF RecoveryJob
<1> QED
  BY <1>1, <1>2, NoJobAssumption DEF SiteFacts, RecordsFit, MaintFits, CurrentFits

\* The plan takes the site to be what it is.
LEMMA PlanSite ==
  ASSUME Standing, boot.pc = "plan", NEW tag \in {env.tag, NoVersion}
  PROVE  LET id == RecoveryJob(maint, current)
             plan == CrashPlan(maint, current, RecordOf(id), tag)
         IN  /\ plan.kind \in {"FailUnstarted", "ReleaseTerminalCurrent", "FinishRestored"}
                  => Whole
             /\ plan.kind = "FailUnstarted" => jobs[id].work = "None"
             /\ plan.kind = "FinishCommitted" => Landing(id)
             /\ plan.kind = "ClearPreSwap" => Restores(id)
<1> DEFINE id == RecoveryJob(maint, current)
           job == RecordOf(id)
           plan == CrashPlan(maint, current, job, tag)
<1>1. /\ TypeOK /\ Facts /\ SiteFacts
      /\ plan.kind = "FinishRestored" => id # NoJob /\ jobs[id].status \notin Inflight
      /\ plan.kind = "FinishCommitted" => id # NoJob
      /\ plan.kind = "ClearPreSwap" => BeforeSwap /\ jobs[id].work \notin {"None"} \cup RollbackPhases
  BY PlanFits, BootStanding DEF Standing
<1>2. plan.kind \in {"FailUnstarted", "ReleaseTerminalCurrent"} => ~maint.active
  BY DEF CrashPlan, IsFailUnstarted
<1>3. plan.kind \in {"FailUnstarted", "ClearPreSwap"} => id # NoJob
  BY <1>1, PlanRecorded, NoJobAssumption DEF Standing, Held
<1>4. id \in Jobs \cup {NoJob}
  BY <1>1 DEF RecoveryJob, TypeOK, StateTypeOK, MaintenanceRecord, JobOrNone
<1>5. ASSUME id \in Jobs
      PROVE  /\ plan.kind = "FinishRestored" => Whole
             /\ plan.kind = "FailUnstarted" => jobs[id].work = "None"
             /\ plan.kind = "FinishCommitted" => Landing(id)
             /\ plan.kind = "ClearPreSwap" => Restores(id)
  <2>1. job = jobs[id] /\ id # NoJob
    BY <1>5, NoJobAssumption DEF RecordOf
  <2>2. Stands(id, jobs[id].work) /\ Fits(id, jobs[id].work) /\ JobFileFits(jobs[id])
    BY <1>1, <1>5, BootStands DEF Facts
  <2>3. /\ plan.kind = "FailUnstarted" => NeverStarted(job)
        /\ plan.kind = "FinishRestored" => IsRestored(job)
        /\ plan.kind = "FinishCommitted" => IsCommitted(job)
        /\ plan.kind = "ClearPreSwap" => ~IsCommitted(job)
    BY DEF CrashPlan, IsFailUnstarted
  <2> HIDE DEF plan, job, id
  <2>4. plan.kind = "FailUnstarted" => jobs[id].work = "None"
    BY <2>1, <2>2, <2>3 DEF JobFileFits, NeverStarted
  <2>5. plan.kind = "FinishRestored" => Whole
    BY <2>1, <2>2, <2>3 DEF JobFileFits, IsRestored, Stands, RollbackPhases, Inflight
  <2>6. plan.kind = "FinishCommitted" => Landing(id)
    BY <2>1, <2>2, <2>3 DEF JobFileFits, IsCommitted, Stands, PostSwapPhases
  <2>7. plan.kind = "ClearPreSwap" => Restores(id)
    <3> SUFFICES ASSUME plan.kind = "ClearPreSwap"
                 PROVE  Restores(id)
      OBVIOUS
    <3>1. BeforeSwap /\ jobs[id].work \notin {"None"} \cup RollbackPhases /\ ~IsCommitted(jobs[id])
      BY <1>1, <2>1, <2>3
    <3>2. ~AfterSwap(id)
      BY <3>1 DEF AfterSwap, BackedUp, BeforeSwap
    <3>3. jobs[id].work \notin PostSwapPhases
      BY <2>2, <3>1, <3>2 DEF Fits, Committed, PostSwapPhases
    <3>4. jobs[id].work \in PreSwapPhases \cup {"SwapTag"}
      <4>1. jobs[id].work \in Phases
        BY <1>1, <1>5 DEF TypeOK, StateTypeOK, JobRecord
      <4> QED
        BY <2>2, <3>1, <3>3, <4>1 DEF Phases, JobFileFits, Fits
    <3> QED
      BY <2>2, <3>1, <3>4 DEF Stands, Restores, Whole, BeforeSwap
  <2> QED
    BY <2>4, <2>5, <2>6, <2>7
<1> QED
  BY <1>1, <1>2, <1>3, <1>4, <1>5 DEF SiteFacts

\* And sends recovery there.
LEMMA BootPlanSite ==
  ASSUME Standing, BootStep, BootPlan
  PROVE  SiteFits'
<1> DEFINE id == RecoveryJob(maint, current)
<1>1. /\ boot.pc = "plan" /\ UNCHANGED <<jobs, current, maint, curVer, report, snaps, exec>>
      /\ UNCHANGED hostVars
  BY DEF BootPlan, BootStep, stateVars
<1> PICK tag \in {env.tag, NoVersion} :
      LET plan == CrashPlan(maint, current, RecordOf(id), tag)
      IN  boot' = [pc |-> FirstBootPoint[plan.kind], job |-> plan.job, rollback |-> plan.rollback]
  BY DEF BootPlan
<1> DEFINE plan == CrashPlan(maint, current, RecordOf(id), tag)
           kind == plan.kind
<1>2. kind \in PlanKinds
  BY DEF CrashPlan, PlanKinds
<1>3. /\ kind \in {"FailUnstarted", "ReleaseTerminalCurrent", "FinishRestored"} => Whole
      /\ kind = "FailUnstarted" => jobs[id].work = "None"
      /\ kind = "FinishCommitted" => Landing(id)
      /\ kind = "ClearPreSwap" => Restores(id)
  BY <1>1, PlanSite
<1>4. boot'.pc = FirstBootPoint[kind] /\ boot'.job = id
  BY <1>1, PlanRecorded DEF Standing, Held
<1> HIDE DEF plan, kind, id
<1>5. /\ boot'.pc = "failUnstarted" => kind = "FailUnstarted"
      /\ boot'.pc = "clearMaint" => kind = "FinishRestored"
      /\ boot'.pc = "clearCurrent" => kind = "ReleaseTerminalCurrent"
      /\ boot'.pc = "commitVersion" => kind = "FinishCommitted"
      /\ boot'.pc = "failPreSwap" => kind = "ClearPreSwap"
      /\ boot'.pc # "serveRestore"
  BY <1>2, <1>4 DEF FirstBootPoint, PlanKinds
<1>6. SiteFacts'
  BY <1>1, QuietSite DEF hostVars
<1>7. SiteBoot'
  BY <1>1, <1>3, <1>4, <1>5
     DEF SiteBoot, Whole, Landing, Restores, ReportHolds, BackedUp, hostVars
<1> QED
  BY <1>1, <1>6, <1>7, BootSite

\* A step of recovery that the records of its own job account for.
LEMMA BootOwnSite ==
  ASSUME Standing, UNCHANGED <<exec, report, snaps>>, boot.pc # "up", NEW b \in Jobs,
         maint.job = b \/ (maint.job = NoJob /\ current = b),
         \A i \in Jobs \ {b} : jobs'[i] = jobs[i],
         Described(b)', ~maint'.active => Whole', Stands(b, jobs[b].work)',
         maint'.job = b \/ (maint'.job = NoJob /\ current' \in {b, NoJob}),
         maint'.job = b => Stands(b, maint.phase)', SiteBoot'
  PROVE  SiteFits'
<1>1. \A i \in Jobs \ {b} : Described(i)'
  BY DEF Standing, SiteFits, SiteFacts, Described
<1>2. SiteFacts'
  BY <1>1, NoJobAssumption DEF Standing, SiteFacts
<1> QED
  BY <1>2, BootSite

\* A job that never started fails; it has described nothing.
LEMMA BootFailUnstartedSite ==
  ASSUME Standing, BootStep, BootFailUnstarted
  PROVE  SiteFits'
<1>1. boot.pc = "failUnstarted" /\ boot.pc \in JobPoints
  BY DEF BootFailUnstarted, JobPoints
<1> PICK b \in Jobs : b = boot.job
  BY <1>1, BootStanding
<1>2. /\ TypeOK /\ Exclusive /\ jobs[b].status # "Absent" /\ Described(b)
      /\ maint.job = b \/ (maint.job = NoJob /\ current = b)
      /\ Whole /\ jobs[b].work = "None" /\ BootFits
  <2>1. SiteBoot
    BY <1>1, BootStanding
  <2> QED
    BY <1>1, <2>1, BootStanding DEF SiteBoot
<1>3. /\ UNCHANGED <<current, maint, curVer, report, snaps, hostVars, exec>>
      /\ boot'.pc = "clearMaint"
  BY <1>1, <1>2 DEF BootFailUnstarted, BootStep, BootGoto, WriteJob, TypeOK, ProcessTypeOK
<1>4. /\ jobs'[b].work = "Preflight"
      /\ \A i \in Jobs \ {b} : jobs'[i] = jobs[i]
  BY <1>2 DEF BootFailUnstarted, WriteJob, TypeOK, StateTypeOK, JobRecord
<1>5. ~maint.active
  BY <1>1, <1>2 DEF BootFits
<1>6. maint.job = b => maint.phase = "Preflight"
  BY <1>2, <1>5, NoJobAssumption DEF Exclusive, OpenOnlyInPreflight, LeftBehind
<1>7. Whole' /\ Described(b)' /\ ReportHolds(b)'
  BY <1>2, <1>3 DEF Whole, Described, ReportHolds, hostVars
<1>8. Stands(b, jobs[b].work)' /\ (maint'.job = b => Stands(b, maint.phase)')
  BY <1>3, <1>4, <1>6, <1>7 DEF Stands, PreSwapPhases, PostSwapPhases, RollbackPhases
<1>9. SiteBoot'
  BY <1>3, <1>7 DEF SiteBoot
<1> QED
  BY <1>1, <1>2, <1>3, <1>4, <1>7, <1>8, <1>9, BootOwnSite

\* A committed update gets its version recorded: the site is of its target.
LEMMA BootCommitVersionSite ==
  ASSUME Standing, BootStep, BootCommitVersion
  PROVE  SiteFits'
<1>1. boot.pc = "commitVersion" /\ boot.pc \in JobPoints
  BY DEF BootCommitVersion, JobPoints
<1> PICK b \in Jobs : b = boot.job
  BY <1>1, BootStanding
<1>2. /\ TypeOK /\ Facts /\ Described(b)
      /\ maint.job = b \/ (maint.job = NoJob /\ current = b)
      /\ b = RecoveryJob(maint, current) /\ Committed(b) /\ Landing(b)
  <2>1. SiteBoot /\ BootFits
    BY <1>1, BootStanding
  <2> QED
    BY <1>1, <2>1, BootStanding DEF SiteBoot, BootFits
<1>3. /\ UNCHANGED <<jobs, current, maint, report, snaps, hostVars, exec>>
      /\ boot'.pc = "clearMaint" /\ curVer' = jobs[b].to
  BY <1>2 DEF BootCommitVersion, BootStep, BootGoto, WriteUpdater, TypeOK, ProcessTypeOK
<1>4. /\ Whole'
      /\ \A phase \in Phases :
           Stands(b, phase) /\ (phase # "NeedsManual" => Fits(b, phase)) => Stands(b, phase)'
  BY <1>2, <1>3, LandingRecorded DEF hostVars
<1>5. jobs[b].work \in Phases /\ maint.phase \in Phases
  BY <1>2 DEF TypeOK, StateTypeOK, JobRecord, MaintenanceRecord
<1>6. Stands(b, jobs[b].work)' /\ (maint'.job = b => Stands(b, maint.phase)')
  BY <1>2, <1>3, <1>4, <1>5, BootStands
<1>7. Described(b)'
  BY <1>2, <1>3 DEF Described
<1>8. SiteBoot'
  BY <1>3, <1>4 DEF SiteBoot
<1> QED
  BY <1>1, <1>2, <1>3, <1>4, <1>6, <1>7, <1>8, BootOwnSite

\* Maintenance is cleared over a whole site, and the pointer after it.
LEMMA BootClearSite ==
  ASSUME Standing, BootStep, BootClearMaint \/ BootClearCurrent
  PROVE  SiteFits'
<1>1. boot.pc \in {"clearMaint", "clearCurrent"}
  BY DEF BootClearMaint, BootClearCurrent
<1>2. /\ TypeOK /\ RecordsFit /\ SiteFacts /\ Whole /\ UNCHANGED hostVars /\ UNCHANGED exec
      /\ UNCHANGED <<jobs, curVer, report, snaps>>
  <2>1. SiteBoot
    BY <1>1, BootStanding
  <2> QED
    BY <1>1, <2>1, BootStanding
       DEF SiteBoot, BootStep, BootClearMaint, BootClearCurrent, BootGoto, WriteMaint, SetCurrent
<1>3. /\ Whole' /\ \A i \in Jobs : Described(i)'
      /\ \A i : \A phase : Stands(i, phase) => Stands(i, phase)'
  BY <1>2
     DEF SiteFacts, Described, Stands, Whole, ReportHolds, Restores, BackedUp, Landing, hostVars
<1>4. CASE BootClearMaint
  <2>1. UNCHANGED current /\ maint' = InactiveMaintenance /\ boot'.pc = "clearCurrent"
    BY <1>2, <1>4 DEF BootClearMaint, BootGoto, WriteMaint, TypeOK, ProcessTypeOK
  <2>2. current # NoJob => Stands(current, jobs[current].work)
    BY <1>2
       DEF SiteFacts, RecordsFit, PointerFresh, Stands, PreSwapPhases, PostSwapPhases,
           RollbackPhases
  <2>3. SiteFacts'
    BY <1>2, <1>3, <2>1, <2>2 DEF Standing, SiteFacts, InactiveMaintenance
  <2>4. SiteBoot'
    BY <1>3, <2>1 DEF SiteBoot
  <2> QED
    BY <1>1, <1>2, <2>3, <2>4, BootSite
<1>5. CASE BootClearCurrent
  <2>1. UNCHANGED maint /\ current' = NoJob /\ boot'.pc = "serve"
    BY <1>2, <1>5 DEF BootClearCurrent, BootGoto, SetCurrent, TypeOK, ProcessTypeOK
  <2>2. SiteFacts'
    BY <1>2, <1>3, <2>1 DEF Standing, SiteFacts
  <2>3. SiteBoot'
    BY <2>1 DEF SiteBoot
  <2> QED
    BY <1>1, <1>2, <2>2, <2>3, BootSite
<1> QED
  BY <1>4, <1>5

\* What recovery hands to an operator stays where it is.
LEMMA BootManualSite ==
  ASSUME Standing, BootStep, BootManualJob \/ BootManualMaint \/ BootManualCurrent
  PROVE  SiteFits'
<1>1. boot.pc \in {"manualJob", "manualMaint", "manualCurrent"} /\ boot.pc \in JobPoints
  BY DEF BootManualJob, BootManualMaint, BootManualCurrent, JobPoints
<1> PICK b \in Jobs : b = boot.job
  BY <1>1, BootStanding
<1>2. /\ TypeOK /\ SiteFacts /\ Described(b) /\ RecoveryRecorded
      /\ maint.job = b \/ (maint.job = NoJob /\ current = b)
      /\ b = RecoveryJob(maint, current) /\ jobs[b].status # "Absent"
  BY <1>1, BootStanding
<1>3. /\ UNCHANGED <<curVer, report, snaps, hostVars, exec>>
      /\ boot'.pc \in {"manualMaint", "manualCurrent", "serve"}
  BY <1>2
     DEF BootManualJob, BootManualMaint, BootManualCurrent, BootStep, BootGoto, WriteJob,
         WriteMaint, SetCurrent, TypeOK, ProcessTypeOK
<1>4. SiteBoot'
  BY <1>3 DEF SiteBoot
<1>5. CASE BootManualJob
  <2>1. /\ UNCHANGED <<current, maint>>
        /\ jobs'[b] = [jobs[b] EXCEPT !.status = "NeedsManual", !.last = "NeedsManual", !.ok = FALSE]
        /\ \A i \in Jobs \ {b} : jobs'[i] = jobs[i]
        /\ jobs[b] \in JobRecord
    BY <1>2, <1>5 DEF BootManualJob, WriteJob, TypeOK, StateTypeOK
  <2>2. /\ jobs'[b].status = "NeedsManual" /\ jobs'[b].work = jobs[b].work
        /\ jobs'[b].from = jobs[b].from /\ jobs'[b].to = jobs[b].to
        /\ jobs'[b].snap = jobs[b].snap
    BY <2>1 DEF JobRecord
  <2>3. \A phase : Stands(b, phase) => Stands(b, phase)'
    BY <1>3, <2>2
       DEF Stands, Whole, ReportHolds, Restores, BackedUp, IsCommitted, Inflight, hostVars
  <2>4. Described(b)' /\ (~maint'.active => Whole')
    BY <1>2, <1>3, <2>1, <2>2 DEF SiteFacts, Described, Whole, hostVars
  <2>5. Stands(b, jobs[b].work)' /\ (maint'.job = b => Stands(b, maint.phase)')
    BY <1>2, <2>1, <2>2, <2>3, BootStands
  <2> QED
    BY <1>1, <1>2, <1>3, <1>4, <2>1, <2>4, <2>5, BootOwnSite
<1>6. CASE BootManualMaint \/ BootManualCurrent
  <2>1. /\ UNCHANGED jobs
        /\ \/ maint' = [active |-> TRUE, phase |-> "NeedsManual", job |-> b] /\ current' = current
           \/ maint' = maint /\ current' = b /\ maint.job = b
    <3>1. CASE BootManualMaint
      BY <3>1 DEF BootManualMaint, WriteMaint
    <3>2. CASE BootManualCurrent
      BY <1>2, <3>2 DEF BootManualCurrent, SetCurrent, RecoveryRecorded
    <3> QED
      BY <1>6, <3>1, <3>2
  <2>2. \A phase : Stands(b, phase) => Stands(b, phase)'
    BY <1>3, <2>1 DEF Stands, Whole, ReportHolds, Restores, BackedUp, Landing, hostVars
  <2>3. Described(b)' /\ (~maint'.active => Whole') /\ maint'.job = b
    BY <1>2, <1>3, <2>1 DEF SiteFacts, Described, Whole, hostVars
  <2>4. Stands(b, jobs[b].work)' /\ Stands(b, maint.phase)'
    <3>1. Stands(b, jobs[b].work)'
      BY <1>2, <2>1, <2>2, BootStands
    <3>2. maint'.phase = "NeedsManual" => Stands(b, maint.phase)'
      BY DEF Stands, PreSwapPhases, PostSwapPhases, RollbackPhases
    <3>3. maint' = maint => Stands(b, maint.phase)'
      BY <1>2, <2>2, <2>3, BootStands
    <3> QED
      BY <2>1, <3>1, <3>2, <3>3
  <2> QED
    BY <1>1, <1>2, <1>3, <1>4, <2>1, <2>3, <2>4, BootOwnSite
<1> QED
  BY <1>5, <1>6

\* A job that had not swapped the tag ends, before its services are restored.
LEMMA BootFailPreSwapSite ==
  ASSUME Standing, BootStep, BootFailPreSwap
  PROVE  SiteFits'
<1>1. boot.pc = "failPreSwap" /\ boot.pc \in JobPoints
  BY DEF BootFailPreSwap, JobPoints
<1> PICK b \in Jobs : b = boot.job
  BY <1>1, BootStanding
<1>2. /\ TypeOK /\ SiteFacts /\ Described(b) /\ Restores(b)
      /\ maint.job = b \/ (maint.job = NoJob /\ current = b)
      /\ b = RecoveryJob(maint, current) /\ jobs[b].status # "Absent"
      /\ jobs[b].work \notin RollbackPhases /\ maint.phase \notin RollbackPhases
  <2>1. SiteBoot /\ BootFits
    BY <1>1, BootStanding
  <2> QED
    BY <1>1, <2>1, BootStanding DEF SiteBoot, BootFits
<1>3. /\ UNCHANGED <<current, maint, curVer, report, snaps, hostVars, exec>>
      /\ boot'.pc = "serveRestore" /\ boot'.job = b
  BY <1>2 DEF BootFailPreSwap, BootStep, BootGoto, WriteJob, TypeOK, ProcessTypeOK
<1>4. /\ jobs'[b] = [jobs[b] EXCEPT
           !.status = IF @ \in {"Pending", "Running"} THEN "Failed" ELSE @]
      /\ \A i \in Jobs \ {b} : jobs'[i] = jobs[i]
      /\ jobs[b] \in JobRecord
  BY <1>2 DEF BootFailPreSwap, WriteJob, TypeOK, StateTypeOK
<1>5. /\ jobs'[b].status =
           IF jobs[b].status \in {"Pending", "Running"} THEN "Failed" ELSE jobs[b].status
      /\ jobs'[b].last = jobs[b].last /\ jobs'[b].kind = jobs[b].kind
      /\ jobs'[b].work = jobs[b].work /\ jobs'[b].snap = jobs[b].snap
      /\ jobs'[b].from = jobs[b].from /\ jobs'[b].to = jobs[b].to
  BY <1>4 DEF JobRecord
<1>6. Restores(b)' /\ Described(b)' /\ (~maint'.active => Whole')
  BY <1>2, <1>3, <1>5
     DEF SiteFacts, Restores, ReportHolds, BackedUp, Described, Whole, hostVars
<1>7. ASSUME NEW phase \in {jobs[b].work, maint.phase}, Stands(b, phase)
      PROVE  Stands(b, phase)'
  BY <1>2, <1>3, <1>5, <1>6, <1>7
     DEF Stands, Whole, ReportHolds, IsCommitted, Landing, hostVars
<1>8. Stands(b, jobs[b].work)' /\ (maint'.job = b => Stands(b, maint.phase)')
  BY <1>2, <1>3, <1>5, <1>7, BootStands
<1>9. SiteBoot'
  BY <1>3, <1>6 DEF SiteBoot
<1> QED
  BY <1>1, <1>2, <1>3, <1>4, <1>6, <1>8, <1>9, BootOwnSite

\* The site closes, and the pointer follows, before an update is taken up again.
LEMMA BootReviveSite ==
  ASSUME Standing, BootStep, BootReviveMaint \/ BootReviveCurrent
  PROVE  SiteFits'
<1>1. boot.pc \in {"reviveMaint", "reviveCurrent"} /\ boot.pc \in JobPoints
  BY DEF BootReviveMaint, BootReviveCurrent, JobPoints
<1> PICK b \in Jobs : b = boot.job
  BY <1>1, BootStanding
<1>2. /\ TypeOK /\ SiteFacts /\ Described(b) /\ b = RecoveryJob(maint, current)
      /\ maint.job = b \/ (maint.job = NoJob /\ current = b)
  BY <1>1, BootStanding
<1>3. /\ UNCHANGED <<jobs, curVer, report, snaps, hostVars, exec>>
      /\ boot'.pc \in {"reviveCurrent", "serveResume"}
      /\ maint'.job = maint.job /\ maint'.phase = maint.phase /\ current' \in {current, b}
      /\ maint.active => maint'.active
  BY <1>1, <1>2
     DEF BootReviveMaint, BootReviveCurrent, BootStep, BootGoto, WriteMaint, SetCurrent, TypeOK,
         ProcessTypeOK, StateTypeOK, MaintenanceRecord
<1>4. \A phase : Stands(b, phase) => Stands(b, phase)'
  BY <1>3 DEF Stands, Whole, ReportHolds, Restores, BackedUp, Landing, hostVars
<1>5. Stands(b, jobs[b].work)' /\ (maint'.job = b => Stands(b, maint.phase)')
  BY <1>2, <1>3, <1>4, BootStands
<1>6. Described(b)' /\ (~maint'.active => Whole') /\ SiteBoot'
  BY <1>2, <1>3 DEF SiteFacts, Described, Whole, SiteBoot, hostVars
<1> QED
  BY <1>1, <1>2, <1>3, <1>5, <1>6, BootOwnSite

\* The process serves, and the task recovery left has what it puts back.
LEMMA ServeSite ==
  ASSUME Standing, BootStep, Serve
  PROVE  SiteFits'
<1>1. /\ boot.pc \in {"serve", "serveRestore", "serveResume"} /\ boot'.pc = "up"
      /\ UNCHANGED <<stateVars, hostVars>>
  BY DEF Standing, Held, Kept, Safe, Sound, Serve, BootStep, TypeOK, ProcessTypeOK
<1>2. TypeOK /\ BootFits /\ SiteBoot /\ \A i \in Jobs : ~ExecutorRunning(i)
  BY <1>1, BootFiles, BootStanding DEF Standing, Held
<1>3. SiteFacts' /\ SiteBoot'
  BY <1>1, QuietSite DEF stateVars, hostVars, SiteBoot
<1>4. \A i \in Jobs : exec'[i] = exec[i] => SiteTask(i)'
  BY <1>2, NoTaskSite DEF ExecutorRunning
<1>5. CASE boot.pc = "serve"
  BY <1>3, <1>4, <1>5 DEF Serve, SiteFits
<1>6. CASE boot.pc \in {"serveRestore", "serveResume"}
  <2> PICK b \in Jobs : b = boot.job
    BY <1>6, BootStanding DEF JobPoints
  <2>1. b # NoJob /\ (maint.job = b \/ (maint.job = NoJob /\ current = b))
        /\ jobs[b].kind = "Update"
    BY <1>6, BootStanding, NoJobAssumption DEF JobPoints
  <2>2. CASE boot.pc = "serveRestore"
    <3>1. Restores(b) /\ RollbackWaits
      BY <1>2, <2>2 DEF SiteBoot, BootFits
    <3>2. current # NoJob /\ current \in Jobs
      BY <1>2, <2>2, BootStanding
         DEF Exclusive, RecoveryOwns, TypeOK, StateTypeOK, JobOrNone
    <3>3. current = b
      BY <2>1, <2>2, <3>1, <3>2, BootStanding DEF RollbackWaits
    <3>4. Spawn(b, "preSwapCompose", "AppAndPostgres")
      BY <2>2, <3>2, <3>3 DEF Serve
    <3>5. exec'[b].pc = "preSwapCompose" /\ \A i \in Jobs \ {b} : exec'[i] = exec[i]
      BY <1>2, <3>4 DEF Spawn, NoExecutor, TypeOK, ProcessTypeOK
    <3>6. SiteTask(b)'
      BY <1>1, <3>1, <3>5 DEF SiteTask, Restores, ReportHolds, BackedUp, stateVars, hostVars
    <3> QED
      BY <1>3, <1>4, <3>5, <3>6 DEF SiteFits
  <2>3. CASE boot.pc = "serveResume"
    <3>1. Spawn(b, ResumePoint(jobs[b], boot.rollback), "None")
      BY <2>3 DEF Serve
    <3>2. /\ exec'[b].pc \in {"resumeBack", "resumeForward"}
          /\ \A i \in Jobs \ {b} : exec'[i] = exec[i]
      BY <1>2, <2>1, <3>1 DEF Spawn, ResumePoint, NoExecutor, TypeOK, ProcessTypeOK
    <3>3. SiteTask(b)'
      BY <3>2 DEF SiteTask
    <3> QED
      BY <1>3, <1>4, <3>2, <3>3 DEF SiteFits
  <2> QED
    BY <1>6, <2>2, <2>3
<1> QED
  BY <1>1, <1>5, <1>6

\* So recovery keeps the site in order.
LEMMA BootStepSite ==
  ASSUME Standing, BootStep
  PROVE  SiteFits'
<1>1. ~BootFreeze
  BY BootStanding DEF BootFreeze, Exclusive, RecoveryOwns
<1> QED
  BY <1>1, BootPlanSite, BootFailUnstartedSite, BootCommitVersionSite, BootClearSite,
     BootManualSite, BootFailPreSwapSite, BootReviveSite, ServeSite
     DEF BootStep

-----------------------------------------------------------------------------
(***************************************************************************)
(* The site is always a whole release, and changes as the deployment may.  *)
(***************************************************************************)
LEMMA InitSite ==
  ASSUME Init
  PROVE  SiteFits
<1>1. /\ jobs = [j \in Jobs |-> NoRecord] /\ exec = [j \in Jobs |-> NoExecutor]
      /\ report = [j \in Jobs |-> NoReport] /\ snaps = [j \in Jobs |-> NoSnapshot]
      /\ current = NoJob /\ maint = InactiveMaintenance /\ boot.pc = "up"
      /\ curVer = 1 /\ compose = 1 /\ data = 1
  BY DEF Init
<1>2. SiteFacts
  BY <1>1
     DEF SiteFacts, Described, Whole, NoRecord, NoReport, NoSnapshot, InactiveMaintenance
<1>3. SiteBoot
  BY <1>1 DEF SiteBoot
<1>4. \A j \in Jobs : SiteTask(j)
  BY <1>1 DEF SiteTask, NoExecutor
<1> QED
  BY <1>2, <1>3, <1>4 DEF SiteFits

\* Without a request for one, no job is a rollback.
LEMMA UpdatesOnly ==
  ASSUME TypeOK, Grounded, \A i \in Jobs : jobs[i].kind = "Update", [UpdateNext]_vars
  PROVE  \A i \in Jobs : jobs'[i].kind = "Update"
<1>1. CASE RequestAnyUpdate
  <2> PICK j \in Jobs, target \in Versions : RequestUpdate(j, target)
    BY <1>1 DEF RequestAnyUpdate
  <2>1. jobs' = [jobs EXCEPT ![j] = NewUpdate(curVer, target)]
    BY DEF RequestUpdate, Write, WriteJob
  <2>2. NewUpdate(curVer, target).kind = "Update"
    BY DEF NewUpdate, NoRecord
  <2> QED
    BY <2>1, <2>2 DEF TypeOK, StateTypeOK
<1>2. CASE SameKinds
  BY <1>2 DEF SameKinds
<1>3. CASE Admit \/ ReconcileProbe \/ ReconcileWrite \/ Crash \/ Migrate \/ Quiet
           \/ UNCHANGED vars
  BY <1>3
     DEF Admit, ReconcileProbe, ReconcileWrite, Crash, Migrate, Quiet, vars, stateVars,
         SetCurrent, WriteUpdater
<1> QED
  BY <1>1, <1>2, <1>3, TaskKeepsKind, BootKeepsKind DEF UpdateNext, Internal

LEMMA UpdateIsPatient ==
  ASSUME [UpdateNext]_vars
  PROVE  [PatientNext]_vars
BY DEF UpdateNext, PatientNext

LEMMA StepSite ==
  ASSUME Held, SiteFits, [UpdateNext]_vars
  PROVE  Standing /\ SiteFits'
<1>1. Standing
  BY UpdatesOnly DEF Standing, Held, Kept, Safe, Sound, SiteFits, SiteFacts
<1>2. CASE \E j \in Jobs : ExecutorStep(j)
  BY <1>1, <1>2, TaskSite
<1>3. CASE Admit \/ Crash \/ BootStep \/ Migrate
  BY <1>1, <1>3, AdmitSite, CrashSite, BootStepSite, MigrateSite
<1>4. CASE ReconcileProbe \/ ReconcileWrite \/ Quiet \/ UNCHANGED vars
  BY <1>1, <1>4, IdleStepSite
<1>5. CASE RequestAnyUpdate
  BY <1>1, <1>5, RequestUpdateSite DEF RequestAnyUpdate
<1> QED
  BY <1>1, <1>2, <1>3, <1>4, <1>5 DEF UpdateNext, Internal

\* At every state the site is the recorded release, and while it is open its containers,
\* tag, template and data are.
SiteRecorded == Site = Abstract!Release(curVer)

LEMMA SiteIsRecorded ==
  ASSUME Held, SiteFits
  PROVE  SiteRecorded
<1>1. ~maint.active => apps = curVer /\ data = curVer /\ compose = curVer
  BY DEF Held, HostFits, Facts, OpenFits, AtRest, SiteFits, SiteFacts, Whole
<1> QED
  BY <1>1 DEF SiteRecorded, Site, Abstract!Release

\* The task of an update changes the recorded release, or the copies, at three points.
LEMMA TaskRecordsRelease ==
  ASSUME NEW j \in Jobs, ExecutorStep(j)
  PROVE  UNCHANGED <<curVer, snaps>> \/ CopySnapshot(j) \/ CommitVersion(j) \/ RecordRestored(j)
<1>1. CASE NoteMaintenance(j) \/ NoteStep(j)
  BY <1>1 DEF NoteMaintenance, NoteStep, WriteMaint, WriteJob
<1>2. CASE UpdateStep(j)
  BY <1>2
     DEF UpdateStep, stateVars, Preflight, BuildRunner, StopApps, SkipSnapshot, StopPostgres,
         StartPostgres, NoteSnapshot, InstallCompose, SwapTag, SwapProxyTag, Verify, StartNew,
         ProbeHealth, Commit, ResumeUpdate, ReinstallCompose, WriteJob
<1>3. CASE RollbackStep(j)
  BY <1>3
     DEF RollbackStep, stateVars, Revert, WriteMaint, RollbackRunner, PlanComposeRestore,
         StopNew, RestoreCompose, RestoreProxyTag, SwapTagBack, SkipRestore, StopForRestore,
         WipeData, RefillData, StartRestored, StartOld, OldStarted, OldHealth, RollbackDone,
         RollbackFailed, WriteJob
<1>4. CASE CleanupStep(j)
  BY <1>4
     DEF CleanupStep, stateVars, PreSwapCompose, PreSwapUp, FinalizeFailed, ManualJob,
         ManualMaint, ClearMaint, ClearCurrent, RecoveryFailed, RecoveryJobFailed,
         RecoveryMaint, RecoveryCurrent, WriteMaint, WriteJob, SetCurrent
<1> QED
  BY <1>1, <1>2, <1>3, <1>4 DEF ExecutorStep

\* So does no other step, but for the one that records a success after a restart.
LEMMA StepRecordsRelease ==
  ASSUME Standing, [UpdateNext]_vars
  PROVE  \/ UNCHANGED <<curVer, snaps>>
         \/ \E j \in Jobs :
              ExecutorStep(j) /\ (CopySnapshot(j) \/ CommitVersion(j) \/ RecordRestored(j))
         \/ BootStep /\ BootCommitVersion
<1>1. CASE \E j \in Jobs : ExecutorStep(j)
  BY <1>1, TaskRecordsRelease
<1>2. CASE BootStep
  BY <1>2
     DEF BootStep, stateVars, BootPlan, BootFailUnstarted, BootClearMaint, BootClearCurrent,
         BootManualJob, BootManualMaint, BootManualCurrent, BootFailPreSwap, BootReviveMaint,
         BootReviveCurrent, BootFreeze, Serve, WriteJob, WriteMaint, SetCurrent
<1>3. CASE Admit \/ Crash \/ Migrate \/ RequestAnyUpdate
  BY <1>3
     DEF Admit, Crash, Migrate, RequestAnyUpdate, RequestUpdate, Write, WriteJob, SetCurrent,
         stateVars
<1>4. CASE ReconcileProbe \/ ReconcileWrite \/ Quiet \/ UNCHANGED vars
  BY <1>4 DEF Standing, Held, HostFits, Facts, ReconcileProbe, ReconcileWrite, Quiet, vars,
              stateVars
<1> QED
  BY <1>1, <1>2, <1>3, <1>4 DEF UpdateNext, Internal

\* The step of the deployment a step of the updater makes, if any.
SiteMoves == Abstract!SiteNext \/ UNCHANGED Abstract!siteVars

\* The gate of a site that stays what it is.
LEMMA GateMoves ==
  ASSUME TypeOK, TypeOK', SiteRecorded, SiteRecorded', UNCHANGED <<curVer, snaps>>
  PROVE  SiteMoves
<1>1. Site' = Site
  BY DEF SiteRecorded, Abstract!Release
<1>2. KeptBackups' = KeptBackups
  BY DEF KeptBackups
<1>3. maint.active \in BOOLEAN /\ maint'.active \in BOOLEAN
  BY DEF TypeOK, StateTypeOK, MaintenanceRecord
<1> QED
  BY <1>1, <1>2, <1>3
     DEF SiteMoves, Abstract!SiteNext, Abstract!Close, Abstract!Open, Abstract!siteVars

\* The success of an update is a step forward, from a release of which there is a copy.
LEMMA LandingMoves ==
  ASSUME Held, SiteFits, SiteRecorded, SiteRecorded', NEW j \in Jobs,
         Landing(j), Committed(j), curVer' = jobs[j].to, UNCHANGED <<maint, snaps>>
  PROVE  SiteMoves
<1>1. /\ TypeOK /\ Facts /\ SiteFacts /\ Described(j) /\ jobs[j].kind = "Update"
      /\ jobs[j].status = "Succeeded"
  BY DEF Held, HostFits, Kept, Safe, Sound, SiteFits, SiteFacts, Committed, IsCommitted
<1>2. CASE curVer' = curVer
  <2>1. Site' = Site /\ KeptBackups' = KeptBackups
    BY <1>2 DEF SiteRecorded, Abstract!Release, KeptBackups
  <2> QED
    BY <2>1 DEF SiteMoves, Abstract!siteVars
<1>3. CASE curVer' # curVer
  <2>1. /\ snaps[j].taken /\ jobs[j].from = curVer /\ jobs[j].to > curVer
        /\ snaps[j].version = curVer /\ snaps[j].data = curVer
    BY <1>1, <1>3 DEF Landing, Described
  <2>2. maint.active = TRUE
    BY <1>1, <1>3 DEF SiteFacts, Whole, Landing, TypeOK, StateTypeOK, MaintenanceRecord
  <2>3. jobs[j].to \in Versions
    BY <1>1 DEF Facts, JobFileFits
  <2>4. Abstract!Backup(curVer) \in KeptBackups
    BY <2>1 DEF KeptBackups, Abstract!Backup
  <2>5. Site.code = curVer /\ Site' = Abstract!Release(jobs[j].to)
    BY DEF SiteRecorded, Abstract!Release
  <2>6. KeptBackups' = KeptBackups
    BY DEF KeptBackups
  <2>7. Abstract!Upgrade
    BY <2>1, <2>2, <2>3, <2>4, <2>5, <2>6 DEF Abstract!Upgrade
  <2> QED
    BY <2>7 DEF SiteMoves, Abstract!SiteNext
<1> QED
  BY <1>2, <1>3

\* A copy is of the release the closed site stands at, and replaces only the same one.
LEMMA CopyMoves ==
  ASSUME Standing, SiteRecorded, SiteRecorded', NEW j \in Jobs, ExecutorStep(j), CopySnapshot(j)
  PROVE  SiteMoves
<1>1. /\ TypeOK /\ FitsBefore(j) /\ SiteTask(j) /\ Described(j) /\ exec[j].pc = "copy"
  BY TaskStands DEF Standing, Held, CopySnapshot, At
<1>2. /\ Whole /\ jobs[j].from = curVer /\ report[j].from = curVer /\ maint.active = TRUE
  BY <1>1 DEF SiteTask, FitsBefore, TypeOK, StateTypeOK, MaintenanceRecord
<1>3. CASE UNCHANGED stateVars
  <2>1. Site' = Site /\ KeptBackups' = KeptBackups
    BY <1>3 DEF SiteRecorded, Abstract!Release, KeptBackups, stateVars
  <2> QED
    BY <1>3, <2>1 DEF SiteMoves, Abstract!siteVars, stateVars
<1>4. CASE /\ snaps' = [snaps EXCEPT ![j] =
                [taken |-> TRUE, data |-> data, version |-> report[j].from]]
           /\ UNCHANGED <<jobs, current, maint, curVer, report>>
  <2>1. Site' = Site /\ Site.code = curVer
    BY <1>4 DEF SiteRecorded, Abstract!Release
  <2>2. /\ snaps'[j].taken /\ snaps'[j].version = curVer /\ snaps'[j].data = curVer
        /\ \A i \in Jobs \ {j} : snaps'[i] = snaps[i]
    BY <1>1, <1>2, <1>4 DEF TypeOK, StateTypeOK, Whole
  <2>3. snaps[j].taken => snaps[j].version = curVer /\ snaps[j].data = curVer
    BY <1>1, <1>2 DEF Described
  <2>4. KeptBackups' = KeptBackups \cup {Abstract!Backup(curVer)}
    <3>1. ASSUME NEW b \in KeptBackups'
          PROVE  b \in KeptBackups \cup {Abstract!Backup(curVer)}
      <4>1. PICK i \in Jobs :
              snaps'[i].taken /\ b = [code |-> snaps'[i].version, schema |-> snaps'[i].data]
        BY <3>1 DEF KeptBackups
      <4> QED
        BY <2>2, <4>1 DEF KeptBackups, Abstract!Backup
    <3>2. ASSUME NEW b \in KeptBackups
          PROVE  b \in KeptBackups'
      <4>1. PICK i \in Jobs :
              snaps[i].taken /\ b = [code |-> snaps[i].version, schema |-> snaps[i].data]
        BY <3>2 DEF KeptBackups
      <4>2. /\ snaps'[i].taken /\ snaps'[i].version = snaps[i].version
            /\ snaps'[i].data = snaps[i].data
        BY <2>2, <2>3, <4>1
      <4> QED
        BY <4>1, <4>2 DEF KeptBackups
    <3>3. Abstract!Backup(curVer) \in KeptBackups'
      BY <2>2 DEF KeptBackups, Abstract!Backup
    <3> QED
      BY <3>1, <3>2, <3>3
  <2>5. Abstract!Keep
    BY <1>2, <1>4, <2>1, <2>4 DEF Abstract!Keep
  <2> QED
    BY <2>5 DEF SiteMoves, Abstract!SiteNext
<1> QED
  BY <1>3, <1>4 DEF CopySnapshot

\* Every step of the updater is one the deployment may make, or leaves it alone.
LEMMA StepDeploys ==
  ASSUME Standing, TypeOK', SiteRecorded, SiteRecorded', [UpdateNext]_vars
  PROVE  SiteMoves
<1>1. TypeOK /\ Held /\ SiteFits
  BY DEF Standing, Held, Kept, Safe, Sound
<1>2. CASE UNCHANGED <<curVer, snaps>>
  BY <1>1, <1>2, GateMoves
<1>3. ASSUME NEW j \in Jobs, ExecutorStep(j), CopySnapshot(j)
      PROVE  SiteMoves
  BY <1>3, CopyMoves
<1>4. ASSUME NEW j \in Jobs, ExecutorStep(j), CommitVersion(j)
      PROVE  SiteMoves
  <2>1. Committed(j) /\ Landing(j)
    BY <1>4, TaskStands DEF FitsAfter, SiteTask, CommitVersion, At
  <2>2. curVer' = jobs[j].to /\ UNCHANGED <<maint, snaps>>
    BY <1>4 DEF CommitVersion, WriteUpdater
  <2> QED
    BY <1>1, <2>1, <2>2, LandingMoves
<1>5. ASSUME NEW j \in Jobs, ExecutorStep(j), RecordRestored(j)
      PROVE  SiteMoves
  <2>1. exec[j].tag = curVer
    BY <1>5, TaskStands DEF FitsBack, BackedUp, RecordRestored, At
  <2>2. UNCHANGED <<curVer, snaps>>
    BY <1>5, <2>1 DEF RecordRestored, WriteUpdater
  <2> QED
    BY <1>1, <2>2, GateMoves
<1>6. CASE BootStep /\ BootCommitVersion
  <2>1. boot.pc = "commitVersion" /\ boot.pc \in JobPoints
    BY <1>6 DEF BootCommitVersion, JobPoints
  <2>2. boot.job \in Jobs /\ Committed(boot.job) /\ Landing(boot.job)
    <3>1. BootFits /\ SiteBoot
      BY <2>1, BootStanding
    <3> QED
      BY <2>1, <3>1, BootStanding DEF BootFits, SiteBoot
  <2>3. curVer' = jobs[boot.job].to /\ UNCHANGED <<maint, snaps>>
    BY <1>6 DEF BootCommitVersion, WriteUpdater
  <2> QED
    BY <1>1, <2>2, <2>3, LandingMoves
<1> QED
  BY <1>2, <1>3, <1>4, <1>5, <1>6, StepRecordsRelease

\* What every state of an updater nobody asks for a rollback has.
InOrder == Held /\ SiteFits

\* Compose template, schema, tag and containers fit the records at every step of an update
\* and of its recovery.
THEOREM UpdaterSiteFits ==
  ASSUME Restorable
  PROVE  UpdateSpec => []SiteFits
<1>1. Init => InOrder
  BY InitSound, InitExclusive, InitRecorded, InitFits, InitSite DEF InOrder, Held, Kept, Safe
<1>2. InOrder /\ [UpdateNext]_vars => InOrder'
  BY UpdateIsPatient, StepHeld, StepSite DEF InOrder
<1>3. InOrder => SiteFits
  BY DEF InOrder
<1> QED
  BY <1>1, <1>2, <1>3, PTL DEF UpdateSpec

\* The updater implements the deployment, whatever fails and wherever it dies: the site
\* changes as a whole, behind a closed gate, never forward without a copy of what it leaves,
\* and an update that fails leaves it as it was.
THEOREM UpdaterImplementsDeployment ==
  ASSUME Restorable
  PROVE  UpdateSpec => ImplementsDeployment
<1>1. Init => InOrder
  BY InitSound, InitExclusive, InitRecorded, InitFits, InitSite DEF InOrder, Held, Kept, Safe
<1>2. InOrder /\ [UpdateNext]_vars => InOrder'
  BY UpdateIsPatient, StepHeld, StepSite DEF InOrder
<1>3. InOrder => SiteRecorded /\ TypeOK
  BY SiteIsRecorded DEF InOrder, Held, Kept, Safe, Sound
<1>4. Init => Abstract!SiteInit
  <2> SUFFICES ASSUME Init
               PROVE  Abstract!SiteInit
    OBVIOUS
  <2>1. ~maint.active = TRUE /\ apps = 1 /\ data = 1 /\ compose = 1
        /\ \A j \in Jobs : ~snaps[j].taken
    BY DEF Init, InactiveMaintenance, NoSnapshot
  <2>2. KeptBackups = {}
    BY <2>1 DEF KeptBackups
  <2> QED
    BY <2>1, <2>2 DEF Abstract!SiteInit, Abstract!Release, Site
<1>5. /\ InOrder /\ InOrder' /\ SiteRecorded /\ SiteRecorded' /\ TypeOK' /\ [UpdateNext]_vars
      => [Abstract!SiteNext]_(Abstract!siteVars)
  BY StepSite, StepDeploys DEF InOrder, SiteMoves
<1> QED
  BY <1>1, <1>2, <1>3, <1>4, <1>5, PTL DEF UpdateSpec, ImplementsDeployment, Abstract!SiteSpec
=============================================================================
