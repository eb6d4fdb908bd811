------------------------------- MODULE Updater -------------------------------
(***************************************************************************)
(* The updater daemon: one worker loop that admits jobs, the executor task *)
(* each job runs in, and the recovery a restarted process performs, over   *)
(* what survives a crash: the files of the state directory (job files,     *)
(* job.current, maintenance.json, updater.json, prepared reports and       *)
(* recorded snapshots), .env, the Compose file, pgdata and the containers. *)
(*                                                                         *)
(* Every durable write and every Docker operation is a step of its own, so *)
(* the process may die between any two of them.  A Docker operation, probe *)
(* or host file write may fail (MaxFaults bounds how often); writes to the *)
(* state directory succeed.                                                *)
(***************************************************************************)
EXTENDS RecoveryPlan

CONSTANTS
  External,      \* MYRIAD_DB_MODE=external: no pgdata to snapshot or restore
  ShipsProxy,    \* the target release publishes a proxy image
  MaxFaults,     \* bound: operations that may fail
  MaxCrashes,    \* bound: times the updater process may die
  MaxProbes      \* bound: reconciliations of updater.json

ASSUME SwitchAssumption == External \in BOOLEAN /\ ShipsProxy \in BOOLEAN
ASSUME BoundAssumption ==
  MaxFaults \in Nat /\ MaxCrashes \in Nat /\ MaxProbes \in Nat

VARIABLES
  \* the state directory
  jobs,       \* job files
  current,    \* job.current
  maint,      \* maintenance.json
  curVer,     \* updater.json: current_version
  report,     \* prepared.<job>.json
  snaps,      \* snap-<job>, once recorded in snapshots.json
  \* the host
  env,        \* .env: MYRIAD_TAG and PROXY_TAG
  compose,    \* release whose template the Compose file holds
  apps,       \* release the application containers run, NoVersion when stopped
  pg,         \* postgres is running
  data,       \* schema pgdata holds
  \* the process: lost in a crash
  exec,       \* the task running each job
  loop,       \* job the worker loop has written but not yet admitted
  boot,       \* progress of startup recovery
  probe,      \* version a reconciliation is about to write
  \* bounds
  faults, crashes, probes

stateVars == <<jobs, current, maint, curVer, report, snaps>>
hostVars == <<env, compose, apps, pg, data>>
processVars == <<exec, loop, boot, probe>>
boundVars == <<faults, crashes, probes>>
vars == <<stateVars, hostVars, processVars, boundVars>>

Stopped == NoVersion

-----------------------------------------------------------------------------
(***************************************************************************)
(* Program counters.  A phase name is the point where PhaseRecorder::enter *)
(* is about to record that phase; WorkOf is where the phase's work starts. *)
(***************************************************************************)
WorkOf ==
  [Preflight |-> "preflight", MaintenanceOn |-> "runner",
   Stopping |-> "stopApps", Snapshotting |-> "stopPostgres",
   SwapTag |-> "install", StartingNew |-> "verify", HealthProbing |-> "probe",
   RollbackInProgress |-> "rollbackRunner", StopNew |-> "stopNew",
   SwapTagBack |-> "swapTagBack", RestoreSnapshot |-> "stopForRestore",
   StartOld |-> "startOld"]

UpdatePoints ==
  {"preflight", "runner", "stopApps", "stopPostgres", "copy", "startPostgres",
   "noteSnapshot", "install", "swapTag", "swapProxyTag", "verify", "startNew",
   "probe", "commit", "commitVersion", "resumeForward", "resumeBack",
   "reinstall"}

RollbackPoints ==
  {"revert", "rollbackRunner", "plan", "stopNew", "restoreCompose",
   "restoreProxyTag", "swapTagBack", "stopForRestore", "wipe", "refill",
   "startRestored", "startOld", "oldStarted", "oldHealth", "recordRestored",
   "rollbackDone", "rollbackFailed"}

CleanupPoints ==
  {"preSwapCompose", "preSwapUp", "finalizeFailed", "manualJob", "manualMaint",
   "clearMaint", "clearCurrent", "recoveryFailed", "recoveryJob",
   "recoveryMaint", "recoveryCurrent"}

Points ==
  {"idle"} \cup DOMAIN WorkOf \cup UpdatePoints \cup RollbackPoints
    \cup CleanupPoints

Scopes == {"None", "App", "AppAndPostgres"}

Executor ==
  [pc : Points, noted : BOOLEAN, scope : Scopes, tag : VersionOrNone,
   recovering : BOOLEAN]

NoExecutor ==
  [pc |-> "idle", noted |-> FALSE, scope |-> "None", tag |-> NoVersion,
   recovering |-> FALSE]

BootPoints ==
  {"plan", "up", "serve", "serveRestore", "serveResume", "clearMaint",
   "clearCurrent", "commitVersion", "failUnstarted", "manualJob",
   "manualMaint", "manualCurrent", "failPreSwap", "reviveMaint",
   "reviveCurrent", "freeze"}

Schemas == 0 .. Damaged

Report == [ready : BOOLEAN, from : VersionOrNone, compose : VersionOrNone,
           proxy : VersionOrNone]

NoReport == [ready |-> FALSE, from |-> NoVersion, compose |-> NoVersion,
             proxy |-> NoVersion]

Snapshot == [taken : BOOLEAN, data : Schemas, version : VersionOrNone]

NoSnapshot == [taken |-> FALSE, data |-> NoVersion, version |-> NoVersion]

StateTypeOK ==
  /\ jobs \in [Jobs -> JobRecord]
  /\ current \in JobOrNone
  /\ maint \in MaintenanceRecord
  /\ curVer \in VersionOrNone
  /\ report \in [Jobs -> Report]
  /\ snaps \in [Jobs -> Snapshot]

HostTypeOK ==
  /\ env \in [tag : VersionOrNone, proxy : VersionOrNone]
  /\ compose \in VersionOrNone
  /\ apps \in VersionOrNone
  /\ pg \in BOOLEAN
  /\ data \in Schemas

ProcessTypeOK ==
  /\ exec \in [Jobs -> Executor]
  /\ loop \in JobOrNone
  /\ boot \in [pc : BootPoints, job : JobOrNone, rollback : BOOLEAN]
  /\ probe \in VersionOrNone

BoundTypeOK ==
  /\ faults \in 0 .. MaxFaults
  /\ crashes \in 0 .. MaxCrashes
  /\ probes \in 0 .. MaxProbes

TypeOK == StateTypeOK /\ HostTypeOK /\ ProcessTypeOK /\ BoundTypeOK

Init ==
  /\ jobs = [j \in Jobs |-> NoRecord]
  /\ current = NoJob
  /\ maint = InactiveMaintenance
  /\ curVer = 1
  /\ report = [j \in Jobs |-> NoReport]
  /\ snaps = [j \in Jobs |-> NoSnapshot]
  /\ env = [tag |-> 1, proxy |-> 1]
  /\ compose = 1
  /\ apps = 1
  /\ pg = TRUE
  /\ data = 1
  /\ exec = [j \in Jobs |-> NoExecutor]
  /\ loop = NoJob
  /\ boot = [pc |-> "up", job |-> NoJob, rollback |-> FALSE]
  /\ probe = NoVersion
  /\ faults = 0
  /\ crashes = 0
  /\ probes = 0

-----------------------------------------------------------------------------
(***************************************************************************)
(* Writes of one file of the state directory, and outcomes of operations.  *)
(***************************************************************************)
WriteJob(j, record) ==
  /\ jobs' = [jobs EXCEPT ![j] = record]
  /\ UNCHANGED <<current, maint, curVer, report, snaps>>

WriteMaint(record) ==
  /\ maint' = record
  /\ UNCHANGED <<jobs, current, curVer, report, snaps>>

SetCurrent(id) ==
  /\ current' = id
  /\ UNCHANGED <<jobs, maint, curVer, report, snaps>>

WriteUpdater(version) ==
  /\ curVer' = version
  /\ UNCHANGED <<jobs, current, maint, report, snaps>>

Succeeds == UNCHANGED faults

Fails == faults < MaxFaults /\ faults' = faults + 1

At(j, pc) == exec[j].pc = pc

Goto(j, pc) == exec' = [exec EXCEPT ![j].pc = pc, ![j].noted = FALSE]

Finish(j) == exec' = [exec EXCEPT ![j] = NoExecutor]

ExecutorRunning(j) == exec[j].pc # "idle"

NoExecutorRunning == \A j \in Jobs : ~ExecutorRunning(j)

(***************************************************************************)
(* PhaseRecorder::enter: maintenance.json first, the job's step after it.  *)
(***************************************************************************)
NoteMaintenance(j) ==
  /\ exec[j].pc \in DOMAIN WorkOf
  /\ ~exec[j].noted
  /\ WriteMaint([active |-> TakesSiteOffline(exec[j].pc),
                 phase |-> exec[j].pc, job |-> j])
  /\ exec' = [exec EXCEPT ![j].noted = TRUE]
  /\ Succeeds /\ UNCHANGED hostVars

NoteStep(j) ==
  /\ exec[j].pc \in DOMAIN WorkOf
  /\ exec[j].noted
  /\ WriteJob(j, [jobs[j] EXCEPT
       !.last = exec[j].pc, !.work = exec[j].pc, !.ok = FALSE,
       !.status = IF @ = "Pending" THEN "Running" ELSE @])
  /\ Goto(j, WorkOf[exec[j].pc])
  /\ Succeeds /\ UNCHANGED hostVars

-----------------------------------------------------------------------------
(***************************************************************************)
(* update::run, up to the switch of MYRIAD_TAG.                            *)
(***************************************************************************)
\* Without allow_downgrade the target must be newer than the running version.
Preflight(j) ==
  /\ At(j, "preflight")
  /\ UNCHANGED hostVars
  /\ \/ /\ jobs[j].to > curVer
        /\ report' = [report EXCEPT ![j] =
             [ready |-> TRUE, from |-> curVer, compose |-> compose,
              proxy |-> IF ShipsProxy THEN env.proxy ELSE NoVersion]]
        /\ UNCHANGED <<jobs, current, maint, curVer, snaps>>
        /\ Goto(j, "MaintenanceOn") /\ Succeeds
     \/ /\ IF jobs[j].to > curVer THEN Fails ELSE Succeeds
        /\ UNCHANGED stateVars
        /\ Goto(j, "finalizeFailed")

BuildRunner(j) ==
  /\ At(j, "runner")
  /\ UNCHANGED <<stateVars, hostVars>>
  /\ \/ /\ exec' = [exec EXCEPT ![j].pc = "Stopping", ![j].noted = FALSE,
                                ![j].scope = "App"]
        /\ Succeeds
     \/ Goto(j, "preSwapCompose") /\ Fails

StopApps(j) ==
  /\ At(j, "stopApps")
  /\ UNCHANGED <<stateVars, env, compose, pg, data>>
  /\ \/ apps' = Stopped /\ Goto(j, "Snapshotting") /\ Succeeds
     \/ apps' \in {apps, Stopped} /\ Goto(j, "preSwapCompose") /\ Fails

SkipSnapshot(j) ==
  /\ At(j, "stopPostgres") /\ External
  /\ UNCHANGED <<stateVars, hostVars>>
  /\ Goto(j, "SwapTag") /\ Succeeds

StopPostgres(j) ==
  /\ At(j, "stopPostgres") /\ ~External
  /\ UNCHANGED <<stateVars, env, compose, apps, data>>
  /\ \/ /\ pg' = FALSE
        /\ exec' = [exec EXCEPT ![j].pc = "copy", ![j].noted = FALSE,
                                ![j].scope = "AppAndPostgres"]
        /\ Succeeds
     \/ /\ pg' \in {pg, FALSE}
        /\ exec' = [exec EXCEPT ![j].pc = "preSwapCompose", ![j].noted = FALSE,
                                ![j].scope = "AppAndPostgres"]
        /\ Fails

CopySnapshot(j) ==
  /\ At(j, "copy")
  /\ UNCHANGED hostVars
  /\ \/ /\ snaps' = [snaps EXCEPT ![j] =
             [taken |-> TRUE, data |-> data, version |-> report[j].from]]
        /\ UNCHANGED <<jobs, current, maint, curVer, report>>
        /\ Goto(j, "startPostgres") /\ Succeeds
     \/ UNCHANGED stateVars /\ Goto(j, "preSwapCompose") /\ Fails

StartPostgres(j) ==
  /\ At(j, "startPostgres")
  /\ UNCHANGED <<stateVars, env, compose, apps, data>>
  /\ \/ pg' = TRUE /\ Goto(j, "noteSnapshot") /\ Succeeds
     \/ pg' \in {pg, TRUE} /\ Goto(j, "preSwapCompose") /\ Fails

\* Recovery must know the snapshot before any new-version writer can start.
NoteSnapshot(j) ==
  /\ At(j, "noteSnapshot")
  /\ WriteJob(j, [jobs[j] EXCEPT !.snap = j])
  /\ exec' = [exec EXCEPT ![j].pc = "SwapTag", ![j].noted = FALSE,
                          ![j].scope = "App"]
  /\ Succeeds /\ UNCHANGED hostVars

InstallCompose(j) ==
  /\ At(j, "install")
  /\ UNCHANGED <<stateVars, env, apps, pg, data>>
  /\ \/ compose' = jobs[j].to /\ Goto(j, "swapTag") /\ Succeeds
     \/ compose' = compose /\ Goto(j, "preSwapCompose") /\ Fails

\* The tag swap_tag returns becomes the tag to go back to.
SwapTag(j) ==
  /\ At(j, "swapTag")
  /\ UNCHANGED <<stateVars, compose, apps, pg, data>>
  /\ \/ /\ env' = [env EXCEPT !.tag = jobs[j].to]
        /\ exec' = [exec EXCEPT
             ![j].pc = IF ShipsProxy THEN "swapProxyTag" ELSE "StartingNew",
             ![j].noted = FALSE, ![j].tag = env.tag]
        /\ Succeeds
     \/ env' = env /\ Goto(j, "preSwapCompose") /\ Fails

\* A failure here still takes the pre-swap path: post_swap is set after it.
SwapProxyTag(j) ==
  /\ At(j, "swapProxyTag")
  /\ UNCHANGED <<stateVars, compose, apps, pg, data>>
  /\ \/ /\ env' = [env EXCEPT !.proxy = jobs[j].to]
        /\ Goto(j, "StartingNew") /\ Succeeds
     \/ env' = env /\ Goto(j, "preSwapCompose") /\ Fails

(***************************************************************************)
(* start_and_finish: the part of an update a restart may repeat.           *)
(***************************************************************************)
\* Faulty variant: the proxy image is not compared.
SelectsApplicationImages(j) == env.tag = jobs[j].to

SelectsPreflightImages(j) ==
  /\ env.tag = jobs[j].to
  /\ report[j].proxy # NoVersion => env.proxy = jobs[j].to

Verify(j) ==
  /\ At(j, "verify")
  /\ UNCHANGED <<stateVars, hostVars>>
  /\ \/ SelectsPreflightImages(j) /\ Goto(j, "startNew") /\ Succeeds
     \/ /\ IF SelectsPreflightImages(j) THEN Fails ELSE Succeeds
        /\ Goto(j, "revert")

\* compose up never starts postgres (--no-deps).  One that fails may have removed
\* the old containers without starting the new ones.
StartNew(j) ==
  /\ At(j, "startNew")
  /\ UNCHANGED <<stateVars, env, compose, pg, data>>
  /\ \/ apps' = env.tag /\ Goto(j, "HealthProbing") /\ Succeeds
     \/ apps' \in {apps, Stopped, env.tag} /\ Goto(j, "revert") /\ Fails

\* Running on a readable database, and there with the migrations finished.
Serving == apps # Stopped /\ pg /\ data # Damaged

Healthy == Serving /\ data >= apps

ProbeHealth(j) ==
  /\ At(j, "probe")
  /\ UNCHANGED <<stateVars, hostVars>>
  /\ \/ Healthy /\ apps = jobs[j].to /\ Goto(j, "commit") /\ Succeeds
     \/ Goto(j, "revert") /\ IF Serving /\ apps = jobs[j].to THEN Fails ELSE Succeeds

Commit(j) ==
  /\ At(j, "commit")
  /\ WriteJob(j, [jobs[j] EXCEPT
       !.status = "Succeeded", !.last = "Finalize", !.work = "Finalize", !.ok = TRUE])
  /\ Goto(j, "commitVersion")
  /\ Succeeds /\ UNCHANGED hostVars

CommitVersion(j) ==
  /\ At(j, "commitVersion")
  /\ WriteUpdater(jobs[j].to)
  /\ Goto(j, "clearMaint")
  /\ Succeeds /\ UNCHANGED hostVars

(***************************************************************************)
(* clear_maintenance: the record first, the pointer after it.              *)
(***************************************************************************)
ClearMaint(j) ==
  /\ At(j, "clearMaint")
  /\ WriteMaint(InactiveMaintenance)
  /\ Goto(j, "clearCurrent")
  /\ Succeeds /\ UNCHANGED hostVars

ClearCurrent(j) ==
  /\ At(j, "clearCurrent")
  /\ SetCurrent(NoJob)
  /\ Finish(j)
  /\ Succeeds /\ UNCHANGED hostVars

-----------------------------------------------------------------------------
(***************************************************************************)
(* finish_pre_swap_failure, and restore_stack_after_pre_swap, which a      *)
(* restarted updater runs for the job job.current names.                   *)
(***************************************************************************)
RestoreOwner(j) == IF exec[j].recovering THEN current ELSE j

AfterRestoreFailure(j) ==
  IF exec[j].recovering THEN "recoveryFailed" ELSE "manualJob"

\* Faulty variant: the services come back with the template just installed.
KeepInstalledCompose(j) ==
  /\ At(j, "preSwapCompose")
  /\ UNCHANGED <<stateVars, hostVars>>
  /\ Goto(j, "preSwapUp") /\ Succeeds

PreSwapCompose(j) ==
  /\ At(j, "preSwapCompose")
  /\ UNCHANGED <<stateVars, env, apps, pg, data>>
  /\ \/ /\ compose' =
             IF RestoreOwner(j) # NoJob /\ report[RestoreOwner(j)].ready
             THEN report[RestoreOwner(j)].compose ELSE compose
        /\ Goto(j, "preSwapUp") /\ Succeeds
     \/ compose' = compose /\ Goto(j, AfterRestoreFailure(j)) /\ Fails

NeedsPostgres(j) == exec[j].scope = "AppAndPostgres" /\ ~External

\* compose up leaves containers alone that run the release it is to start.
PreSwapUp(j) ==
  /\ At(j, "preSwapUp")
  /\ UNCHANGED <<stateVars, env, compose, data>>
  /\ \/ /\ pg' = (pg \/ NeedsPostgres(j))
        /\ apps' = IF exec[j].scope = "None" THEN apps ELSE env.tag
        /\ Goto(j, IF exec[j].recovering THEN "clearMaint" ELSE "finalizeFailed")
        /\ Succeeds
     \/ /\ pg' \in {pg, pg \/ NeedsPostgres(j)}
        /\ apps' \in IF apps = env.tag THEN {apps} ELSE {apps, Stopped, env.tag}
        /\ Goto(j, AfterRestoreFailure(j))
        /\ exec[j].scope # "None" /\ Fails

FinalizeFailed(j) ==
  /\ At(j, "finalizeFailed")
  /\ WriteJob(j, [jobs[j] EXCEPT !.status = "Failed"])
  /\ Goto(j, "clearMaint")
  /\ Succeeds /\ UNCHANGED hostVars

ManualJob(j) ==
  /\ At(j, "manualJob")
  /\ WriteJob(j, [jobs[j] EXCEPT !.status = "NeedsManual"])
  /\ Goto(j, "manualMaint")
  /\ Succeeds /\ UNCHANGED hostVars

\* A standalone rollback leaves the record's job as it found it.
ManualMaint(j) ==
  /\ At(j, "manualMaint")
  /\ WriteMaint([active |-> TRUE, phase |-> "NeedsManual",
                 job |-> IF jobs[j].kind = "Update" THEN j ELSE maint.job])
  /\ IF exec[j].recovering THEN Goto(j, "recoveryFailed") ELSE Finish(j)
  /\ Succeeds /\ UNCHANGED hostVars

-----------------------------------------------------------------------------
(***************************************************************************)
(* finish_with_rollback, rollback::run and the execute_inline they share.  *)
(***************************************************************************)
Revert(j) ==
  /\ At(j, "revert")
  /\ IF maint.active
     THEN UNCHANGED stateVars
     ELSE WriteMaint([active |-> TRUE, phase |-> "RollbackInProgress", job |-> j])
  /\ Goto(j, "plan")
  /\ Succeeds /\ UNCHANGED hostVars

RollbackRunner(j) ==
  /\ At(j, "rollbackRunner")
  /\ UNCHANGED <<stateVars, hostVars>>
  /\ \/ Goto(j, "plan") /\ Succeeds
     \/ Goto(j, "manualJob") /\ Fails

PlanComposeRestore(j) ==
  /\ At(j, "plan")
  /\ UNCHANGED <<stateVars, hostVars>>
  /\ \/ Goto(j, "StopNew") /\ Succeeds
     \/ Goto(j, "rollbackFailed") /\ Fails

StopNew(j) ==
  /\ At(j, "stopNew")
  /\ UNCHANGED <<stateVars, env, compose, pg, data>>
  /\ \/ apps' = Stopped /\ Goto(j, "restoreCompose") /\ Succeeds
     \/ apps' \in {apps, Stopped} /\ Goto(j, "rollbackFailed") /\ Fails

\* The report that describes the deployment the snapshot was taken from.
SourceJob(j) == IF jobs[j].snap # NoJob THEN jobs[j].snap ELSE j

RestoreCompose(j) ==
  /\ At(j, "restoreCompose")
  /\ UNCHANGED <<stateVars, env, apps, pg, data>>
  /\ \/ /\ compose' = IF report[SourceJob(j)].ready
                      THEN report[SourceJob(j)].compose ELSE compose
        /\ Goto(j, "restoreProxyTag") /\ Succeeds
     \/ compose' = compose /\ Goto(j, "rollbackFailed") /\ Fails

\* resolve_previous_tag: explicit, then the snapshot's, then the recorded one.
PreviousTag(j) ==
  IF exec[j].tag # NoVersion THEN exec[j].tag
  ELSE IF jobs[j].snap # NoJob /\ snaps[SourceJob(j)].version # NoVersion
    THEN snaps[SourceJob(j)].version
  ELSE curVer

RestoreProxyTag(j) ==
  /\ At(j, "restoreProxyTag")
  /\ UNCHANGED <<stateVars, compose, apps, pg, data>>
  /\ \/ /\ env' = IF report[SourceJob(j)].proxy # NoVersion
                  THEN [env EXCEPT !.proxy = report[SourceJob(j)].proxy] ELSE env
        /\ exec' = [exec EXCEPT ![j].pc = "SwapTagBack", ![j].noted = FALSE,
                                ![j].tag = PreviousTag(j)]
        /\ Succeeds
     \/ env' = env /\ Goto(j, "rollbackFailed") /\ Fails

SwapTagBack(j) ==
  /\ At(j, "swapTagBack")
  /\ UNCHANGED <<stateVars, compose, apps, pg, data>>
  /\ \/ /\ env' = [env EXCEPT !.tag = exec[j].tag]
        /\ Goto(j, "RestoreSnapshot") /\ Succeeds
     \/ env' = env /\ Goto(j, "rollbackFailed") /\ Fails

SkipsRestore(j) == External \/ jobs[j].snap = NoJob

SkipRestore(j) ==
  /\ At(j, "stopForRestore") /\ SkipsRestore(j)
  /\ UNCHANGED <<stateVars, hostVars>>
  /\ Goto(j, "StartOld") /\ Succeeds

StopForRestore(j) ==
  /\ At(j, "stopForRestore") /\ ~SkipsRestore(j)
  /\ UNCHANGED <<stateVars, env, compose, apps, data>>
  /\ \/ pg' = FALSE /\ Goto(j, "wipe") /\ Succeeds
     \/ pg' \in {pg, FALSE} /\ Goto(j, "rollbackFailed") /\ Fails

\* From here until the copy ends pgdata is neither the old nor the new content.
WipeData(j) ==
  /\ At(j, "wipe")
  /\ UNCHANGED <<stateVars, env, compose, apps, pg>>
  /\ \/ /\ snaps[jobs[j].snap].taken
        /\ data' = Damaged /\ Goto(j, "refill") /\ Succeeds
     \/ /\ data' = data /\ Goto(j, "rollbackFailed")
        /\ IF snaps[jobs[j].snap].taken THEN Fails ELSE Succeeds

RefillData(j) ==
  /\ At(j, "refill")
  /\ UNCHANGED <<stateVars, env, compose, apps, pg>>
  /\ \/ /\ data' = snaps[jobs[j].snap].data
        /\ Goto(j, "startRestored") /\ Succeeds
     \/ data' = data /\ Goto(j, "rollbackFailed") /\ Fails

StartRestored(j) ==
  /\ At(j, "startRestored")
  /\ UNCHANGED <<stateVars, env, compose, apps, data>>
  /\ \/ pg' = TRUE /\ Goto(j, "StartOld") /\ Succeeds
     \/ pg' \in {pg, TRUE} /\ Goto(j, "rollbackFailed") /\ Fails

StartOld(j) ==
  /\ At(j, "startOld")
  /\ UNCHANGED <<stateVars, env, compose, pg, data>>
  /\ \/ apps' = env.tag /\ Goto(j, "oldStarted") /\ Succeeds
     \/ apps' \in {apps, Stopped, env.tag} /\ Goto(j, "rollbackFailed") /\ Fails

OldStarted(j) ==
  /\ At(j, "oldStarted")
  /\ WriteJob(j, [jobs[j] EXCEPT !.ok = TRUE])
  /\ Goto(j, "oldHealth")
  /\ Succeeds /\ UNCHANGED hostVars

OldHealth(j) ==
  /\ At(j, "oldHealth")
  /\ UNCHANGED <<stateVars, hostVars>>
  /\ \/ Healthy /\ Goto(j, "recordRestored") /\ Succeeds
     \/ Goto(j, "rollbackFailed") /\ IF Serving THEN Fails ELSE Succeeds

\* Faulty variant: updater.json keeps the release that was rolled back.
RecordNothingRestored(j) ==
  /\ At(j, "recordRestored")
  /\ Goto(j, "rollbackDone")
  /\ Succeeds /\ UNCHANGED <<stateVars, hostVars>>

RecordRestored(j) ==
  /\ At(j, "recordRestored")
  /\ WriteUpdater(exec[j].tag)
  /\ Goto(j, "rollbackDone")
  /\ Succeeds /\ UNCHANGED hostVars

RollbackDone(j) ==
  /\ At(j, "rollbackDone")
  /\ WriteJob(j, IF jobs[j].kind = "Update"
                 THEN [jobs[j] EXCEPT !.status = "Failed"]
                 ELSE [jobs[j] EXCEPT !.status = "Succeeded", !.to = exec[j].tag])
  /\ Goto(j, "clearMaint")
  /\ Succeeds /\ UNCHANGED hostVars

\* Faulty variant: the containers are started after a failed rollback.
RollbackFailedStartsAnyway(j) ==
  /\ At(j, "rollbackFailed")
  /\ apps' = env.tag /\ pg' = TRUE
  /\ Goto(j, "manualJob")
  /\ Succeeds /\ UNCHANGED <<stateVars, env, compose, data>>

\* Only the update flow marks the failed step; no service is started.
RollbackFailed(j) ==
  /\ At(j, "rollbackFailed")
  /\ IF jobs[j].kind = "Update"
     THEN WriteJob(j, [jobs[j] EXCEPT !.ok = FALSE])
     ELSE UNCHANGED stateVars
  /\ Goto(j, "manualJob")
  /\ Succeeds /\ UNCHANGED hostVars

-----------------------------------------------------------------------------
(***************************************************************************)
(* update::resume, and the task that reports a recovery that failed.       *)
(***************************************************************************)
ResumeUpdate(j) ==
  /\ exec[j].pc \in {"resumeForward", "resumeBack"}
  /\ WriteJob(j, [jobs[j] EXCEPT !.status = "Running"])
  /\ UNCHANGED hostVars
  /\ \/ /\ exec' = [exec EXCEPT
             ![j].pc = IF @ = "resumeForward" /\ report[j].ready
                       THEN "reinstall" ELSE "revert",
             ![j].noted = FALSE, ![j].tag = jobs[j].from]
        /\ Succeeds
     \/ Goto(j, "recoveryFailed") /\ Fails

ReinstallCompose(j) ==
  /\ At(j, "reinstall")
  /\ UNCHANGED <<stateVars, env, apps, pg, data>>
  /\ \/ compose' = jobs[j].to /\ Goto(j, "StartingNew") /\ Succeeds
     \/ compose' = compose /\ Goto(j, "revert") /\ Fails

\* Faulty variant: the task that recovers does not report its failure.
RecoveryFailedSilently(j) ==
  /\ At(j, "recoveryFailed")
  /\ UNCHANGED <<stateVars, hostVars>>
  /\ Finish(j)
  /\ Succeeds

RecoveryFailed(j) ==
  /\ At(j, "recoveryFailed")
  /\ UNCHANGED <<stateVars, hostVars>>
  /\ IF current = j THEN Goto(j, "recoveryJob") ELSE Finish(j)
  /\ Succeeds

RecoveryJobFailed(j) ==
  /\ At(j, "recoveryJob")
  /\ WriteJob(j, [jobs[j] EXCEPT
       !.status = "NeedsManual", !.last = "NeedsManual", !.ok = FALSE])
  /\ Goto(j, "recoveryMaint")
  /\ Succeeds /\ UNCHANGED hostVars

RecoveryMaint(j) ==
  /\ At(j, "recoveryMaint")
  /\ WriteMaint([active |-> TRUE, phase |-> "NeedsManual", job |-> j])
  /\ Goto(j, "recoveryCurrent")
  /\ Succeeds /\ UNCHANGED hostVars

RecoveryCurrent(j) ==
  /\ At(j, "recoveryCurrent")
  /\ SetCurrent(j)
  /\ Finish(j)
  /\ Succeeds /\ UNCHANGED hostVars

-----------------------------------------------------------------------------
(***************************************************************************)
(* One step of the task running job j.                                     *)
(***************************************************************************)
UpdateStep(j) ==
  \/ Preflight(j) \/ BuildRunner(j) \/ StopApps(j)
  \/ SkipSnapshot(j) \/ StopPostgres(j) \/ CopySnapshot(j)
  \/ StartPostgres(j) \/ NoteSnapshot(j)
  \/ InstallCompose(j) \/ SwapTag(j) \/ SwapProxyTag(j)
  \/ Verify(j) \/ StartNew(j) \/ ProbeHealth(j)
  \/ Commit(j) \/ CommitVersion(j)
  \/ ResumeUpdate(j) \/ ReinstallCompose(j)

RollbackStep(j) ==
  \/ Revert(j) \/ RollbackRunner(j) \/ PlanComposeRestore(j)
  \/ StopNew(j) \/ RestoreCompose(j) \/ RestoreProxyTag(j) \/ SwapTagBack(j)
  \/ SkipRestore(j) \/ StopForRestore(j) \/ WipeData(j) \/ RefillData(j)
  \/ StartRestored(j) \/ StartOld(j) \/ OldStarted(j) \/ OldHealth(j)
  \/ RecordRestored(j) \/ RollbackDone(j) \/ RollbackFailed(j)

CleanupStep(j) ==
  \/ PreSwapCompose(j) \/ PreSwapUp(j) \/ FinalizeFailed(j)
  \/ ManualJob(j) \/ ManualMaint(j) \/ ClearMaint(j) \/ ClearCurrent(j)
  \/ RecoveryFailed(j) \/ RecoveryJobFailed(j) \/ RecoveryMaint(j)
  \/ RecoveryCurrent(j)

ExecutorStep(j) ==
  /\ boot.pc = "up"
  /\ \/ NoteMaintenance(j) \/ NoteStep(j)
     \/ UpdateStep(j) \/ RollbackStep(j) \/ CleanupStep(j)
  /\ UNCHANGED <<loop, boot, probe, crashes, probes>>

-----------------------------------------------------------------------------
(***************************************************************************)
(* The worker loop: requests are handled one at a time.  The job file is   *)
(* written first; job.current naming it is the admission.                  *)
(***************************************************************************)
Ready == boot.pc = "up" /\ loop = NoJob

Write(j, record) ==
  /\ jobs[j].status = "Absent"
  /\ WriteJob(j, record)
  /\ loop' = j
  /\ UNCHANGED <<hostVars, exec, boot, probe, boundVars>>

\* Faulty variant: admission trusts maintenance.json alone.
RequestUpdateWhileBusy(j, target) ==
  /\ Ready
  /\ ~maint.active /\ maint.phase # "NeedsManual"
  /\ Write(j, NewUpdate(curVer, target))

RequestUpdate(j, target) ==
  /\ Ready
  /\ current = NoJob
  /\ ~maint.active /\ maint.phase # "NeedsManual"
  /\ Write(j, NewUpdate(curVer, target))

\* A rollback may take over from a job that waits for an operator.
MayRollback == current # NoJob => jobs[current].status = "NeedsManual"

RequestRollback(j, snapshot) ==
  /\ Ready
  /\ MayRollback
  /\ Write(j, NewRollback(curVer, snapshot))

FirstPhase(job) == IF job.kind = "Update" THEN "Preflight" ELSE "RollbackInProgress"

Admit ==
  /\ boot.pc = "up" /\ loop # NoJob
  /\ SetCurrent(loop)
  /\ exec' = [exec EXCEPT ![loop] =
       [NoExecutor EXCEPT !.pc = FirstPhase(jobs[loop])]]
  /\ loop' = NoJob
  /\ UNCHANGED <<hostVars, boot, probe, boundVars>>

(***************************************************************************)
(* reconcile_current_deploy looks at job.current, asks the backend what it *)
(* runs (or reads .env), and writes updater.json when the answers are in.  *)
(***************************************************************************)
ReconcileProbe ==
  /\ boot.pc = "up" /\ probe = NoVersion /\ current = NoJob
  /\ probes < MaxProbes
  /\ probes' = probes + 1
  /\ probe' \in {env.tag} \cup ({apps} \ {Stopped})
  /\ UNCHANGED <<stateVars, hostVars, exec, loop, boot, faults, crashes>>

ReconcileWrite ==
  /\ probe # NoVersion
  /\ WriteUpdater(probe)
  /\ probe' = NoVersion
  /\ UNCHANGED <<hostVars, exec, loop, boot, boundVars>>

-----------------------------------------------------------------------------
(***************************************************************************)
(* Death and restart.  Containers keep running; the recovery below ends    *)
(* before the process serves requests.                                     *)
(***************************************************************************)
Crash ==
  /\ crashes < MaxCrashes
  /\ crashes' = crashes + 1
  /\ boot' = [pc |-> "plan", job |-> NoJob, rollback |-> FALSE]
  /\ exec' = [j \in Jobs |-> NoExecutor]
  /\ loop' = NoJob
  /\ probe' = NoVersion
  /\ UNCHANGED <<stateVars, hostVars, faults, probes>>

FirstBootPoint ==
  [Idle |-> "serve", FinishCommitted |-> "commitVersion",
   FinishRestored |-> "clearMaint", ClearPreSwap |-> "failPreSwap",
   Resume |-> "reviveMaint", NeedsManual |-> "manualJob",
   ClearOrphanMaintenance |-> "freeze", FailUnstarted |-> "failUnstarted",
   ReleaseTerminalCurrent |-> "clearCurrent"]

RecordOf(id) == IF id = NoJob THEN NoRecord ELSE jobs[id]

BootPlan ==
  /\ boot.pc = "plan"
  /\ \E tag \in {env.tag, NoVersion} :
       LET plan == CrashPlan(maint, current,
                             RecordOf(RecoveryJob(maint, current)), tag)
       IN  /\ boot' = [pc |-> FirstBootPoint[plan.kind], job |-> plan.job,
                       rollback |-> plan.rollback]
           /\ IF tag = env.tag THEN Succeeds ELSE Fails
  /\ UNCHANGED <<stateVars, exec>>

BootGoto(pc) ==
  /\ boot' = [boot EXCEPT !.pc = pc]
  /\ Succeeds /\ UNCHANGED exec

\* Faulty variant: the slot is released and the job file left as it is.
BootReleaseUnstarted ==
  /\ boot.pc = "failUnstarted"
  /\ UNCHANGED stateVars
  /\ BootGoto("clearMaint")

BootFailUnstarted ==
  /\ boot.pc = "failUnstarted"
  /\ WriteJob(boot.job, [jobs[boot.job] EXCEPT
       !.status = "Failed", !.last = "Preflight", !.work = "Preflight", !.ok = FALSE])
  /\ BootGoto("clearMaint")

BootCommitVersion ==
  /\ boot.pc = "commitVersion"
  /\ WriteUpdater(jobs[boot.job].to)
  /\ BootGoto("clearMaint")

BootClearMaint ==
  /\ boot.pc = "clearMaint"
  /\ WriteMaint(InactiveMaintenance)
  /\ BootGoto("clearCurrent")

BootClearCurrent ==
  /\ boot.pc = "clearCurrent"
  /\ SetCurrent(NoJob)
  /\ BootGoto("serve")

BootManualJob ==
  /\ boot.pc = "manualJob"
  /\ WriteJob(boot.job, [jobs[boot.job] EXCEPT
       !.status = "NeedsManual", !.last = "NeedsManual", !.ok = FALSE])
  /\ BootGoto("manualMaint")

BootManualMaint ==
  /\ boot.pc = "manualMaint"
  /\ WriteMaint([active |-> TRUE, phase |-> "NeedsManual", job |-> boot.job])
  /\ BootGoto("manualCurrent")

BootManualCurrent ==
  /\ boot.pc = "manualCurrent"
  /\ SetCurrent(boot.job)
  /\ BootGoto("serve")

\* Maintenance and job.current stay until the stack is restored.
BootFailPreSwap ==
  /\ boot.pc = "failPreSwap"
  /\ WriteJob(boot.job, [jobs[boot.job] EXCEPT
       !.status = IF @ \in {"Pending", "Running"} THEN "Failed" ELSE @])
  /\ BootGoto("serveRestore")

BootReviveMaint ==
  /\ boot.pc = "reviveMaint"
  /\ WriteMaint([maint EXCEPT !.active = TRUE])
  /\ BootGoto("reviveCurrent")

BootReviveCurrent ==
  /\ boot.pc = "reviveCurrent"
  /\ SetCurrent(boot.job)
  /\ BootGoto("serveResume")

BootFreeze ==
  /\ boot.pc = "freeze"
  /\ WriteMaint([maint EXCEPT !.active = TRUE, !.phase = "NeedsManual"])
  /\ BootGoto("serve")

(***************************************************************************)
(* The process serves; what recovery left to do runs in a task beside it.  *)
(***************************************************************************)
ResumePoint(job, rollback) ==
  IF job.kind = "Rollback" THEN "RollbackInProgress"
  ELSE IF rollback THEN "resumeBack" ELSE "resumeForward"

Spawn(id, pc, scope) ==
  exec' = [exec EXCEPT ![id] =
    [NoExecutor EXCEPT !.pc = pc, !.scope = scope, !.recovering = TRUE]]

Serve ==
  /\ boot' = [boot EXCEPT !.pc = "up"]
  /\ Succeeds /\ UNCHANGED stateVars
  /\ \/ boot.pc = "serve" /\ UNCHANGED exec
     \/ /\ boot.pc = "serveRestore"
        /\ Spawn(IF current # NoJob THEN current ELSE boot.job,
                 "preSwapCompose", "AppAndPostgres")
     \/ /\ boot.pc = "serveResume"
        /\ Spawn(boot.job, ResumePoint(jobs[boot.job], boot.rollback), "None")

BootStep ==
  /\ \/ BootPlan \/ BootFailUnstarted \/ BootCommitVersion
     \/ BootClearMaint \/ BootClearCurrent
     \/ BootManualJob \/ BootManualMaint \/ BootManualCurrent
     \/ BootFailPreSwap \/ BootReviveMaint \/ BootReviveCurrent
     \/ BootFreeze \/ Serve
  /\ UNCHANGED <<hostVars, loop, probe, crashes, probes>>

-----------------------------------------------------------------------------
(***************************************************************************)
(* The backend migrates the database it runs on, in its own time.          *)
(***************************************************************************)
Migrate ==
  /\ Serving /\ data < apps
  /\ data' = apps
  /\ UNCHANGED <<stateVars, env, compose, apps, pg, processVars, boundVars>>

\* Nothing is running and nobody asks for anything.
Quiet ==
  /\ Ready /\ NoExecutorRunning /\ probe = NoVersion
  /\ UNCHANGED vars

Internal ==
  \/ \E j \in Jobs : ExecutorStep(j)
  \/ Admit \/ ReconcileProbe \/ ReconcileWrite
  \/ Crash \/ BootStep \/ Migrate \/ Quiet

RequestAnyUpdate == \E j \in Jobs, target \in Versions : RequestUpdate(j, target)

RequestAnyRollback ==
  \E j \in Jobs : \E s \in Jobs \ {j} : RequestRollback(j, s)

Next == Internal \/ RequestAnyUpdate \/ RequestAnyRollback

\* Operators who never ask for a rollback while a task still runs.
PatientNext ==
  \/ Internal
  \/ RequestAnyUpdate
  \/ NoExecutorRunning /\ RequestAnyRollback

\* Nobody asks for a rollback: updates recover on their own.
UpdateNext == Internal \/ RequestAnyUpdate

Spec == Init /\ [][Next]_vars

PatientSpec == Init /\ [][PatientNext]_vars

UpdateSpec == Init /\ [][UpdateNext]_vars

=============================================================================
