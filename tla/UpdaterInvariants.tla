-------------------------- MODULE UpdaterInvariants --------------------------
(***************************************************************************)
(* Inductive invariants of the updater.  Grounded holds whatever operators *)
(* ask for; Exclusive needs operators who leave a running task alone.      *)
(***************************************************************************)
EXTENDS UpdaterProperties

HasFile(id) == id # NoJob => jobs[id].status # "Absent"

\* Between the wipe of pgdata and its refill there is a snapshot to copy.
HasBackup(j) == exec[j].pc \in {"wipe", "refill"} => jobs[j].snap # NoJob

\* Points of startup recovery that work on the job the plan names.
JobPoints ==
  {"failUnstarted", "commitVersion", "manualJob", "manualMaint",
   "manualCurrent", "failPreSwap", "serveRestore", "reviveMaint",
   "reviveCurrent", "serveResume"}

Grounded ==
  /\ HasFile(current) /\ HasFile(maint.job) /\ HasFile(loop) /\ HasFile(boot.job)
  /\ \A j \in Jobs : ExecutorRunning(j) => HasFile(j)
  /\ boot.pc \in JobPoints => boot.job # NoJob
  /\ \A j \in Jobs : HasBackup(j)

Sound == TypeOK /\ Grounded

-----------------------------------------------------------------------------
(***************************************************************************)
(* Who may run.                                                            *)
(***************************************************************************)
\* A task runs for the job job.current names, and only while serving with no
\* admission under way.
OwnerRuns ==
  /\ \A j \in Jobs : ExecutorRunning(j) => current = j /\ boot.pc = "up" /\ loop = NoJob
  /\ boot.pc # "up" => loop = NoJob

\* A maintenance record left behind: inactive, and it still names a job.
LeftBehind == ~maint.active /\ maint.job # NoJob

\* The job it names is over, and never got beyond its preflight.
OnlyFinishedBehind ==
  /\ ~maint.active
  /\ maint.job # NoJob =>
       /\ maint.phase = "Preflight" /\ jobs[maint.job].work = "Preflight"
       /\ jobs[maint.job].status \in {"Succeeded", "Failed"}

\* No job in flight: the records are those of a job that is over.
IdleRecords ==
  /\ current = NoJob \/ boot.pc = "clearCurrent" => OnlyFinishedBehind
  /\ \A j \in Jobs : At(j, "clearCurrent") => ~maint.active /\ maint.job = NoJob

\* An open site is at most in the preflight of the job its record names.
OpenOnlyInPreflight ==
  /\ LeftBehind => /\ maint.phase = "Preflight"
                   /\ \/ jobs[maint.job].work = "Preflight"
                      \/ NeverStarted(jobs[maint.job])
  /\ \A j \in Jobs : exec[j].pc \in {"probe", "commit"} => maint.active
  /\ \A j \in Jobs :
       ExecutorRunning(j) /\ ~At(j, "Preflight") /\ LeftBehind /\ maint.job = j
         => jobs[j].work = "Preflight"

\* What is not started yet has left no trace.
Unstarted ==
  /\ \A j \in Jobs : At(j, "Preflight") => NeverStarted(jobs[j])
  /\ loop # NoJob => NeverStarted(jobs[loop]) /\ maint.job # loop

\* Between the two writes of PhaseRecorder::enter.
Noted ==
  \A j \in Jobs : exec[j].noted =>
    /\ ExecutorRunning(j)
    /\ maint = [active |-> TakesSiteOffline(exec[j].pc), phase |-> exec[j].pc,
                job |-> j]

\* Recovery takes a job over only when job.current names one, and works with
\* the site closed unless nothing but a preflight was interrupted.
RecoveryOwns ==
  /\ boot.pc \in {"failUnstarted", "manualJob", "manualMaint", "failPreSwap",
                  "serveRestore", "reviveMaint", "reviveCurrent"} => current # NoJob
  /\ boot.pc = "serveResume" => current = boot.job
  /\ boot.pc \in {"reviveCurrent", "serveResume"} => maint.active
  /\ boot.pc \in {"failPreSwap", "serveRestore", "manualJob", "manualMaint"} /\ LeftBehind
       => jobs[maint.job].work = "Preflight"
  /\ boot.pc # "freeze"

Exclusive ==
  /\ OwnerRuns /\ IdleRecords /\ OpenOnlyInPreflight /\ Unstarted /\ Noted
  /\ RecoveryOwns

-----------------------------------------------------------------------------
(***************************************************************************)
(* What the records say of a job that succeeded, or waits for an operator. *)
(***************************************************************************)
\* A success is recorded together with the step that proves it.
Marked(job) ==
  job.status = "Succeeded" =>
    \/ job.kind = "Update" /\ job.last = "Finalize"
    \/ job.kind = "Rollback" /\ job.last = "StartOld" /\ job.ok

OldPoints == {"startOld", "oldStarted", "oldHealth", "recordRestored", "rollbackDone"}

\* A rollback has recorded StartOld, and that it went well, before it is done.
OldMarked(j) ==
  exec[j].pc \in OldPoints =>
    /\ jobs[j].last = "StartOld"
    /\ exec[j].pc \notin {"startOld", "oldStarted"} => jobs[j].ok

\* A task whose job has ended only tidies up.
EndPoints == {"idle", "commitVersion", "clearMaint", "clearCurrent"}

StillOpen(j) == exec[j].pc \notin EndPoints => jobs[j].status # "Succeeded"

\* Where the task of an operator's rollback may be: on its own way, with the
\* record naming it, or in the recovery after a restart.
RollbackWay ==
  (RollbackPoints \ {"revert"})
    \cup {"StopNew", "SwapTagBack", "RestoreSnapshot", "StartOld", "manualJob", "manualMaint"}

RestoreWay == {"preSwapCompose", "preSwapUp"}

EndWay ==
  {"clearMaint", "clearCurrent", "recoveryFailed", "recoveryJob", "recoveryMaint",
   "recoveryCurrent"}

OnItsWay(j) ==
  ExecutorRunning(j) /\ jobs[j].kind = "Rollback" =>
    /\ exec[j].pc \in {"RollbackInProgress"} \cup RollbackWay \cup RestoreWay \cup EndWay
    /\ exec[j].pc \in RollbackWay => maint.job = j
    /\ exec[j].pc \in RestoreWay => exec[j].recovering

\* A task that commits, or hands its job to an operator, has the record name it.
Named(j) ==
  /\ exec[j].pc \in {"probe", "commit", "recoveryCurrent"} => maint.job = j
  /\ exec[j].pc \in {"manualMaint", "recoveryMaint", "recoveryCurrent"}
       => jobs[j].status = "NeedsManual"

TaskRecorded(j) ==
  Marked(jobs[j]) /\ OldMarked(j) /\ StillOpen(j) /\ OnItsWay(j) /\ Named(j)

\* A pointer the record does not back is not to a job that succeeded.
PointerOpen ==
  current # NoJob /\ maint.job \notin {NoJob, current} => jobs[current].status # "Succeeded"

\* Recovery works on the job the records name, which has not succeeded yet.
RecoveryRecorded ==
  /\ boot.pc \in JobPoints => boot.job = RecoveryJob(maint, current)
  /\ boot.pc \in JobPoints \ {"commitVersion"} => jobs[boot.job].status # "Succeeded"
  /\ boot.pc \in {"failPreSwap", "serveRestore"} => jobs[current].status # "Succeeded"
  /\ boot.pc \in {"manualMaint", "manualCurrent"} => jobs[boot.job].status = "NeedsManual"
  /\ boot.pc = "manualCurrent" => maint.job = boot.job

\* A closed site on which nothing works waits with the job job.current names.
Waits == current # NoJob /\ maint.job = current /\ jobs[current].status = "NeedsManual"

ClosedWaits ==
  boot.pc \in {"up", "serve"} /\ NoExecutorRunning /\ maint.active => Waits

Recorded ==
  /\ \A j \in Jobs : TaskRecorded(j)
  /\ PointerOpen /\ RecoveryRecorded /\ ClosedWaits

-----------------------------------------------------------------------------
(***************************************************************************)
(* What the records say of the host: with a pgdata to restore, one tag and *)
(* no reconciliation.                                                      *)
(***************************************************************************)
Restorable == ~External /\ ~ShipsProxy /\ MaxProbes = 0

\* Nothing under way: .env and the containers are of the recorded release.
AtRest == env.tag = curVer /\ apps = curVer /\ data <= curVer

\* The tag has not moved; the containers may be down.
BeforeSwap == env.tag = curVer /\ apps \in {Stopped, curVer} /\ data <= curVer

\* The update has a copy of what it started from.
BackedUp(j) ==
  /\ jobs[j].snap = j /\ snaps[j].taken /\ jobs[j].work # "None"
  /\ snaps[j].version = jobs[j].from /\ jobs[j].from = curVer

\* The tag has moved to the release of the update, and there is a way back.
AfterSwap(j) ==
  /\ jobs[j].kind = "Update" /\ jobs[j].status \in Inflight /\ jobs[j].to # jobs[j].from
  /\ env.tag = jobs[j].to /\ apps \in {Stopped, env.tag} /\ data <= env.tag
  /\ BackedUp(j)

Committed(j) ==
  IsCommitted(jobs[j]) /\ env.tag = jobs[j].to /\ apps = env.tag /\ data <= env.tag

\* The host, when the records say that job j is in this phase.
Fits(j, phase) ==
  /\ phase # "NeedsManual"
  /\ phase \in PreSwapPhases => BeforeSwap
  /\ phase = "SwapTag" =>
       /\ jobs[j].kind = "Update" /\ jobs[j].to # jobs[j].from /\ jobs[j].from = curVer
       /\ jobs[j].work \in PreSwapPhases \cup {"SwapTag"}
       /\ BeforeSwap \/ AfterSwap(j)
  /\ phase \in {"StartingNew", "HealthProbing"} => AfterSwap(j) \/ Committed(j)
  /\ phase = "Finalize" => Committed(j)
  /\ phase \in RollbackPhases =>
       /\ jobs[j].kind = "Update" => BackedUp(j)
       /\ jobs[j].status \in {"Failed", "Succeeded"} => IsRestored(jobs[j]) /\ AtRest

\* A pointer beside a maintenance record of another job: to one that has done
\* nothing yet, a rollback unless the other job is over.
PointerFresh ==
  maint.job \notin {NoJob, current} /\ current # NoJob =>
    /\ jobs[current].work = "None"
    /\ jobs[current].kind = "Rollback" \/ OnlyFinishedBehind

\* A pointer alone.  Behind a closed site it names a rollback, or the way back of an
\* update, that recovery takes up again; an update's site was open and is at rest.
PointerAlone ==
  maint.job = NoJob =>
    /\ maint.phase = "Idle"
    /\ maint.active =>
         /\ current # NoJob
         /\ \/ jobs[current].kind = "Rollback" /\ jobs[current].last = "NeedsManual"
            \/ jobs[current].work \in RollbackPhases
         /\ jobs[current].kind = "Update" => AtRest

MaintFits ==
  maint.job # NoJob =>
    /\ Fits(maint.job, jobs[maint.job].work)
    /\ maint.phase # "NeedsManual" => Fits(maint.job, maint.phase)
    /\ maint.phase \notin {"None", "Idle"}
    /\ jobs[maint.job].kind = "Rollback" => maint.phase \in RollbackPhases \cup {"NeedsManual"}
    /\ jobs[maint.job].kind = "Update" /\ maint.active => jobs[maint.job].work # "None"
    /\ maint.phase = "NeedsManual" => maint.active

CurrentFits ==
  maint.job = NoJob /\ current # NoJob => Fits(current, jobs[current].work)

RecordsFit == MaintFits /\ CurrentFits /\ PointerFresh /\ PointerAlone

\* A backup is not ahead of the release it was taken from.
BackupsFit ==
  \A j \in Jobs : snaps[j].taken =>
    snaps[j].version \in Versions /\ snaps[j].data <= snaps[j].version

JobFileFits(job) ==
  /\ job.work # "Idle" /\ job.last \in {job.work, "NeedsManual"}
  /\ job.work = "None" =>
       \/ job.status \in {"Absent", "Pending"} /\ job.last = "None"
       \/ job.status = "NeedsManual" /\ job.kind = "Rollback"
  /\ job.kind = "Rollback" => job.snap # NoJob
  /\ job.kind = "Update" /\ job.status # "Absent" => job.to \in Versions

OpenFits == ~maint.active => AtRest

Facts ==
  /\ curVer \in Versions /\ env.tag \in Versions /\ probe = NoVersion
  /\ NoOldCodeOnNewData /\ OpenFits /\ BackupsFit
  /\ \A j \in Jobs : JobFileFits(jobs[j])

LoopFits ==
  loop # NoJob /\ jobs[loop].kind = "Update"
    => OnlyFinishedBehind /\ jobs[loop].from = curVer

\* A record and a pointer to different jobs: the pointer is to a rollback.
RollbackWaits == maint.job \notin {NoJob, current} => jobs[current].kind = "Rollback"

BootFits ==
  /\ boot.pc \in {"failUnstarted", "clearMaint", "clearCurrent"} => AtRest
  /\ boot.pc = "failUnstarted" => ~maint.active
  /\ boot.pc = "clearMaint" =>
       /\ boot.job = RecoveryJob(maint, current)
       /\ boot.job # NoJob /\ jobs[boot.job].work \in RollbackPhases
            => jobs[boot.job].status \notin Inflight
  /\ boot.pc = "commitVersion" => Committed(boot.job)
  /\ boot.pc \in {"manualJob", "manualMaint", "manualCurrent"}
       => jobs[boot.job].work \in PreSwapPhases \cup {"SwapTag"}
  /\ boot.pc \in {"manualJob", "manualMaint"} => RollbackWaits
  /\ boot.pc \in {"failPreSwap", "serveRestore"} =>
       /\ BeforeSwap /\ RollbackWaits
       /\ jobs[boot.job].work \notin {"None"} \cup RollbackPhases
       /\ maint.phase \notin RollbackPhases
  /\ boot.pc \in {"reviveMaint", "reviveCurrent", "serveResume"} =>
       /\ jobs[boot.job].status \in Inflight
       /\ maint.job = NoJob =>
            jobs[boot.job].last = "NeedsManual" \/ jobs[boot.job].work \in RollbackPhases
       /\ jobs[boot.job].kind = "Update" =>
            /\ BackedUp(boot.job)
            /\ maint.job = NoJob => boot.rollback /\ jobs[boot.job].work \in RollbackPhases
            /\ ~boot.rollback => AfterSwap(boot.job)

\* The points of a task, in the order in which it comes to them.
FirstPoints == {"Preflight", "preflight"}
LeavingPoints == {"MaintenanceOn", "runner"}
StopPoints == {"Stopping", "stopApps"}
StoppedPoints == {"Snapshotting", "stopPostgres", "copy", "startPostgres", "noteSnapshot"}
SwapPoints == {"SwapTag", "install", "swapTag"}
ResumePoints == {"resumeForward", "reinstall", "StartingNew"}
NewPoints == {"verify", "startNew", "HealthProbing", "probe", "commit"}
TurnPoints == {"resumeBack", "revert"}
DownPoints == {"plan", "StopNew", "stopNew"}
DownedPoints == {"restoreCompose", "restoreProxyTag"}
TagPoints == {"SwapTagBack", "swapTagBack"}
RestorePoints == {"RestoreSnapshot", "stopForRestore", "wipe", "refill"}
RestartPoints == {"startRestored", "StartOld", "startOld"}
DonePoints == {"oldStarted", "oldHealth", "recordRestored", "rollbackDone"}
FailedPoints == {"rollbackFailed", "manualJob", "manualMaint"}
RecoveryFailedPoints == {"recoveryFailed", "recoveryJob", "recoveryMaint", "recoveryCurrent"}

BeforePoints == LeavingPoints \cup StopPoints \cup StoppedPoints \cup SwapPoints
BackPoints ==
  DownPoints \cup DownedPoints \cup TagPoints \cup RestorePoints \cup RestartPoints
    \cup DonePoints

In(j, points) == exec[j].pc \in points

\* The maintenance record and the job file have job j in these phases.
Recording(j, phases) ==
  maint.job = j /\ maint.phase \in phases /\ jobs[j].work \in phases

\* An update, up to the write of the tag.
FitsBefore(j) ==
  /\ In(j, FirstPoints \cup BeforePoints) =>
       jobs[j].kind = "Update" /\ jobs[j].from = curVer /\ jobs[j].status \in Inflight
  /\ In(j, FirstPoints \cup LeavingPoints) => AtRest
  /\ In(j, BeforePoints) => jobs[j].to > curVer /\ BeforeSwap
  /\ In(j, {"preflight"} \cup LeavingPoints \cup StopPoints \cup StoppedPoints)
       => Recording(j, PreSwapPhases)
  /\ In(j, LeavingPoints \cup StopPoints \cup {"Snapshotting", "stopPostgres", "copy"})
       => report[j].from = curVer
  /\ In(j, {"runner"} \cup StopPoints \cup StoppedPoints \cup SwapPoints) => maint.active
  /\ In(j, StopPoints \cup StoppedPoints \cup SwapPoints) => exec[j].scope # "None"
  /\ In(j, StoppedPoints \cup SwapPoints) => apps = Stopped
  /\ In(j, {"startPostgres", "noteSnapshot"}) => snaps[j].taken /\ snaps[j].version = curVer
  /\ In(j, SwapPoints) => BackedUp(j)
  /\ In(j, {"SwapTag"}) =>
       /\ Recording(j, PreSwapPhases \cup {"SwapTag"}) /\ jobs[j].work \in PreSwapPhases
  /\ In(j, {"install", "swapTag"}) => Recording(j, {"SwapTag"})

\* An update on its new release.
FitsAfter(j) ==
  /\ In(j, ResumePoints \cup NewPoints) => AfterSwap(j) /\ maint.active /\ maint.job = j
  /\ In(j, {"reinstall", "StartingNew"} \cup NewPoints) => exec[j].tag = jobs[j].from
  /\ In(j, NewPoints) => Recording(j, {"StartingNew", "HealthProbing"})
  /\ In(j, {"commit"}) => apps = env.tag
  /\ In(j, {"commitVersion"}) => Committed(j)
  /\ ~In(j, {"swapProxyTag"})

\* The way back.
FitsBack(j) ==
  /\ In(j, {"RollbackInProgress", "rollbackRunner"}) =>
       /\ jobs[j].kind = "Rollback" /\ jobs[j].status \in Inflight
       /\ exec[j].tag = NoVersion
  /\ In(j, TurnPoints) => jobs[j].kind = "Update"
  /\ In(j, TurnPoints \cup BackPoints) =>
       /\ jobs[j].status \in Inflight
       /\ jobs[j].kind = "Update" => BackedUp(j)
  /\ In(j, {"rollbackRunner"} \cup TurnPoints \cup BackPoints \cup FailedPoints) =>
       /\ maint.active
       /\ maint.job = j \/ (jobs[j].kind = "Update" /\ maint.job = NoJob)
  /\ In(j, FailedPoints) => jobs[j].status \in Inflight
  /\ In(j, {"stopNew"} \cup (BackPoints \ DownPoints)) => Recording(j, RollbackPhases)
  /\ In(j, {"revert"} \cup DownPoints \cup DownedPoints) =>
       exec[j].tag = IF jobs[j].kind = "Update" THEN jobs[j].from ELSE NoVersion
  /\ In(j, TagPoints \cup RestorePoints) =>
       /\ exec[j].tag \in Versions
       /\ snaps[jobs[j].snap].taken => exec[j].tag = snaps[jobs[j].snap].version
  /\ In(j, DownedPoints \cup TagPoints \cup RestorePoints \cup RestartPoints)
       => apps = Stopped
  /\ In(j, RestorePoints \cup RestartPoints \cup DonePoints) => env.tag = exec[j].tag
  /\ In(j, {"wipe", "refill"}) => ~pg
  /\ In(j, {"refill"}) => snaps[jobs[j].snap].taken
  /\ In(j, RestartPoints \cup DonePoints) =>
       /\ data <= env.tag
       /\ jobs[j].kind = "Update" => exec[j].tag = jobs[j].from
  /\ In(j, DonePoints) => apps = env.tag
  /\ In(j, {"rollbackDone"}) => curVer = env.tag

\* The end of a task, and what a recovery that failed leaves to an operator.
FitsEnd(j) ==
  /\ In(j, {"preSwapCompose", "preSwapUp"}) =>
       /\ BeforeSwap
       /\ exec[j].scope = "None" => apps = curVer
       /\ jobs[j].work \notin RollbackPhases
       /\ ~exec[j].recovering =>
            /\ jobs[j].kind = "Update" /\ jobs[j].status \in Inflight /\ maint.active
            /\ Recording(j, PreSwapPhases \cup {"SwapTag"})
  /\ In(j, {"finalizeFailed"}) =>
       AtRest /\ jobs[j].kind = "Update" /\ Recording(j, PreSwapPhases \cup {"SwapTag"})
  /\ In(j, {"clearMaint"}) /\ jobs[j].work \in RollbackPhases
       => jobs[j].status \notin Inflight
  /\ In(j, {"clearMaint", "clearCurrent"}) => AtRest
  /\ In(j, FailedPoints \cup {"preSwapCompose", "preSwapUp"} \cup RecoveryFailedPoints)
       /\ jobs[j].kind = "Update"
       => /\ maint.job \in {j, NoJob} /\ jobs[j].work # "None"

TaskFits(j) == FitsBefore(j) /\ FitsAfter(j) /\ FitsBack(j) /\ FitsEnd(j)

HostFits ==
  Facts /\ RecordsFit /\ LoopFits /\ BootFits /\ \A j \in Jobs : TaskFits(j)

-----------------------------------------------------------------------------
(***************************************************************************)
(* What the records say of the host while nothing fails and nobody asks    *)
(* for a rollback, whatever database and tags there are: only deaths       *)
(* disturb the updates.                                                    *)
(***************************************************************************)
Selects(version) == env.tag = version /\ (ShipsProxy => env.proxy = version)

\* .env selects the recorded release, and pgdata is not half-written.
Rests == Selects(curVer) /\ data # Damaged

\* The update may be taken back.
Prepared(j) ==
  /\ report[j].ready /\ jobs[j].work # "None"
  /\ jobs[j].from = curVer /\ jobs[j].to # curVer
  /\ ~External => jobs[j].snap = j /\ snaps[j].taken

Landed(j) == IsCommitted(jobs[j]) /\ Selects(jobs[j].to) /\ data # Damaged

\* The host, when the records say that update j is in this phase.
Believed(j, phase) ==
  /\ phase \notin {"Idle", "NeedsManual"}
  /\ phase \in PreSwapPhases => Rests
  /\ phase = "SwapTag" =>
       /\ Prepared(j) /\ jobs[j].work \in PreSwapPhases \cup {"SwapTag"}
       /\ Rests \/ (env.tag = jobs[j].to /\ jobs[j].status \in Inflight)
  /\ phase \in {"StartingNew", "HealthProbing"} =>
       (Prepared(j) /\ jobs[j].status \in Inflight) \/ Landed(j)
  /\ phase = "Finalize" => Landed(j)
  /\ phase \in RollbackPhases =>
       Prepared(j) /\ (jobs[j].status \in Inflight \/ (IsRestored(jobs[j]) /\ Rests))

CalmFile(j) ==
  /\ jobs[j].status # "NeedsManual" /\ jobs[j].last = jobs[j].work
  /\ jobs[j].work = "None" => jobs[j].status \in {"Absent", "Pending"}
  /\ jobs[j].status # "Absent" => jobs[j].from \in Versions /\ jobs[j].to \in Versions
  /\ jobs[j].snap \in {NoJob, j}
  /\ report[j].ready => /\ jobs[j].status # "Absent"
                        /\ ShipsProxy => report[j].proxy = jobs[j].from
  /\ snaps[j].taken => snaps[j].data # Damaged

CalmFacts ==
  /\ curVer \in Versions /\ probe = NoVersion
  /\ ~maint.active => Rests
  /\ External => pg /\ data # Damaged
  /\ \A j \in Jobs : CalmFile(j)

CalmRecords ==
  /\ maint.job # NoJob =>
       /\ Believed(maint.job, jobs[maint.job].work) /\ Believed(maint.job, maint.phase)
       /\ maint.phase # "None"
       /\ maint.active => jobs[maint.job].work # "None"
  /\ maint.job = NoJob => ~maint.active /\ maint.phase = "Idle"
  /\ maint.job = NoJob /\ current # NoJob =>
       /\ Believed(current, jobs[current].work)
       /\ jobs[current].status \in Inflight => jobs[current].work = "None"
  /\ current # NoJob /\ maint.job \notin {NoJob, current} =>
       OnlyFinishedBehind /\ jobs[current].work = "None"

CalmBoot ==
  /\ loop # NoJob => OnlyFinishedBehind /\ jobs[loop].from = curVer
  /\ boot.pc \notin {"manualJob", "manualMaint", "manualCurrent"}
  /\ boot.pc \in {"failUnstarted", "clearMaint", "clearCurrent", "failPreSwap", "serveRestore"}
       => Rests
  /\ boot.pc = "failUnstarted" => ~maint.active
  /\ boot.pc = "clearMaint" =>
       /\ boot.job # NoJob /\ boot.job = RecoveryJob(maint, current)
       /\ jobs[boot.job].status \notin Inflight
  /\ boot.pc = "commitVersion" => Landed(boot.job)
  /\ boot.pc \in {"failPreSwap", "serveRestore"} => boot.job = current
  /\ boot.pc = "failPreSwap" =>
       /\ jobs[boot.job].work # "None"
       /\ ~Resumable(jobs[boot.job].work) /\ ~Resumable(maint.phase)
  /\ boot.pc = "serveRestore" => jobs[boot.job].status \notin Inflight
  /\ boot.pc \in {"reviveMaint", "reviveCurrent", "serveResume"} =>
       Prepared(boot.job) /\ maint.job = boot.job /\ jobs[boot.job].status \in Inflight

ForwardPoints == ResumePoints \cup NewPoints \cup {"swapProxyTag"}

\* An update, up to the write of the tag.
CalmBefore(j) ==
  /\ In(j, FirstPoints \cup BeforePoints \cup {"finalizeFailed"}) =>
       Rests /\ jobs[j].from = curVer /\ jobs[j].status \in Inflight
  /\ In(j, BeforePoints) => jobs[j].to # curVer /\ report[j].ready
  /\ In(j, {"preflight", "finalizeFailed"}) => Recording(j, {"Preflight"})
  /\ In(j, BeforePoints \ {"install", "swapTag"}) =>
       Recording(j, PreSwapPhases \cup {"SwapTag"}) /\ jobs[j].work # "SwapTag"
  /\ In(j, {"copy", "startPostgres", "noteSnapshot"}) => ~External
  /\ In(j, {"startPostgres", "noteSnapshot"}) => snaps[j].taken
  /\ In(j, SwapPoints) => Prepared(j)
  /\ In(j, {"install", "swapTag"}) => Recording(j, {"SwapTag"}) /\ maint.active

\* An update that is switching or has switched; what it needs on either way.
CalmForward(j) ==
  /\ In(j, ForwardPoints \cup TurnPoints \cup BackPoints) =>
       /\ Prepared(j) /\ maint.job = j /\ maint.active /\ jobs[j].status \in Inflight
       /\ ~In(j, {"resumeForward", "resumeBack"}) => exec[j].tag = jobs[j].from
  /\ In(j, {"swapProxyTag"}) => Recording(j, {"SwapTag"}) /\ env.tag = jobs[j].to
  /\ In(j, NewPoints) => Recording(j, {"StartingNew", "HealthProbing"})
  /\ In(j, NewPoints \ {"verify"}) => Selects(jobs[j].to)
  /\ In(j, {"commit"}) => data # Damaged
  /\ In(j, {"commitVersion"}) => Landed(j) /\ maint.job = j

\* The way back.
CalmBack(j) ==
  /\ ~In(j, {"RollbackInProgress", "rollbackRunner"})
  /\ In(j, {"stopNew"} \cup (BackPoints \ DownPoints)) => Recording(j, RollbackPhases)
  /\ In(j, TagPoints) /\ ShipsProxy => env.proxy = curVer
  /\ In(j, RestorePoints \cup RestartPoints \cup DonePoints) => Selects(curVer)
  /\ In(j, {"wipe", "refill"}) => ~External
  /\ In(j, RestartPoints \cup DonePoints) => data # Damaged
  /\ In(j, {"StartOld", "startOld", "oldStarted", "oldHealth"}) => pg
  /\ In(j, {"oldStarted", "oldHealth"}) => apps # Stopped

\* The end of a task, which never is a failure it cannot undo.
CalmEnd(j) ==
  /\ ~In(j, FailedPoints \cup RecoveryFailedPoints)
  /\ In(j, {"preSwapCompose", "preSwapUp"}) => exec[j].recovering
  /\ In(j, {"preSwapCompose", "preSwapUp", "clearMaint"}) =>
       Rests /\ jobs[j].status \notin Inflight
  /\ In(j, {"clearCurrent"}) => Rests

CalmTask(j) == CalmBefore(j) /\ CalmForward(j) /\ CalmBack(j) /\ CalmEnd(j)

Calm == CalmFacts /\ CalmRecords /\ CalmBoot /\ \A j \in Jobs : CalmTask(j)

CalmFits ==
  /\ \A j \in Jobs : jobs[j].status = "Absent" => jobs[j].kind = "Update"
  /\ OnlyCrashes => Calm

-----------------------------------------------------------------------------
(***************************************************************************)
(* What the site is as a whole, Compose template and schema included,      *)
(* while nobody asks for a rollback.                                       *)
(***************************************************************************)
\* pgdata and the Compose file are of the recorded release.
Whole == data = curVer /\ compose = curVer

\* What the report of update j describes is what updater.json records.
ReportHolds(j) == report[j].ready => jobs[j].from = curVer

\* A failed update can put back what it started from.
Restores(j) ==
  data = curVer /\ ReportHolds(j) /\ (compose = curVer \/ BackedUp(j))

\* The site is the target, and what it was has been kept until that is recorded.
Landing(j) ==
  /\ data = jobs[j].to /\ compose = jobs[j].to
  /\ curVer # jobs[j].to => snaps[j].taken /\ jobs[j].from = curVer

\* The site, when the records say that update j is in this phase.
Stands(j, phase) ==
  /\ phase \in PreSwapPhases => Whole /\ ReportHolds(j)
  /\ phase = "SwapTag" /\ env.tag = curVer => Restores(j)
  /\ phase \in PostSwapPhases /\ IsCommitted(jobs[j]) => Landing(j)
  /\ phase \in RollbackPhases /\ jobs[j].status \notin Inflight => Whole

\* The preflight described what the update starts from, and the copy is of that.
Described(j) ==
  /\ report[j].ready =>
       /\ jobs[j].status # "Absent" /\ jobs[j].work # "None"
       /\ report[j].from = jobs[j].from /\ report[j].compose = jobs[j].from
  /\ snaps[j].taken =>
       /\ report[j].ready /\ jobs[j].to > jobs[j].from
       /\ snaps[j].version = jobs[j].from /\ snaps[j].data = jobs[j].from

SiteFacts ==
  /\ \A j \in Jobs : jobs[j].kind = "Update" /\ Described(j)
  /\ ~maint.active => Whole
  /\ maint.job # NoJob =>
       Stands(maint.job, jobs[maint.job].work) /\ Stands(maint.job, maint.phase)
  /\ maint.job = NoJob /\ current # NoJob => Stands(current, jobs[current].work)

SiteBoot ==
  /\ boot.pc \in {"failUnstarted", "clearMaint", "clearCurrent"} => Whole
  /\ boot.pc = "failUnstarted" => jobs[boot.job].work = "None"
  /\ boot.pc = "commitVersion" => Landing(boot.job)
  /\ boot.pc \in {"failPreSwap", "serveRestore"} => Restores(boot.job)

\* Points at which Compose template and data are those of the recorded release.
UntouchedPoints ==
  FirstPoints \cup LeavingPoints \cup StopPoints \cup StoppedPoints \cup {"SwapTag", "install"}
PutBackPoints == {"preSwapUp", "finalizeFailed", "clearMaint", "clearCurrent"}

\* Points at which the template is back, and the data may not be.
TemplateBackPoints == {"restoreProxyTag"} \cup TagPoints \cup RestorePoints

SiteTask(j) ==
  /\ In(j, UntouchedPoints \cup PutBackPoints \cup RestartPoints \cup DonePoints) => Whole
  /\ In(j, LeavingPoints \cup StopPoints \cup {"Snapshotting", "stopPostgres", "copy"})
       => report[j].ready
  /\ In(j, {"swapTag"}) => data = curVer
  /\ In(j, {"preSwapCompose"}) => Restores(j)
  /\ In(j, {"swapTag", "StartingNew"} \cup NewPoints) => compose = jobs[j].to
  /\ In(j, {"commit"}) => data = jobs[j].to
  /\ In(j, {"commitVersion"}) => Landing(j)
  /\ In(j, TemplateBackPoints) => compose = curVer

SiteFits == SiteFacts /\ SiteBoot /\ \A j \in Jobs : SiteTask(j)

=============================================================================
