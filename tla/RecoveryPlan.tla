---------------------------- MODULE RecoveryPlan ----------------------------
(***************************************************************************)
(* What a restarted updater decides to do, from maintenance.json, the job  *)
(* file those records point at, and the MYRIAD_TAG it can read in .env.    *)
(* The decision is a pure function: each test below is one return of       *)
(* plan_crash_recovery, and CrashPlan tries them in the code's order.      *)
(***************************************************************************)
EXTENDS UpdaterTypes

PlanKinds ==
  {"Idle", "FinishCommitted", "FinishRestored", "ClearPreSwap", "Resume",
   "NeedsManual", "ClearOrphanMaintenance", "FailUnstarted",
   "ReleaseTerminalCurrent"}

\* The job a restart is about: maintenance.json wins over job.current.
RecoveryJob(maint, current) == IF maint.job # NoJob THEN maint.job ELSE current

\* Phases that decide recovery wherever they were recorded.
Decisive(phase) ==
  IsPostSwap(phase) \/ IsRollback(phase) \/ phase \in {"NeedsManual", "SwapTag"}

(***************************************************************************)
(* The phase recovery starts from: maintenance.json, unless the job's own  *)
(* steps say more.                                                         *)
(***************************************************************************)
EffectivePhase(maint, job) ==
  LET recorded == IF maint.phase = "NeedsManual" /\ job.work # "None"
                  THEN job.work ELSE maint.phase
      step == IF job.work # "None" THEN job.work ELSE job.last
      useStep == /\ ~Decisive(recorded)
                 /\ step # "None"
                 /\ \/ Decisive(step)
                    \/ ~maint.active /\ job.status \in Inflight
  IN  IF useStep THEN step ELSE recorded

\* Faulty variant: a job without steps is left to whoever admitted it.
IsNeverUnstarted(maint, id, job) == FALSE

IsFailUnstarted(maint, id, job) ==
  id # NoJob /\ ~maint.active /\ NeverStarted(job)

\* Faulty variant: the last step alone is no proof of success.
IsNeverCommitted(job) == FALSE

IsCommitted(job) ==
  job.kind = "Update" /\ job.status = "Succeeded" /\ job.last = "Finalize"

IsRestored(job) ==
  job.last = "StartOld" /\ job.ok /\ job.status \in {"Failed", "Succeeded"}

(***************************************************************************)
(* SwapTag is entered before MYRIAD_TAG is written, so only the tag itself *)
(* tells the two sides of the write apart.                                 *)
(***************************************************************************)
TagWritten(job, tag) == tag # NoVersion /\ tag = job.to

\* Faulty variant: the unchanged tag is compared with the target.
TagUntouchedByTarget(job, tag) == tag # NoVersion /\ tag = job.to

TagUntouched(job, tag) == tag # NoVersion /\ tag = job.from /\ tag # job.to

TagUnexplained(job, tag) == ~TagWritten(job, tag) /\ ~TagUntouched(job, tag)

\* Faulty variant: a finished job needs no recovery.
IsInflightPreSwap(maint, job) ==
  /\ job.status \in Inflight
  /\ \/ maint.active
     \/ EffectivePhase(maint, job) \in PreSwapPhases
     \/ job.last \in PreSwapPhases

\* A step that may have taken services down before the tag moved.
IsInterruptedPreSwap(maint, job) ==
  IF job.status \in Inflight
  THEN \/ maint.active
       \/ EffectivePhase(maint, job) \in PreSwapPhases
       \/ job.last \in PreSwapPhases
  ELSE maint.active

IsFinished(job) == job.status \in {"Succeeded", "Failed"}

\* Phases whose interruption is resumed, forwards or backwards.
Resumable(phase) == Decisive(phase) /\ phase # "SwapTag"

CrashPlan(maint, current, job, tag) ==
  LET id == RecoveryJob(maint, current)
      known == id # NoJob
      phase == EffectivePhase(maint, job)
      swapping == known /\ phase = "SwapTag"
      busy == job.status \in Inflight \/ maint.active \/ phase = "NeedsManual"
      plan(kind) == [kind |-> kind, job |-> id, rollback |-> IsRollback(phase)]
  IN
  IF IsFailUnstarted(maint, id, job) THEN plan("FailUnstarted")
  ELSE IF IsCommitted(job) THEN plan("FinishCommitted")
  ELSE IF IsRestored(job) THEN plan("FinishRestored")
  ELSE IF swapping /\ TagWritten(job, tag) THEN plan("Resume")
  ELSE IF swapping /\ TagUntouched(job, tag) /\ busy THEN plan("ClearPreSwap")
  ELSE IF swapping /\ TagUnexplained(job, tag) THEN plan("NeedsManual")
  ELSE IF known /\ Resumable(phase) /\ busy THEN plan("Resume")
  ELSE IF known /\ IsInterruptedPreSwap(maint, job) THEN plan("ClearPreSwap")
  ELSE IF ~known /\ maint.active THEN plan("ClearOrphanMaintenance")
  ELSE IF known /\ ~maint.active /\ IsFinished(job)
         THEN plan("ReleaseTerminalCurrent")
  ELSE plan("Idle")

=============================================================================
