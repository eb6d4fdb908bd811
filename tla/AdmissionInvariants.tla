------------------------ MODULE AdmissionInvariants ------------------------
(***************************************************************************)
(* Inductive invariants of the front desk: the updater's, with a slot that *)
(* a rescue may have freed, and what a job file with a key stands for.     *)
(***************************************************************************)
EXTENDS AdmissionProperties, UpdaterInvariants

(***************************************************************************)
(* What updates that wait for their first step, and open sites, rely on.   *)
(***************************************************************************)
FreshUpdate(j) == jobs[j].kind = "Update" /\ NeverStarted(jobs[j])

\* An update without a step is about to take its first, or recovery is about to
\* fail it, or to release it with the record of a job that is over.
FreshFits(j) ==
  FreshUpdate(j) =>
    /\ ExecutorRunning(j) => At(j, "Preflight")
    /\ maint.job = j => ~maint.active /\ boot.pc \in {"up", "plan", "failUnstarted"}
    /\ current = j =>
         /\ ~maint.active
         /\ maint.job \notin {NoJob, j} => OnlyFinishedBehind
         /\ boot.pc \in {"up", "plan", "failUnstarted", "commitVersion",
                         "clearMaint", "clearCurrent"}
    /\ loop = j => OnlyFinishedBehind

\* Nobody works on an open site; a job still in the slot was left there by an
\* operator, who forced maintenance off.
OpenRests ==
  /\ boot.pc \in {"up", "serve"} /\ NoExecutorRunning /\ ~maint.active /\ current # NoJob
       => maint.job = NoJob /\ ~NeverStarted(jobs[current])
  /\ boot.pc = "manualCurrent" => maint.active
  /\ \A j \in Jobs : At(j, "recoveryCurrent") => maint.active

Settles == OpenRests /\ \A j \in Jobs : FreshFits(j)

-----------------------------------------------------------------------------
(***************************************************************************)
(* The updater's records, with the slot as a rescue leaves it.             *)
(***************************************************************************)
Freed == current = NoJob /\ maint.active

\* The job of a freed slot still waits, and nothing works on the site.
FreedWaits ==
  /\ boot.pc = "up" /\ NoExecutorRunning
  /\ maint.job # NoJob /\ jobs[maint.job].status = "NeedsManual"

Records ==
  /\ OwnerRuns /\ OpenOnlyInPreflight /\ Unstarted /\ Noted /\ RecoveryOwns
  /\ \A j \in Jobs : TaskRecorded(j)
  /\ PointerOpen /\ RecoveryRecorded
  /\ IF Freed THEN FreedWaits ELSE IdleRecords /\ ClosedWaits

\* A rescue call is answered by a process that serves, for a snapshot of a job.
CallsFit ==
  rescue.pc # "idle" =>
    boot.pc = "up" /\ (rescue.pc \in {"free", "send"} => rescue.snap \in Jobs)

DeskSafe ==
  /\ Sound /\ DeskTypeOK /\ CallsFit
  /\ ~loose => Records /\ Settles

-----------------------------------------------------------------------------
(***************************************************************************)
(* Keys.                                                                   *)
(***************************************************************************)
\* A key is that of one update, which has a file.
KeyFiles ==
  /\ \A j \in Jobs : keyOf[j] \in Keys => jobs[j].status # "Absent" /\ jobs[j].kind = "Update"
  /\ \A i, j \in Jobs : keyOf[i] = keyOf[j] /\ keyOf[i] \in Keys => i = j
  /\ \A k \in Keys : begun[k] > 0 => HeldBy(k) # {}
  /\ \A k \in Keys : \A j \in told[k] : keyOf[j] = k

\* Begun under its key, or a client was told of it.
Promised(j) == \E k \in Keys : keyOf[j] = k /\ (begun[k] > 0 \/ j \in told[k])

\* Its task runs, or recovery is going to fail it explicitly.
Underway(j) ==
  /\ current = j
  /\ \/ ExecutorRunning(j)
     \/ boot.pc = "plan" /\ maint.job \in {NoJob, j}
     \/ boot.pc = "failUnstarted" /\ boot.job = j

\* A promised job is not admitted again, and not forgotten before its first step.
Promises ==
  /\ \A k \in Keys : begun[k] <= 1
  /\ \A j \in Jobs : Promised(j) => loop # j
  /\ \A j \in Jobs : Promised(j) /\ NeverStarted(jobs[j]) => Underway(j)

DeskKept == DeskSafe /\ KeyFiles /\ (~loose => Promises)

=============================================================================
