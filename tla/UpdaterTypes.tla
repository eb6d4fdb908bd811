---------------------------- MODULE UpdaterTypes ----------------------------
(***************************************************************************)
(* The vocabulary of the updater's state directory: versions, phases, job  *)
(* records and maintenance records, with the helpers that classify them.   *)
(*                                                                         *)
(* A version is a number: a larger one is a newer release, and the number  *)
(* doubles as the schema that release leaves in pgdata.  NoVersion is the  *)
(* None of an Option<DeployTag>.  A job's list of steps is kept as the     *)
(* three facts the code reads back from it: the last step's phase, whether *)
(* that step ended ok, and the last phase that is not NeedsManual.         *)
(***************************************************************************)
EXTENDS Naturals

CONSTANTS
  Jobs,        \* identifiers a job may get
  NoJob,       \* "no job": an absent pointer
  MaxVersion   \* newest release that exists

ASSUME NoJobAssumption == NoJob \notin Jobs
ASSUME MaxVersionAssumption == MaxVersion \in Nat \ {0}

Versions == 1 .. MaxVersion
NoVersion == 0
VersionOrNone == Versions \cup {NoVersion}
Damaged == MaxVersion + 1   \* content of a half-written pgdata

JobOrNone == Jobs \cup {NoJob}

(***************************************************************************)
(* Phases.                                                                 *)
(***************************************************************************)
PreSwapPhases == {"Preflight", "MaintenanceOn", "Stopping", "Snapshotting"}

PostSwapPhases == {"StartingNew", "HealthProbing", "Finalize"}

RollbackPhases ==
  {"RollbackInProgress", "StopNew", "SwapTagBack", "RestoreSnapshot", "StartOld"}

\* "None" is the missing phase of a job without steps.
Phases ==
  {"None", "Idle", "SwapTag", "NeedsManual"}
    \cup PreSwapPhases \cup PostSwapPhases \cup RollbackPhases

TakesSiteOffline(phase) == phase \notin {"Idle", "Preflight"}

IsPostSwap(phase) == phase \in PostSwapPhases

IsRollback(phase) == phase \in RollbackPhases

(***************************************************************************)
(* Job files and maintenance.json.                                         *)
(***************************************************************************)
Kinds == {"Update", "Rollback"}
Statuses == {"Absent", "Pending", "Running", "Succeeded", "Failed", "NeedsManual"}
Inflight == {"Pending", "Running", "NeedsManual"}

JobRecord ==
  [kind : Kinds, status : Statuses, last : Phases, ok : BOOLEAN, work : Phases,
   from : VersionOrNone, to : VersionOrNone, snap : JobOrNone]

NoRecord ==
  [kind |-> "Update", status |-> "Absent", last |-> "None", ok |-> FALSE,
   work |-> "None", from |-> NoVersion, to |-> NoVersion, snap |-> NoJob]

NewUpdate(from, to) ==
  [NoRecord EXCEPT !.status = "Pending", !.from = from, !.to = to]

NewRollback(from, snapshot) ==
  [NoRecord EXCEPT !.kind = "Rollback", !.status = "Pending",
                   !.from = from, !.snap = snapshot]

NeverStarted(job) == job.status = "Pending" /\ job.last = "None"

MaintenanceRecord == [active : BOOLEAN, phase : Phases, job : JobOrNone]

InactiveMaintenance == [active |-> FALSE, phase |-> "Idle", job |-> NoJob]

=============================================================================
