-------------------------- MODULE UpdaterProperties --------------------------
(***************************************************************************)
(* What must be true of the updater, whatever fails and whenever it dies.  *)
(***************************************************************************)
EXTENDS Updater

\* Serving, with no task, no request and no reconciliation under way.
Settled == Ready /\ NoExecutorRunning /\ probe = NoVersion

\* A restarted updater refuses to start when a record names a job without a
\* file (recovery.rs:312): neither job.current nor maintenance.json ever does.
NoDanglingJob ==
  \A id \in {current, maint.job} \ {NoJob} : jobs[id].status # "Absent"

\* The module promises that at most one job is in flight (worker/mod.rs:6):
\* two tasks never drive the containers and pgdata at the same time.
SingleExecutor ==
  \A i, j \in Jobs : ExecutorRunning(i) /\ ExecutorRunning(j) => i = j

\* Containers never run on a half-restored pgdata, nor on one that a newer
\* release has migrated (update.rs failure invariant 6, execute_inline).
NoOldCodeOnNewData ==
  /\ data = Damaged => ~pg
  /\ pg /\ apps # Stopped => data <= apps

\* A closed site nobody is working on always names the job an operator has to
\* look at; it is never stuck behind maintenance without one.
ClosedSiteHasOwner ==
  Settled /\ maint.active =>
    /\ current # NoJob /\ maint.job = current
    /\ jobs[current].status = "NeedsManual"

\* Once everything has ended and the site is open, updater.json, .env and the
\* containers agree on the release, whatever failed on the way.
RecordMatchesSite ==
  Settled /\ ~maint.active => curVer = env.tag /\ apps = env.tag

\* A success that was recorded is never undone by a later recovery.
SuccessIsFinal ==
  [][\A j \in Jobs : jobs[j].status = "Succeeded"
                       => jobs'[j].status = "Succeeded"]_vars

\* No operation failed and the operator asked for no rollback: only the death
\* of the updater, at any point, disturbs the updates.
OnlyCrashes == faults = 0 /\ \A j \in Jobs : jobs[j].kind = "Update"

\* Crashes alone never call for an operator: every interrupted update is
\* finished or taken back by the restarted updater itself.
NoOperatorNeeded ==
  OnlyCrashes => \A j \in Jobs : jobs[j].status # "NeedsManual"

\* A release that ships a proxy moves both tags of .env or neither, wherever
\* the updater died between the two writes.
TagsAgree == OnlyCrashes /\ Settled /\ ~maint.active => env.proxy = env.tag

\* Every admitted job is released, or waits for an operator.
JobsEnd ==
  \A j \in Jobs :
    (current = j) ~> (current # j \/ jobs[j].status = "NeedsManual")

\* A closed site opens again, or says that it needs an operator.
SiteReopens ==
  maint.active ~> (~maint.active \/ maint.phase = "NeedsManual")

\* The site as the abstract deployment sees it: while the gate is closed it
\* stands at the last release updater.json recorded.
Site ==
  IF maint.active
  THEN [code |-> curVer, schema |-> curVer, template |-> curVer]
  ELSE [code |-> apps, schema |-> data, template |-> compose]

KeptBackups ==
  {[code |-> snaps[j].version, schema |-> snaps[j].data] :
     j \in {i \in Jobs : snaps[i].taken}}

Abstract == INSTANCE Deployment WITH
  Releases <- Versions, open <- ~maint.active, site <- Site, kept <- KeptBackups

\* The updater implements the deployment: the site changes as a whole, behind
\* a closed gate, never forward without a backup of what it leaves.
ImplementsDeployment == Abstract!SiteSpec

-----------------------------------------------------------------------------
(***************************************************************************)
(* Statements of the repository's comments and documents that the code     *)
(* does not keep; each is refuted by a run of its own.                     *)
(***************************************************************************)
\* Points at which a task operates on containers, pgdata, .env or Compose.
HostPoints ==
  {"stopApps", "stopPostgres", "copy", "startPostgres", "install", "swapTag",
   "swapProxyTag", "startNew", "reinstall", "preSwapCompose", "preSwapUp",
   "stopNew", "restoreCompose", "restoreProxyTag", "swapTagBack",
   "stopForRestore", "wipe", "refill", "startRestored", "startOld"}

\* worker/mod.rs:6: at most one job is in flight.  Here, weaker: two tasks are
\* never both about to operate on the host.
OneDriver ==
  \A i, j \in Jobs :
    exec[i].pc \in HostPoints /\ exec[j].pc \in HostPoints => i = j

=============================================================================
