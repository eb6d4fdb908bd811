------------------------- MODULE AdmissionProperties -------------------------
(***************************************************************************)
(* What a repeated request and a rescued site may rely on, as long as no   *)
(* rescue was overtaken (loose): no restart found the site closed with no  *)
(* job.current, and no late write of a rescue met a task or a job at work. *)
(***************************************************************************)
EXTENDS Admission, UpdaterProperties

\* The same key never makes a second job, nor begins the update again, however
\* often it is repeated and wherever the updater dies (worker/mod.rs:929-935),
\* unless recovery released the job before its first step (Forgotten).
KeyRunsOnce ==
  ~loose =>
    \A k \in Keys :
      /\ begun[k] <= 1
      /\ \A i, j \in Jobs : keyOf[i] = k /\ keyOf[j] = k => i = j

\* Nobody is told of a job that is neither admitted, begun nor ended, and that
\* nothing would run (worker/mod.rs:773-776), but of one that recovery released.
ToldIsTrue ==
  ~loose =>
    \A k \in Keys : \A j \in told[k] :
      current = j \/ jobs[j].status # "Pending" \/ jobs[j].last # "None"

\* A rescued site is not worked on by two tasks, the freed slot notwithstanding,
\* and whatever was rescued, its containers run on data of their release only.
RescuedSiteIsSafe == ~loose => NoOldCodeOnNewData /\ SingleExecutor

\* The site waits for an operator, who finds its job in the slot.
CalledAgain == maint.active /\ maint.phase = "NeedsManual" /\ current = maint.job

\* rescue_continue frees the slot before its rollback is queued: if the updater
\* dies in between, or somebody is admitted first, the site is worked on anyway,
\* or an operator is called again and the slot names the job (recovery.rs:119-142).
ContinueIsCarriedOut ==
  (rescue.pc = "send" /\ \E j \in Jobs : jobs[j].status = "Absent")
    ~> (~NoExecutorRunning \/ (boot.pc = "up" /\ CalledAgain))

=============================================================================
