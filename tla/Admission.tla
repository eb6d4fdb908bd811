----------------------------- MODULE Admission ------------------------------
(***************************************************************************)
(* The front desk of the updater: update requests that carry an            *)
(* Idempotency-Key and may be repeated, and the rescue calls, which change *)
(* maintenance.json and job.current from a thread of the API while the     *)
(* worker loop, the tasks and the recovery of Updater go on.               *)
(*                                                                         *)
(* The fingerprint of a request is its target: the mode and the flags it   *)
(* also holds are left out.  A restart forgets the rescue call under way;  *)
(* begun, told and loose are histories, for the properties only.           *)
(***************************************************************************)
EXTENDS Updater

CONSTANTS
  Keys,         \* values of the Idempotency-Key header
  NoKey,        \* a request without the header
  MaxRescues    \* bound: rescue calls

ASSUME KeyAssumption == NoKey \notin Keys
ASSUME RescueAssumption == MaxRescues \in Nat

VARIABLES
  keyOf,     \* key in each job file
  rescue,    \* the rescue call under way, and the snapshot it asks for
  rescues,   \* rescue calls made
  loose,     \* a rescue was overtaken by a death or by another job
  begun,     \* how often an update with this key was begun from its start
  told       \* jobs a client was told of under each key

deskVars == <<keyOf, rescue, rescues, loose, begun, told>>
allVars == <<vars, deskVars>>

NoRescue == [pc |-> "idle", snap |-> NoJob]

DeskTypeOK ==
  /\ keyOf \in [Jobs -> Keys \cup {NoKey}]
  /\ rescue \in [pc : {"idle", "free", "send", "leave"}, snap : JobOrNone]
  /\ rescues \in 0 .. MaxRescues
  /\ loose \in BOOLEAN
  /\ begun \in [Keys -> Nat]
  /\ told \in [Keys -> SUBSET Jobs]

DeskInit ==
  /\ Init
  /\ keyOf = [j \in Jobs |-> NoKey]
  /\ rescue = NoRescue
  /\ rescues = 0
  /\ loose = FALSE
  /\ begun = [k \in Keys |-> 0]
  /\ told = [k \in Keys |-> {}]

-----------------------------------------------------------------------------
(***************************************************************************)
(* replay_idempotent_update: job files are the only memory of a key.       *)
(***************************************************************************)
HeldBy(k) == {j \in Jobs : jobs[j].status # "Absent" /\ keyOf[j] = k}

SameRequest(j, target) == jobs[j].to = target

\* Written but never admitted: Pending, no step, not job.current.
Unadmitted(j) == NeverStarted(jobs[j]) /\ current # j

Tell(k, j) == told' = [told EXCEPT ![k] = @ \cup {j}]

\* Faulty variant: a job file with the key is answer enough.
ReplayAnyJob(k, target) ==
  /\ Ready
  /\ \E j \in HeldBy(k) : HeldBy(k) = {j} /\ SameRequest(j, target) /\ Tell(k, j)
  /\ UNCHANGED <<vars, keyOf, rescue, rescues, loose, begun>>

\* IdempotentReplay::Accepted: the id is given again and nothing is run.
Replay(k, target) ==
  /\ Ready
  /\ \E j \in HeldBy(k) :
       HeldBy(k) = {j} /\ SameRequest(j, target) /\ ~Unadmitted(j) /\ Tell(k, j)
  /\ UNCHANGED <<vars, keyOf, rescue, rescues, loose, begun>>

\* Faulty variant: a cut-off admission goes on whatever runs meanwhile.
FinishAdmissionAnyway(k, target) ==
  /\ Ready
  /\ \E j \in HeldBy(k) :
       /\ HeldBy(k) = {j} /\ SameRequest(j, target) /\ Unadmitted(j)
       /\ WriteJob(j, [jobs[j] EXCEPT !.from = curVer])
       /\ loop' = j
  /\ UNCHANGED <<hostVars, exec, boot, probe, boundVars, deskVars>>

\* IdempotentReplay::Unadmitted: the admission goes on where it was cut off.
FinishAdmission(k, target) ==
  /\ Ready
  /\ current = NoJob
  /\ ~maint.active /\ maint.phase # "NeedsManual"
  /\ \E j \in HeldBy(k) :
       /\ HeldBy(k) = {j} /\ SameRequest(j, target) /\ Unadmitted(j)
       /\ WriteJob(j, [jobs[j] EXCEPT !.from = curVer])
       /\ loop' = j
  /\ UNCHANGED <<hostVars, exec, boot, probe, boundVars, deskVars>>

\* handle_update with a key no job file holds.
NewKeyedUpdate(k, j, target) ==
  /\ HeldBy(k) = {}
  /\ RequestUpdate(j, target)
  /\ keyOf' = [keyOf EXCEPT ![j] = k]
  /\ UNCHANGED <<rescue, rescues, loose, begun, told>>

NewPlainUpdate(j, target) ==
  /\ RequestUpdate(j, target)
  /\ UNCHANGED deskVars

\* The pointer, the task, and the answer.  A client that misses it asks again.
AdmitAndTell ==
  /\ Admit
  /\ UNCHANGED <<keyOf, rescue, rescues, loose>>
  /\ IF keyOf[loop] \in Keys
     THEN /\ begun' = [begun EXCEPT ![keyOf[loop]] = @ + 1]
          /\ Tell(keyOf[loop], loop)
     ELSE UNCHANGED <<begun, told>>

-----------------------------------------------------------------------------
(***************************************************************************)
(* The rescue calls of the API.                                            *)
(***************************************************************************)
LooksStuck ==
  \/ maint.phase = "NeedsManual"
  \/ maint.active /\ (IsPostSwap(maint.phase) \/ IsRollback(maint.phase))

\* resolve_rescue_hint: the snapshot of the job the records name.
RescueHint ==
  IF LooksStuck /\ RecoveryJob(maint, current) # NoJob
  THEN jobs[RecoveryJob(maint, current)].snap ELSE NoJob

CallRescue(pc, snapshot) ==
  /\ boot.pc = "up" /\ rescue = NoRescue
  /\ rescues < MaxRescues /\ rescues' = rescues + 1
  /\ rescue' = [pc |-> pc, snap |-> snapshot]
  /\ UNCHANGED <<keyOf, loose, begun, told>>

\* The site is as a rescue leaves it alone: no task, and no job in the slot but
\* one that waits for an operator.
Left == NoExecutorRunning /\ MayRollback

\* A write of a rescue call, whose reading somebody may have overtaken.
LateStep(next) ==
  /\ rescue' = next
  /\ loose' = (loose \/ ~Left)
  /\ UNCHANGED <<keyOf, rescues, begun, told>>

EndRescue ==
  /\ rescue' = NoRescue
  /\ UNCHANGED <<keyOf, rescues, loose, begun, told>>

OnlyState == UNCHANGED <<hostVars, processVars, boundVars>>

\* rescue_continue reads the records, then frees the slot, then sends.
RescueContinue ==
  /\ RescueHint # NoJob /\ snaps[RescueHint].taken
  /\ CallRescue(IF current = NoJob THEN "send" ELSE "free", RescueHint)
  /\ UNCHANGED vars

\* Faulty variant: maintenance is taken for released with the pointer.
RescueFreeAndClear ==
  /\ rescue.pc = "free"
  /\ current' = NoJob /\ maint' = InactiveMaintenance
  /\ UNCHANGED <<jobs, curVer, report, snaps>> /\ OnlyState
  /\ LateStep([rescue EXCEPT !.pc = "send"])

RescueFree ==
  /\ rescue.pc = "free"
  /\ SetCurrent(NoJob) /\ OnlyState
  /\ LateStep([rescue EXCEPT !.pc = "send"])

\* The worker loop takes the rollback from the queue.
RescueRollback ==
  /\ rescue.pc = "send"
  /\ \E j \in Jobs \ {rescue.snap} : RequestRollback(j, rescue.snap)
  /\ LateStep(NoRescue)

RescueRefused ==
  /\ rescue.pc = "send"
  /\ Ready /\ ~MayRollback
  /\ EndRescue
  /\ UNCHANGED vars

\* rescue_exit: the record, then the pointer.
RescueExit ==
  /\ WriteMaint(InactiveMaintenance) /\ OnlyState
  /\ CallRescue("leave", NoJob)

RescueLeave ==
  /\ rescue.pc = "leave"
  /\ SetCurrent(NoJob) /\ OnlyState
  /\ LateStep(NoRescue)

RescueForget ==
  /\ boot.pc = "up" /\ rescue = NoRescue
  /\ rescues < MaxRescues /\ rescues' = rescues + 1
  /\ SetCurrent(NoJob) /\ OnlyState
  /\ UNCHANGED <<keyOf, rescue, loose, begun, told>>

-----------------------------------------------------------------------------
(***************************************************************************)
(* The updater with its front desk.                                        *)
(***************************************************************************)
\* Admitted and cut off before its first step, beside the record of another job:
\* recovery releases that one, and with it the pointer (recovery.rs:96, 371).
Forgotten(j) ==
  current = j /\ NeverStarted(jobs[j]) /\ maint.job \notin {NoJob, j}

DeskCrash ==
  /\ Crash
  /\ rescue' = NoRescue
  /\ loose' = (loose \/ (maint.active /\ current = NoJob))
  /\ begun' = [k \in Keys |-> IF \E j \in HeldBy(k) : Forgotten(j) THEN 0 ELSE begun[k]]
  /\ told' = [k \in Keys |-> {j \in told[k] : ~Forgotten(j)}]
  /\ UNCHANGED <<keyOf, rescues>>

Inside ==
  /\ \/ \E j \in Jobs : ExecutorStep(j)
     \/ BootStep \/ Migrate \/ Quiet
  /\ UNCHANGED deskVars

Requests ==
  \/ \E k \in Keys, target \in Versions :
       \/ Replay(k, target)
       \/ FinishAdmission(k, target)
       \/ \E j \in Jobs : NewKeyedUpdate(k, j, target)
  \/ \E j \in Jobs, target \in Versions : NewPlainUpdate(j, target)

RescueGoesOn == RescueFree \/ RescueRollback \/ RescueRefused \/ RescueLeave

DeskNext == Inside \/ AdmitAndTell \/ DeskCrash \/ Requests \/ RescueGoesOn

\* Closed, with no task, no job at the desk and no other rescue call.
Stuck == maint.active /\ Ready /\ NoExecutorRunning /\ rescue = NoRescue

(***************************************************************************)
(* Operators who follow the guide (UPDATER_QUICKSTART.md, section 5): they *)
(* rescue a closed site nothing works on any more, one call at a time, and *)
(* force maintenance off only where the services are seen to be healthy.   *)
(* A rollback asked for meanwhile may be ahead of a rescue in the queue.   *)
(***************************************************************************)
GuidedNext ==
  \/ DeskNext
  \/ Stuck /\ (RescueContinue \/ RescueForget)
  \/ Stuck /\ Healthy /\ apps = curVer /\ env.tag = curVer /\ RescueExit
  \/ NoExecutorRunning /\ RequestAnyRollback
       /\ UNCHANGED deskVars

\* The button of the admin UI, pressed whenever it does something.
PressedNext == DeskNext \/ RescueContinue

GuidedSpec == DeskInit /\ [][GuidedNext]_allVars

PressedSpec == DeskInit /\ [][PressedNext]_allVars

(***************************************************************************)
(* Tasks the runtime schedules, recovery at startup, the loop's next step, *)
(* a call of the API once it is made and a backend's migrations all go on; *)
(* requests, new calls and crashes need not happen.                        *)
(***************************************************************************)
Fairness ==
  /\ \A j \in Jobs : WF_allVars(ExecutorStep(j) /\ UNCHANGED deskVars)
  /\ WF_allVars(BootStep /\ UNCHANGED deskVars)
  /\ WF_allVars(Migrate /\ UNCHANGED deskVars)
  /\ WF_allVars(AdmitAndTell)
  /\ WF_allVars(RescueGoesOn)

FairGuidedSpec == GuidedSpec /\ Fairness

=============================================================================
