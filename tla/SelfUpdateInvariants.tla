------------------------ MODULE SelfUpdateInvariants ------------------------
(***************************************************************************)
(* Why the handoff keeps its promises: the inductive invariants of the     *)
(* proofs.                                                                 *)
(*                                                                         *)
(* The first holds in every scenario.  The task that owns the gate is what *)
(* keeps helpers apart: Alone says what each of its steps knows of the two *)
(* containers, GateOwned that there is such a task whenever the gate is    *)
(* closed, and the rest that what it starts and records is an attempt.     *)
(***************************************************************************)
EXTENDS SelfUpdateProperties

RecordKnown == record = Absent \/ record.id \in Ids

\* A task works on a request, and sends one only when its target is known.
TaskKnown ==
  /\ task.pc # "done" => updaterUp /\ record.id \in Ids
  /\ task.pc \in {"lookup", "loop", "await", "confirm", "failing", "writing"} => task.mine.id \in Ids
  /\ task.pc \in {"loop", "await"} => task.mine.target \in Versions
  /\ post = "sent" => task.pc = "await"

BoxKnown == \A name \in Helpers : box[name].st # "absent" => box[name].att \in Attempts

ActKnown ==
  /\ act.pc \in {"prepare", "launch", "launchRecovery", "stopOld", "startRecovery", "retry",
                "rerun", "giveUp", "stage", "staged"} => act.att \in Attempts
  /\ act.pc = "retry" => act.retries < MaxRetries

GateOwned ==
  /\ guard = "down" => gate = "open"
  /\ gate = "open" <=> act.pc = "none"
  /\ gate = "startup" => act.pc = "reconcile"
  /\ guard = "down" \/ gate # "open" => leases = 0

\* The steps that have a helper to watch, and those that know none runs.
Watching == {"monitor", "retry", "rerun", "unidentified", "giveUp", "launchRecovery", "stopOld"}
Quiet == {"prepare", "launch", "reconcile", "startRecovery", "publish", "cleanup"}
Other(name) == IF name = Normal THEN Recovery ELSE Normal

WatchesOne ==
  act.pc \in Watching => /\ box[act.name].st # "absent"
                         /\ box[Other(act.name)].st # "running"
                         /\ act.recovery = (act.name = Recovery)
OldIsNormal == act.pc \in {"launchRecovery", "stopOld"} => act.name = Normal
RecoveryThere == act.pc \in {"stopOld", "startRecovery", "staged"} => box[Recovery].st # "absent"
NoneRuns ==
  act.pc \in Quiet \/ (act.pc = "none" /\ guard = "up") =>
    box[Normal].st # "running" /\ box[Recovery].st # "running"

Alone == OneInstaller /\ WatchesOne /\ OldIsNormal /\ RecoveryThere /\ NoneRuns

WorkerSide == RecordKnown /\ TaskKnown
GuardSide == BoxKnown /\ ActKnown /\ GateOwned /\ Alone
Inv == TypeOK /\ WorkerSide /\ GuardSide

-----------------------------------------------------------------------------
(***************************************************************************)
(* The second is of the scenarios where no helper stays behind and no      *)
(* request arrives late.                                                   *)
(***************************************************************************)
There(name) == box[name].st # "absent"

\* The request that is under way is the newest, and has no outcome yet.
RequestOpen ==
  /\ record.id <= requests /\ \A id \in final : id <= requests
  /\ record.st = "pending" => record.id \notin final
  /\ record.queued => record.st = "pending"

\* A task knows the request as it is recorded, until the guard has taken it.
TaskTrue ==
  /\ strays = {} /\ (post # "none" => task.pc = "await")
  /\ task.pc \in {"choose", "lookup", "writing"} \/ post = "sent" => record.queued
  /\ post = "accepted" => ~record.queued
  /\ record.queued /\ task.pc \notin {"done", "choose"} => task.mine = record

JobTrue == job # "none" => record.st # "pending"

\* A request in the guard's hands, or in those of a helper that no guard watches,
\* and the attempts that are there: all are one, and of that request.
InHand ==
  \/ act.pc \notin {"none", "reconcile", "cleanup"}
  \/ act.pc = "none" /\ guard = "down" /\ \E name \in Helpers : There(name)
Handed == {box[name].att : name \in {n \in Helpers : There(n)}} \cup ({act.att} \ {None})
HandTrue ==
  InHand => /\ record.st = "pending" /\ ~record.queued
            /\ \A att \in Handed : att.id = record.id
OneAttempt == \A one, other \in Handed : one = other

\* What the task that owns the gate has cleared away, and what it has started.
Before == act.pc \in {"prepare", "launch", "reconcile"} \/ (act.pc = "none" /\ guard = "up")
Cleared ==
  /\ Before => ~There(Normal) /\ ~There(Recovery)
  /\ act.pc \in (Watching \ {"stopOld"}) \cup {"publish", "cleanup"} => ~There(Other(act.name))
  /\ act.pc = "startRecovery" => ~There(Normal)
  /\ act.pc \in {"stage", "staged", "stuck"} => There(Normal) \/ There(Recovery)
  /\ There(Normal) => box[Recovery].st \in {"absent", "created"}
  /\ act.pc \in {"monitor", "unidentified"} => box[act.name].st \in {"running", "exited"}

\* What a helper that is there has made of the stack.
Built ==
  \A name \in Helpers :
    \/ box[name].st = "running" /\ box[name].pc = "up"
    \/ box[name].st = "exited" /\ box[name].ok
    => \A s \in Services \ box[name].left : stack[s] = Images(name)[s]
EndedWhole ==
  \A name \in Helpers :
    /\ box[name].st = "running" => ~box[name].ok
    /\ box[name].st = "exited" /\ box[name].ok => box[name].left = {}
SuccessBuilt ==
  /\ act.pc = "publish" /\ ~act.recovery =>
       act.name = Normal /\ box[Normal].st = "exited" /\ box[Normal].ok
  /\ act.pc \in {"retry", "rerun", "giveUp"} => act.recovery

\* What has failed by now: every run of the recovery after the first was retried
\* for a failure, and before the first the helper has failed.
Failures == faults + crashes
Failed(name) == box[name].st = "exited" /\ ~box[name].ok
Recovering == {"stage", "staged", "rerun"}
FailuresTrue ==
  /\ record.retries > 0 => Failures > record.retries
  /\ Failed(Normal) \/ There(Recovery) \/ act.pc = "launchRecovery" => Failures > 0
  /\ act.pc \in Recovering \/ (act.pc \in {"monitor", "unidentified"} /\ act.recovery) =>
       Failures > act.retries
  /\ act.pc = "retry" => Failures > act.retries + 1
  /\ Failed(Recovery) /\ act.pc \in {"monitor", "unidentified", "none"} =>
       /\ act.pc # "none" => Failures > act.retries + 1
       /\ Failures > record.retries + 1
  /\ act.pc = "giveUp" => Failures > MaxRetries + 1

\* Unless that were too many, the stack is whole but for the time a helper works.
WholeImages(images) == images = Installed \/ \E v \in Versions : images = [s \in Services |-> v]
Settled ==
  \/ Before \/ act.pc \in {"publish", "cleanup"}
  \/ act.pc = "none" /\ ~There(Normal) /\ ~There(Recovery)
StackTrue ==
  Failures <= MaxRetries + 1 =>
    /\ Settled => WholeImages(stack)
    /\ \A att \in Handed : WholeImages(att.prev)

RecordSide == RequestOpen /\ TaskTrue /\ JobTrue
BoxSide == OneAttempt /\ Cleared /\ Built /\ EndedWhole /\ SuccessBuilt
Tidy == RecordSide /\ HandTrue /\ BoxSide /\ FailuresTrue /\ StackTrue
CleanInv == Clean => Tidy
=============================================================================
