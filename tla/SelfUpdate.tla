---------------------------- MODULE SelfUpdate ----------------------------
(***************************************************************************)
(* The updater replaces itself, the Docker guard and the gateway between   *)
(* them (worker/self_update.rs, docker/guard/self_update.rs, the guard's   *)
(* startup and docker/self_update_helper.rs).                              *)
(*                                                                         *)
(* The worker records a request and posts it to the guard.  The guard      *)
(* closes its gate to other Docker mutations, starts a helper container    *)
(* with the new image and watches it; the helper recreates the services,   *)
(* which kills the worker and the guard that started it.  The guard that   *)
(* comes up finds the helper and watches on.  A failed helper is followed  *)
(* by a recovery helper with the previous image.  self-update-last.json is *)
(* written by all three, and refuses other jobs while it says pending.     *)
(*                                                                         *)
(* An image is the version it holds; tags that move are left out.          *)
(***************************************************************************)
EXTENDS Integers, FiniteSets

CONSTANTS
  Versions, None,
  Services, Guard, Updater,   \* the stack, and the two services with a process here
  Installed,                  \* what runs at first
  Scenarios                   \* what may happen in a behaviour

\* A scenario says whether a helper may stay behind (its removal fails, the guard
\* dies before it, or a docker run that fails has created it), whether a request
\* the worker has given up may still arrive, and bounds the self-updates asked
\* for, the jobs, the operations that fail, and the deaths of processes that no
\* recreation causes.
ASSUME StackAssumption ==
  /\ Guard \in Services /\ Updater \in Services /\ Guard # Updater
  /\ Installed \in [Services -> Versions] /\ None \notin Versions
ASSUME ScenarioAssumption ==
  Scenarios \subseteq [residue : BOOLEAN, late : BOOLEAN, requests : Nat, jobs : Nat,
                      faults : Nat, crashes : Nat]

Ids == Nat \ {0}
Normal == "normal"
Recovery == "recovery"
Helpers == {Normal, Recovery}
MaxRetries == 2

VARIABLES
  record,     \* self-update-last.json
  task,       \* the worker's request_handoff
  post,       \* its request to the guard, and the answer
  strays,     \* requests it no longer waits for
  updaterUp,
  job,        \* job.current
  guard,      \* the guard's process
  gate,       \* its mutation gate: open, self or startup
  leases,     \* other mutations it forwards
  act,        \* the task that owns the gate
  box,        \* the helper containers
  stack,      \* the image each service runs
  scenario,   \* the scenario, chosen at the start
  requests, jobs, faults, crashes,
  final       \* requests whose outcome has been published (history)

workerVars == <<task, post, strays, updaterUp, job, jobs>>
guardVars == <<guard, gate, leases, act>>
dockerVars == <<box, stack>>
boundVars == <<faults, crashes, scenario>>
vars == <<record, workerVars, guardVars, dockerVars, boundVars, requests, final>>

Attempts == [id : Ids, target : Versions, prev : [Services -> Versions]]
ASSUME NoneAssumption == None \notin Attempts

Absent == [st |-> "none", queued |-> FALSE, id |-> 0, target |-> None, prev |-> None,
           retries |-> 0, known |-> FALSE]
NoTask == [pc |-> "done", lost |-> FALSE, mine |-> Absent]
NoAct == [pc |-> "none", name |-> Normal, att |-> None, recovery |-> FALSE, retries |-> 0]
NoBox == [st |-> "absent", ok |-> FALSE, att |-> None, pc |-> "begin", left |-> {}]

\* known: target_image is set.  id is of this model, as is that of an attempt.
Records == [st : {"none", "pending", "succeeded", "failed"}, queued : BOOLEAN, id : Nat,
            target : Versions \cup {None}, prev : Versions \cup {None},
            retries : 0 .. MaxRetries, known : BOOLEAN]
Tasks == [pc : {"done", "choose", "lookup", "loop", "await", "confirm", "failing", "writing"},
          lost : BOOLEAN, mine : Records]
Messages == [id : Ids, target : Versions]
Acts == [pc : {"none", "prepare", "launch", "monitor", "launchRecovery", "stopOld",
               "startRecovery", "retry", "rerun", "unidentified", "giveUp", "publish",
               "cleanup", "stage", "staged", "reconcile", "stuck"},
         name : Helpers, att : Attempts \cup {None}, recovery : BOOLEAN, retries : 0 .. MaxRetries]
Boxes == [st : {"absent", "created", "running", "exited"}, ok : BOOLEAN,
          att : Attempts \cup {None}, pc : {"begin", "check", "up"}, left : SUBSET Services]

RecordTyped == record \in Records /\ final \subseteq Ids
WorkerTyped ==
  /\ task \in Tasks
  /\ post \in {"none", "sent", "accepted", "busy", "refused", "broken"}
  /\ strays \subseteq Messages
  /\ updaterUp \in BOOLEAN
  /\ job \in {"none", "admitting", "running"}
GuardTyped ==
  /\ guard \in {"down", "up"}
  /\ gate \in {"open", "self", "startup"}
  /\ leases \in 0 .. 1
  /\ act \in Acts
DockerTyped ==
  /\ box \in [Helpers -> Boxes]
  /\ stack \in [Services -> Versions]
CountsTyped ==
  /\ requests \in Nat /\ jobs \in Nat /\ faults \in Nat /\ crashes \in Nat
  /\ scenario \in Scenarios
TypeOK == RecordTyped /\ WorkerTyped /\ GuardTyped /\ DockerTyped /\ CountsTyped

Init ==
  /\ record = Absent /\ task = NoTask /\ post = "none" /\ strays = {}
  /\ updaterUp = TRUE /\ job = "none"
  /\ guard = "up" /\ gate = "open" /\ leases = 0 /\ act = NoAct
  /\ box = [name \in Helpers |-> NoBox] /\ stack = Installed
  /\ requests = 0 /\ jobs = 0 /\ faults = 0 /\ crashes = 0 /\ final = {}
  /\ scenario \in Scenarios

\* An operation fails, or does not.
Fault == faults < scenario.faults /\ faults' = faults + 1 /\ UNCHANGED <<crashes, scenario>>
NoFault == UNCHANGED boundVars

Outcome(st, id, target, prev) ==
  [st |-> st, queued |-> FALSE, id |-> id, target |-> target, prev |-> prev, retries |-> 0,
   known |-> FALSE]
Pending(id, target, prev) == Outcome("pending", id, target, prev)

\* write_status: an outcome other than pending is final.
Write(new) ==
  /\ record' = new
  /\ final' = IF new.st \in {"succeeded", "failed"} /\ new.id # 0 THEN final \cup {new.id} ELSE final

-----------------------------------------------------------------------------
(***************************************************************************)
(* The worker.                                                             *)
(***************************************************************************)
Rest == UNCHANGED <<guardVars, dockerVars, requests>>

\* require_idle_mutation, then schedule.
Schedule ==
  /\ updaterUp /\ task.pc = "done" /\ record.st # "pending" /\ job = "none"
  /\ requests < scenario.requests
  /\ requests' = requests + 1
  /\ Write([Pending(requests + 1, None, stack[Updater]) EXCEPT !.queued = TRUE])
  /\ task' = [NoTask EXCEPT !.pc = "choose"]
  /\ NoFault /\ UNCHANGED <<post, strays, updaterUp, job, jobs, guardVars, dockerVars>>

\* The target is looked up once, and kept over restarts.
Choose ==
  /\ task.pc = "choose"
  /\ task' = [task EXCEPT !.pc = IF record.target = None THEN "lookup" ELSE "loop",
                         !.mine = record]
  /\ NoFault /\ UNCHANGED <<record, final, post, strays, updaterUp, job, jobs>> /\ Rest

LookUp ==
  /\ task.pc = "lookup"
  /\ \/ /\ \E v \in Versions : /\ Write([task.mine EXCEPT !.target = v])
                             /\ task' = [task EXCEPT !.pc = "loop", !.mine.target = v]
        /\ NoFault
     \/ /\ task' = [task EXCEPT !.pc = "failing"]
        /\ Fault /\ UNCHANGED <<record, final>>
  /\ UNCHANGED <<post, strays, updaterUp, job, jobs>> /\ Rest

\* The loop reads the record before each request; a guard that does not
\* listen is asked again until the deadline.
Ask ==
  /\ task.pc = "loop"
  /\ \/ ~record.queued /\ task' = NoTask /\ UNCHANGED post
     \/ record.queued /\ guard = "up" /\ task' = [task EXCEPT !.pc = "await"] /\ post' = "sent"
     \/ /\ record.queued /\ guard = "down" /\ UNCHANGED post
        /\ task' = [task EXCEPT !.pc = IF task.lost THEN "confirm" ELSE "failing"]
  /\ NoFault /\ UNCHANGED <<record, final, strays, updaterUp, job, jobs>> /\ Rest

Message == [id |-> task.mine.id, target |-> task.mine.target]

\* The answer, or none: the connection breaks or the wait is over.
Answered ==
  /\ task.pc = "await" /\ post' = "none"
  /\ \/ post = "accepted" /\ task' = NoTask
     \/ post = "busy" /\ task' = [task EXCEPT !.pc = IF task.lost THEN "confirm" ELSE "loop"]
     \/ post = "busy" /\ ~task.lost /\ task' = [task EXCEPT !.pc = "failing"]
     \/ post = "refused" /\ task' = [task EXCEPT !.pc = "failing"]
     \/ post = "broken" /\ \E pc \in {"loop", "confirm"} : task' = [task EXCEPT !.pc = pc, !.lost = TRUE]
  /\ NoFault /\ UNCHANGED <<record, final, strays, updaterUp, job, jobs>> /\ Rest

Lose ==
  /\ task.pc = "await" /\ post # "broken"
  /\ post' = "none"
  /\ \E pc \in {"loop", "confirm"} : task' = [task EXCEPT !.pc = pc, !.lost = TRUE]
  /\ strays' = IF scenario.late /\ post = "sent" THEN strays \cup {Message} ELSE strays
  /\ Fault /\ UNCHANGED <<record, final, updaterUp, job, jobs>> /\ Rest

\* wait_for_legacy_guard_acceptance: any later record of the target is an
\* acceptance.  Nothing is under way any more when it gives up.
Confirm ==
  /\ task.pc = "confirm"
  /\ \/ ~record.queued /\ record.target = task.mine.target /\ task' = NoTask
     \/ /\ record.queued \/ record.target # task.mine.target
        /\ strays = {} /\ task' = [task EXCEPT !.pc = "failing"]
  /\ NoFault /\ UNCHANGED <<record, final, post, strays, updaterUp, job, jobs>> /\ Rest

\* A failed handoff is published unless the guard has the request by now.
Failing ==
  /\ task.pc = "failing"
  /\ task' = IF record.queued THEN [task EXCEPT !.pc = "writing", !.mine = record] ELSE NoTask
  /\ NoFault /\ UNCHANGED <<record, final, post, strays, updaterUp, job, jobs>> /\ Rest

PublishRefused ==
  /\ task.pc = "writing" /\ task' = NoTask
  /\ Write(Outcome("failed", task.mine.id, task.mine.target, task.mine.prev))
  /\ NoFault /\ UNCHANGED <<post, strays, updaterUp, job, jobs>> /\ Rest

\* DismissSelfUpdateLast
Dismiss ==
  /\ updaterUp /\ task.pc = "done" /\ record.st \in {"succeeded", "failed"}
  /\ Write(Absent)
  /\ NoFault /\ UNCHANGED <<task, post, strays, updaterUp, job, jobs>> /\ Rest

\* Mutant of Admit: a request the guard has taken does not count.
AdmitHandedOver ==
  /\ updaterUp /\ task.pc = "done" /\ ~record.queued /\ job = "none" /\ jobs < scenario.jobs
  /\ job' = "admitting" /\ jobs' = jobs + 1
  /\ NoFault /\ UNCHANGED <<record, final, task, post, strays, updaterUp>> /\ Rest

\* Another job: admitted when no self-update is under way, and then recorded.
Admit ==
  /\ updaterUp /\ task.pc = "done" /\ record.st # "pending" /\ job = "none" /\ jobs < scenario.jobs
  /\ job' = "admitting" /\ jobs' = jobs + 1
  /\ NoFault /\ UNCHANGED <<record, final, task, post, strays, updaterUp>> /\ Rest

Begin ==
  /\ job = "admitting" /\ job' = "running"
  /\ NoFault /\ UNCHANGED <<record, final, task, post, strays, updaterUp, jobs>> /\ Rest

Finish ==
  /\ updaterUp /\ job = "running" /\ leases = 0 /\ job' = "none"
  /\ NoFault /\ UNCHANGED <<record, final, task, post, strays, updaterUp, jobs>> /\ Rest

\* The worker's process ends; what it has sent may still arrive.
WorkerGone ==
  /\ updaterUp' = FALSE /\ task' = NoTask /\ post' = "none"
  /\ strays' = IF scenario.late /\ post = "sent" THEN strays \cup {Message} ELSE strays
  /\ job' = IF job = "admitting" THEN "none" ELSE job
  /\ UNCHANGED jobs

\* Mutant of WorkerStarts: a queued request is not taken up again.
WorkerForgets ==
  /\ ~updaterUp /\ updaterUp' = TRUE /\ task' = NoTask
  /\ NoFault /\ UNCHANGED <<record, final, post, strays, job, jobs>> /\ Rest

\* resume_pending
WorkerStarts ==
  /\ ~updaterUp /\ updaterUp' = TRUE
  /\ task' = IF record.st = "pending" /\ record.queued
             THEN [NoTask EXCEPT !.pc = "choose"] ELSE NoTask
  /\ NoFault /\ UNCHANGED <<record, final, post, strays, job, jobs>> /\ Rest

Worker ==
  \/ Schedule \/ Choose \/ LookUp \/ Ask \/ Answered \/ Lose \/ Confirm \/ Failing \/ PublishRefused
  \/ Dismiss \/ Admit \/ Begin \/ Finish \/ WorkerStarts

-----------------------------------------------------------------------------
(***************************************************************************)
(* The guard's gate.                                                       *)
(***************************************************************************)
\* A Docker mutation of a job, forwarded while the gate is open.
Acquire ==
  /\ guard = "up" /\ gate = "open" /\ leases = 0 /\ updaterUp /\ job = "running"
  /\ leases' = 1
  /\ NoFault /\ UNCHANGED <<record, final, workerVars, guard, gate, act, dockerVars, requests>>

Release ==
  /\ leases = 1 /\ leases' = 0
  /\ NoFault /\ UNCHANGED <<record, final, workerVars, guard, gate, act, dockerVars, requests>>

\* handle_self_update
Accept(message) ==
  /\ guard = "up" /\ job # "running" /\ gate = "open" /\ leases = 0
  /\ gate' = "self"
  /\ Write(Pending(message.id, message.target, record.prev))
  /\ act' = [NoAct EXCEPT !.pc = "prepare",
               !.att = [id |-> message.id, target |-> message.target, prev |-> stack]]
  /\ UNCHANGED <<guard, leases>>

Refuse == guard = "up" /\ (job = "running" \/ gate # "open" \/ leases > 0)

Receive ==
  /\ post = "sent"
  /\ \/ Accept(Message) /\ post' = "accepted" /\ NoFault
     \/ Refuse /\ post' = "busy" /\ NoFault /\ UNCHANGED <<record, final, guardVars>>
     \/ guard = "up" /\ ~Refuse /\ post' = "refused" /\ Fault
        /\ UNCHANGED <<record, final, guardVars>>
  /\ UNCHANGED <<task, strays, updaterUp, job, jobs, dockerVars, requests>>

ReceiveStray ==
  \E message \in strays :
    /\ strays' = strays \ {message}
    /\ \/ Accept(message)
       \/ UNCHANGED <<record, final, guardVars>>
    /\ NoFault /\ UNCHANGED <<task, post, updaterUp, job, jobs, dockerVars, requests>>

-----------------------------------------------------------------------------
(***************************************************************************)
(* Helper containers.                                                      *)
(***************************************************************************)
Occupied(name) == box[name].st \in {"created", "running"}
Created(att, ok) == [NoBox EXCEPT !.st = "created", !.att = att, !.ok = ok]
Started(b) == [b EXCEPT !.st = "running", !.ok = FALSE, !.pc = "begin", !.left = {}]
Stopped(b) == IF b.st = "running" THEN [b EXCEPT !.st = "exited", !.ok = FALSE] ELSE b
Removed(name) == [box EXCEPT ![name] = NoBox]

\* cleanup_helper; its result is not looked at.
CleanUp(b) == {NoBox} \cup (IF scenario.residue THEN {Stopped(b)} ELSE {})

\* The record is that of this attempt, as far as its tags tell.
Mine(att) == record.target = att.target /\ record.prev = att.prev[Updater]
Retries(att) == IF Mine(att) THEN record.retries ELSE 0

Images(name) ==
  LET att == box[name].att
  IN  IF name = Recovery THEN att.prev ELSE [s \in Services |-> att.target]

HelperPending(name) ==
  LET att == box[name].att
  IN  [Pending(att.id, att.target, att.prev[Updater]) EXCEPT
         !.known = (name = Normal), !.retries = Retries(att)]

Exit(name, ok) == box' = [box EXCEPT ![name].st = "exited", ![name].ok = ok, ![name].left = {}]

HelperBegins(name) ==
  /\ box[name].st = "running" /\ box[name].pc = "begin"
  /\ \/ Write(HelperPending(name)) /\ box' = [box EXCEPT ![name].pc = "check"] /\ NoFault
     \/ Exit(name, FALSE) /\ Fault /\ UNCHANGED <<record, final>>
  /\ UNCHANGED <<workerVars, guardVars, stack, requests>>

\* prepare_install
HelperChecks(name) ==
  /\ box[name].st = "running" /\ box[name].pc = "check"
  /\ box' = [box EXCEPT ![name].pc = "up", ![name].left = Services]
  /\ NoFault /\ UNCHANGED <<record, final, workerVars, guardVars, stack, requests>>

GuardGone ==
  /\ guard' = "down" /\ gate' = "open" /\ leases' = 0 /\ act' = NoAct

\* compose up recreates the services one by one, in any order.
HelperReplaces(name) ==
  /\ box[name].st = "running"
  /\ \E s \in box[name].left :
       /\ box' = [box EXCEPT ![name].left = @ \ {s}]
       /\ stack' = [stack EXCEPT ![s] = Images(name)[s]]
       /\ IF s = Guard
          THEN GuardGone /\ post' = (IF post = "sent" THEN "broken" ELSE post)
               /\ UNCHANGED <<task, strays, updaterUp, job, jobs>>
          ELSE /\ UNCHANGED guardVars
               /\ IF s = Updater THEN WorkerGone ELSE UNCHANGED workerVars
  /\ NoFault /\ UNCHANGED <<record, final, requests>>

\* wait_for_running_services
HelperEnds(name) ==
  /\ box[name].st = "running" /\ box[name].pc = "up" /\ box[name].left = {}
  /\ guard = "up" /\ updaterUp
  /\ Exit(name, TRUE)
  /\ NoFault /\ UNCHANGED <<record, final, workerVars, guardVars, stack, requests>>

\* A check, compose or a health check fails, at any point.
HelperFails(name) ==
  /\ box[name].st = "running" /\ box[name].pc # "begin"
  /\ Write(HelperPending(name)) /\ Exit(name, FALSE)
  /\ Fault /\ UNCHANGED <<workerVars, guardVars, stack, requests>>

Helper(name) ==
  \/ HelperBegins(name) \/ HelperChecks(name) \/ HelperReplaces(name) \/ HelperEnds(name)

-----------------------------------------------------------------------------
(***************************************************************************)
(* The task that owns the gate.                                            *)
(***************************************************************************)
GuardOnly == UNCHANGED <<workerVars, guard, leases, stack, requests>>
Keep == UNCHANGED <<record, final>>
Same == UNCHANGED <<box, gate>>

Monitor(name, att, recovery, retries) ==
  act' = [pc |-> "monitor", name |-> name, att |-> att, recovery |-> recovery,
          retries |-> retries]
Stage(att, retries) ==
  act' = [pc |-> "stage", name |-> Recovery, att |-> att, recovery |-> TRUE, retries |-> retries]
Step(pc) == act' = [act EXCEPT !.pc = pc]

\* Mutant of FailBefore: the gate is not reset.
FailHoldingGate ==
  /\ Write(Outcome("failed", act.att.id, act.att.target, record.prev))
  /\ UNCHANGED gate /\ act' = NoAct

\* A request that fails before a helper runs.
FailBefore ==
  /\ Write(Outcome("failed", act.att.id, act.att.target, record.prev))
  /\ gate' = "open" /\ act' = NoAct

\* prepare_trusted_self_update, up to the launch
Prepare ==
  /\ act.pc = "prepare"
  /\ \/ /\ Write([Pending(act.att.id, act.att.target, stack[Updater]) EXCEPT !.known = TRUE])
        /\ act' = [act EXCEPT !.pc = "launch", !.att.prev = stack]
        /\ NoFault /\ UNCHANGED gate
     \/ FailBefore /\ Fault
  /\ GuardOnly /\ UNCHANGED box

\* docker run; a helper that is in the way, or one whose start was not
\* answered, is watched instead.
Watched(att) == Monitor(Normal, att, FALSE, 0)

Launch ==
  /\ act.pc = "launch"
  /\ \/ /\ ~Occupied(Normal)
        /\ box' = [box EXCEPT ![Normal] = Started(Created(act.att, FALSE))]
        /\ Watched(act.att) /\ NoFault /\ UNCHANGED gate /\ Keep
     \/ /\ ~Occupied(Normal) /\ FailBefore /\ Fault
        /\ \/ box' = Removed(Normal)
           \/ scenario.residue /\ \E ok \in BOOLEAN :
                box' = [box EXCEPT ![Normal] = Created(act.att, ok)]
     \/ Occupied(Normal) /\ Watched(box[Normal].att) /\ NoFault /\ Same /\ Keep
     \/ scenario.residue /\ box[Normal].st # "absent" /\ Fault /\ Same /\ Keep
        /\ \E att \in {box[Normal].att, None} : Watched(att)
     \/ /\ scenario.residue /\ ~Occupied(Normal) /\ Fault /\ UNCHANGED gate /\ Keep
        /\ box' = [box EXCEPT ![Normal] = Started(Created(act.att, FALSE))]
        /\ \E att \in {act.att, None} : Watched(att)
  /\ GuardOnly

\* Mutant of Restored: a helper that has ended has restored what it replaced.
RestoredUnseen ==
  /\ act.att # None /\ box[act.name].st = "exited"
  /\ updaterUp

\* The helper has failed, and all services run what they ran before.
Restored ==
  /\ act.att # None /\ box[act.name].st = "exited"
  /\ stack = act.att.prev /\ updaterUp

AfterFailure(restored) ==
  IF restored THEN act' = [act EXCEPT !.pc = "publish", !.recovery = TRUE]
  ELSE Step(IF act.att = None THEN "unidentified"
            ELSE IF ~act.recovery THEN "launchRecovery"
            ELSE IF act.retries < MaxRetries THEN "retry" ELSE "giveUp")

\* docker wait ends with the helper's exit code.  It may itself fail, or its
\* time run out, and the services may be found unhealthy.
Watch ==
  /\ act.pc = "monitor"
  /\ LET b == box[act.name] IN
     \/ b.st \in {"created", "exited"} /\ b.ok /\ Step("publish") /\ NoFault
     \/ b.st # "running" /\ ~b.ok /\ AfterFailure(Restored) /\ NoFault
     \/ AfterFailure(Restored) /\ Fault
     \/ b.st # "running" /\ ~b.ok /\ Restored /\ AfterFailure(FALSE) /\ Fault
  /\ GuardOnly /\ Same /\ Keep

LaunchRecovery ==
  /\ act.pc = "launchRecovery"
  /\ \/ /\ ~Occupied(Recovery) /\ Step("stopOld") /\ NoFault
        /\ box' = [box EXCEPT ![Recovery] = Created(act.att, TRUE)]
     \/ /\ Stage(act.att, 0) /\ UNCHANGED box
        /\ IF Occupied(Recovery) THEN NoFault ELSE Fault
  /\ GuardOnly /\ UNCHANGED gate /\ Keep

\* Mutant of StopOld: the recovery does not wait for the helper to stop.
StopNothing ==
  /\ act.pc = "stopOld" /\ Step("startRecovery") /\ UNCHANGED box
  /\ NoFault /\ GuardOnly /\ UNCHANGED gate /\ Keep

StopOld ==
  /\ act.pc = "stopOld"
  /\ \/ /\ box[act.name].st # "absent" /\ Step("startRecovery") /\ NoFault
        /\ \E b \in CleanUp(box[act.name]) : box' = [box EXCEPT ![act.name] = b]
     \/ Stage(act.att, 0) /\ Fault /\ UNCHANGED box
  /\ GuardOnly /\ UNCHANGED gate /\ Keep

StartRecovery ==
  /\ act.pc = "startRecovery"
  /\ \/ /\ box' = [box EXCEPT ![Recovery] = Started(@)]
        /\ Monitor(Recovery, act.att, TRUE, 0) /\ NoFault
     \/ Stage(act.att, 0) /\ Fault /\ UNCHANGED box
  /\ GuardOnly /\ UNCHANGED gate /\ Keep

\* persist_recovery_attempt
Persist(att, retries) ==
  Write([(IF Mine(att) THEN record ELSE Pending(att.id, att.target, att.prev[Updater])) EXCEPT
           !.st = "pending", !.retries = retries])

Retry ==
  /\ act.pc = "retry"
  /\ \/ /\ Persist(act.att, act.retries + 1) /\ NoFault
        /\ act' = [act EXCEPT !.pc = "rerun", !.retries = @ + 1]
     \/ Stage(act.att, act.retries + 1) /\ Fault /\ Keep
  /\ GuardOnly /\ Same

Rerun ==
  /\ act.pc = "rerun"
  /\ \/ /\ box' = [box EXCEPT ![act.name] = Started(@)]
        /\ Step("monitor") /\ NoFault
     \/ Stage(act.att, act.retries) /\ Fault /\ UNCHANGED box
  /\ GuardOnly /\ UNCHANGED gate /\ Keep

\* resume_unidentified_handoff
Unidentified ==
  /\ act.pc = "unidentified"
  /\ LET att == box[act.name].att IN
     Monitor(act.name, att, act.recovery, IF act.recovery THEN Retries(att) ELSE 0)
  /\ NoFault /\ GuardOnly /\ Same /\ Keep

\* Mutant of GiveUp: a failure is published while the recovery still runs.
GiveUpRunning ==
  /\ act.pc = "giveUp" /\ Step("publish") /\ UNCHANGED box
  /\ NoFault /\ GuardOnly /\ UNCHANGED gate /\ Keep

GiveUp ==
  /\ act.pc = "giveUp"
  /\ \/ Step("publish") /\ box' = [box EXCEPT ![act.name] = Stopped(@)] /\ NoFault
     \/ /\ box[act.name].st # "exited" /\ Stage(act.att, act.retries)
        /\ Fault /\ UNCHANGED box
  /\ GuardOnly /\ UNCHANGED gate /\ Keep

Publish ==
  /\ act.pc = "publish" /\ Step("cleanup")
  /\ IF act.att = None THEN Keep
     ELSE Write(Outcome(IF act.recovery THEN "failed" ELSE "succeeded",
                        act.att.id, act.att.target, act.att.prev[Updater]))
  /\ NoFault /\ GuardOnly /\ Same

Open ==
  /\ act.pc = "cleanup" /\ act' = NoAct /\ gate' = "open"
  /\ \E b \in CleanUp(box[act.name]) : box' = [box EXCEPT ![act.name] = b]
  /\ NoFault /\ GuardOnly /\ Keep

\* resume_staged_recovery: create the recovery if there is none, stop the
\* helper, and start the recovery unless it runs or has done its work.
StageRecovery ==
  /\ act.pc = "stage" /\ Step("staged")
  /\ box' = IF box[Recovery].st = "absent"
            THEN [box EXCEPT ![Recovery] = Created(act.att, TRUE)] ELSE box
  /\ NoFault /\ GuardOnly /\ UNCHANGED gate /\ Keep

RunStaged ==
  /\ act.pc = "staged"
  /\ \/ /\ IF act.retries > 0 THEN Persist(act.att, act.retries) ELSE Keep
        /\ LET b == box[Recovery]
               done == b.st = "running" \/ (b.st = "exited" /\ b.ok)
           IN  \E n \in CleanUp(box[Normal]) :
                 box' = [box EXCEPT ![Normal] = n, ![Recovery] = IF done THEN b ELSE Started(b)]
        /\ Monitor(Recovery, act.att, TRUE, act.retries) /\ NoFault
     \/ /\ Step("stage") /\ Fault /\ Keep
        /\ box' \in {box, Removed(Normal)}
  /\ GuardOnly /\ UNCHANGED gate

-----------------------------------------------------------------------------
(***************************************************************************)
(* The guard's start, and deaths.                                          *)
(***************************************************************************)
\* The helper whose presence says that a handoff was under way.
Residual == IF box[Recovery].st # "absent" THEN Recovery ELSE Normal

\* What the start does to the containers: it stops a normal helper beside a
\* recovery, and starts the residual one if it never ran.
Resumed ==
  {[box EXCEPT ![Normal] = IF Residual = Recovery THEN n ELSE @,
               ![Residual] = IF @.st = "created" THEN Started(@) ELSE @] :
     n \in CleanUp(box[Normal])}

Boots == guard = "down" /\ guard' = "up" /\ UNCHANGED <<workerVars, leases, stack, requests>> /\ Keep

\* Mutant of GuardResumes: a guard that comes up watches, and leaves its gate open.
GuardResumesOpen ==
  /\ Boots /\ box[Residual].st # "absent" /\ UNCHANGED gate
  /\ LET att == box[Residual].att
         recovery == Residual = Recovery
     IN  box' \in Resumed /\ Monitor(Residual, att, recovery, IF recovery THEN Retries(att) ELSE 0)
  /\ NoFault

\* The gate closes before the guard listens.
GuardResumes ==
  /\ Boots /\ box[Residual].st # "absent" /\ gate' = "self"
  /\ LET att == box[Residual].att
         recovery == Residual = Recovery
         retries == IF recovery THEN Retries(att) ELSE 0
     IN  \/ box' \in Resumed /\ Monitor(Residual, att, recovery, retries) /\ NoFault
         \/ box' \in Resumed /\ Monitor(Residual, None, recovery, 0) /\ Fault
         \/ /\ box' \in {box, Removed(Normal)} /\ (recovery \/ box' = box)
            /\ recovery \/ box[Normal].st = "created"
            /\ Stage(att, retries) /\ Fault

\* The helper can neither be told nor started: no task has the gate.
GuardStuck ==
  /\ Boots /\ box[Residual].st # "absent" /\ gate' = "self"
  /\ Residual = Recovery \/ box[Normal].st = "created"
  /\ UNCHANGED box /\ act' = [NoAct EXCEPT !.pc = "stuck"]
  /\ faults + 2 <= scenario.faults /\ faults' = faults + 2 /\ UNCHANGED <<crashes, scenario>>

\* schedule_reconciliation
GuardStarts ==
  /\ Boots /\ box[Residual].st = "absent" /\ gate' = "startup"
  /\ act' = [NoAct EXCEPT !.pc = "reconcile"]
  /\ NoFault /\ UNCHANGED box

\* Mutant of TargetActive: the updater alone tells.
UpdaterActive ==
  /\ updaterUp /\ stack[Updater] = record.target
  /\ record.known \/ record.target # record.prev

\* finalize_or_fail_orphaned_pending_handoff: whether the target is active.
TargetActive ==
  /\ updaterUp /\ \A s \in Services : stack[s] = record.target
  /\ record.known \/ record.target # record.prev

Reconcile ==
  /\ act.pc = "reconcile" /\ act' = NoAct /\ gate' = "open"
  /\ IF record.st = "pending" /\ ~record.queued
     THEN \/ Write(Outcome(IF TargetActive THEN "succeeded" ELSE "failed",
                           record.id, record.target, record.prev)) /\ NoFault
          \/ TargetActive /\ Fault
             /\ Write(Outcome("failed", record.id, record.target, record.prev))
     ELSE Keep /\ NoFault
  /\ GuardOnly /\ UNCHANGED box

Guarding ==
  \/ Prepare \/ Launch \/ Watch \/ LaunchRecovery \/ StopOld \/ StartRecovery
  \/ Retry \/ Rerun \/ Unidentified \/ GiveUp \/ Publish \/ Open \/ StageRecovery \/ RunStaged
  \/ GuardResumes \/ GuardStuck \/ GuardStarts \/ Reconcile

Crash == crashes < scenario.crashes /\ crashes' = crashes + 1 /\ UNCHANGED <<faults, scenario>>

\* A docker run cut off may have created the helper, or started it.
GuardDies ==
  /\ guard = "up" /\ GuardGone /\ (act.pc = "cleanup" => scenario.residue)
  /\ post' = IF post = "sent" THEN "broken" ELSE post
  /\ \/ UNCHANGED box
     \/ /\ act.pc = "launch" /\ box[Normal].st = "absent"
        /\ LET b == Created(act.att, TRUE)
           IN  \E new \in {b, Started(b)} : box' = [box EXCEPT ![Normal] = new]
  /\ Crash /\ UNCHANGED <<record, final, task, strays, updaterUp, job, jobs, stack, requests>>

WorkerDies ==
  /\ updaterUp /\ WorkerGone
  /\ Crash /\ UNCHANGED <<record, final, guardVars, dockerVars, requests>>

HelperDies(name) ==
  /\ box[name].st = "running" /\ Exit(name, FALSE)
  /\ Crash /\ UNCHANGED <<record, final, workerVars, guardVars, stack, requests>>

Next ==
  \/ Worker \/ Acquire \/ Release \/ Receive \/ ReceiveStray \/ Guarding
  \/ \E name \in Helpers : Helper(name) \/ HelperFails(name) \/ HelperDies(name)
  \/ GuardDies \/ WorkerDies

Spec == Init /\ [][Next]_vars

(***************************************************************************)
(* Processes that are up take their steps, Docker restarts them, and what  *)
(* is asked of Docker is answered.  Faults, deaths and new requests need   *)
(* not happen.                                                             *)
(***************************************************************************)
Fairness ==
  /\ WF_vars(Choose) /\ WF_vars(LookUp /\ NoFault) /\ WF_vars(Ask) /\ WF_vars(Answered) /\ WF_vars(Confirm)
  /\ WF_vars(Failing) /\ WF_vars(PublishRefused) /\ WF_vars(WorkerStarts)
  /\ WF_vars(Release) /\ WF_vars(Receive /\ NoFault) /\ WF_vars(ReceiveStray)
  /\ WF_vars(Guarding /\ NoFault)
  /\ \A name \in Helpers : WF_vars(Helper(name) /\ NoFault)

FairSpec == Spec /\ Fairness

=============================================================================
