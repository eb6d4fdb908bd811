-------------------------- MODULE SelfUpdateProofs --------------------------
(***************************************************************************)
(* The state of the handoff is well-formed, one helper at most recreates   *)
(* the stack, and the gate is closed while one does, for every set of      *)
(* versions and services and every scenario: whatever fails, dies, stays   *)
(* behind or arrives late.  Where nothing stays behind or arrives late, no *)
(* job runs beside a helper, an outcome is final and true, and the stack   *)
(* is whole when the handoff is over.                                      *)
(***************************************************************************)
EXTENDS SelfUpdateInvariants, TLAPS

-----------------------------------------------------------------------------
(***************************************************************************)
(* What holds at first, and what whole classes of steps keep.              *)
(***************************************************************************)
\* What there is when nothing is under way.
LEMMA NothingTyped ==
  /\ Absent \in Records /\ Absent.id = 0
  /\ NoTask \in Tasks /\ NoTask.pc = "done"
  /\ NoAct \in Acts /\ NoAct.pc = "none"
  /\ NoBox \in Boxes /\ NoBox.st = "absent"
<1>1. Absent \in Records /\ Absent.id = 0
  BY DEF Absent, Records, MaxRetries
<1>2. NoTask \in Tasks /\ NoTask.pc = "done"
  BY <1>1 DEF NoTask, Tasks
<1>3. NoAct \in Acts /\ NoAct.pc = "none"
  BY DEF NoAct, Acts, Helpers, Normal, MaxRetries
<1>4. NoBox \in Boxes /\ NoBox.st = "absent"
  BY DEF NoBox, Boxes
<1> QED
  BY <1>1, <1>2, <1>3, <1>4

\* What runs first is well-formed, and no helper is there.
LEMMA InitInv == Init => Inv
<1> SUFFICES ASSUME Init PROVE Inv
  OBVIOUS
<1> USE StackAssumption, ScenarioAssumption
<1>2. TypeOK
  BY NothingTyped DEF Init, TypeOK, RecordTyped, WorkerTyped, GuardTyped, DockerTyped, CountsTyped
<1>3. WorkerSide
  BY DEF Init, WorkerSide, RecordKnown, TaskKnown, NoTask
<1>4. GuardSide
  BY
    DEF Init, GuardSide, BoxKnown, ActKnown, GateOwned, Alone, WatchesOne, OldIsNormal,
        RecoveryThere,
         NoneRuns, OneInstaller, Running, NoAct, NoBox,
         Watching, Quiet, Helpers, Normal, Recovery
<1> QED
  BY <1>2, <1>3, <1>4 DEF Inv

\* A record that names a request is written, or none is.
Writes == \E new \in Records : new.id \in Ids /\ Write(new)

\* Outcomes name the request they are of.
LEMMA OutcomeTyped ==
  ASSUME NEW st \in {"pending", "succeeded", "failed"}, NEW id \in Ids,
         NEW target \in Versions \cup {None}, NEW prev \in Versions \cup {None}
  PROVE  /\ Outcome(st, id, target, prev) \in Records
         /\ Outcome(st, id, target, prev).id = id
<1>1. Outcome(st, id, target, prev) =
        [st |-> st, queued |-> FALSE, id |-> id, target |-> target, prev |-> prev,
         retries |-> 0, known |-> FALSE]
  BY DEF Outcome
<1>2. id \in Nat
  BY DEF Ids
<1> QED
  BY <1>1, <1>2 DEF Records, MaxRetries

LEMMA OutcomeWritten ==
  ASSUME NEW st \in {"pending", "succeeded", "failed"}, NEW id \in Ids,
         NEW target \in Versions \cup {None}, NEW prev \in Versions \cup {None},
         Write(Outcome(st, id, target, prev))
  PROVE  Writes
  BY OutcomeTyped DEF Writes

\* The counters of failures and deaths stay numbers.
Counted == NoFault \/ Fault \/ Crash

LEMMA CountsKept ==
  ASSUME TypeOK, Counted, UNCHANGED <<requests, jobs>>
  PROVE  CountsTyped'
<1> USE DEF TypeOK, CountsTyped
<1>1. faults' \in Nat /\ crashes' \in Nat /\ scenario' = scenario
  BY DEF Counted, NoFault, Fault, Crash, boundVars
<1> QED
  BY <1>1

\* Steps that leave the worker alone.
LEMMA WorkerKept ==
  ASSUME TypeOK, WorkerSide, Writes \/ Keep, UNCHANGED workerVars
  PROVE  RecordTyped' /\ WorkerTyped' /\ WorkerSide'
<1> USE DEF TypeOK, RecordTyped, workerVars
<1>1. WorkerTyped'
  BY DEF WorkerTyped
<1>2. CASE Keep
  BY <1>1, <1>2 DEF WorkerSide, RecordKnown, TaskKnown, Keep
<1>3. CASE Writes
  <2>1. PICK new \in Records : new.id \in Ids /\ Write(new)
    BY <1>3 DEF Writes
  <2>2. record' = new /\ final' \subseteq Ids
    BY <2>1 DEF Write
  <2> QED
    BY <1>1, <2>1, <2>2 DEF WorkerSide, RecordKnown, TaskKnown
<1> QED
  BY <1>2, <1>3

\* Steps of the task that owns the gate.
LEMMA GuardStepKept ==
  ASSUME Inv, GuardOnly, NoFault \/ Fault, Writes \/ Keep
  PROVE  /\ RecordTyped' /\ WorkerTyped' /\ WorkerSide' /\ CountsTyped'
         /\ guard' = guard /\ leases' = leases /\ stack' = stack
         /\ stack' \in [Services -> Versions]
<1>1. UNCHANGED workerVars /\ UNCHANGED <<requests, jobs>>
  BY DEF GuardOnly, workerVars
<1>2. CountsTyped'
  BY <1>1, CountsKept DEF Inv, Counted
<1>3. RecordTyped' /\ WorkerTyped' /\ WorkerSide'
  BY <1>1, WorkerKept DEF Inv
<1> QED
  BY <1>2, <1>3 DEF GuardOnly, Inv, TypeOK, DockerTyped

\* Steps that leave the guard and the containers alone.
LEMMA GuardKept ==
  ASSUME TypeOK, GuardSide, UNCHANGED <<guardVars, dockerVars>>
  PROVE  GuardTyped' /\ DockerTyped' /\ GuardSide'
<1> USE DEF guardVars, dockerVars
<1>1. GuardTyped' /\ DockerTyped'
  BY DEF TypeOK, GuardTyped, DockerTyped
<1>2. BoxKnown' /\ ActKnown' /\ GateOwned'
  BY DEF GuardSide, BoxKnown, ActKnown, GateOwned
<1>3. \A name : Running(name)' <=> Running(name)
  BY DEF Running
<1>4. Alone'
  BY <1>3 DEF GuardSide, Alone, WatchesOne, OldIsNormal, RecoveryThere, NoneRuns, OneInstaller
<1> QED
  BY <1>1, <1>2, <1>4 DEF GuardSide

LEMMA InvOfParts ==
  ASSUME RecordTyped', WorkerTyped', GuardTyped', DockerTyped', CountsTyped',
         WorkerSide', BoxKnown', ActKnown', GateOwned', Alone'
  PROVE  Inv'
  BY DEF Inv, TypeOK, GuardSide

-----------------------------------------------------------------------------
(***************************************************************************)
(* The worker.                                                             *)
(***************************************************************************)
LEMMA WorkerStep ==
  ASSUME Inv, RecordTyped', WorkerTyped', WorkerSide', CountsTyped',
         UNCHANGED <<guardVars, dockerVars>>
  PROVE  Inv'
  BY GuardKept DEF Inv, TypeOK

\* A record of a request is queued, with the updater's version.
LEMMA ScheduleKeeps == Inv /\ Schedule => Inv'
<1> SUFFICES ASSUME Inv, Schedule PROVE Inv'
  OBVIOUS
<1> USE StackAssumption
<1> DEFINE new == [Pending(requests + 1, None, stack[Updater]) EXCEPT !.queued = TRUE]
<1>1. requests + 1 \in Ids /\ requests' \in Nat /\ stack[Updater] \in Versions
  BY DEF Schedule, Inv, TypeOK, CountsTyped, DockerTyped, Ids
<1>2. Pending(requests + 1, None, stack[Updater]) \in Records
      /\ Pending(requests + 1, None, stack[Updater]).id = requests + 1
  BY <1>1, OutcomeTyped DEF Pending
<1>3. new \in Records /\ new.id \in Ids
  BY <1>1, <1>2 DEF Records
<1>4. record' = new /\ final' \subseteq Ids
  BY <1>3 DEF Schedule, Write, Inv, TypeOK, RecordTyped
<1>5. RecordTyped'
  BY <1>3, <1>4 DEF RecordTyped
<1>6. task' \in Tasks /\ task'.pc = "choose"
  BY NothingTyped DEF Schedule, Tasks
<1>7. WorkerTyped'
  BY <1>6 DEF Schedule, Inv, TypeOK, WorkerTyped
<1>8. WorkerSide'
  BY <1>3, <1>4, <1>6 DEF Schedule, Inv, WorkerSide, RecordKnown, TaskKnown
<1>9. CountsTyped'
  BY <1>1 DEF Schedule, NoFault, boundVars, Inv, TypeOK, CountsTyped
<1> QED
  BY <1>5, <1>7, <1>8, <1>9, WorkerStep DEF Schedule

\* The worker's steps that leave the record alone.
LEMMA WorkerMoves ==
  ASSUME Inv, Keep, NoFault \/ Fault, UNCHANGED <<updaterUp, job, jobs>>, Rest,
         task' \in Tasks, post' \in {"none", "sent", "accepted", "busy", "refused", "broken"},
         strays' \subseteq Messages, task.pc # "done", TaskKnown'
  PROVE  Inv'
<1>1. RecordTyped' /\ WorkerTyped' /\ RecordKnown'
  BY DEF Keep, Inv, TypeOK, RecordTyped, WorkerTyped, WorkerSide, RecordKnown
<1>2. CountsTyped'
  BY CountsKept DEF Rest, Inv, Counted
<1> QED
  BY <1>1, <1>2, WorkerStep DEF Rest, WorkerSide

LEMMA ChooseKeeps == Inv /\ Choose => Inv'
<1> SUFFICES ASSUME Inv, Choose PROVE Inv'
  OBVIOUS
<1> USE DEF Inv, TypeOK, WorkerTyped, RecordTyped
<1>1. task' \in Tasks /\ task'.mine = record
      /\ task'.pc = IF record.target = None THEN "lookup" ELSE "loop"
  BY DEF Choose, Tasks
<1>2. record.id \in Ids /\ post # "sent" /\ updaterUp
  BY DEF Choose, WorkerSide, TaskKnown
<1>3. record.target # None => record.target \in Versions
  BY DEF Records
<1>4. TaskKnown'
  BY <1>1, <1>2, <1>3 DEF Choose, TaskKnown
<1>5. task.pc # "done" /\ Keep
  BY DEF Choose, Keep
<1> QED
  BY <1>1, <1>4, <1>5, WorkerMoves DEF Choose

LEMMA LookUpKeeps == Inv /\ LookUp => Inv'
<1> SUFFICES ASSUME Inv, LookUp PROVE Inv'
  OBVIOUS
<1> USE DEF Inv, TypeOK, WorkerTyped, RecordTyped
<1>1. record.id \in Ids /\ task.mine.id \in Ids /\ post # "sent" /\ updaterUp
  BY DEF LookUp, WorkerSide, TaskKnown
<1>2. CASE \E v \in Versions : /\ Write([task.mine EXCEPT !.target = v])
                              /\ task' = [task EXCEPT !.pc = "loop", !.mine.target = v]
                              /\ NoFault
  <2>1. PICK v \in Versions : /\ Write([task.mine EXCEPT !.target = v])
                              /\ task' = [task EXCEPT !.pc = "loop", !.mine.target = v]
                              /\ NoFault
    BY <1>2
  <2> DEFINE new == [task.mine EXCEPT !.target = v]
  <2>2. task.mine \in Records
    BY DEF Tasks
  <2>3. new \in Records /\ new.id = task.mine.id /\ new.target = v
    BY <2>2 DEF Records
  <2>4. task' \in Tasks /\ task'.pc = "loop" /\ task'.mine = new
    BY <2>1, <2>2, <2>3 DEF Tasks
  <2>5. record' = new /\ final' \subseteq Ids
    BY <2>1, <2>3, <1>1 DEF Write
  <2>6. RecordTyped' /\ WorkerTyped'
    BY <2>3, <2>4, <2>5 DEF LookUp
  <2>7. WorkerSide'
    BY <1>1, <2>3, <2>4, <2>5 DEF LookUp, WorkerSide, RecordKnown, TaskKnown
  <2>8. CountsTyped'
    BY <2>1, CountsKept DEF LookUp, Rest, Counted
  <2> QED
    BY <2>6, <2>7, <2>8, WorkerStep DEF LookUp, Rest
<1>3. CASE task' = [task EXCEPT !.pc = "failing"] /\ Fault /\ Keep
  <2>1. task' \in Tasks /\ task'.pc = "failing" /\ task'.mine = task.mine
    BY <1>3 DEF Tasks
  <2>2. TaskKnown'
    BY <1>1, <1>3, <2>1 DEF LookUp, TaskKnown, Keep
  <2> QED
    BY <1>3, <2>1, <2>2, WorkerMoves DEF LookUp
<1> QED
  BY <1>2, <1>3 DEF LookUp, Keep

LEMMA AskKeeps == Inv /\ Ask => Inv'
<1> SUFFICES ASSUME Inv, Ask PROVE Inv'
  OBVIOUS
<1> USE DEF Inv, TypeOK, WorkerTyped, RecordTyped
<1>1. record.id \in Ids /\ task.mine.id \in Ids /\ task.mine.target \in Versions
      /\ post # "sent" /\ updaterUp
  BY DEF Ask, WorkerSide, TaskKnown
<1>2. /\ task' \in Tasks
      /\ \/ task' = NoTask /\ post' = post
         \/ task'.pc = "await" /\ post' = "sent" /\ task'.mine = task.mine
         \/ task'.pc \in {"confirm", "failing"} /\ post' = post /\ task'.mine = task.mine
  BY NothingTyped DEF Ask, Tasks
<1>3. TaskKnown'
  BY <1>1, <1>2, NothingTyped DEF Ask, TaskKnown
<1>4. post' \in {"none", "sent", "accepted", "busy", "refused", "broken"}
  BY <1>2
<1> QED
  BY <1>2, <1>3, <1>4, WorkerMoves DEF Ask, Keep

LEMMA AnsweredKeeps == Inv /\ Answered => Inv'
<1> SUFFICES ASSUME Inv, Answered PROVE Inv'
  OBVIOUS
<1> USE DEF Inv, TypeOK, WorkerTyped, RecordTyped
<1>1. record.id \in Ids /\ task.mine.id \in Ids /\ task.mine.target \in Versions /\ updaterUp
  BY DEF Answered, WorkerSide, TaskKnown
<1>2. /\ task' \in Tasks
      /\ task' = NoTask \/ (task'.pc \in {"confirm", "failing", "loop"} /\ task'.mine = task.mine)
  BY NothingTyped DEF Answered, Tasks
<1>3. TaskKnown'
  BY <1>1, <1>2, NothingTyped DEF Answered, TaskKnown
<1> QED
  BY <1>2, <1>3, WorkerMoves DEF Answered, Keep

\* What is on its way to the guard is a request with its target.
LEMMA MessageTyped ==
  ASSUME Inv, post = "sent"
  PROVE  Message \in Messages
  BY DEF Inv, WorkerSide, TaskKnown, Message, Messages

LEMMA LoseKeeps == Inv /\ Lose => Inv'
<1> SUFFICES ASSUME Inv, Lose PROVE Inv'
  OBVIOUS
<1>1. strays' \subseteq Messages
  BY MessageTyped DEF Lose, Inv, TypeOK, WorkerTyped
<1> USE DEF Inv, TypeOK, WorkerTyped, RecordTyped
<1>2. record.id \in Ids /\ task.mine.id \in Ids /\ task.mine.target \in Versions /\ updaterUp
  BY DEF Lose, WorkerSide, TaskKnown
<1>3. task' \in Tasks /\ task'.pc \in {"confirm", "loop"} /\ task'.mine = task.mine
  BY DEF Lose, Tasks
<1>4. TaskKnown'
  BY <1>2, <1>3 DEF Lose, TaskKnown
<1> QED
  BY <1>1, <1>3, <1>4, WorkerMoves DEF Lose, Keep

LEMMA ConfirmKeeps == Inv /\ Confirm => Inv'
<1> SUFFICES ASSUME Inv, Confirm PROVE Inv'
  OBVIOUS
<1> USE DEF Inv, TypeOK, WorkerTyped, RecordTyped
<1>1. record.id \in Ids /\ task.mine.id \in Ids /\ post # "sent" /\ updaterUp
  BY DEF Confirm, WorkerSide, TaskKnown
<1>2. /\ task' \in Tasks
      /\ task' = NoTask \/ (task'.pc = "failing" /\ task'.mine = task.mine)
  BY NothingTyped DEF Confirm, Tasks
<1>3. TaskKnown'
  BY <1>1, <1>2, NothingTyped DEF Confirm, TaskKnown
<1> QED
  BY <1>2, <1>3, WorkerMoves DEF Confirm, Keep

LEMMA FailingKeeps == Inv /\ Failing => Inv'
<1> SUFFICES ASSUME Inv, Failing PROVE Inv'
  OBVIOUS
<1> USE DEF Inv, TypeOK, WorkerTyped, RecordTyped
<1>1. record.id \in Ids /\ post # "sent" /\ updaterUp
  BY DEF Failing, WorkerSide, TaskKnown
<1>2. /\ task' \in Tasks
      /\ task' = NoTask \/ (task'.pc = "writing" /\ task'.mine = record)
  BY NothingTyped DEF Failing, Tasks
<1>3. TaskKnown'
  BY <1>1, <1>2, NothingTyped DEF Failing, TaskKnown
<1> QED
  BY <1>2, <1>3, WorkerMoves DEF Failing, Keep

LEMMA PublishRefusedKeeps == Inv /\ PublishRefused => Inv'
<1> SUFFICES ASSUME Inv, PublishRefused PROVE Inv'
  OBVIOUS
<1> USE DEF Inv, TypeOK, WorkerTyped, RecordTyped
<1>1. task.mine \in Records /\ task.mine.id \in Ids /\ post # "sent"
  BY DEF PublishRefused, WorkerSide, TaskKnown, Tasks
<1> DEFINE new == Outcome("failed", task.mine.id, task.mine.target, task.mine.prev)
<1>2. task.mine.target \in Versions \cup {None} /\ task.mine.prev \in Versions \cup {None}
  BY <1>1 DEF Records
<1>3. new \in Records /\ new.id \in Ids
  BY <1>1, <1>2, OutcomeTyped
<1>4. record' = new /\ final' \subseteq Ids /\ task' = NoTask
  BY <1>3 DEF PublishRefused, Write
<1>5. RecordTyped' /\ WorkerTyped'
  BY <1>3, <1>4, NothingTyped DEF PublishRefused
<1>6. WorkerSide'
  BY <1>1, <1>3, <1>4, NothingTyped DEF PublishRefused, WorkerSide, RecordKnown, TaskKnown
<1>7. CountsTyped'
  BY CountsKept DEF PublishRefused, Rest, Counted
<1> QED
  BY <1>5, <1>6, <1>7, WorkerStep DEF PublishRefused, Rest

LEMMA DismissKeeps == Inv /\ Dismiss => Inv'
<1> SUFFICES ASSUME Inv, Dismiss PROVE Inv'
  OBVIOUS
<1> USE DEF Inv, TypeOK, WorkerTyped, RecordTyped
<1>1. record' = Absent /\ final' \subseteq Ids
  BY NothingTyped DEF Dismiss, Write
<1>2. RecordTyped' /\ WorkerTyped'
  BY <1>1, NothingTyped DEF Dismiss
<1>3. WorkerSide'
  BY <1>1 DEF Dismiss, WorkerSide, RecordKnown, TaskKnown
<1>4. CountsTyped'
  BY CountsKept DEF Dismiss, Rest, Counted
<1> QED
  BY <1>2, <1>3, <1>4, WorkerStep DEF Dismiss, Rest

LEMMA JobKeeps == Inv /\ (Admit \/ Begin \/ Finish) => Inv'
<1> SUFFICES ASSUME Inv, Admit \/ Begin \/ Finish PROVE Inv'
  OBVIOUS
<1> USE DEF Inv, TypeOK, WorkerTyped, RecordTyped
<1>1. Keep /\ NoFault /\ Rest /\ UNCHANGED <<task, post, strays, updaterUp>>
  BY DEF Admit, Begin, Finish, Keep
<1>2. job' \in {"none", "admitting", "running"} /\ jobs' \in Nat
  BY DEF Admit, Begin, Finish, CountsTyped
<1>3. RecordTyped' /\ WorkerTyped'
  BY <1>1, <1>2 DEF Keep
<1>4. WorkerSide'
  BY <1>1 DEF Keep, WorkerSide, RecordKnown, TaskKnown
<1>5. CountsTyped'
  BY <1>1, <1>2 DEF Rest, NoFault, boundVars, CountsTyped
<1> QED
  BY <1>1, <1>3, <1>4, <1>5, WorkerStep DEF Rest

LEMMA WorkerStartsKeeps == Inv /\ WorkerStarts => Inv'
<1> SUFFICES ASSUME Inv, WorkerStarts PROVE Inv'
  OBVIOUS
<1> USE DEF Inv, TypeOK, WorkerTyped, RecordTyped
<1>1. Keep /\ Rest /\ NoFault /\ post # "sent"
  BY DEF WorkerStarts, Keep, WorkerSide, TaskKnown
<1>2. /\ task' \in Tasks
      /\ task' = NoTask \/ (task'.pc = "choose" /\ record.st = "pending")
  BY NothingTyped DEF WorkerStarts, Tasks
<1>3. record.st = "pending" => record.id \in Ids
  BY DEF WorkerSide, RecordKnown, Absent
<1>4. RecordTyped' /\ WorkerTyped'
  BY <1>1, <1>2 DEF WorkerStarts, Keep
<1>5. WorkerSide'
  BY <1>1, <1>2, <1>3, NothingTyped DEF WorkerStarts, Keep, WorkerSide, RecordKnown, TaskKnown
<1>6. CountsTyped'
  BY <1>1, CountsKept DEF WorkerStarts, Rest, Counted
<1> QED
  BY <1>1, <1>4, <1>5, <1>6, WorkerStep DEF Rest

\* A worker's death leaves a request that may still arrive.
LEMMA WorkerGoneKeeps ==
  ASSUME Inv, WorkerGone, Keep
  PROVE  RecordTyped' /\ WorkerTyped' /\ WorkerSide' /\ jobs' = jobs
<1>1. strays' \subseteq Messages
  BY MessageTyped DEF WorkerGone, Inv, TypeOK, WorkerTyped
<1> USE DEF Inv, TypeOK, WorkerTyped, RecordTyped
<1>2. RecordTyped' /\ WorkerTyped'
  BY <1>1, NothingTyped DEF WorkerGone, Keep
<1>3. WorkerSide'
  BY NothingTyped DEF WorkerGone, Keep, WorkerSide, RecordKnown, TaskKnown
<1> QED
  BY <1>2, <1>3 DEF WorkerGone

LEMMA WorkerDiesKeeps == Inv /\ WorkerDies => Inv'
<1> SUFFICES ASSUME Inv, WorkerDies PROVE Inv'
  OBVIOUS
<1>1. RecordTyped' /\ WorkerTyped' /\ WorkerSide' /\ jobs' = jobs
  BY WorkerGoneKeeps DEF WorkerDies, Keep
<1>2. CountsTyped'
  BY <1>1, CountsKept DEF WorkerDies, Counted, Inv
<1> QED
  BY <1>1, <1>2, WorkerStep DEF WorkerDies

LEMMA WorkerKeeps == Inv /\ Worker => Inv'
  BY ScheduleKeeps, ChooseKeeps, LookUpKeeps, AskKeeps, AnsweredKeeps, LoseKeeps, ConfirmKeeps,
     FailingKeeps, PublishRefusedKeeps, DismissKeeps, JobKeeps, WorkerStartsKeeps DEF Worker

-----------------------------------------------------------------------------
(***************************************************************************)
(* The guard's gate.                                                       *)
(***************************************************************************)
LEMMA LeaseKeeps == Inv /\ (Acquire \/ Release) => Inv'
<1> SUFFICES ASSUME Inv, Acquire \/ Release PROVE Inv'
  OBVIOUS
<1>1. /\ Keep /\ NoFault /\ UNCHANGED <<workerVars, guard, gate, act, box, stack, requests, jobs>>
      /\ leases' \in 0 .. 1 /\ (leases' = 0 \/ (guard = "up" /\ gate = "open"))
  BY DEF Acquire, Release, Keep, workerVars, dockerVars
<1>2. RecordTyped' /\ WorkerTyped' /\ WorkerSide'
  BY <1>1, WorkerKept DEF Inv
<1>3. CountsTyped'
  BY <1>1, CountsKept DEF Inv, Counted
<1>4. GuardTyped' /\ DockerTyped'
  BY <1>1 DEF Inv, TypeOK, GuardTyped, DockerTyped
<1>5. BoxKnown' /\ ActKnown' /\ GateOwned'
  BY <1>1 DEF Inv, GuardSide, BoxKnown, ActKnown, GateOwned
<1>6. Alone'
  BY <1>1
    DEF Inv, GuardSide, Alone, WatchesOne, OldIsNormal, RecoveryThere, NoneRuns, OneInstaller,
        Running
<1> QED
  BY <1>2, <1>3, <1>4, <1>5, <1>6, InvOfParts

\* An accepted request closes the gate when no helper runs.
LEMMA AcceptKeeps ==
  ASSUME Inv, NEW message \in Messages, Accept(message), UNCHANGED dockerVars
  PROVE  /\ Writes /\ GuardTyped' /\ DockerTyped'
         /\ BoxKnown' /\ ActKnown' /\ GateOwned' /\ Alone'
<1> USE DEF dockerVars
<1>1. message.id \in Ids /\ message.target \in Versions
      /\ record.prev \in Versions \cup {None} /\ stack \in [Services -> Versions]
  BY DEF Messages, Inv, TypeOK, RecordTyped, Records, DockerTyped
<1>2. Writes
  BY <1>1, OutcomeWritten DEF Accept, Pending
<1> DEFINE att == [id |-> message.id, target |-> message.target, prev |-> stack]
<1>3. att \in Attempts
  BY <1>1 DEF Attempts
<1>4. act' \in Acts /\ act'.pc = "prepare" /\ act'.att \in Attempts
  BY <1>3, NothingTyped DEF Accept, Acts
<1>5. guard' = "up" /\ gate' = "self" /\ leases' = 0 /\ guard = "up" /\ act.pc = "none"
  BY DEF Accept, Inv, GuardSide, GateOwned
<1>6. GuardTyped' /\ DockerTyped'
  BY <1>4, <1>5 DEF Inv, TypeOK, GuardTyped, DockerTyped
<1>7. BoxKnown' /\ ActKnown' /\ GateOwned'
  BY <1>4, <1>5 DEF Inv, GuardSide, BoxKnown, ActKnown, GateOwned
<1>8. Alone'
  BY <1>4, <1>5
    DEF Inv, GuardSide, Alone, WatchesOne, OldIsNormal, RecoveryThere, NoneRuns, OneInstaller,
        Running, Watching, Quiet
<1> QED
  BY <1>2, <1>6, <1>7, <1>8

LEMMA ReceiveKeeps == Inv /\ Receive => Inv'
<1> SUFFICES ASSUME Inv, Receive PROVE Inv'
  OBVIOUS
<1>1. CountsTyped'
  BY CountsKept DEF Receive, Inv, Counted
<1>2. /\ UNCHANGED <<task, strays, updaterUp, job, dockerVars>>
      /\ post' \in {"accepted", "busy", "refused"}
      /\ Accept(Message) \/ (Keep /\ UNCHANGED guardVars)
  BY DEF Receive, Keep
<1>3. Message \in Messages
  BY MessageTyped DEF Receive
<1>4. WorkerTyped'
  BY <1>2 DEF Inv, TypeOK, WorkerTyped
<1>5. CASE Accept(Message)
  <2>1. Writes /\ GuardTyped' /\ DockerTyped' /\ BoxKnown' /\ ActKnown' /\ GateOwned' /\ Alone'
    BY <1>2, <1>3, <1>5, AcceptKeeps
  <2>2. PICK new \in Records : new.id \in Ids /\ Write(new)
    BY <2>1 DEF Writes
  <2>3. record' = new /\ final' \subseteq Ids
    BY <2>2 DEF Write, Inv, TypeOK, RecordTyped
  <2>4. RecordTyped' /\ WorkerSide'
    BY <1>2, <2>2, <2>3 DEF RecordTyped, Inv, WorkerSide, RecordKnown, TaskKnown
  <2> QED
    BY <1>1, <1>4, <2>1, <2>4, InvOfParts
<1>6. CASE Keep /\ UNCHANGED guardVars
  <2>1. RecordTyped' /\ WorkerSide'
    BY <1>2, <1>6 DEF Keep, Inv, TypeOK, RecordTyped, WorkerSide, RecordKnown, TaskKnown
  <2> QED
    BY <1>1, <1>2, <1>4, <1>6, <2>1, WorkerStep
<1> QED
  BY <1>2, <1>5, <1>6

LEMMA ReceiveStrayKeeps == Inv /\ ReceiveStray => Inv'
<1> SUFFICES ASSUME Inv, ReceiveStray PROVE Inv'
  OBVIOUS
<1>1. PICK message \in strays :
        /\ strays' = strays \ {message}
        /\ Accept(message) \/ (Keep /\ UNCHANGED guardVars)
        /\ NoFault /\ UNCHANGED <<task, post, updaterUp, job, jobs, dockerVars, requests>>
  BY DEF ReceiveStray, Keep
<1>2. CountsTyped'
  BY <1>1, CountsKept DEF Inv, Counted
<1>3. message \in Messages
  BY DEF Inv, TypeOK, WorkerTyped
<1>4. WorkerTyped'
  BY <1>1 DEF Inv, TypeOK, WorkerTyped
<1>5. CASE Accept(message)
  <2>1. Writes /\ GuardTyped' /\ DockerTyped' /\ BoxKnown' /\ ActKnown' /\ GateOwned' /\ Alone'
    BY <1>1, <1>3, <1>5, AcceptKeeps
  <2>2. PICK new \in Records : new.id \in Ids /\ Write(new)
    BY <2>1 DEF Writes
  <2>3. record' = new /\ final' \subseteq Ids
    BY <2>2 DEF Write, Inv, TypeOK, RecordTyped
  <2>4. RecordTyped' /\ WorkerSide'
    BY <1>1, <2>2, <2>3 DEF RecordTyped, Inv, WorkerSide, RecordKnown, TaskKnown
  <2> QED
    BY <1>2, <1>4, <2>1, <2>4, InvOfParts
<1>6. CASE Keep /\ UNCHANGED guardVars
  <2>1. RecordTyped' /\ WorkerSide'
    BY <1>1, <1>6 DEF Keep, Inv, TypeOK, RecordTyped, WorkerSide, RecordKnown, TaskKnown
  <2> QED
    BY <1>1, <1>2, <1>4, <1>6, <2>1, WorkerStep
<1> QED
  BY <1>1, <1>5, <1>6

-----------------------------------------------------------------------------
(***************************************************************************)
(* Helper containers.                                                      *)
(***************************************************************************)
\* Containers that are there, with what they were asked; at most the running
\* ones run on.
SameBoxes ==
  \A name \in Helpers :
    /\ box'[name].st = "absent" <=> box[name].st = "absent"
    /\ box'[name].att = box[name].att
    /\ box'[name].st = "running" => box[name].st = "running"

\* The task that owns the gate may then rely on what it knows.
LEMMA SameBoxesKnown ==
  ASSUME Inv, SameBoxes, UNCHANGED guardVars
  PROVE  GuardTyped' /\ BoxKnown' /\ ActKnown' /\ GateOwned' /\ Alone'
<1> USE DEF guardVars, Inv, TypeOK, GuardSide
<1>1. GuardTyped' /\ ActKnown' /\ GateOwned'
  BY DEF GuardTyped, ActKnown, GateOwned
<1>2. BoxKnown'
  BY DEF BoxKnown, SameBoxes
<1>3. \A name \in Helpers : Running(name)' => Running(name)
  BY DEF SameBoxes, Running
<1>4. Normal \in Helpers /\ Recovery \in Helpers /\ act.name \in Helpers /\ Other(act.name) \in Helpers
  BY DEF Helpers, Other, GuardTyped, Acts
<1>5. OneInstaller'
  BY <1>3, <1>4 DEF Alone, WatchesOne, OldIsNormal, RecoveryThere, NoneRuns, OneInstaller
<1>6. WatchesOne'
  BY <1>4 DEF Alone, WatchesOne, SameBoxes
<1>7. OldIsNormal' /\ RecoveryThere' /\ NoneRuns'
  BY <1>4 DEF Alone, OldIsNormal, RecoveryThere, NoneRuns, SameBoxes
<1>8. Alone'
  BY <1>5, <1>6, <1>7 DEF Alone
<1> QED
  BY <1>1, <1>2, <1>8

LEMMA ExitSame ==
  ASSUME Inv, NEW name \in Helpers, box[name].st = "running", NEW ok \in BOOLEAN, Exit(name, ok)
  PROVE  SameBoxes /\ box' \in [Helpers -> Boxes]
<1> DEFINE new == [box[name] EXCEPT !.st = "exited", !.ok = ok, !.left = {}]
<1>1. box \in [Helpers -> Boxes]
  BY DEF Inv, TypeOK, DockerTyped
<1>2. new \in Boxes /\ new.st = "exited" /\ new.att = box[name].att
  BY <1>1 DEF Boxes
<1>3. box' = [box EXCEPT ![name] = new]
  BY <1>1 DEF Exit
<1> QED
  BY <1>1, <1>2, <1>3 DEF SameBoxes

\* A helper that runs was asked for an attempt.
LEMMA RunningKnown ==
  ASSUME Inv, NEW name \in Helpers, box[name].st = "running"
  PROVE  /\ box[name].att \in Attempts /\ box[name] \in Boxes
         /\ Images(name) \in [Services -> Versions]
         /\ HelperPending(name) \in Records /\ HelperPending(name).id \in Ids
<1> USE StackAssumption
<1> DEFINE att == box[name].att
           pending == Pending(att.id, att.target, att.prev[Updater])
<1>1. att \in Attempts /\ box[name] \in Boxes
  BY DEF Inv, TypeOK, DockerTyped, GuardSide, BoxKnown
<1>2. /\ att.id \in Ids /\ att.prev \in [Services -> Versions] /\ att.target \in Versions
      /\ att.target \in Versions \cup {None} /\ att.prev[Updater] \in Versions \cup {None}
  BY <1>1 DEF Attempts
<1>3. Images(name) \in [Services -> Versions]
  BY <1>2 DEF Images
<1>4. pending \in Records /\ pending.id \in Ids
  BY <1>2, OutcomeTyped DEF Pending
<1>5. Retries(att) \in 0 .. MaxRetries
  BY DEF Retries, Inv, TypeOK, RecordTyped, Records, MaxRetries
<1>6. HelperPending(name) = [pending EXCEPT !.known = (name = Normal), !.retries = Retries(att)]
  BY DEF HelperPending
<1> HIDE DEF pending
<1>7. HelperPending(name) \in Records /\ HelperPending(name).id \in Ids
  BY <1>4, <1>5, <1>6 DEF Records
<1> QED
  BY <1>1, <1>3, <1>7

\* Steps of a helper that leave the two processes and the stack alone.
LEMMA HelperStepKeeps ==
  ASSUME Inv, NEW name \in Helpers, box[name].st = "running", SameBoxes,
         box' \in [Helpers -> Boxes], Counted, Keep \/ Write(HelperPending(name)),
         UNCHANGED <<workerVars, guardVars, stack, requests>>
  PROVE  Inv'
<1>1. Keep \/ Writes
  BY RunningKnown DEF Writes
<1>2. RecordTyped' /\ WorkerTyped' /\ WorkerSide'
  BY <1>1, WorkerKept DEF Inv
<1>3. CountsTyped'
  BY CountsKept DEF workerVars, Inv
<1>4. DockerTyped'
  BY DEF Inv, TypeOK, DockerTyped
<1> QED
  BY <1>2, <1>3, <1>4, SameBoxesKnown, InvOfParts

LEMMA HelperBeginsKeeps ==
  ASSUME Inv, NEW name \in Helpers, HelperBegins(name)
  PROVE  Inv'
<1>1. box[name].st = "running" /\ Counted /\ box \in [Helpers -> Boxes]
      /\ UNCHANGED <<workerVars, guardVars, stack, requests>>
  BY DEF HelperBegins, Counted, Inv, TypeOK, DockerTyped
<1>2. CASE Write(HelperPending(name)) /\ box' = [box EXCEPT ![name].pc = "check"]
  <2>1. SameBoxes /\ box' \in [Helpers -> Boxes]
    BY <1>1, <1>2 DEF SameBoxes, Boxes
  <2> QED
    BY <1>1, <1>2, <2>1, HelperStepKeeps
<1>3. CASE Exit(name, FALSE) /\ Keep
  BY <1>1, <1>3, ExitSame, HelperStepKeeps
<1> QED
  BY <1>2, <1>3 DEF HelperBegins, Keep

LEMMA HelperChecksKeeps ==
  ASSUME Inv, NEW name \in Helpers, HelperChecks(name)
  PROVE  Inv'
<1>1. box[name].st = "running" /\ Counted /\ Keep /\ box \in [Helpers -> Boxes]
      /\ UNCHANGED <<workerVars, guardVars, stack, requests>>
  BY DEF HelperChecks, Counted, Keep, Inv, TypeOK, DockerTyped
<1> DEFINE new == [box[name] EXCEPT !.pc = "up", !.left = Services]
<1>2. box' = [box EXCEPT ![name] = new]
  BY <1>1 DEF HelperChecks
<1>3. new \in Boxes /\ new.st = box[name].st /\ new.att = box[name].att
  BY <1>1 DEF Boxes
<1>4. SameBoxes /\ box' \in [Helpers -> Boxes]
  BY <1>1, <1>2, <1>3 DEF SameBoxes
<1> QED
  BY <1>1, <1>4, HelperStepKeeps

LEMMA HelperEndsKeeps ==
  ASSUME Inv, NEW name \in Helpers, HelperEnds(name) \/ HelperFails(name) \/ HelperDies(name)
  PROVE  Inv'
<1>1. /\ box[name].st = "running" /\ Counted
      /\ Keep \/ Write(HelperPending(name))
      /\ UNCHANGED <<workerVars, guardVars, stack, requests>>
      /\ \E ok \in BOOLEAN : Exit(name, ok)
  BY DEF HelperEnds, HelperFails, HelperDies, Counted, Keep
<1> QED
  BY <1>1, ExitSame, HelperStepKeeps

\* A guard that is gone has no task, and its gate is open.
LEMMA GuardGoneKnown ==
  ASSUME Inv, GuardGone, BoxKnown', OneInstaller'
  PROVE  GuardTyped' /\ BoxKnown' /\ ActKnown' /\ GateOwned' /\ Alone'
<1>1. guard' = "down" /\ gate' = "open" /\ leases' = 0 /\ act' \in Acts /\ act'.pc = "none"
  BY NothingTyped DEF GuardGone
<1> QED
  BY <1>1
    DEF GuardTyped, ActKnown, GateOwned, Alone, WatchesOne, OldIsNormal, RecoveryThere, NoneRuns,
        Watching, Quiet

LEMMA PostBroken ==
  ASSUME Inv, post' = (IF post = "sent" THEN "broken" ELSE post), Keep,
         UNCHANGED <<task, strays, updaterUp, job, jobs>>
  PROVE  RecordTyped' /\ WorkerTyped' /\ WorkerSide'
  BY DEF Inv, TypeOK, RecordTyped, WorkerTyped, WorkerSide, RecordKnown, TaskKnown, Keep

LEMMA HelperReplacesKeeps ==
  ASSUME Inv, NEW name \in Helpers, HelperReplaces(name)
  PROVE  Inv'
<1> USE StackAssumption
<1>1. box[name].st = "running" /\ box \in [Helpers -> Boxes] /\ stack \in [Services -> Versions]
      /\ Keep /\ NoFault /\ UNCHANGED requests
  BY DEF HelperReplaces, Keep, Inv, TypeOK, DockerTyped
<1>2. PICK s \in box[name].left :
        /\ box' = [box EXCEPT ![name].left = @ \ {s}]
        /\ stack' = [stack EXCEPT ![s] = Images(name)[s]]
        /\ IF s = Guard
           THEN GuardGone /\ post' = (IF post = "sent" THEN "broken" ELSE post)
                /\ UNCHANGED <<task, strays, updaterUp, job, jobs>>
           ELSE /\ UNCHANGED guardVars
                /\ IF s = Updater THEN WorkerGone ELSE UNCHANGED workerVars
  BY DEF HelperReplaces
<1> DEFINE new == [box[name] EXCEPT !.left = box[name].left \ {s}]
<1>3. new \in Boxes /\ new.st = box[name].st /\ new.att = box[name].att
  BY <1>1 DEF Boxes
<1>4. box' = [box EXCEPT ![name] = new]
  BY <1>1, <1>2
<1>5. SameBoxes /\ box' \in [Helpers -> Boxes]
  BY <1>1, <1>3, <1>4 DEF SameBoxes
<1>6. s \in Services /\ Images(name) \in [Services -> Versions]
  BY <1>1, <1>2, RunningKnown DEF Boxes
<1>7. DockerTyped'
  BY <1>1, <1>2, <1>5, <1>6 DEF DockerTyped
<1>8. RecordTyped' /\ WorkerTyped' /\ WorkerSide' /\ jobs' = jobs
  <2>1. CASE s = Guard
    BY <1>1, <1>2, <2>1, PostBroken
  <2>2. CASE s # Guard /\ s = Updater
    BY <1>1, <1>2, <2>2, WorkerGoneKeeps
  <2>3. CASE s # Guard /\ s # Updater
    BY <1>1, <1>2, <2>3, WorkerKept DEF Inv, workerVars
  <2> QED
    BY <2>1, <2>2, <2>3
<1>9. CountsTyped'
  BY <1>1, <1>8, CountsKept DEF Inv, Counted
<1>10. GuardTyped' /\ BoxKnown' /\ ActKnown' /\ GateOwned' /\ Alone'
  <2>1. CASE s = Guard
    <3>1. BoxKnown'
      BY <1>5 DEF SameBoxes, BoxKnown, Inv, GuardSide
    <3>2. OneInstaller'
      BY <1>5
        DEF SameBoxes, OneInstaller, Running, Inv, GuardSide, Alone, WatchesOne, OldIsNormal,
            RecoveryThere, NoneRuns, Helpers
    <3> QED
      BY <1>2, <2>1, <3>1, <3>2, GuardGoneKnown
  <2>2. CASE s # Guard
    BY <1>2, <1>5, <2>2, SameBoxesKnown
  <2> QED
    BY <2>1, <2>2
<1> QED
  BY <1>7, <1>8, <1>9, <1>10, InvOfParts

LEMMA HelperKeeps ==
  ASSUME Inv, NEW name \in Helpers, Helper(name) \/ HelperFails(name) \/ HelperDies(name)
  PROVE  Inv'
  BY HelperBeginsKeeps, HelperChecksKeeps, HelperReplacesKeeps, HelperEndsKeeps DEF Helper

-----------------------------------------------------------------------------
(***************************************************************************)
(* The task that owns the gate.                                            *)
(***************************************************************************)
\* What Docker makes of a container.
LEMMA CreatedBox ==
  ASSUME NEW att \in Attempts, NEW ok \in BOOLEAN
  PROVE  Created(att, ok) \in Boxes /\ Created(att, ok).st = "created" /\ Created(att, ok).att = att
<1>1. NoBox \in Boxes
  BY NothingTyped
<1>2. Created(att, ok) = [NoBox EXCEPT !.st = "created", !.att = att, !.ok = ok]
  BY DEF Created
<1> QED
  BY <1>1, <1>2 DEF Boxes

LEMMA StartedBox ==
  ASSUME NEW b \in Boxes
  PROVE  Started(b) \in Boxes /\ Started(b).st = "running" /\ Started(b).att = b.att
  BY DEF Started, Boxes

LEMMA StoppedBox ==
  ASSUME NEW b \in Boxes
  PROVE  /\ Stopped(b) \in Boxes /\ Stopped(b).st # "running" /\ Stopped(b).att = b.att
         /\ Stopped(b).st = "absent" <=> b.st = "absent"
  BY DEF Stopped, Boxes

LEMMA CleanedBox ==
  ASSUME NEW b \in Boxes, NEW n \in CleanUp(b)
  PROVE  /\ n \in Boxes /\ n.st # "running"
         /\ n.st # "absent" => b.st # "absent" /\ n.att = b.att
  BY StoppedBox, NothingTyped DEF CleanUp

\* The names of the helpers, and what is known of the containers.
LEMMA BoxesThere ==
  ASSUME Inv
  PROVE  /\ Normal \in Helpers /\ Recovery \in Helpers /\ Normal # Recovery
         /\ act.name \in Helpers /\ Other(act.name) \in Helpers /\ Other(act.name) # act.name
         /\ box \in [Helpers -> Boxes] /\ act \in Acts
         /\ box[Normal] \in Boxes /\ box[Recovery] \in Boxes /\ box[act.name] \in Boxes
<1>1. act \in Acts /\ box \in [Helpers -> Boxes]
  BY DEF Inv, TypeOK, GuardTyped, DockerTyped
<1> QED
  BY <1>1 DEF Acts, Helpers, Other, Normal, Recovery

\* What a step must know of the containers to keep helpers apart: one that
\* watches, one that knows none runs, and one that has yet to find out.
LEMMA WatchingAlone ==
  ASSUME act' \in Acts, act'.pc \in Watching, WatchesOne', OldIsNormal', RecoveryThere'
  PROVE  Alone'
<1>1. act'.name \in Helpers /\ act'.pc \notin Quiet /\ act'.pc # "none"
  BY DEF Acts, Watching, Quiet
<1>2. NoneRuns'
  BY <1>1 DEF NoneRuns
<1>3. OneInstaller'
  BY <1>1 DEF OneInstaller, Running, WatchesOne, Other, Helpers
<1> QED
  BY <1>2, <1>3 DEF Alone

LEMMA QuietAlone ==
  ASSUME act'.pc \in Quiet \cup {"none"}, box'[Normal].st # "running", box'[Recovery].st # "running",
         act'.pc = "startRecovery" => box'[Recovery].st # "absent"
  PROVE  Alone'
  BY
    DEF Alone, OneInstaller, Running, WatchesOne, OldIsNormal, RecoveryThere, NoneRuns, Watching,
        Quiet

LEMMA StagingAlone ==
  ASSUME act'.pc \in {"stage", "staged", "stuck"}, OneInstaller',
         act'.pc = "staged" => box'[Recovery].st # "absent"
  PROVE  Alone'
  BY DEF Alone, WatchesOne, OldIsNormal, RecoveryThere, NoneRuns, Watching, Quiet

\* A step that goes on, and one that gives the gate back.
LEMMA GuardMoves ==
  ASSUME Inv, act.pc \notin {"none", "reconcile"}, GuardOnly, NoFault \/ Fault, Writes \/ Keep,
         UNCHANGED gate, act' \in Acts, act'.pc # "none", box' \in [Helpers -> Boxes],
         BoxKnown', ActKnown', Alone'
  PROVE  Inv'
<1>1. /\ RecordTyped' /\ WorkerTyped' /\ WorkerSide' /\ CountsTyped'
      /\ guard' = guard /\ leases' = leases /\ stack' \in [Services -> Versions]
  BY GuardStepKept
<1>2. GuardTyped' /\ DockerTyped' /\ GateOwned'
  BY <1>1 DEF Inv, TypeOK, GuardTyped, DockerTyped, GuardSide, GateOwned
<1> QED
  BY <1>1, <1>2, InvOfParts

LEMMA GuardOpens ==
  ASSUME Inv, act.pc # "none", GuardOnly, NoFault \/ Fault, Writes \/ Keep,
         gate' = "open", act' = NoAct, box' \in [Helpers -> Boxes], BoxKnown',
         box'[Normal].st # "running", box'[Recovery].st # "running"
  PROVE  Inv'
<1>1. /\ RecordTyped' /\ WorkerTyped' /\ WorkerSide' /\ CountsTyped'
      /\ guard' = guard /\ leases' = leases /\ stack' \in [Services -> Versions]
  BY GuardStepKept
<1>2. act' \in Acts /\ act'.pc = "none"
  BY NothingTyped
<1>3. Alone'
  BY <1>2, QuietAlone
<1>4. GuardTyped' /\ DockerTyped' /\ ActKnown' /\ GateOwned'
  BY <1>1, <1>2 DEF Inv, TypeOK, GuardTyped, DockerTyped, GuardSide, GateOwned, ActKnown
<1> QED
  BY <1>1, <1>3, <1>4, InvOfParts

\* Steps that leave the containers alone.
LEMMA BoxesKept ==
  ASSUME Inv, UNCHANGED box
  PROVE  box' \in [Helpers -> Boxes] /\ BoxKnown' /\ OneInstaller'
  BY DEF Inv, TypeOK, DockerTyped, GuardSide, BoxKnown, Alone, OneInstaller, Running

\* One container becomes another.
LEMMA BoxSet ==
  ASSUME Inv, NEW name \in Helpers, NEW b \in Boxes, b.st # "absent" => b.att \in Attempts,
         box' = [box EXCEPT ![name] = b]
  PROVE  /\ box' \in [Helpers -> Boxes] /\ BoxKnown' /\ box'[name] = b
         /\ \A other \in Helpers : other # name => box'[other] = box[other]
<1>1. box \in [Helpers -> Boxes]
  BY BoxesThere
<1> QED
  BY <1>1 DEF Inv, GuardSide, BoxKnown

\* An attempt, and the outcomes of it.
LEMMA AttemptTyped ==
  ASSUME NEW att \in Attempts
  PROVE  /\ att.id \in Ids /\ att.target \in Versions \cup {None}
         /\ att.prev[Updater] \in Versions \cup {None}
  BY StackAssumption DEF Attempts

LEMMA FailBeforeKeeps ==
  ASSUME Inv, act.pc \in {"prepare", "launch"}, FailBefore, GuardOnly, NoFault \/ Fault,
         box' \in [Helpers -> Boxes], BoxKnown',
         box'[Normal].st # "running", box'[Recovery].st # "running"
  PROVE  Inv'
<1>1. act.att \in Attempts /\ record.prev \in Versions \cup {None}
  BY DEF Inv, GuardSide, ActKnown, TypeOK, RecordTyped, Records
<1>2. Writes
  BY <1>1, AttemptTyped, OutcomeWritten DEF FailBefore
<1> QED
  BY <1>2, GuardOpens DEF FailBefore

LEMMA PrepareKeeps == Inv /\ Prepare => Inv'
<1> SUFFICES ASSUME Inv, Prepare PROVE Inv'
  OBVIOUS
<1> USE StackAssumption
<1>1. /\ act.pc = "prepare" /\ act.att \in Attempts /\ GuardOnly /\ UNCHANGED box
      /\ stack \in [Services -> Versions] /\ stack[Updater] \in Versions
  BY DEF Prepare, Inv, GuardSide, ActKnown, TypeOK, DockerTyped
<1>2. box' \in [Helpers -> Boxes] /\ BoxKnown'
  BY <1>1, BoxesKept
<1>3. box'[Normal].st # "running" /\ box'[Recovery].st # "running"
  BY <1>1 DEF Inv, GuardSide, Alone, NoneRuns, Quiet
<1>4. CASE FailBefore /\ Fault
  BY <1>1, <1>2, <1>3, <1>4, FailBeforeKeeps
<1>5. CASE /\ Write([Pending(act.att.id, act.att.target, stack[Updater]) EXCEPT !.known = TRUE])
           /\ act' = [act EXCEPT !.pc = "launch", !.att.prev = stack]
           /\ NoFault /\ UNCHANGED gate
  <2> DEFINE pending == Pending(act.att.id, act.att.target, stack[Updater])
             new == [pending EXCEPT !.known = TRUE]
  <2>1. pending \in Records /\ pending.id \in Ids
    <3>1. /\ act.att.id \in Ids /\ act.att.target \in Versions \cup {None}
          /\ stack[Updater] \in Versions \cup {None}
      BY <1>1, AttemptTyped
    <3> QED
      BY <3>1, OutcomeTyped DEF Pending
  <2>2. Write(new)
    BY <1>5
  <2> HIDE DEF pending
  <2>3. new \in Records /\ new.id \in Ids
    BY <2>1 DEF Records
  <2>4. Writes
    BY <2>2, <2>3 DEF Writes
  <2>5. [act.att EXCEPT !.prev = stack] \in Attempts
    BY <1>1 DEF Attempts
  <2>6. act' \in Acts /\ act'.pc = "launch" /\ act'.att \in Attempts
    BY <1>1, <1>5, <2>5, BoxesThere DEF Acts
  <2>7. ActKnown' /\ act'.pc \in Quiet \cup {"none"}
    BY <2>6 DEF ActKnown, Quiet
  <2>8. Alone'
    BY <1>3, <2>6, <2>7, QuietAlone
  <2> QED
    BY <1>1, <1>2, <1>5, <2>4, <2>6, <2>7, <2>8, GuardMoves
<1> QED
  BY <1>4, <1>5 DEF Prepare

\* A helper is watched, by the step named monitor.
LEMMA MonitorKeeps ==
  ASSUME Inv, act.pc \notin {"none", "reconcile"}, GuardOnly, NoFault \/ Fault, Writes \/ Keep,
         UNCHANGED gate, box' \in [Helpers -> Boxes], BoxKnown',
         NEW name \in Helpers, NEW att \in Attempts \cup {None}, NEW retries \in 0 .. MaxRetries,
         NEW recovery \in BOOLEAN, recovery = (name = Recovery),
         Monitor(name, att, recovery, retries),
         box'[name].st # "absent", box'[Other(name)].st # "running"
  PROVE  Inv'
<1>1. act' \in Acts /\ act'.pc = "monitor" /\ act'.name = name /\ act'.recovery = recovery
  BY DEF Monitor, Acts
<1>2. WatchesOne' /\ OldIsNormal' /\ RecoveryThere' /\ ActKnown' /\ act'.pc \in Watching
  BY <1>1 DEF WatchesOne, OldIsNormal, RecoveryThere, ActKnown, Watching, Other
<1>3. Alone'
  BY <1>1, <1>2, WatchingAlone
<1> QED
  BY <1>1, <1>2, <1>3, GuardMoves

LEMMA WatchedKeeps ==
  ASSUME Inv, act.pc \notin {"none", "reconcile"}, GuardOnly, NoFault \/ Fault, Keep,
         UNCHANGED gate, box' \in [Helpers -> Boxes], BoxKnown',
         NEW att \in Attempts \cup {None}, Watched(att),
         box'[Normal].st # "absent", box'[Recovery].st # "running"
  PROVE  Inv'
<1>1. Normal \in Helpers /\ Other(Normal) = Recovery /\ FALSE = (Normal = Recovery)
  BY BoxesThere DEF Other
<1>2. 0 \in 0 .. MaxRetries
  BY DEF MaxRetries
<1>3. Monitor(Normal, att, FALSE, 0)
  BY DEF Watched
<1> QED
  BY <1>1, <1>2, <1>3, MonitorKeeps

LEMMA RecoveryWatched ==
  ASSUME Inv, act.pc \notin {"none", "reconcile"}, GuardOnly, NoFault \/ Fault, Writes \/ Keep,
         UNCHANGED gate, box' \in [Helpers -> Boxes], BoxKnown',
         NEW att \in Attempts \cup {None}, NEW retries \in 0 .. MaxRetries,
         Monitor(Recovery, att, TRUE, retries),
         box'[Recovery].st # "absent", box'[Normal].st # "running"
  PROVE  Inv'
<1>1. Recovery \in Helpers /\ Other(Recovery) = Normal /\ TRUE = (Recovery = Recovery)
  BY BoxesThere DEF Other
<1> QED
  BY <1>1, MonitorKeeps

\* The recovery is staged.
LEMMA StageKeeps ==
  ASSUME Inv, act.pc \notin {"none", "reconcile"}, GuardOnly, NoFault \/ Fault, Writes \/ Keep,
         UNCHANGED <<gate, box>>,
         NEW att \in Attempts, NEW retries \in 0 .. MaxRetries, Stage(att, retries)
  PROVE  Inv'
<1>1. act' \in Acts /\ act'.pc = "stage" /\ act'.att = att
  BY DEF Stage, Acts, Helpers
<1>2. box' \in [Helpers -> Boxes] /\ BoxKnown' /\ OneInstaller'
  BY BoxesKept
<1>3. ActKnown' /\ Alone'
  BY <1>1, <1>2, StagingAlone DEF ActKnown
<1> QED
  BY <1>1, <1>2, <1>3, GuardMoves

-----------------------------------------------------------------------------
(***************************************************************************)
(* Its steps, one by one.                                                  *)
(***************************************************************************)
LEMMA LaunchKeeps == Inv /\ Launch => Inv'
<1> SUFFICES ASSUME Inv, Launch PROVE Inv'
  OBVIOUS
<1>1. /\ act.pc = "launch" /\ act.att \in Attempts /\ GuardOnly
      /\ box[Normal].st # "running" /\ box[Recovery].st # "running"
  BY DEF Launch, Inv, GuardSide, ActKnown, Alone, NoneRuns, Quiet
<1>2. box[Normal].st # "absent" => box[Normal].att \in Attempts
  BY BoxesThere DEF Inv, GuardSide, BoxKnown
<1> DEFINE Run == box' = [box EXCEPT ![Normal] = Started(Created(act.att, FALSE))]
<1>3. CASE Run /\ (NoFault \/ Fault) /\ UNCHANGED gate /\ Keep
           /\ \E att \in {act.att, None} : Watched(att)
  <2> DEFINE b == Started(Created(act.att, FALSE))
  <2>1. b \in Boxes /\ b.st = "running" /\ b.att = act.att
    BY <1>1, CreatedBox, StartedBox
  <2> HIDE DEF b
  <2>2. Run
    BY <1>3
  <2>3. box' = [box EXCEPT ![Normal] = b]
    BY <2>2 DEF b
  <2>4. /\ box' \in [Helpers -> Boxes] /\ BoxKnown'
        /\ box'[Normal].st # "absent" /\ box'[Recovery].st # "running"
    BY <1>1, <2>1, <2>3, BoxSet, BoxesThere
  <2> QED
    BY <1>1, <1>3, <2>4, WatchedKeeps
<1>4. CASE FailBefore /\ Fault /\ \/ box' = Removed(Normal)
                                  \/ \E ok \in BOOLEAN : box' = [box EXCEPT ![Normal] = Created(act.att, ok)]
  <2>1. PICK b \in Boxes : /\ b.st # "running" /\ (b.st # "absent" => b.att \in Attempts)
                           /\ box' = [box EXCEPT ![Normal] = b]
    BY <1>1, <1>4, CreatedBox, NothingTyped DEF Removed
  <2>2. /\ box' \in [Helpers -> Boxes] /\ BoxKnown'
        /\ box'[Normal].st # "running" /\ box'[Recovery].st # "running"
    BY <1>1, <2>1, BoxSet, BoxesThere
  <2> QED
    BY <1>1, <1>4, <2>2, FailBeforeKeeps
<1>5. CASE box[Normal].st # "absent" /\ (NoFault \/ Fault) /\ Same /\ Keep
           /\ \E att \in {box[Normal].att, None} : Watched(att)
  <2>1. /\ box' \in [Helpers -> Boxes] /\ BoxKnown' /\ UNCHANGED gate
        /\ box'[Normal].st # "absent" /\ box'[Recovery].st # "running"
    BY <1>1, <1>5, BoxesKept DEF Same
  <2> QED
    BY <1>1, <1>2, <1>5, <2>1, WatchedKeeps
<1> QED
  BY <1>3, <1>4, <1>5 DEF Launch, Occupied

\* What a task that watches knows.
LEMMA WatchingKnown ==
  ASSUME Inv, act.pc \in Watching
  PROVE  /\ act.pc \notin {"none", "reconcile"} /\ act.recovery = (act.name = Recovery)
         /\ box[act.name].st # "absent" /\ box[act.name].att \in Attempts
         /\ box[Other(act.name)].st # "running"
         /\ act.att \in Attempts \cup {None} /\ act.retries \in 0 .. MaxRetries
         /\ act.recovery \in BOOLEAN
<1>1. act.pc \notin {"none", "reconcile"} /\ act.name \in Helpers
  BY BoxesThere DEF Watching
<1>2. act.att \in Attempts \cup {None} /\ act.retries \in 0 .. MaxRetries /\ act.recovery \in BOOLEAN
  BY BoxesThere DEF Acts
<1> QED
  BY <1>1, <1>2 DEF Inv, GuardSide, Alone, WatchesOne, BoxKnown

LEMMA WatchKeeps == Inv /\ Watch => Inv'
<1> SUFFICES ASSUME Inv, Watch PROVE Inv'
  OBVIOUS
<1>1. /\ act.pc = "monitor" /\ act.pc \in Watching /\ act \in Acts /\ (NoFault \/ Fault)
      /\ GuardOnly /\ UNCHANGED <<gate, box>> /\ Keep
  BY BoxesThere DEF Watch, Same, Watching
<1>2. box' \in [Helpers -> Boxes] /\ BoxKnown' /\ OneInstaller'
  BY <1>1, BoxesKept
<1>3. \/ box[act.name].st # "running" /\ \E r \in BOOLEAN : act' = [act EXCEPT !.pc = "publish", !.recovery = r]
      \/ AfterFailure(FALSE)
  BY <1>1 DEF Watch, AfterFailure, Step, Restored, Acts
<1>4. CASE box[act.name].st # "running" /\ \E r \in BOOLEAN : act' = [act EXCEPT !.pc = "publish", !.recovery = r]
  <2>1. act' \in Acts /\ act'.pc = "publish"
    BY <1>1, <1>4 DEF Acts
  <2>2. box'[Normal].st # "running" /\ box'[Recovery].st # "running"
    BY <1>1, <1>4, BoxesThere, WatchingKnown DEF Helpers, Other
  <2>3. Alone' /\ ActKnown'
    BY <2>1, <2>2, QuietAlone DEF ActKnown, Quiet
  <2> QED
    BY <1>1, <1>2, <2>1, <2>3, GuardMoves
<1>5. CASE AfterFailure(FALSE)
  <2> DEFINE pc == IF act.att = None THEN "unidentified"
                   ELSE IF ~act.recovery THEN "launchRecovery"
                   ELSE IF act.retries < MaxRetries THEN "retry" ELSE "giveUp"
  <2>1. act' = [act EXCEPT !.pc = pc] /\ pc \in {"unidentified", "launchRecovery", "retry", "giveUp"}
    BY <1>5 DEF AfterFailure, Step
  <2>2. act' \in Acts /\ act'.pc = pc /\ act'.name = act.name /\ act'.recovery = act.recovery
        /\ act'.att = act.att /\ act'.retries = act.retries
    BY <1>1, <2>1 DEF Acts
  <2>3. ActKnown' /\ OldIsNormal'
    BY <1>1, <2>2, WatchingKnown, BoxesThere DEF ActKnown, OldIsNormal, Helpers
  <2>4. act'.pc \in Watching /\ RecoveryThere' /\ WatchesOne'
    BY <1>1, <2>1, <2>2, WatchingKnown DEF Watching, RecoveryThere, WatchesOne
  <2>5. Alone'
    BY <2>2, <2>3, <2>4, WatchingAlone
  <2> QED
    BY <1>1, <1>2, <2>1, <2>2, <2>3, <2>5, GuardMoves
<1> QED
  BY <1>3, <1>4, <1>5

\* The recovery is created beside the helper it will replace.
LEMMA LaunchRecoveryKeeps == Inv /\ LaunchRecovery => Inv'
<1> SUFFICES ASSUME Inv, LaunchRecovery PROVE Inv'
  OBVIOUS
<1>1. /\ act.pc = "launchRecovery" /\ act.pc \in Watching /\ act \in Acts /\ act.att \in Attempts
      /\ act.name = Normal /\ GuardOnly /\ UNCHANGED gate /\ Keep
  BY BoxesThere DEF LaunchRecovery, Watching, Inv, GuardSide, ActKnown, Alone, OldIsNormal
<1>2. CASE Stage(act.att, 0) /\ UNCHANGED box /\ (NoFault \/ Fault)
  BY <1>1, <1>2, StageKeeps DEF MaxRetries
<1>3. CASE /\ ~Occupied(Recovery) /\ Step("stopOld") /\ NoFault
           /\ box' = [box EXCEPT ![Recovery] = Created(act.att, TRUE)]
  <2>1. /\ box' \in [Helpers -> Boxes] /\ BoxKnown' /\ box'[Normal] = box[Normal]
        /\ box'[Recovery].st = "created"
    BY <1>1, <1>3, CreatedBox, BoxSet, BoxesThere
  <2>2. /\ act' \in Acts /\ act'.pc = "stopOld" /\ act'.name = Normal
        /\ act'.recovery = act.recovery /\ act'.att = act.att
    BY <1>1, <1>3 DEF Step, Acts
  <2>3. act'.pc \in Watching /\ ActKnown' /\ OldIsNormal' /\ RecoveryThere' /\ WatchesOne'
    BY <1>1, <2>1, <2>2, WatchingKnown
       DEF Watching, ActKnown, OldIsNormal, RecoveryThere, WatchesOne, Other
  <2>4. Alone'
    BY <2>2, <2>3, WatchingAlone
  <2> QED
    BY <1>1, <1>3, <2>1, <2>2, <2>3, <2>4, GuardMoves
<1> QED
  BY <1>2, <1>3 DEF LaunchRecovery

\* The helper is stopped, and only then the recovery started.
LEMMA StopOldKeeps == Inv /\ StopOld => Inv'
<1> SUFFICES ASSUME Inv, StopOld PROVE Inv'
  OBVIOUS
<1>1. /\ act.pc = "stopOld" /\ act.pc \in Watching /\ act \in Acts /\ act.att \in Attempts
      /\ act.name = Normal /\ GuardOnly /\ UNCHANGED gate /\ Keep
      /\ box[Recovery].st # "absent"
  BY BoxesThere DEF StopOld, Watching, Inv, GuardSide, ActKnown, Alone, OldIsNormal, RecoveryThere
<1>2. CASE Stage(act.att, 0) /\ Fault /\ UNCHANGED box
  BY <1>1, <1>2, StageKeeps DEF MaxRetries
<1>3. CASE /\ Step("startRecovery") /\ NoFault
           /\ \E b \in CleanUp(box[act.name]) : box' = [box EXCEPT ![act.name] = b]
  <2>1. PICK b \in CleanUp(box[Normal]) : box' = [box EXCEPT ![Normal] = b]
    BY <1>1, <1>3
  <2>2. b \in Boxes /\ b.st # "running" /\ (b.st # "absent" => b.att \in Attempts)
    BY <1>1, BoxesThere, CleanedBox, WatchingKnown
  <2>3. /\ box' \in [Helpers -> Boxes] /\ BoxKnown' /\ box'[Normal] = b
        /\ box'[Recovery] = box[Recovery]
    BY <2>1, <2>2, BoxSet, BoxesThere
  <2>4. act' \in Acts /\ act'.pc = "startRecovery" /\ act'.att = act.att
    BY <1>1, <1>3 DEF Step, Acts
  <2>5. box[Recovery].st # "running"
    BY <1>1, WatchingKnown DEF Other
  <2>6. ActKnown' /\ act'.pc \in Quiet
    BY <1>1, <2>4 DEF ActKnown, Quiet
  <2>7. Alone'
    BY <1>1, <2>2, <2>3, <2>5, <2>6, QuietAlone
  <2> QED
    BY <1>1, <1>3, <2>3, <2>4, <2>6, <2>7, GuardMoves
<1> QED
  BY <1>2, <1>3 DEF StopOld

LEMMA StartRecoveryKeeps == Inv /\ StartRecovery => Inv'
<1> SUFFICES ASSUME Inv, StartRecovery PROVE Inv'
  OBVIOUS
<1>1. /\ act.pc = "startRecovery" /\ act.att \in Attempts /\ GuardOnly /\ UNCHANGED gate /\ Keep
      /\ box[Normal].st # "running" /\ box[Recovery].st # "absent"
  BY DEF StartRecovery, Inv, GuardSide, ActKnown, Alone, RecoveryThere, NoneRuns, Quiet
<1>2. CASE Stage(act.att, 0) /\ Fault /\ UNCHANGED box
  BY <1>1, <1>2, StageKeeps DEF MaxRetries
<1>3. CASE box' = [box EXCEPT ![Recovery] = Started(@)] /\ Monitor(Recovery, act.att, TRUE, 0) /\ NoFault
  <2>1. Started(box[Recovery]) \in Boxes /\ Started(box[Recovery]).st = "running"
        /\ Started(box[Recovery]).att = box[Recovery].att /\ box[Recovery].att \in Attempts
    BY <1>1, StartedBox, BoxesThere DEF Inv, GuardSide, BoxKnown
  <2>2. /\ box' \in [Helpers -> Boxes] /\ BoxKnown'
        /\ box'[Recovery].st # "absent" /\ box'[Normal].st # "running"
    BY <1>1, <1>3, <2>1, BoxSet, BoxesThere
  <2>3. act.att \in Attempts \cup {None} /\ 0 \in 0 .. MaxRetries
        /\ act.pc \notin {"none", "reconcile"}
    BY <1>1 DEF MaxRetries
  <2> QED
    BY <1>1, <1>3, <2>2, <2>3, RecoveryWatched
<1> QED
  BY <1>2, <1>3 DEF StartRecovery

\* What is written of a recovery's attempt is a record of its request.
LEMMA PersistWrites ==
  ASSUME Inv, NEW att \in Attempts, NEW retries \in 0 .. MaxRetries, Persist(att, retries)
  PROVE  Writes
<1> USE StackAssumption
<1> DEFINE old == IF Mine(att) THEN record ELSE Pending(att.id, att.target, att.prev[Updater])
           new == [old EXCEPT !.st = "pending", !.retries = retries]
<1>1. record \in Records /\ (record = Absent \/ record.id \in Ids)
  BY DEF Inv, TypeOK, RecordTyped, WorkerSide, RecordKnown
<1>2. att.target \in Versions /\ None \notin Versions
  BY DEF Attempts
<1>3. Mine(att) => record.id \in Ids
  BY <1>1, <1>2 DEF Mine, Absent
<1>4. /\ Pending(att.id, att.target, att.prev[Updater]) \in Records
      /\ Pending(att.id, att.target, att.prev[Updater]).id \in Ids
  <2>1. /\ att.id \in Ids /\ att.target \in Versions \cup {None}
        /\ att.prev[Updater] \in Versions \cup {None}
    BY AttemptTyped
  <2> QED
    BY <2>1, OutcomeTyped DEF Pending
<1>5. old \in Records /\ old.id \in Ids
  BY <1>1, <1>3, <1>4
<1>6. Write(new)
  BY DEF Persist
<1> HIDE DEF old
<1>7. new \in Records /\ new.id \in Ids
  BY <1>5 DEF Records
<1> QED
  BY <1>6, <1>7 DEF Writes

LEMMA RetryKeeps == Inv /\ Retry => Inv'
<1> SUFFICES ASSUME Inv, Retry PROVE Inv'
  OBVIOUS
<1>1. /\ act.pc = "retry" /\ act.pc \in Watching /\ act \in Acts /\ act.att \in Attempts
      /\ act.retries + 1 \in 0 .. MaxRetries /\ GuardOnly /\ UNCHANGED <<gate, box>>
  BY BoxesThere DEF Retry, Same, Watching, Inv, GuardSide, ActKnown, Acts, MaxRetries
<1>2. CASE Stage(act.att, act.retries + 1) /\ Fault /\ Keep
  BY <1>1, <1>2, StageKeeps
<1>3. CASE /\ Persist(act.att, act.retries + 1) /\ NoFault
           /\ act' = [act EXCEPT !.pc = "rerun", !.retries = @ + 1]
  <2>1. Writes
    BY <1>1, <1>3, PersistWrites
  <2>2. /\ act' \in Acts /\ act'.pc = "rerun" /\ act'.name = act.name
        /\ act'.recovery = act.recovery /\ act'.att = act.att
    BY <1>1, <1>3 DEF Acts
  <2>3. box' \in [Helpers -> Boxes] /\ BoxKnown'
    BY <1>1, BoxesKept
  <2>4. act'.pc \in Watching /\ ActKnown' /\ OldIsNormal' /\ RecoveryThere' /\ WatchesOne'
    BY <1>1, <2>2, WatchingKnown DEF Watching, ActKnown, OldIsNormal, RecoveryThere, WatchesOne
  <2>5. Alone'
    BY <2>2, <2>4, WatchingAlone
  <2> QED
    BY <1>1, <1>3, <2>1, <2>2, <2>3, <2>4, <2>5, GuardMoves
<1> QED
  BY <1>2, <1>3 DEF Retry

LEMMA RerunKeeps == Inv /\ Rerun => Inv'
<1> SUFFICES ASSUME Inv, Rerun PROVE Inv'
  OBVIOUS
<1>1. /\ act.pc = "rerun" /\ act.pc \in Watching /\ act \in Acts /\ act.att \in Attempts
      /\ act.retries \in 0 .. MaxRetries /\ GuardOnly /\ UNCHANGED gate /\ Keep
  BY BoxesThere DEF Rerun, Watching, Inv, GuardSide, ActKnown, Acts
<1>2. CASE Stage(act.att, act.retries) /\ Fault /\ UNCHANGED box
  BY <1>1, <1>2, StageKeeps
<1>3. CASE box' = [box EXCEPT ![act.name] = Started(@)] /\ Step("monitor") /\ NoFault
  <2> DEFINE b == Started(box[act.name])
  <2>1. b \in Boxes /\ b.st = "running" /\ b.att \in Attempts
    BY <1>1, StartedBox, BoxesThere, WatchingKnown
  <2>2. box' = [box EXCEPT ![act.name] = b]
    BY <1>3, BoxesThere
  <2> HIDE DEF b
  <2>3. /\ box' \in [Helpers -> Boxes] /\ BoxKnown' /\ box'[act.name].st # "absent"
        /\ box'[Other(act.name)] = box[Other(act.name)]
    BY <2>1, <2>2, BoxSet, BoxesThere
  <2>4. /\ act' \in Acts /\ act'.pc = "monitor" /\ act'.name = act.name
        /\ act'.recovery = act.recovery
    BY <1>1, <1>3 DEF Step, Acts
  <2>5. act'.pc \in Watching /\ ActKnown' /\ OldIsNormal' /\ RecoveryThere'
    BY <2>4 DEF Watching, ActKnown, OldIsNormal, RecoveryThere
  <2>6. WatchesOne'
    BY <1>1, <2>3, <2>4, WatchingKnown DEF WatchesOne, Other
  <2>7. Alone'
    BY <2>4, <2>5, <2>6, WatchingAlone
  <2> QED
    BY <1>1, <1>3, <2>3, <2>4, <2>5, <2>7, GuardMoves
<1> QED
  BY <1>2, <1>3 DEF Rerun

LEMMA UnidentifiedKeeps == Inv /\ Unidentified => Inv'
<1> SUFFICES ASSUME Inv, Unidentified PROVE Inv'
  OBVIOUS
<1>1. /\ act.pc \in Watching /\ GuardOnly /\ UNCHANGED <<gate, box>> /\ Keep /\ NoFault
  BY DEF Unidentified, Watching, Same
<1> DEFINE att == box[act.name].att
           retries == IF act.recovery THEN Retries(att) ELSE 0
<1>2. att \in Attempts /\ act.recovery \in BOOLEAN /\ act.recovery = (act.name = Recovery)
  BY <1>1, WatchingKnown
<1>3. retries \in 0 .. MaxRetries
  BY DEF Retries, Inv, TypeOK, RecordTyped, Records, MaxRetries
<1>4. Monitor(act.name, att, act.recovery, retries)
  BY DEF Unidentified
<1>5. box' \in [Helpers -> Boxes] /\ BoxKnown'
  BY <1>1, BoxesKept
<1> HIDE DEF att, retries
<1>6. box'[act.name].st # "absent" /\ box'[Other(act.name)].st # "running"
  BY <1>1, WatchingKnown
<1>7. act.pc \notin {"none", "reconcile"} /\ UNCHANGED gate /\ act.name \in Helpers
      /\ att \in Attempts \cup {None}
  BY <1>1, <1>2, WatchingKnown, BoxesThere
<1> QED
  BY <1>1, <1>2, <1>3, <1>4, <1>5, <1>6, <1>7, MonitorKeeps

LEMMA GiveUpKeeps == Inv /\ GiveUp => Inv'
<1> SUFFICES ASSUME Inv, GiveUp PROVE Inv'
  OBVIOUS
<1>1. /\ act.pc = "giveUp" /\ act.pc \in Watching /\ act \in Acts /\ act.att \in Attempts
      /\ act.retries \in 0 .. MaxRetries /\ GuardOnly /\ UNCHANGED gate /\ Keep
  BY BoxesThere DEF GiveUp, Watching, Inv, GuardSide, ActKnown, Acts
<1>2. CASE Stage(act.att, act.retries) /\ Fault /\ UNCHANGED box
  BY <1>1, <1>2, StageKeeps
<1>3. CASE Step("publish") /\ box' = [box EXCEPT ![act.name] = Stopped(@)] /\ NoFault
  <2> DEFINE b == Stopped(box[act.name])
  <2>1. b \in Boxes /\ b.st # "running" /\ b.att \in Attempts
    BY <1>1, StoppedBox, BoxesThere, WatchingKnown
  <2>2. box' = [box EXCEPT ![act.name] = b]
    BY <1>3, BoxesThere
  <2> HIDE DEF b
  <2>3. /\ box' \in [Helpers -> Boxes] /\ BoxKnown' /\ box'[act.name].st # "running"
        /\ box'[Other(act.name)] = box[Other(act.name)]
    BY <2>1, <2>2, BoxSet, BoxesThere
  <2>4. box'[Normal].st # "running" /\ box'[Recovery].st # "running"
    BY <1>1, <2>3, BoxesThere, WatchingKnown DEF Helpers, Other
  <2>5. act' \in Acts /\ act'.pc = "publish"
    BY <1>1, <1>3 DEF Step, Acts
  <2>6. Alone' /\ ActKnown'
    BY <2>4, <2>5, QuietAlone DEF ActKnown, Quiet
  <2> QED
    BY <1>1, <1>3, <2>3, <2>5, <2>6, GuardMoves
<1> QED
  BY <1>2, <1>3 DEF GiveUp

\* What is published is an outcome of the request.
LEMMA PublishKeeps == Inv /\ Publish => Inv'
<1> SUFFICES ASSUME Inv, Publish PROVE Inv'
  OBVIOUS
<1>1. /\ act.pc = "publish" /\ act \in Acts /\ GuardOnly /\ UNCHANGED <<gate, box>> /\ NoFault
      /\ act.att \in Attempts \cup {None}
      /\ box[Normal].st # "running" /\ box[Recovery].st # "running"
  BY BoxesThere DEF Publish, Same, Inv, GuardSide, Alone, NoneRuns, Quiet, Acts
<1>2. Writes \/ Keep
  BY <1>1, AttemptTyped, OutcomeWritten DEF Publish
<1>3. act' \in Acts /\ act'.pc = "cleanup"
  BY <1>1 DEF Publish, Step, Acts
<1>4. box' \in [Helpers -> Boxes] /\ BoxKnown'
  BY <1>1, BoxesKept
<1>5. Alone' /\ ActKnown'
  BY <1>1, <1>3, QuietAlone DEF ActKnown, Quiet
<1> QED
  BY <1>1, <1>2, <1>3, <1>4, <1>5, GuardMoves

LEMMA OpenKeeps == Inv /\ Open => Inv'
<1> SUFFICES ASSUME Inv, Open PROVE Inv'
  OBVIOUS
<1>1. /\ act.pc = "cleanup" /\ GuardOnly /\ NoFault /\ Keep /\ gate' = "open" /\ act' = NoAct
      /\ box[Normal].st # "running" /\ box[Recovery].st # "running"
  BY DEF Open, Inv, GuardSide, Alone, NoneRuns, Quiet
<1>2. PICK b \in CleanUp(box[act.name]) : box' = [box EXCEPT ![act.name] = b]
  BY DEF Open
<1>3. b \in Boxes /\ b.st # "running" /\ (b.st # "absent" => b.att \in Attempts)
  BY BoxesThere, CleanedBox DEF Inv, GuardSide, BoxKnown
<1>4. /\ box' \in [Helpers -> Boxes] /\ BoxKnown' /\ box'[act.name] = b
      /\ \A other \in Helpers : other # act.name => box'[other] = box[other]
  BY <1>2, <1>3, BoxSet, BoxesThere
<1>5. box'[Normal].st # "running" /\ box'[Recovery].st # "running"
  BY <1>1, <1>3, <1>4, BoxesThere
<1> QED
  BY <1>1, <1>4, <1>5, GuardOpens

LEMMA StageRecoveryKeeps == Inv /\ StageRecovery => Inv'
<1> SUFFICES ASSUME Inv, StageRecovery PROVE Inv'
  OBVIOUS
<1>1. /\ act.pc = "stage" /\ act \in Acts /\ act.att \in Attempts
      /\ GuardOnly /\ UNCHANGED gate /\ Keep /\ NoFault
  BY BoxesThere DEF StageRecovery, Inv, GuardSide, ActKnown
<1>2. act' \in Acts /\ act'.pc = "staged" /\ act'.att = act.att
  BY <1>1 DEF StageRecovery, Step, Acts
<1>3. /\ box' \in [Helpers -> Boxes] /\ BoxKnown' /\ OneInstaller'
      /\ box'[Recovery].st # "absent"
  <2>1. CASE box[Recovery].st # "absent"
    BY <2>1, BoxesKept DEF StageRecovery
  <2>2. CASE box[Recovery].st = "absent"
    <3>1. /\ box' \in [Helpers -> Boxes] /\ BoxKnown' /\ box'[Recovery].st = "created"
      BY <1>1, <2>2, CreatedBox, BoxSet, BoxesThere DEF StageRecovery
    <3> QED
      BY <3>1 DEF OneInstaller, Running
  <2> QED
    BY <2>1, <2>2
<1>4. ActKnown' /\ Alone'
  BY <1>1, <1>2, <1>3, StagingAlone DEF ActKnown
<1> QED
  BY <1>1, <1>2, <1>3, <1>4, GuardMoves

LEMMA RunStagedKeeps == Inv /\ RunStaged => Inv'
<1> SUFFICES ASSUME Inv, RunStaged PROVE Inv'
  OBVIOUS
<1>1. /\ act.pc = "staged" /\ act \in Acts /\ act.att \in Attempts /\ act.retries \in 0 .. MaxRetries
      /\ GuardOnly /\ UNCHANGED gate /\ box[Recovery].st # "absent"
      /\ box[Normal].st # "absent" => box[Normal].att \in Attempts
      /\ box[Recovery].att \in Attempts
  BY BoxesThere DEF RunStaged, Inv, GuardSide, ActKnown, Acts, Alone, RecoveryThere, BoxKnown
<1> DEFINE b == box[Recovery]
           done == b.st = "running" \/ (b.st = "exited" /\ b.ok)
           r == IF done THEN b ELSE Started(b)
<1>2. CASE /\ IF act.retries > 0 THEN Persist(act.att, act.retries) ELSE Keep
           /\ \E n \in CleanUp(box[Normal]) : box' = [box EXCEPT ![Normal] = n, ![Recovery] = r]
           /\ Monitor(Recovery, act.att, TRUE, act.retries) /\ NoFault
  <2>1. Writes \/ Keep
    BY <1>1, <1>2, PersistWrites
  <2>2. PICK n \in CleanUp(box[Normal]) : box' = [box EXCEPT ![Normal] = n, ![Recovery] = r]
    BY <1>2
  <2>3. n \in Boxes /\ n.st # "running" /\ (n.st # "absent" => n.att \in Attempts)
    BY <1>1, BoxesThere, CleanedBox
  <2>4. r \in Boxes /\ r.st # "absent" /\ r.att \in Attempts
    BY <1>1, BoxesThere, StartedBox
  <2> HIDE DEF r
  <2>5. /\ box' \in [Helpers -> Boxes] /\ box'[Normal] = n /\ box'[Recovery] = r
    BY <2>2, <2>3, <2>4, BoxesThere
  <2>6. BoxKnown'
    BY <2>3, <2>4, <2>5 DEF BoxKnown, Helpers
  <2>7. act.att \in Attempts \cup {None} /\ act.pc \notin {"none", "reconcile"}
    BY <1>1
  <2> QED
    BY <1>1, <1>2, <2>1, <2>3, <2>4, <2>5, <2>6, <2>7, RecoveryWatched
<1>3. CASE Step("stage") /\ Fault /\ Keep /\ box' \in {box, Removed(Normal)}
  <2>1. act' \in Acts /\ act'.pc = "stage" /\ act'.att = act.att
    BY <1>1, <1>3 DEF Step, Acts
  <2>2. box' \in [Helpers -> Boxes] /\ BoxKnown' /\ OneInstaller'
    <3>1. CASE box' = box
      BY <3>1, BoxesKept
    <3>2. CASE box' = Removed(Normal)
      <4>1. box' \in [Helpers -> Boxes] /\ BoxKnown' /\ box'[Normal].st = "absent"
        BY <3>2, BoxSet, BoxesThere, NothingTyped DEF Removed
      <4> QED
        BY <4>1 DEF OneInstaller, Running
    <3> QED
      BY <1>3, <3>1, <3>2
  <2>3. ActKnown' /\ Alone'
    BY <1>1, <2>1, <2>2, StagingAlone DEF ActKnown
  <2> QED
    BY <1>1, <1>3, <2>1, <2>2, <2>3, GuardMoves
<1> QED
  BY <1>2, <1>3 DEF RunStaged

-----------------------------------------------------------------------------
(***************************************************************************)
(* The guard's start, and its death.                                       *)
(***************************************************************************)
\* A guard that comes up: what it must establish.
LEMMA BootKeeps ==
  ASSUME Inv, Boots, CountsTyped', gate' \in {"self", "startup"}, act' \in Acts, act'.pc # "none",
         gate' = "startup" => act'.pc = "reconcile",
         box' \in [Helpers -> Boxes], BoxKnown', ActKnown', Alone'
  PROVE  Inv'
<1>1. RecordTyped' /\ WorkerTyped' /\ WorkerSide'
  BY WorkerKept DEF Boots, Inv
<1>2. GuardTyped' /\ DockerTyped' /\ GateOwned'
  BY DEF Boots, Inv, TypeOK, GuardTyped, DockerTyped, GuardSide, GateOwned
<1> QED
  BY <1>1, <1>2, InvOfParts

LEMMA BootCounts ==
  ASSUME Inv, Boots, NoFault \/ Fault
  PROVE  CountsTyped'
  BY CountsKept DEF Inv, Boots, Counted, workerVars

\* The helper that tells of a handoff was asked for an attempt.
LEMMA ResidualKnown ==
  ASSUME Inv, box[Residual].st # "absent"
  PROVE  /\ Residual \in Helpers /\ box[Residual] \in Boxes /\ box[Residual].att \in Attempts
         /\ Residual = Normal => box[Recovery].st = "absent"
         /\ \A att : Retries(att) \in 0 .. MaxRetries
<1>1. \A att : Retries(att) \in 0 .. MaxRetries
  BY DEF Retries, Inv, TypeOK, RecordTyped, Records, MaxRetries
<1> QED
  BY <1>1, BoxesThere DEF Residual, Inv, GuardSide, BoxKnown

\* After the containers have been put in order, the other helper does not run.
LEMMA ResumedKnown ==
  ASSUME Inv, box[Residual].st # "absent", box' \in Resumed
  PROVE  /\ box' \in [Helpers -> Boxes] /\ BoxKnown'
         /\ box'[Residual].st # "absent" /\ box'[Other(Residual)].st # "running"
<1> DEFINE res == Residual
           started(b) == IF b.st = "created" THEN Started(b) ELSE b
<1>1. PICK n \in CleanUp(box[Normal]) :
        box' = [box EXCEPT ![Normal] = IF res = Recovery THEN n ELSE @,
                           ![res] = IF @.st = "created" THEN Started(@) ELSE @]
  BY DEF Resumed
<1>2. n \in Boxes /\ n.st # "running" /\ (n.st # "absent" => box[Normal].st # "absent" /\ n.att = box[Normal].att)
  BY BoxesThere, CleanedBox
<1>3. \A b \in Boxes : /\ started(b) \in Boxes /\ started(b).att = b.att
                       /\ b.st # "absent" => started(b).st # "absent"
  BY StartedBox
<1>4. \A name \in Helpers : box[name].st # "absent" => box[name].att \in Attempts
  BY DEF Inv, GuardSide, BoxKnown
<1>5. CASE res = Recovery
  <2>1. box' = [box EXCEPT ![Normal] = n, ![Recovery] = started(box[Recovery])]
    BY <1>1, <1>5, BoxesThere
  <2> HIDE DEF started, res
  <2>2. /\ box' \in [Helpers -> Boxes] /\ box'[Normal] = n
        /\ box'[Recovery] = started(box[Recovery])
    BY <1>2, <1>3, <2>1, BoxesThere
  <2>3. box[Recovery].st # "absent"
    BY <1>5 DEF res
  <2>4. BoxKnown'
    BY <1>2, <1>3, <1>4, <2>2, <2>3, BoxesThere DEF BoxKnown, Helpers
  <2> QED
    BY <1>2, <1>3, <1>5, <2>2, <2>3, <2>4, BoxesThere DEF res, Other
<1>6. CASE res = Normal
  <2>1. box' = [box EXCEPT ![Normal] = started(box[Normal])]
    BY <1>1, <1>6, BoxesThere
  <2> HIDE DEF started, res
  <2>2. /\ box' \in [Helpers -> Boxes] /\ box'[Recovery] = box[Recovery]
        /\ box'[Normal] = started(box[Normal])
    BY <1>3, <2>1, BoxesThere
  <2>3. box[Normal].st # "absent" /\ box[Recovery].st = "absent"
    BY <1>6, ResidualKnown DEF res
  <2>4. BoxKnown'
    BY <1>3, <1>4, <2>2, <2>3, BoxesThere DEF BoxKnown, Helpers
  <2> QED
    BY <1>3, <1>6, <2>2, <2>3, <2>4, BoxesThere DEF res, Other
<1> QED
  BY <1>5, <1>6 DEF Residual

LEMMA GuardResumesKeeps == Inv /\ GuardResumes => Inv'
<1> SUFFICES ASSUME Inv, GuardResumes PROVE Inv'
  OBVIOUS
<1> DEFINE att == box[Residual].att
           recovery == Residual = Recovery
           retries == IF recovery THEN Retries(att) ELSE 0
<1>1. Boots /\ gate' = "self" /\ box[Residual].st # "absent" /\ (NoFault \/ Fault)
  BY DEF GuardResumes
<1>2. CountsTyped'
  BY <1>1, BootCounts
<1>3. /\ Residual \in Helpers /\ att \in Attempts /\ retries \in 0 .. MaxRetries
      /\ recovery \in BOOLEAN /\ 0 \in 0 .. MaxRetries
  BY <1>1, ResidualKnown DEF MaxRetries
<1>4. CASE box' \in Resumed /\ \E a \in {att, None}, n \in {retries, 0} : Monitor(Residual, a, recovery, n)
  <2>1. PICK a \in {att, None}, n \in {retries, 0} : Monitor(Residual, a, recovery, n)
    BY <1>4
  <2>2. /\ box' \in [Helpers -> Boxes] /\ BoxKnown'
        /\ box'[Residual].st # "absent" /\ box'[Other(Residual)].st # "running"
    BY <1>1, <1>4, ResumedKnown
  <2>3. a \in Attempts \cup {None} /\ n \in 0 .. MaxRetries
    BY <1>3
  <2>4. act' = [pc |-> "monitor", name |-> Residual, att |-> a, recovery |-> recovery, retries |-> n]
    BY <2>1 DEF Monitor
  <2> HIDE DEF retries, att
  <2>5. /\ act' \in Acts /\ act'.pc = "monitor" /\ act'.name = Residual
        /\ act'.recovery = (act'.name = Recovery)
    BY <1>3, <2>3, <2>4 DEF Acts
  <2>6. act'.pc \in Watching /\ ActKnown' /\ OldIsNormal' /\ RecoveryThere'
    BY <2>5 DEF Watching, ActKnown, OldIsNormal, RecoveryThere
  <2>7. WatchesOne'
    BY <2>2, <2>5 DEF WatchesOne, Other
  <2>8. Alone'
    BY <2>5, <2>6, <2>7, WatchingAlone
  <2> QED
    BY <1>1, <1>2, <2>2, <2>5, <2>6, <2>8, BootKeeps
<1>5. CASE box' \in {box, Removed(Normal)} /\ Stage(att, retries)
  <2>1. act' = [pc |-> "stage", name |-> Recovery, att |-> att, recovery |-> TRUE, retries |-> retries]
    BY <1>5 DEF Stage
  <2> HIDE DEF retries, att
  <2>2. act' \in Acts /\ act'.pc = "stage" /\ act'.att = att
    BY <1>3, <2>1, BoxesThere DEF Acts
  <2>3. box' \in [Helpers -> Boxes] /\ BoxKnown' /\ OneInstaller'
    <3>1. CASE box' = box
      BY <3>1, BoxesKept
    <3>2. CASE box' = Removed(Normal)
      <4>1. box' \in [Helpers -> Boxes] /\ BoxKnown' /\ box'[Normal].st = "absent"
        BY <3>2, BoxSet, BoxesThere, NothingTyped DEF Removed
      <4> QED
        BY <4>1 DEF OneInstaller, Running
    <3> QED
      BY <1>5, <3>1, <3>2
  <2>4. ActKnown' /\ Alone'
    BY <1>3, <2>2, <2>3, StagingAlone DEF ActKnown
  <2> QED
    BY <1>1, <1>2, <2>2, <2>3, <2>4, BootKeeps
<1> QED
  BY <1>4, <1>5 DEF GuardResumes

LEMMA GuardStuckKeeps == Inv /\ GuardStuck => Inv'
<1> SUFFICES ASSUME Inv, GuardStuck PROVE Inv'
  OBVIOUS
<1>1. Boots /\ gate' = "self" /\ UNCHANGED box
  BY DEF GuardStuck
<1>2. CountsTyped'
  BY DEF GuardStuck, Boots, workerVars, Inv, TypeOK, CountsTyped
<1>3. act' \in Acts /\ act'.pc = "stuck"
  BY NothingTyped DEF GuardStuck, Acts
<1>4. box' \in [Helpers -> Boxes] /\ BoxKnown' /\ OneInstaller'
  BY <1>1, BoxesKept
<1>5. ActKnown' /\ Alone'
  BY <1>3, <1>4, StagingAlone DEF ActKnown
<1> QED
  BY <1>1, <1>2, <1>3, <1>4, <1>5, BootKeeps

\* No helper is there: what was recorded is looked at instead.
LEMMA GuardStartsKeeps == Inv /\ GuardStarts => Inv'
<1> SUFFICES ASSUME Inv, GuardStarts PROVE Inv'
  OBVIOUS
<1>1. Boots /\ gate' = "startup" /\ UNCHANGED box /\ NoFault
  BY DEF GuardStarts
<1>2. CountsTyped'
  BY <1>1, BootCounts
<1>3. act' \in Acts /\ act'.pc = "reconcile"
  BY NothingTyped DEF GuardStarts, Acts
<1>4. box' \in [Helpers -> Boxes] /\ BoxKnown'
  BY <1>1, BoxesKept
<1>5. box[Normal].st = "absent" /\ box[Recovery].st = "absent"
  BY BoxesThere DEF GuardStarts, Residual
<1>6. ActKnown' /\ Alone'
  BY <1>1, <1>3, <1>5, QuietAlone DEF ActKnown, Quiet
<1> QED
  BY <1>1, <1>2, <1>3, <1>4, <1>6, BootKeeps

LEMMA ReconcileKeeps == Inv /\ Reconcile => Inv'
<1> SUFFICES ASSUME Inv, Reconcile PROVE Inv'
  OBVIOUS
<1>1. /\ act.pc = "reconcile" /\ act' = NoAct /\ gate' = "open" /\ GuardOnly /\ UNCHANGED box
      /\ NoFault \/ Fault
      /\ box[Normal].st # "running" /\ box[Recovery].st # "running"
  BY DEF Reconcile, Inv, GuardSide, Alone, NoneRuns, Quiet
<1>2. Writes \/ Keep
  <2>1. CASE record.st = "pending"
    <3>1. /\ record.id \in Ids /\ record.target \in Versions \cup {None}
          /\ record.prev \in Versions \cup {None}
      BY <2>1 DEF Absent, Inv, TypeOK, RecordTyped, Records, WorkerSide, RecordKnown
    <3>2. \/ Keep
          \/ \E st \in {"succeeded", "failed"} :
               Write(Outcome(st, record.id, record.target, record.prev))
      BY DEF Reconcile
    <3> QED
      BY <3>1, <3>2, OutcomeWritten
  <2>2. CASE record.st # "pending"
    BY <2>2 DEF Reconcile
  <2> QED
    BY <2>1, <2>2
<1>3. box' \in [Helpers -> Boxes] /\ BoxKnown'
  BY <1>1, BoxesKept
<1> QED
  BY <1>1, <1>2, <1>3, GuardOpens

\* A guard that dies in the launch may leave a helper that no task watches.
LEMMA GuardDiesKeeps == Inv /\ GuardDies => Inv'
<1> SUFFICES ASSUME Inv, GuardDies PROVE Inv'
  OBVIOUS
<1>1. /\ GuardGone /\ Crash /\ Keep /\ post' = (IF post = "sent" THEN "broken" ELSE post)
      /\ UNCHANGED <<task, strays, updaterUp, job, jobs, stack, requests>>
  BY DEF GuardDies, Keep
<1>2. RecordTyped' /\ WorkerTyped' /\ WorkerSide'
  BY <1>1, PostBroken
<1>3. CountsTyped'
  BY <1>1, CountsKept DEF Inv, Counted
<1>4. box' \in [Helpers -> Boxes] /\ BoxKnown' /\ OneInstaller'
  <2>1. CASE UNCHANGED box
    BY <2>1, BoxesKept
  <2>2. CASE /\ act.pc = "launch"
             /\ LET b == Created(act.att, TRUE)
                IN  \E new \in {b, Started(b)} : box' = [box EXCEPT ![Normal] = new]
    <3>1. act.att \in Attempts /\ box[Recovery].st # "running"
      BY <2>2 DEF Inv, GuardSide, ActKnown, Alone, NoneRuns, Quiet
    <3>2. PICK new \in Boxes : /\ new.st # "absent" => new.att \in Attempts
                               /\ box' = [box EXCEPT ![Normal] = new]
      <4>1. PICK new \in {Created(act.att, TRUE), Started(Created(act.att, TRUE))} :
              box' = [box EXCEPT ![Normal] = new]
        BY <2>2
      <4>2. new \in Boxes /\ new.att \in Attempts
        <5> DEFINE b == Created(act.att, TRUE)
        <5>1. b \in Boxes /\ b.att = act.att /\ new \in {b, Started(b)}
          BY <3>1, <4>1, CreatedBox
        <5> HIDE DEF b
        <5> QED
          BY <3>1, <5>1, StartedBox
      <4> QED
        BY <4>1, <4>2
    <3>3. box' \in [Helpers -> Boxes] /\ BoxKnown' /\ box'[Recovery] = box[Recovery]
      BY <3>2, BoxSet, BoxesThere
    <3> QED
      BY <3>1, <3>3 DEF OneInstaller, Running
  <2> QED
    BY <2>1, <2>2 DEF GuardDies
<1>5. GuardTyped' /\ ActKnown' /\ GateOwned' /\ Alone'
  BY <1>1, <1>4, GuardGoneKnown
<1>6. DockerTyped'
  BY <1>1, <1>4 DEF Inv, TypeOK, DockerTyped
<1> QED
  BY <1>2, <1>3, <1>4, <1>5, <1>6, InvOfParts

-----------------------------------------------------------------------------
(***************************************************************************)
(* What holds in every scenario.                                           *)
(***************************************************************************)
LEMMA GuardingKeeps == Inv /\ Guarding => Inv'
  BY PrepareKeeps, LaunchKeeps, WatchKeeps, LaunchRecoveryKeeps, StopOldKeeps, StartRecoveryKeeps,
     RetryKeeps, RerunKeeps, UnidentifiedKeeps, GiveUpKeeps, PublishKeeps, OpenKeeps,
     StageRecoveryKeeps, RunStagedKeeps, GuardResumesKeeps, GuardStuckKeeps, GuardStartsKeeps,
     ReconcileKeeps
  DEF Guarding

LEMMA NextKeeps == Inv /\ [Next]_vars => Inv'
<1> SUFFICES ASSUME Inv, [Next]_vars PROVE Inv'
  OBVIOUS
<1>1. CASE Next
  BY <1>1, WorkerKeeps, LeaseKeeps, ReceiveKeeps, ReceiveStrayKeeps, GuardingKeeps, HelperKeeps,
     GuardDiesKeeps, WorkerDiesKeeps
  DEF Next
<1>2. CASE UNCHANGED vars
  <2>1. /\ Keep /\ NoFault /\ UNCHANGED <<requests, jobs>> /\ UNCHANGED workerVars
        /\ UNCHANGED <<guardVars, dockerVars>>
    BY <1>2 DEF vars, Keep, NoFault, boundVars, workerVars, guardVars, dockerVars
  <2>2. RecordTyped' /\ WorkerTyped' /\ WorkerSide' /\ CountsTyped'
    BY <2>1, WorkerKept, CountsKept DEF Inv, Counted
  <2> QED
    BY <2>1, <2>2, WorkerStep
<1> QED
  BY <1>1, <1>2

LEMMA Invariance == Spec => []Inv
  BY InitInv, NextKeeps, PTL DEF Spec

\* Every variable of the worker, the guard and the containers has its type in
\* every reachable state, whatever fails or dies.
THEOREM SelfUpdateTyped == Spec => []TypeOK
<1>1. Inv => TypeOK
  BY DEF Inv
<1> QED
  BY <1>1, Invariance, PTL

\* The helper and the recovery that replaces it never recreate the stack at once:
\* a task starts one only where it knows that the other does not run.
THEOREM SelfUpdateOneInstaller == Spec => []OneInstaller
<1>1. Inv => OneInstaller
  BY DEF Inv, GuardSide, Alone
<1> QED
  BY <1>1, Invariance, PTL

\* A guard that is up while a helper runs holds the gate for it and forwards no
\* other mutation: no step that knows a helper may run lets go of the gate.
THEOREM SelfUpdateGateHeld == Spec => []GateHeld
<1>1. Inv => GateHeld
  <2> SUFFICES ASSUME Inv, guard = "up", NEW name \in Helpers, Running(name)
               PROVE  gate = "self" /\ leases = 0
    BY DEF GateHeld
  <2>1. act.pc \notin Quiet /\ act.pc # "none"
    BY DEF Inv, GuardSide, Alone, NoneRuns, Running, Helpers
  <2>2. gate \in {"open", "self", "startup"} /\ act.pc # "reconcile"
    BY <2>1 DEF Inv, TypeOK, GuardTyped, Quiet
  <2> QED
    BY <2>1, <2>2 DEF Inv, GuardSide, GateOwned
<1> QED
  BY <1>1, Invariance, PTL

-----------------------------------------------------------------------------
(***************************************************************************)
(* Where no helper stays behind and no request arrives late.               *)
(***************************************************************************)
LEMMA Two ==
  /\ Normal \in Helpers /\ Recovery \in Helpers /\ Normal # Recovery
  /\ \A name \in Helpers : name = Normal \/ name = Recovery
  BY DEF Helpers, Normal, Recovery

\* Failures are counted, and what is spent stays spent.
LEMMA Counting ==
  ASSUME TypeOK, Counted
  PROVE  /\ Failures \in Nat /\ Failures' \in Nat /\ Failures' >= Failures
         /\ Fault \/ Crash => Failures' = Failures + 1
         /\ scenario' = scenario /\ (Clean => Clean')
  BY DEF TypeOK, CountsTyped, Counted, NoFault, Fault, Crash, boundVars, Failures, Clean

LEMMA InitTidy == Init => Tidy
<1> SUFFICES ASSUME Init PROVE Tidy
  OBVIOUS
<1>1. RecordSide
  BY DEF Init, RecordSide, RequestOpen, TaskTrue, JobTrue, Absent, NoTask
<1>2. /\ act.pc = "none" /\ guard = "up" /\ act.att = None /\ act.retries = 0 /\ ~act.recovery
      /\ \A name \in Helpers : box[name] = NoBox /\ ~There(name)
  BY DEF Init, NoAct, There, NoBox
<1>3. HandTrue
  BY <1>2 DEF HandTrue, InHand
<1>4. BoxSide
  BY <1>2, Two DEF BoxSide, OneAttempt, Handed, Cleared, Built, EndedWhole, SuccessBuilt, Watching, There, NoBox
<1>5. FailuresTrue
  BY <1>2, Two DEF Init, FailuresTrue, Failed, Recovering, Absent, There, NoBox
<1>6. StackTrue
  BY <1>2 DEF Init, StackTrue, WholeImages, Handed
<1> QED
  BY <1>1, <1>3, <1>4, <1>5, <1>6 DEF Tidy

\* Steps that leave the guard and the containers alone.
LEMMA WorkerTidy ==
  ASSUME Inv, Tidy, Counted, UNCHANGED <<guardVars, dockerVars>>, RecordSide',
         record' = record \/ ~InHand, record'.retries \in {0, record.retries}
  PROVE  Tidy'
<1> USE DEF guardVars, dockerVars
<1>1. HandTrue'
  BY DEF Tidy, HandTrue, InHand, Handed, There
<1>2. BoxSide'
  BY DEF Tidy, BoxSide, OneAttempt, Handed, Cleared, Before, Built, EndedWhole, SuccessBuilt, There, Images
<1>3. Failures \in Nat /\ Failures' \in Nat /\ Failures' >= Failures
  BY Counting DEF Inv
<1>4. record.retries \in Nat /\ act.retries \in Nat
  BY DEF Inv, TypeOK, RecordTyped, Records, GuardTyped, Acts, MaxRetries
<1>5. FailuresTrue'
  <2> HIDE DEF Failures
  <2> QED
    BY <1>3, <1>4 DEF Tidy, FailuresTrue, Failed, There, MaxRetries
<1>6. StackTrue'
  <2> HIDE DEF Failures
  <2> QED
    BY <1>3 DEF Tidy, StackTrue, There, Settled, Before, Handed, MaxRetries
<1> QED
  BY <1>1, <1>2, <1>5, <1>6 DEF Tidy

\* A request the worker still has is in no other hands.
LEMMA NotInHand ==
  ASSUME Tidy, record.st # "pending" \/ record.queued
  PROVE  ~InHand
  BY DEF Tidy, HandTrue

\* Its steps that write nothing.
LEMMA WorkerQuietTidy ==
  ASSUME Inv, Tidy, Counted, Keep, UNCHANGED <<guardVars, dockerVars, requests>>, TaskTrue', JobTrue'
  PROVE  Tidy'
<1>1. RecordSide'
  BY DEF Tidy, RecordSide, RequestOpen, Keep
<1> QED
  BY <1>1, WorkerTidy DEF Keep

LEMMA ScheduleTidy == Inv /\ Tidy /\ Schedule => Tidy'
<1> SUFFICES ASSUME Inv, Tidy, Schedule PROVE Tidy'
  OBVIOUS
<1>1. /\ record' = [Outcome("pending", requests + 1, None, stack[Updater]) EXCEPT !.queued = TRUE]
      /\ final' = final /\ requests' = requests + 1 /\ requests \in Nat
      /\ task'.pc = "choose" /\ UNCHANGED <<post, strays, job>> /\ job = "none" /\ Counted
      /\ UNCHANGED <<guardVars, dockerVars>>
  BY DEF Schedule, Write, Pending, Outcome, Inv, TypeOK, CountsTyped, NoTask, Counted
<1>2. /\ record'.id = requests + 1 /\ record'.st = "pending" /\ record'.queued
      /\ record'.retries = 0
  BY <1>1 DEF Outcome
<1>3. \A id \in final : id \in Nat /\ id <= requests
  BY DEF Tidy, RecordSide, RequestOpen, Inv, TypeOK, RecordTyped, Ids
<1>4. RequestOpen'
  BY <1>1, <1>2, <1>3 DEF RequestOpen
<1>5. post = "none"
  BY DEF Schedule, Tidy, RecordSide, TaskTrue
<1>6. TaskTrue' /\ JobTrue'
  BY <1>1, <1>2, <1>5 DEF Tidy, RecordSide, TaskTrue, JobTrue
<1> QED
  BY <1>1, <1>2, <1>4, <1>6, NotInHand, WorkerTidy DEF RecordSide, Schedule

\* The steps of the task that write nothing.
LEMMA TaskTidy ==
  ASSUME Inv, Clean, Tidy, Choose \/ Ask \/ Answered \/ Lose \/ Confirm \/ Failing
  PROVE  Tidy'
<1>1. Keep /\ Counted /\ UNCHANGED <<guardVars, dockerVars, requests, job>>
  BY DEF Choose, Ask, Answered, Lose, Confirm, Failing, Rest, Keep, Counted
<1>2. JobTrue'
  BY <1>1 DEF Keep, Tidy, RecordSide, JobTrue
<1>3. task \in Tasks /\ NoTask.pc = "done"
  BY NothingTyped DEF Inv, TypeOK, WorkerTyped
<1>4. TaskTrue
  BY DEF Tidy, RecordSide
<1>5. TaskTrue'
  <2>1. CASE Choose
    BY <1>3, <1>4, <2>1 DEF Choose, TaskTrue, Tasks
  <2>2. CASE Ask
    BY <1>3, <1>4, <2>2 DEF Ask, TaskTrue, Tasks
  <2>3. CASE Answered
    BY <1>3, <1>4, <2>3 DEF Answered, TaskTrue, Tasks
  <2>4. CASE Lose
    BY <1>3, <1>4, <2>4 DEF Lose, TaskTrue, Tasks, Clean
  <2>5. CASE Confirm
    BY <1>3, <1>4, <2>5 DEF Confirm, TaskTrue, Tasks
  <2>6. CASE Failing
    BY <1>3, <1>4, <2>6 DEF Failing, TaskTrue, Tasks
  <2> QED
    BY <2>1, <2>2, <2>3, <2>4, <2>5, <2>6
<1> QED
  BY <1>1, <1>2, <1>5, WorkerQuietTidy

LEMMA LookUpTidy == Inv /\ Tidy /\ LookUp => Tidy'
<1> SUFFICES ASSUME Inv, Tidy, LookUp PROVE Tidy'
  OBVIOUS
<1>1. /\ Counted /\ UNCHANGED <<guardVars, dockerVars, requests, job, post, strays>>
      /\ record.queued /\ record.st = "pending" /\ task.mine = record /\ post = "none"
      /\ task \in Tasks /\ record \in Records /\ job = "none" /\ strays = {}
  BY DEF LookUp, Rest, Counted, Tidy, RecordSide, TaskTrue, RequestOpen, JobTrue, Inv, TypeOK,
         RecordTyped, WorkerTyped
<1>2. CASE \E v \in Versions : /\ Write([task.mine EXCEPT !.target = v])
                              /\ task' = [task EXCEPT !.pc = "loop", !.mine.target = v]
  <2>1. PICK v \in Versions : /\ Write([task.mine EXCEPT !.target = v])
                              /\ task' = [task EXCEPT !.pc = "loop", !.mine.target = v]
    BY <1>2
  <2> DEFINE new == [record EXCEPT !.target = v]
  <2>2. new.st = "pending" /\ new.queued /\ new.id = record.id /\ new.retries = record.retries
    BY <1>1 DEF Records
  <2>3. Write(new)
    BY <1>1, <2>1
  <2>4. record' = new /\ final' = final
    BY <2>2, <2>3 DEF Write
  <2>5. task'.pc = "loop" /\ task'.mine = new
    BY <1>1, <2>1 DEF Tasks
  <2> HIDE DEF new
  <2>6. RequestOpen' /\ JobTrue'
    BY <1>1, <2>2, <2>4 DEF Tidy, RecordSide, RequestOpen, JobTrue
  <2>7. TaskTrue'
    BY <1>1, <2>2, <2>4, <2>5 DEF TaskTrue
  <2>8. ~InHand /\ record'.retries \in {0, record.retries}
    BY <1>1, <2>2, <2>4, NotInHand
  <2> QED
    BY <1>1, <2>6, <2>7, <2>8, WorkerTidy DEF RecordSide
<1>3. CASE task' = [task EXCEPT !.pc = "failing"] /\ Keep
  <2>1. task'.pc = "failing" /\ task'.mine = task.mine
    BY <1>1, <1>3 DEF Tasks
  <2>2. TaskTrue' /\ JobTrue'
    BY <1>1, <1>3, <2>1 DEF Keep, TaskTrue, JobTrue
  <2> QED
    BY <1>1, <1>3, <2>2, WorkerQuietTidy
<1> QED
  BY <1>2, <1>3 DEF LookUp, Keep

\* An outcome the worker publishes is that of the request it still has.
LEMMA PublishRefusedTidy == Inv /\ Tidy /\ PublishRefused => Tidy'
<1> SUFFICES ASSUME Inv, Tidy, PublishRefused PROVE Tidy'
  OBVIOUS
<1> DEFINE new == Outcome("failed", record.id, record.target, record.prev)
<1>1. /\ Counted /\ UNCHANGED <<guardVars, dockerVars, requests, job, post, strays>>
      /\ record.queued /\ record.st = "pending" /\ task.mine = record /\ task'.pc = "done"
      /\ Write(new) /\ strays = {} /\ post = "none"
  BY NothingTyped DEF PublishRefused, Rest, Counted, Tidy, RecordSide, TaskTrue, RequestOpen
<1>2. /\ new.id = record.id /\ new.st = "failed" /\ ~new.queued /\ new.retries = 0
      /\ record' = new /\ final' \subseteq final \cup {record.id}
  BY <1>1 DEF Outcome, Write
<1> HIDE DEF new
<1>3. RequestOpen' /\ JobTrue' /\ TaskTrue'
  BY <1>1, <1>2 DEF Tidy, RecordSide, RequestOpen, JobTrue, TaskTrue
<1> QED
  BY <1>1, <1>2, <1>3, NotInHand, WorkerTidy DEF RecordSide

LEMMA DismissTidy == Inv /\ Tidy /\ Dismiss => Tidy'
<1> SUFFICES ASSUME Inv, Tidy, Dismiss PROVE Tidy'
  OBVIOUS
<1>1. /\ Counted /\ UNCHANGED <<guardVars, dockerVars, requests, job, post, strays, task>>
      /\ record.st # "pending" /\ record' = Absent /\ final' = final /\ requests \in Nat
      /\ task.pc = "done"
  BY DEF Dismiss, Write, Absent, Rest, Counted, Inv, TypeOK, CountsTyped
<1>2. RequestOpen' /\ JobTrue' /\ TaskTrue'
  BY <1>1 DEF Tidy, RecordSide, RequestOpen, JobTrue, TaskTrue, Absent
<1>3. record'.retries = 0
  BY <1>1 DEF Absent
<1> QED
  BY <1>1, <1>2, <1>3, NotInHand, WorkerTidy DEF RecordSide

\* A job is admitted when no request is under way.
LEMMA JobTidy == Inv /\ Tidy /\ (Admit \/ Begin \/ Finish \/ WorkerStarts) => Tidy'
<1> SUFFICES ASSUME Inv, Tidy, Admit \/ Begin \/ Finish \/ WorkerStarts PROVE Tidy'
  OBVIOUS
<1>1. /\ Keep /\ Counted /\ UNCHANGED <<guardVars, dockerVars, requests, post, strays>>
  BY DEF Admit, Begin, Finish, WorkerStarts, Rest, Keep, Counted
<1>2. JobTrue'
  BY DEF Admit, Begin, Finish, WorkerStarts, Tidy, RecordSide, JobTrue
<1>3. \/ task' = task
      \/ task.pc = "done" /\ (task'.pc = "done" \/ (task'.pc = "choose" /\ record.queued))
  BY NothingTyped DEF Admit, Begin, Finish, WorkerStarts, NoTask, Inv, WorkerSide, TaskKnown
<1>4. TaskTrue'
  BY <1>1, <1>3 DEF Tidy, RecordSide, TaskTrue, Keep
<1> QED
  BY <1>1, <1>2, <1>4, WorkerQuietTidy

\* A worker that ends takes its request to the guard with it.
LEMMA WorkerGoneTidy ==
  ASSUME Clean, Tidy, WorkerGone, Keep, UNCHANGED requests
  PROVE  RecordSide'
  BY NothingTyped DEF Clean, Tidy, RecordSide, RequestOpen, TaskTrue, JobTrue, WorkerGone, Keep

LEMMA WorkerDiesTidy == Inv /\ Clean /\ Tidy /\ WorkerDies => Tidy'
  BY WorkerGoneTidy, WorkerTidy DEF WorkerDies, Keep, Counted

LEMMA WorkerStepsTidy == Inv /\ Clean /\ Tidy /\ (Worker \/ WorkerDies) => Tidy'
  BY ScheduleTidy, TaskTidy, LookUpTidy, PublishRefusedTidy, DismissTidy, JobTidy, WorkerDiesTidy
  DEF Worker

-----------------------------------------------------------------------------
\* Helpers.
\* What is written of a request in the guard's hands.
LEMMA HandRecords ==
  ASSUME Inv, Tidy, record.st = "pending", ~record.queued, UNCHANGED <<requests, job>>,
         Keep \/ \E new \in Records : Write(new) /\ new.id = record.id /\ ~new.queued,
         TaskTrue \/ ~record'.queued => TaskTrue'
  PROVE  RecordSide'
<1>1. RequestOpen'
  BY DEF Tidy, RecordSide, RequestOpen, Keep, Write
<1>2. JobTrue'
  BY DEF Tidy, RecordSide, JobTrue
<1> QED
  BY <1>1, <1>2 DEF Tidy, RecordSide

\* With the worker as it was.
LEMMA HandRecordsOnly ==
  ASSUME Inv, Tidy, record.st = "pending", ~record.queued, UNCHANGED <<requests, workerVars>>,
         Keep \/ \E new \in Records : Write(new) /\ new.id = record.id /\ ~new.queued
  PROVE  RecordSide'
<1>1. ~record'.queued
  BY DEF Keep, Write
<1>2. TaskTrue'
  BY <1>1 DEF Tidy, RecordSide, TaskTrue, workerVars
<1> QED
  BY <1>2, HandRecords DEF workerVars

\* A helper that runs has the request in hand, and the other one has not begun.
LEMMA RunningInHand ==
  ASSUME Inv, Tidy, NEW name \in Helpers, box[name].st = "running"
  PROVE  /\ InHand /\ There(name)
         /\ \A other \in Helpers : other # name => box[other].st \in {"absent", "created"}
         /\ ~Before /\ act.pc \notin {"publish", "cleanup"}
         /\ record.st = "pending" /\ ~record.queued /\ box[name].att.id = record.id
         /\ act.pc = "monitor" => act.recovery = (name = Recovery)
         /\ act.pc = "unidentified" => act.recovery = (name = Recovery)
<1>1. There(name) /\ ~Before /\ act.pc \notin {"publish", "cleanup"}
  BY Two DEF There, Tidy, BoxSide, Cleared, Inv, GuardSide, Alone, NoneRuns, Quiet
<1>2. InHand
  BY <1>1 DEF InHand, Before, Inv, TypeOK, GuardTyped
<1>3. \A other \in Helpers : other # name => box[other].st \in {"absent", "created"}
  BY <1>1, Two DEF Tidy, BoxSide, Cleared, There
<1>4. act.pc \in {"monitor", "unidentified"} => act.recovery = (name = Recovery)
  BY Two, BoxesThere DEF Inv, GuardSide, Alone, WatchesOne, Watching, Other
<1> QED
  BY <1>1, <1>2, <1>3, <1>4 DEF Tidy, HandTrue, Handed

\* A step of a helper: it runs on or ends, and what it builds is what it was
\* asked for; an end that is no success is a failure, and is counted.
LEMMA HelperTidy ==
  ASSUME Inv, Tidy, Counted, NEW name \in Helpers, box[name].st = "running",
         NEW b \in Boxes, b.att = box[name].att, b.st \in {"running", "exited"},
         box' = [box EXCEPT ![name] = b],
         b.st = "running" => ~b.ok, b.st = "exited" /\ b.ok => b.left = {},
         \/ b.st = "running" /\ b.pc = "up"
         \/ b.st = "exited" /\ b.ok
         => \A s \in Services \ b.left : stack'[s] = Images(name)[s],
         b.st = "exited" /\ ~b.ok => Fault \/ Crash,
         UNCHANGED guardVars \/ GuardGone,
         RecordSide', Keep \/ Write(HelperPending(name))
  PROVE  Tidy'
<1>1. /\ InHand /\ There(name)
      /\ \A other \in Helpers : other # name => box[other].st \in {"absent", "created"}
      /\ ~Before /\ act.pc \notin {"publish", "cleanup"}
      /\ record.st = "pending" /\ ~record.queued /\ box[name].att.id = record.id
      /\ act.pc = "monitor" => act.recovery = (name = Recovery)
      /\ act.pc = "unidentified" => act.recovery = (name = Recovery)
  BY RunningInHand
<1>2. /\ box'[name] = b
      /\ \A other \in Helpers : other # name => box'[other] = box[other]
      /\ box' \in [Helpers -> Boxes]
  BY BoxesThere
<1>3. /\ record'.st = "pending" /\ ~record'.queued /\ record'.id = record.id
      /\ record'.retries \in {0, record.retries}
  <2>1. CASE Keep
    BY <1>1, <2>1 DEF Keep
  <2>2. CASE Write(HelperPending(name))
    <3>1. /\ HelperPending(name).st = "pending" /\ ~HelperPending(name).queued
          /\ HelperPending(name).id = box[name].att.id
          /\ HelperPending(name).retries = Retries(box[name].att)
      BY DEF HelperPending, Pending, Outcome
    <3>2. record' = HelperPending(name)
      BY <2>2 DEF Write
    <3> QED
      BY <1>1, <3>1, <3>2 DEF Retries
  <2> QED
    BY <2>1, <2>2
<1>4. /\ \A other \in Helpers : box'[other].att = box[other].att /\ (There(other)' <=> There(other))
      /\ (act' = act /\ guard' = guard) \/ (act' = NoAct /\ guard' = "down")
  <2>1. \A other \in Helpers : box'[other].att = box[other].att /\ (There(other)' <=> There(other))
    BY <1>1, <1>2 DEF There
  <2>2. (act' = act /\ guard' = guard) \/ (act' = NoAct /\ guard' = "down")
    BY DEF guardVars, GuardGone
  <2> QED
    BY <2>1, <2>2
<1>5. NoAct.pc = "none" /\ NoAct.att = None /\ NoAct.retries = 0
  BY DEF NoAct
<1>6. Handed' \subseteq Handed
  BY <1>4, <1>5 DEF Handed
<1>7. HandTrue' /\ OneAttempt'
  BY <1>1, <1>3, <1>6 DEF Tidy, HandTrue, BoxSide, OneAttempt
<1>8. Cleared'
  <2>1. ~Before'
    BY <1>1, <1>4, <1>5 DEF Before
  <2>2. There(Normal)' => box'[Recovery].st \in {"absent", "created"}
    BY <1>1, <1>2, <1>4, Two DEF Tidy, BoxSide, Cleared, There
  <2>3. act.pc \in {"monitor", "unidentified"} => box'[act.name].st \in {"running", "exited"}
    BY <1>2, BoxesThere DEF Tidy, BoxSide, Cleared
  <2>4. Other(act.name) \in Helpers
    BY BoxesThere
  <2>5. CASE act' = act
    BY <1>4, <2>1, <2>2, <2>3, <2>4, <2>5, Two DEF Tidy, BoxSide, Cleared, Other
  <2>6. CASE act' = NoAct
    BY <1>5, <2>1, <2>2, <2>6 DEF Cleared, Watching
  <2> QED
    BY <1>4, <2>5, <2>6
<1>9. Built' /\ EndedWhole'
  <2>1. \A other \in Helpers : other # name => ~(box'[other].st \in {"running", "exited"})
    BY <1>1, <1>2
  <2>2. Images(name)' = Images(name)
    BY <1>2 DEF Images
  <2>3. Built'
    BY <1>2, <2>1, <2>2 DEF Built
  <2>4. EndedWhole'
    BY <1>2 DEF EndedWhole, Tidy, BoxSide
  <2> QED
    BY <2>3, <2>4
<1>10. SuccessBuilt'
  BY <1>1, <1>4, <1>5 DEF Tidy, BoxSide, SuccessBuilt
<1>11. FailuresTrue'
  <2>1. /\ Failures \in Nat /\ Failures' \in Nat /\ Failures' >= Failures
        /\ Fault \/ Crash => Failures' = Failures + 1
    BY Counting DEF Inv
  <2>2. record.retries \in Nat /\ act.retries \in Nat
    BY DEF Inv, TypeOK, RecordTyped, Records, GuardTyped, Acts, MaxRetries
  <2>3. \A other \in Helpers : Failed(other)' => other = name /\ (Fault \/ Crash)
    BY <1>1, <1>2 DEF Failed
  <2> HIDE DEF Failures
  <2>4. record'.retries > 0 => Failures' > record'.retries
    BY <1>3, <2>1, <2>2 DEF Tidy, FailuresTrue
  <2>5. Failed(Normal)' \/ There(Recovery)' \/ act'.pc = "launchRecovery" => Failures' > 0
    BY <1>4, <1>5, <2>1, <2>3, Two DEF Tidy, FailuresTrue
  <2>6. act' = act => FailuresTrue'
    <3> SUFFICES ASSUME act' = act PROVE FailuresTrue'
      OBVIOUS
    <3>1. Failed(Recovery)' /\ act.pc \in {"monitor", "unidentified", "none"} =>
            /\ act.pc # "none" => Failures' > act.retries + 1
            /\ Failures' > record'.retries + 1
      <4> SUFFICES ASSUME Failed(Recovery)', act.pc \in {"monitor", "unidentified", "none"}
                   PROVE  /\ act.pc # "none" => Failures' > act.retries + 1
                          /\ Failures' > record'.retries + 1
        OBVIOUS
      <4>1. name = Recovery /\ Failures' = Failures + 1
        BY <2>1, <2>3, Two
      <4>2. Failures > 0 /\ (record.retries > 0 => Failures > record.retries)
        BY <1>1, <4>1 DEF Tidy, FailuresTrue
      <4>3. act.pc # "none" => Failures > act.retries
        BY <1>1, <4>1 DEF Tidy, FailuresTrue
      <4> QED
        BY <1>3, <2>1, <2>2, <4>1, <4>2, <4>3
    <3>2. act.pc \in Recovering \/ (act.pc \in {"monitor", "unidentified"} /\ act.recovery) => Failures' > act.retries
      BY <2>1, <2>2 DEF Tidy, FailuresTrue
    <3>3. /\ act.pc = "retry" => Failures' > act.retries + 1
          /\ act.pc = "giveUp" => Failures' > MaxRetries + 1
      BY <2>1, <2>2 DEF Tidy, FailuresTrue, MaxRetries
    <3> QED
      BY <2>4, <2>5, <3>1, <3>2, <3>3 DEF FailuresTrue
  <2>7. act' = NoAct => FailuresTrue'
    <3> SUFFICES ASSUME act' = NoAct PROVE FailuresTrue'
      OBVIOUS
    <3>1. Failed(Recovery)' => Failures' > record'.retries + 1
      <4> SUFFICES ASSUME Failed(Recovery)' PROVE Failures' > record'.retries + 1
        OBVIOUS
      <4>1. name = Recovery /\ Failures' = Failures + 1
        BY <2>1, <2>3, Two
      <4>2. Failures > 0 /\ (record.retries > 0 => Failures > record.retries)
        BY <1>1, <4>1 DEF Tidy, FailuresTrue
      <4> QED
        BY <1>3, <2>1, <2>2, <4>1, <4>2
    <3> QED
      BY <1>5, <2>4, <2>5, <3>1 DEF FailuresTrue, Recovering
  <2> QED
    BY <1>4, <2>6, <2>7
<1>12. StackTrue'
  <2>1. /\ Failures \in Nat /\ Failures' \in Nat /\ Failures' >= Failures
    BY Counting DEF Inv
  <2> HIDE DEF Failures
  <2>2. ~Settled'
    BY <1>1, <1>4, <1>5, Two DEF Settled, Before
  <2> QED
    BY <1>6, <2>1, <2>2 DEF Tidy, StackTrue, MaxRetries
<1> QED
  BY <1>6, <1>7, <1>8, <1>9, <1>10, <1>11, <1>12 DEF Tidy, BoxSide

LEMMA HelperStepsTidy ==
  ASSUME Inv, Clean, Tidy, NEW name \in Helpers, Helper(name) \/ HelperFails(name) \/ HelperDies(name)
  PROVE  Tidy'
<1>1. box[name].st = "running" /\ box[name] \in Boxes /\ box \in [Helpers -> Boxes]
  BY BoxesThere
     DEF Helper, HelperBegins, HelperChecks, HelperReplaces, HelperEnds, HelperFails, HelperDies
<1>2. /\ record.st = "pending" /\ ~record.queued /\ box[name].att.id = record.id
      /\ HelperPending(name) \in Records
  BY <1>1, RunningInHand, RunningKnown
<1>3. HelperPending(name).id = record.id /\ ~HelperPending(name).queued
  BY <1>2 DEF HelperPending, Pending, Outcome
<1>4. Keep \/ Write(HelperPending(name)) =>
        Keep \/ \E new \in Records : Write(new) /\ new.id = record.id /\ ~new.queued
  BY <1>2, <1>3
<1>5. CASE HelperReplaces(name)
  <2> USE StackAssumption
  <2>1. PICK s \in box[name].left :
          /\ box' = [box EXCEPT ![name].left = @ \ {s}]
          /\ stack' = [stack EXCEPT ![s] = Images(name)[s]]
          /\ IF s = Guard
             THEN GuardGone /\ post' = (IF post = "sent" THEN "broken" ELSE post)
                  /\ UNCHANGED <<task, strays, updaterUp, job, jobs>>
             ELSE /\ UNCHANGED guardVars
                  /\ IF s = Updater THEN WorkerGone ELSE UNCHANGED workerVars
    BY <1>5 DEF HelperReplaces
  <2>2. Keep /\ NoFault /\ UNCHANGED requests /\ Counted
    BY <1>5 DEF HelperReplaces, Keep, Counted
  <2> DEFINE b == [box[name] EXCEPT !.left = box[name].left \ {s}]
  <2>3. /\ b \in Boxes /\ b.st = "running" /\ b.att = box[name].att /\ b.pc = box[name].pc
        /\ b.left = box[name].left \ {s} /\ b.ok = box[name].ok
    BY <1>1 DEF Boxes
  <2>4. box' = [box EXCEPT ![name] = b]
    BY <1>1, <2>1
  <2>5. RecordSide'
    <3>1. CASE s = Guard
      <4>1. TaskTrue'
        BY <2>1, <2>2, <3>1 DEF Tidy, RecordSide, TaskTrue, Keep
      <4> QED
        BY <1>2, <2>1, <2>2, <3>1, <4>1, HandRecords
    <3>2. CASE s # Guard /\ s = Updater
      BY <2>1, <2>2, <3>2, WorkerGoneTidy
    <3>3. CASE s # Guard /\ s # Updater
      BY <1>2, <2>1, <2>2, <3>3, HandRecordsOnly
    <3> QED
      BY <3>1, <3>2, <3>3
  <2>6. s \in Services /\ stack \in [Services -> Versions]
    BY <1>1, <2>1 DEF Boxes, Inv, TypeOK, DockerTyped
  <2>7. b.pc = "up" => \A t \in Services \ b.left : stack'[t] = Images(name)[t]
    BY <1>1, <2>1, <2>3, <2>6 DEF Tidy, BoxSide, Built
  <2>8. ~b.ok
    BY <1>1, <2>3 DEF Tidy, BoxSide, EndedWhole
  <2> HIDE DEF b
  <2> QED
    BY <1>1, <2>1, <2>2, <2>3, <2>4, <2>5, <2>7, <2>8, HelperTidy
<1>6. CASE ~HelperReplaces(name)
  <2>1. /\ Counted /\ (Keep \/ Write(HelperPending(name)))
        /\ UNCHANGED <<workerVars, guardVars, stack, requests>>
    BY <1>6 DEF Helper, HelperBegins, HelperChecks, HelperEnds, HelperFails, HelperDies, Keep, Counted
  <2>2. RecordSide'
    BY <1>2, <1>4, <2>1, HandRecordsOnly
  <2>3. PICK b \in Boxes :
          /\ box' = [box EXCEPT ![name] = b] /\ b.att = box[name].att
          /\ b.st \in {"running", "exited"}
          /\ b.st = "running" => ~b.ok
          /\ b.st = "exited" /\ b.ok => b.left = {}
          /\ b.st = "exited" /\ ~b.ok => Fault \/ Crash
          /\ b.st = "running" /\ b.pc = "up" => b.left = Services
          /\ b.st = "exited" /\ b.ok => box[name].pc = "up" /\ box[name].left = {}
    <3>1. \A ok \in BOOLEAN : Exit(name, ok) =>
            box' = [box EXCEPT ![name] = [box[name] EXCEPT !.st = "exited", !.ok = ok, !.left = {}]]
      BY <1>1 DEF Exit
    <3>2. \A ok \in BOOLEAN :
            LET b == [box[name] EXCEPT !.st = "exited", !.ok = ok, !.left = {}]
            IN  b \in Boxes /\ b.st = "exited" /\ b.ok = ok /\ b.left = {} /\ b.att = box[name].att
      BY <1>1 DEF Boxes
    <3>3. CASE Exit(name, FALSE) /\ (Fault \/ Crash)
      BY <3>1, <3>2, <3>3
    <3>4. CASE HelperEnds(name)
      BY <3>1, <3>2, <3>4 DEF HelperEnds
    <3>5. CASE HelperChecks(name)
      <4> DEFINE b == [box[name] EXCEPT !.pc = "up", !.left = Services]
      <4>1. box' = [box EXCEPT ![name] = b]
        BY <1>1, <3>5 DEF HelperChecks
      <4>2. /\ b \in Boxes /\ b.st = "running" /\ b.att = box[name].att /\ b.left = Services
            /\ b.ok = box[name].ok
        BY <1>1 DEF Boxes
      <4>3. ~b.ok
        BY <1>1, <4>2 DEF Tidy, BoxSide, EndedWhole
      <4> QED
        BY <4>1, <4>2, <4>3
    <3>6. CASE HelperBegins(name) /\ box' = [box EXCEPT ![name].pc = "check"]
      <4> DEFINE b == [box[name] EXCEPT !.pc = "check"]
      <4>1. box' = [box EXCEPT ![name] = b]
        BY <1>1, <3>6
      <4>2. /\ b \in Boxes /\ b.st = "running" /\ b.att = box[name].att /\ b.left = box[name].left
            /\ b.ok = box[name].ok /\ b.pc = "check"
        BY <1>1 DEF Boxes
      <4>3. ~b.ok
        BY <1>1, <4>2 DEF Tidy, BoxSide, EndedWhole
      <4> QED
        BY <4>1, <4>2, <4>3
    <3> QED
      BY <1>6, <3>3, <3>4, <3>5, <3>6 DEF Helper, HelperBegins, HelperFails, HelperDies
  <2>4. \/ b.st = "running" /\ b.pc = "up"
        \/ b.st = "exited" /\ b.ok
        => \A s \in Services \ b.left : stack'[s] = Images(name)[s]
    BY <1>1, <2>1, <2>3 DEF Tidy, BoxSide, Built
  <2>5. UNCHANGED guardVars
    BY <2>1
  <2> QED
    <3>1. /\ b.att = box[name].att /\ b.st \in {"running", "exited"}
          /\ box' = [box EXCEPT ![name] = b]
      BY <2>3
    <3>2. (b.st = "running" => ~b.ok) /\ (b.st = "exited" /\ b.ok => b.left = {})
      BY <2>3
    <3>3. b.st = "exited" /\ ~b.ok => Fault \/ Crash
      BY <2>3
    <3>4. Counted /\ (Keep \/ Write(HelperPending(name)))
      BY <2>1
    <3> QED
      BY <1>1, <2>2, <2>4, <2>5, <3>1, <3>2, <3>3, <3>4, HelperTidy
<1> QED
  BY <1>5, <1>6

-----------------------------------------------------------------------------
\* The task that owns the gate: what it does to a container is to remove, create, start or stop it.
Tame ==
  \A name \in Helpers :
    \/ box'[name] = box[name]
    \/ box'[name].st \in {"absent", "created"}
    \/ box'[name].st = "running" /\ box'[name].pc = "begin" /\ ~box'[name].ok
    \/ box'[name].st = "exited" /\ ~box'[name].ok

LEMMA GuardTidy ==
  ASSUME Inv, Tidy, Failures' \in Nat, Failures' >= Failures, stack' = stack, Tame, Handed' \subseteq Handed, RecordSide',
         InHand' => /\ InHand
                    /\ record'.st = "pending" /\ ~record'.queued /\ record'.id = record.id,
         Cleared', SuccessBuilt', FailuresTrue',
         Settled' => Settled \/ WholeImages(stack) \/ Failures > MaxRetries + 1
  PROVE  Tidy'
<1>1. HandTrue' /\ OneAttempt'
  BY DEF Tidy, HandTrue, BoxSide, OneAttempt
<1>2. Built' /\ EndedWhole'
  BY DEF Tidy, BoxSide, Built, EndedWhole, Tame, Images
<1>3. Failures \in Nat
  BY DEF Inv, TypeOK, CountsTyped, Failures
<1>4. StackTrue'
  <2> HIDE DEF Failures
  <2> QED
    BY <1>3 DEF Tidy, StackTrue, MaxRetries, WholeImages
<1> QED
  BY <1>1, <1>2, <1>4 DEF Tidy, BoxSide

\* A step that keeps the request in hand.
LEMMA GuardGoesOn ==
  ASSUME Inv, Tidy, Counted, GuardOnly \/ Boots, InHand, Tame, Handed' \subseteq Handed,
         \/ Keep
         \/ \E new \in Records : Write(new) /\ new.st = "pending" /\ new.id = record.id /\ ~new.queued,
         Cleared', SuccessBuilt', FailuresTrue',
         Settled' => Settled \/ WholeImages(stack) \/ Failures > MaxRetries + 1
  PROVE  Tidy'
<1>1. record.st = "pending" /\ ~record.queued
  BY DEF Tidy, HandTrue
<1>2. RecordSide'
  BY <1>1, HandRecordsOnly DEF GuardOnly, Boots
<1>3. record'.st = "pending" /\ ~record'.queued /\ record'.id = record.id
  BY <1>1 DEF Keep, Write
<1>4. Failures' \in Nat /\ Failures' >= Failures /\ stack' = stack
  BY Counting DEF Inv, GuardOnly, Boots
<1> QED
  BY <1>2, <1>3, <1>4, GuardTidy

\* A step that gives the gate back when nothing is there.
LEMMA GuardLetsGo ==
  ASSUME Inv, Tidy, Counted, GuardOnly, guard = "up", act' = NoAct, RecordSide',
         record'.retries \in {0, record.retries},
         ~There(Normal)', ~There(Recovery)', Settled
  PROVE  Tidy'
<1>1. /\ act'.pc = "none" /\ act'.att = None /\ ~act'.recovery /\ act'.retries = 0
      /\ ~There(Normal)' /\ ~There(Recovery)' /\ guard' = "up"
      /\ \A name \in Helpers : ~There(name)' /\ box'[name].st = "absent"
  BY Two DEF GuardOnly, NoAct, There
<1>2. ~InHand' /\ Handed' = {} /\ Tame
  BY <1>1 DEF InHand, Handed, Tame
<1>3. Cleared' /\ SuccessBuilt'
  BY <1>1, Two DEF Cleared, SuccessBuilt, Watching
<1>4. /\ Failures \in Nat /\ Failures' \in Nat /\ Failures' >= Failures /\ record.retries \in Nat
  BY Counting DEF Inv, TypeOK, RecordTyped, Records, MaxRetries
<1>5. FailuresTrue'
  <2> HIDE DEF Failures
  <2> QED
    BY <1>1, <1>4, Two DEF Tidy, FailuresTrue, Failed, Recovering
<1> QED
  BY <1>1, <1>2, <1>3, <1>4, <1>5, GuardTidy DEF GuardOnly

\* The fields of the task after a step.
LEMMA Stepped ==
  ASSUME Inv, NEW pc, Step(pc)
  PROVE  /\ act'.pc = pc /\ act'.name = act.name /\ act'.att = act.att
         /\ act'.recovery = act.recovery /\ act'.retries = act.retries
  BY BoxesThere DEF Step, Acts

LEMMA Monitored ==
  ASSUME NEW name, NEW att, NEW recovery, NEW retries, Monitor(name, att, recovery, retries)
  PROVE  /\ act'.pc = "monitor" /\ act'.name = name /\ act'.att = att
         /\ act'.recovery = recovery /\ act'.retries = retries
  BY DEF Monitor

LEMMA Staged ==
  ASSUME NEW att, NEW retries, Stage(att, retries)
  PROVE  /\ act'.pc = "stage" /\ act'.name = Recovery /\ act'.att = att
         /\ act'.recovery = TRUE /\ act'.retries = retries
  BY DEF Stage

LEMMA StartedFields ==
  ASSUME NEW b \in Boxes
  PROVE  /\ Started(b).st = "running" /\ Started(b).att = b.att /\ Started(b).pc = "begin"
         /\ ~Started(b).ok
  BY DEF Started, Boxes

\* Numbers.
LEMMA Numbers ==
  ASSUME Inv
  PROVE  /\ record.retries \in Nat /\ act.retries \in Nat /\ act.retries <= MaxRetries
         /\ MaxRetries = 2
  BY DEF Inv, TypeOK, RecordTyped, Records, GuardTyped, Acts, MaxRetries

\* A new attempt: nothing is there, and the stack is what it will go back to.
LEMMA NewAttempt ==
  ASSUME Inv, Tidy, Counted, UNCHANGED <<box, stack>>, Settled, ~There(Normal), ~There(Recovery),
         act'.pc \in {"prepare", "launch"}, act'.att.prev = stack, act'.att.id = record'.id,
         RecordSide', record'.st = "pending", ~record'.queued, record'.retries = 0
  PROVE  Tidy'
<1>1. /\ ~There(Normal)' /\ ~There(Recovery)' /\ (\A name \in Helpers : ~There(name)')
      /\ \A name \in Helpers : box'[name].st = "absent"
  BY Two DEF There
<1>2. Handed' \subseteq {act'.att}
  BY <1>1 DEF Handed
<1>3. HandTrue' /\ OneAttempt'
  BY <1>2 DEF HandTrue, OneAttempt
<1>4. Cleared' /\ Built' /\ EndedWhole' /\ SuccessBuilt'
  BY <1>1, Two DEF Cleared, Built, EndedWhole, SuccessBuilt, Watching
<1>5. /\ Failures \in Nat /\ Failures' \in Nat /\ Failures' >= Failures
  BY Counting DEF Inv
<1>6. FailuresTrue'
  BY <1>1, Two DEF FailuresTrue, Failed, Recovering
<1>7. StackTrue'
  <2> HIDE DEF Failures
  <2> QED
    <3>1. Failures' <= MaxRetries + 1 => WholeImages(stack)
      BY <1>5 DEF Tidy, StackTrue, MaxRetries
    <3>2. stack' = stack /\ \A att \in Handed' : att.prev = stack
      BY <1>2
    <3> QED
      BY <3>1, <3>2 DEF StackTrue
<1> QED
  BY <1>3, <1>4, <1>6, <1>7 DEF Tidy, BoxSide

\* The guard takes the request as it is recorded.
LEMMA AcceptTidy ==
  ASSUME Inv, Tidy, Counted, post = "sent", Accept(Message), post' = "accepted",
         UNCHANGED <<task, strays, job, dockerVars, requests>>
  PROVE  Tidy'
<1>1. /\ record.queued /\ task.mine = record /\ record.st = "pending" /\ task.pc = "await"
      /\ strays = {} /\ job = "none"
  BY DEF Tidy, RecordSide, TaskTrue, RequestOpen, JobTrue
<1> DEFINE new == Pending(record.id, record.target, record.prev)
<1>2. /\ new.id = record.id /\ new.st = "pending" /\ ~new.queued /\ new.retries = 0
  BY DEF Pending, Outcome
<1>3. /\ act'.pc = "prepare" /\ act'.att.id = record.id /\ act'.att.prev = stack
      /\ record' = new /\ final' = final
  BY <1>1, <1>2 DEF Accept, Write, Message, NoAct
<1>4. guard = "up" /\ act.pc = "none"
  BY DEF Accept, Inv, GuardSide, GateOwned
<1>5. Settled /\ ~There(Normal) /\ ~There(Recovery)
  BY <1>4 DEF Settled, Before, Tidy, BoxSide, Cleared
<1> HIDE DEF new
<1>6. RecordSide'
  BY <1>1, <1>2, <1>3 DEF Tidy, RecordSide, RequestOpen, TaskTrue, JobTrue
<1> QED
  BY <1>2, <1>3, <1>5, <1>6, NewAttempt DEF dockerVars

LEMMA ReceiveTidy == Inv /\ Tidy /\ Receive => Tidy'
<1> SUFFICES ASSUME Inv, Tidy, Receive PROVE Tidy'
  OBVIOUS
<1>1. Counted /\ post = "sent" /\ UNCHANGED <<task, strays, job, dockerVars, requests>>
  BY DEF Receive, Counted
<1>2. CASE Accept(Message) /\ post' = "accepted"
  BY <1>1, <1>2, AcceptTidy
<1>3. CASE post' \in {"busy", "refused"} /\ Keep /\ UNCHANGED guardVars
  <2>1. TaskTrue' /\ JobTrue'
    BY <1>1, <1>3 DEF Tidy, RecordSide, TaskTrue, JobTrue, Keep
  <2> QED
    BY <1>1, <1>3, <2>1, WorkerQuietTidy
<1> QED
  BY <1>2, <1>3 DEF Receive, Keep

LEMMA LeaseTidy == Inv /\ Tidy /\ (Acquire \/ Release \/ ReceiveStray) => Tidy'
<1> SUFFICES ASSUME Inv, Tidy, Acquire \/ Release PROVE Tidy'
  BY DEF ReceiveStray, Tidy, RecordSide, TaskTrue
<1>1. /\ Counted /\ Keep /\ UNCHANGED <<workerVars, requests, guard, act, dockerVars>>
  BY DEF Acquire, Release, Counted, Keep
<1>2. RecordSide'
  BY <1>1 DEF Keep, workerVars, Tidy, RecordSide, RequestOpen, TaskTrue, JobTrue
<1>3. Handed' = Handed /\ Tame /\ InHand' = InHand /\ Settled' = Settled
  BY <1>1 DEF dockerVars, Handed, There, Tame, InHand, Settled, Before
<1>4. Cleared' /\ SuccessBuilt'
  BY <1>1 DEF dockerVars, Tidy, BoxSide, Cleared, SuccessBuilt, There, Before
<1>5. /\ Failures \in Nat /\ Failures' \in Nat /\ Failures' >= Failures
  BY Counting, <1>1 DEF Inv
<1>6. FailuresTrue'
  <2> HIDE DEF Failures
  <2> QED
    BY <1>1, <1>5, Numbers DEF Keep, dockerVars, Tidy, FailuresTrue, Failed, There
<1> QED
  BY <1>1, <1>2, <1>3, <1>4, <1>5, <1>6, GuardTidy DEF dockerVars, Keep, Tidy, HandTrue

\* The attempts that are in hand.
LEMMA HandedKnown ==
  /\ act.att # None => act.att \in Handed
  /\ \A name \in Helpers : There(name) => box[name].att \in Handed
  BY DEF Handed

\* Nothing new is in hand.
LEMMA HandedKept ==
  ASSUME act'.att = None \/ act'.att \in Handed,
         \A name \in Helpers : There(name)' => box'[name].att \in Handed
  PROVE  Handed' \subseteq Handed
  BY DEF Handed

\* What is known in any step that has the request in hand.
LEMMA Counts ==
  ASSUME Inv, Tidy, Counted
  PROVE  /\ Failures \in Nat /\ Failures' \in Nat /\ Failures' >= Failures
         /\ Fault \/ Crash => Failures' = Failures + 1
         /\ record.retries > 0 => Failures > record.retries
         /\ Failed(Normal) \/ There(Recovery) => Failures > 0
  BY Counting DEF Inv, Tidy, FailuresTrue

\* Whom the task watches next.
LEMMA MonitorTidy ==
  ASSUME Inv, Tidy, Counted, GuardOnly \/ Boots, InHand, Tame, Handed' \subseteq Handed,
         \/ Keep
         \/ \E new \in Records : Write(new) /\ new.st = "pending" /\ new.id = record.id /\ ~new.queued,
         NEW name \in Helpers, NEW att, NEW recovery \in BOOLEAN, NEW retries \in Nat,
         Monitor(name, att, recovery, retries), recovery = (name = Recovery),
         box'[name].st \in {"running", "exited"}, ~There(Other(name))',
         record'.retries > 0 => Failures' > record'.retries,
         recovery => Failures' > retries,
         Failed(Normal)' => Failures' > 0,
         Failed(Recovery)' => Failures' > retries + 1 /\ Failures' > record'.retries + 1
  PROVE  Tidy'
<1>1. /\ act'.pc = "monitor" /\ act'.name = name /\ act'.att = att
      /\ act'.recovery = recovery /\ act'.retries = retries
  BY Monitored
<1>2. There(name)'
  BY DEF There
<1>3. Other(Normal) = Recovery /\ Other(Recovery) = Normal
  BY Two DEF Other
<1>4. Cleared'
  <2>1. There(Normal)' => ~There(Recovery)'
    BY <1>3, Two
  <2>2. There(Normal)' => box'[Recovery].st \in {"absent", "created"}
    BY <2>1 DEF There
  <2>3. ~There(Other(act.name))'
    BY <1>1 DEF Other, There
  <2>4. ~Before'
    BY <1>1 DEF Before
  <2> QED
    BY <1>1, <2>2, <2>3, <2>4 DEF Cleared
<1>5. SuccessBuilt' /\ ~Settled'
  BY <1>1 DEF SuccessBuilt, Settled, Before
<1>6. FailuresTrue'
  <2> HIDE DEF Failures
  <2>1. There(Recovery)' => Failures' > 0
    <3>1. name = Normal => box'[Recovery].st = "absent"
      BY <1>3 DEF There
    <3>2. name = Recovery => Failures' > retries
      OBVIOUS
    <3>3. Failures' \in Nat
      BY Counts
    <3> QED
      BY <3>1, <3>2, <3>3, Two DEF There
  <2> QED
    BY <1>1, <2>1 DEF FailuresTrue, Recovering
<1> QED
  BY <1>4, <1>5, <1>6, GuardGoesOn

\* The recovery is staged after a failure.
LEMMA StagingTidy ==
  ASSUME Inv, Tidy, Counted, GuardOnly \/ Boots, InHand, Keep,
         box' = box \/ (box' = Removed(Normal) /\ There(Recovery)),
         There(Normal) \/ There(Recovery),
         act'.pc = "stage", act'.att = None \/ act'.att \in Handed, Failures' > act'.retries
  PROVE  Tidy'
<1>1. act'.pc = "stage"
  OBVIOUS
<1>2. /\ box'[Recovery] = box[Recovery] /\ (There(Recovery)' <=> There(Recovery))
      /\ box'[Normal] = box[Normal] \/ box'[Normal] = NoBox
      /\ There(Normal)' => There(Normal)
      /\ There(Normal)' \/ There(Recovery)'
  BY Two, BoxesThere, NothingTyped DEF Removed, There
<1>3. Tame
  BY <1>2, Two, NothingTyped DEF Tame
<1>4. Handed' \subseteq Handed
  <2>1. \A name \in Helpers : There(name)' => There(name) /\ box'[name] = box[name]
    BY <1>2, Two, NothingTyped DEF There
  <2> QED
    BY <1>1, <2>1, HandedKept, HandedKnown
<1>5. Cleared'
  BY <1>1, <1>2, NothingTyped DEF Cleared, Before, Watching, Tidy, BoxSide, There
<1>6. SuccessBuilt' /\ ~Settled'
  BY <1>1 DEF SuccessBuilt, Settled, Before
<1>7. Failed(Normal)' => Failed(Normal)
  BY <1>2, NothingTyped DEF Failed
<1>8. FailuresTrue'
  <2>1. record' = record
    BY DEF Keep
  <2> HIDE DEF Failures
  <2> QED
    BY <1>1, <1>2, <1>7, <2>1, Counts, Numbers DEF FailuresTrue
<1> QED
  BY <1>3, <1>4, <1>5, <1>6, <1>8, GuardGoesOn

LEMMA StageTidy ==
  ASSUME Inv, Tidy, Counted, GuardOnly \/ Boots, InHand, Keep,
         box' = box \/ (box' = Removed(Normal) /\ There(Recovery)),
         There(Normal) \/ There(Recovery),
         NEW att, NEW retries \in Nat, Stage(att, retries), att = None \/ att \in Handed,
         Failures' > retries
  PROVE  Tidy'
  BY Staged, StagingTidy

LEMMA PrepareTidy == Inv /\ Tidy /\ Prepare => Tidy'
<1> SUFFICES ASSUME Inv, Tidy, Prepare PROVE Tidy'
  OBVIOUS
<1>1. /\ act.pc = "prepare" /\ GuardOnly /\ UNCHANGED box /\ Counted /\ act.att # None
      /\ act.att \in Attempts /\ act \in Acts
  BY NoneAssumption, BoxesThere DEF Prepare, Counted, Inv, GuardSide, ActKnown
<1>2. ~There(Normal) /\ ~There(Recovery) /\ Settled /\ InHand /\ guard = "up"
  BY <1>1 DEF Tidy, BoxSide, Cleared, Before, Settled, InHand, Inv, GuardSide, GateOwned, TypeOK,
              GuardTyped
<1>3. record.st = "pending" /\ ~record.queued /\ act.att.id = record.id
  BY <1>1, <1>2, HandedKnown DEF Tidy, HandTrue
<1> USE StackAssumption
<1>4. CASE FailBefore /\ Fault
  <2> DEFINE new == Outcome("failed", act.att.id, act.att.target, record.prev)
  <2>1. new \in Records /\ new.id = record.id /\ ~new.queued /\ new.retries = 0 /\ Write(new)
    <3>1. act.att.id \in Ids /\ act.att.target \in Versions \cup {None}
          /\ record.prev \in Versions \cup {None}
      BY <1>1, AttemptTyped DEF Inv, TypeOK, RecordTyped, Records
    <3>2. new \in Records
      BY <3>1, OutcomeTyped
    <3> QED
      BY <1>3, <1>4, <3>2 DEF Outcome, FailBefore
  <2> HIDE DEF new
  <2>2. RecordSide'
    BY <1>1, <1>3, <2>1, HandRecordsOnly DEF GuardOnly
  <2>3. act' = NoAct /\ record'.retries = 0 /\ ~There(Normal)' /\ ~There(Recovery)'
    BY <1>1, <1>2, <1>4, <2>1 DEF FailBefore, Write, There
  <2> QED
    BY <1>1, <1>2, <2>2, <2>3, GuardLetsGo
<1>5. CASE /\ Write([Pending(act.att.id, act.att.target, stack[Updater]) EXCEPT !.known = TRUE])
           /\ act' = [act EXCEPT !.pc = "launch", !.att.prev = stack]
           /\ NoFault /\ UNCHANGED gate
  <2> DEFINE pending == Pending(act.att.id, act.att.target, stack[Updater])
             new == [pending EXCEPT !.known = TRUE]
  <2>1. pending \in Records /\ pending.id = record.id /\ ~pending.queued /\ pending.retries = 0
        /\ pending.st = "pending"
    <3>1. act.att.id \in Ids /\ act.att.target \in Versions \cup {None}
          /\ stack[Updater] \in Versions \cup {None}
      BY <1>1, AttemptTyped DEF Inv, TypeOK, DockerTyped
    <3>2. pending \in Records
      BY <3>1, OutcomeTyped DEF Pending
    <3> QED
      BY <1>3, <3>2 DEF Outcome, Pending
  <2>2. Write(new)
    BY <1>5
  <2> HIDE DEF pending
  <2>3. new \in Records /\ new.id = record.id /\ ~new.queued /\ new.retries = 0 /\ new.st = "pending"
    BY <2>1 DEF Records
  <2>4. record' = new
    BY <2>2 DEF Write
  <2> HIDE DEF new
  <2>5. RecordSide'
    BY <1>1, <1>3, <2>2, <2>3, HandRecordsOnly DEF GuardOnly
  <2>6. act'.pc = "launch" /\ act'.att.prev = stack /\ act'.att.id = act.att.id
    BY <1>1, <1>5 DEF Acts, Attempts
  <2> QED
    BY <1>1, <1>2, <1>3, <2>3, <2>4, <2>5, <2>6, NewAttempt DEF GuardOnly
<1> QED
  BY <1>4, <1>5 DEF Prepare

LEMMA LaunchTidy == Inv /\ Clean /\ Tidy /\ Launch => Tidy'
<1> SUFFICES ASSUME Inv, Clean, Tidy, Launch PROVE Tidy'
  OBVIOUS
<1>1. /\ act.pc = "launch" /\ GuardOnly /\ Counted /\ act.att # None
      /\ act.att \in Attempts /\ act \in Acts /\ box \in [Helpers -> Boxes]
  BY NoneAssumption, BoxesThere DEF Launch, Counted, Inv, GuardSide, ActKnown
<1>2. ~There(Normal) /\ ~There(Recovery) /\ Settled /\ InHand /\ guard = "up"
  BY <1>1 DEF Tidy, BoxSide, Cleared, Before, Settled, InHand, Inv, GuardSide, GateOwned, TypeOK,
              GuardTyped
<1>3. record.st = "pending" /\ ~record.queued /\ act.att.id = record.id /\ act.att \in Handed
  BY <1>1, <1>2, HandedKnown DEF Tidy, HandTrue
<1>4. CASE FailBefore /\ Fault /\ box' = Removed(Normal)
  <2> DEFINE new == Outcome("failed", act.att.id, act.att.target, record.prev)
  <2>1. new \in Records /\ new.id = record.id /\ ~new.queued /\ new.retries = 0 /\ Write(new)
    <3>1. act.att.id \in Ids /\ act.att.target \in Versions \cup {None}
          /\ record.prev \in Versions \cup {None}
      BY <1>1, AttemptTyped DEF Inv, TypeOK, RecordTyped, Records
    <3>2. new \in Records
      BY <3>1, OutcomeTyped
    <3> QED
      BY <1>3, <1>4, <3>2 DEF Outcome, FailBefore
  <2> HIDE DEF new
  <2>2. RecordSide'
    BY <1>1, <1>3, <2>1, HandRecordsOnly DEF GuardOnly
  <2>3. ~There(Normal)' /\ ~There(Recovery)'
    BY <1>1, <1>2, <1>4, Two, NothingTyped DEF Removed, There
  <2>4. act' = NoAct /\ record'.retries = 0
    BY <1>4, <2>1 DEF FailBefore, Write
  <2> QED
    BY <1>1, <1>2, <2>2, <2>3, <2>4, GuardLetsGo
<1>5. CASE /\ box' = [box EXCEPT ![Normal] = Started(Created(act.att, FALSE))]
           /\ Watched(act.att) /\ NoFault /\ Keep
  <2> DEFINE b == Started(Created(act.att, FALSE))
  <2>1. b.st = "running" /\ b.att = act.att /\ b.pc = "begin" /\ ~b.ok
    <3>1. Created(act.att, FALSE) \in Boxes /\ Created(act.att, FALSE).att = act.att
      BY <1>1, CreatedBox
    <3> QED
      BY <3>1, StartedFields
  <2>2. box'[Normal] = b /\ box'[Recovery] = box[Recovery]
    BY <1>1, <1>5, Two
  <2> HIDE DEF b
  <2>3. Tame /\ ~There(Recovery)' /\ There(Normal)'
    BY <1>2, <2>1, <2>2, Two DEF Tame, There
  <2>4. Monitor(Normal, act.att, FALSE, 0)
    BY <1>5 DEF Watched
  <2>5. Handed' \subseteq Handed
    BY <1>3, <2>1, <2>2, <2>3, <2>4, Two, Monitored, HandedKept
  <2>6. ~Failed(Normal)' /\ ~Failed(Recovery)'
    BY <1>2, <2>1, <2>2 DEF Failed, There
  <2>7. record' = record /\ FALSE = (Normal = Recovery) /\ Other(Normal) = Recovery
    BY <1>5, Two DEF Keep, Other
  <2>8. ~There(Other(Normal))'
    BY <2>3, <2>7
  <2>9. record'.retries > 0 => Failures' > record'.retries
    BY <1>1, <2>7, Counts, Numbers
  <2> QED
    BY <1>1, <1>2, <1>5, <2>1, <2>2, <2>3, <2>4, <2>5, <2>6, <2>7, <2>8, <2>9, Two, MonitorTidy
<1> QED
  BY <1>2, <1>4, <1>5 DEF Launch, Clean, Occupied, There

\* A stack is the images of the helper that has built it.
LEMMA BuiltWhole ==
  ASSUME Inv, Tidy, NEW name \in Helpers, box[name].st = "exited", box[name].ok,
         Failures <= MaxRetries + 1
  PROVE  WholeImages(stack)
<1>1. There(name) /\ box[name].left = {} /\ box[name].att \in Attempts
  BY DEF There, Tidy, BoxSide, EndedWhole, Inv, GuardSide, BoxKnown
<1>2. \A s \in Services : stack[s] = Images(name)[s]
  BY <1>1 DEF Tidy, BoxSide, Built
<1>3. stack \in [Services -> Versions] /\ Images(name) \in [Services -> Versions]
  BY <1>1 DEF Images, Attempts, Inv, TypeOK, DockerTyped
<1>4. stack = Images(name)
  BY <1>2, <1>3
<1>5. CASE name = Recovery
  BY <1>1, <1>4, <1>5, HandedKnown DEF Images, Tidy, StackTrue
<1>6. CASE name # Recovery
  BY <1>1, <1>4, <1>6 DEF Images, WholeImages, Attempts
<1> QED
  BY <1>5, <1>6

\* Whatever is watched is not beside another.
LEMMA WatchedTidy ==
  ASSUME Inv, Tidy, act.pc = "monitor"
  PROVE  /\ act.name \in Helpers /\ box[act.name].st \in {"running", "exited"}
         /\ ~There(Other(act.name)) /\ act.recovery = (act.name = Recovery) /\ InHand
         /\ There(Normal) => ~There(Recovery)
<1>1. act.name \in Helpers /\ act.recovery = (act.name = Recovery)
  BY BoxesThere, WatchingKnown DEF Watching
<1>2. /\ box[act.name].st \in {"running", "exited"} /\ ~There(Other(act.name))
  BY DEF Tidy, BoxSide, Cleared, Watching
<1>3. There(Normal) => ~There(Recovery)
  BY <1>1, <1>2, Two DEF Other
<1> QED
  BY <1>1, <1>2, <1>3 DEF InHand

LEMMA WatchTidy == Inv /\ Clean /\ Tidy /\ Watch => Tidy'
<1> SUFFICES ASSUME Inv, Clean, Tidy, Watch PROVE Tidy'
  OBVIOUS
<1>1. /\ act.pc = "monitor" /\ act \in Acts /\ Counted /\ GuardOnly /\ UNCHANGED box /\ Keep
  BY BoxesThere DEF Watch, Same, Counted
<1>2. /\ act.name \in Helpers /\ box[act.name].st \in {"running", "exited"}
      /\ ~There(Other(act.name)) /\ act.recovery = (act.name = Recovery) /\ InHand
      /\ There(Normal) => ~There(Recovery)
  BY <1>1, WatchedTidy
<1>3. Tame /\ \A name : (There(name)' <=> There(name)) /\ (Failed(name)' <=> Failed(name))
  BY <1>1 DEF Tame, There, Failed
<1>4. /\ Failures \in Nat /\ Failures' \in Nat /\ Failures' >= Failures
      /\ Fault => Failures' = Failures + 1
      /\ record.retries \in Nat /\ act.retries \in Nat /\ act.retries <= 2 /\ MaxRetries = 2
      /\ record' = record
  BY <1>1, Counts, Numbers DEF Keep
<1>5. /\ act.recovery => Failures > act.retries
      /\ Failed(Recovery) => Failures > act.retries + 1 /\ Failures > record.retries + 1
      /\ record.retries > 0 => Failures > record.retries
      /\ Failed(Normal) \/ There(Recovery) => Failures > 0
  BY <1>1 DEF Tidy, FailuresTrue
<1>6. CASE \E r \in BOOLEAN :
             /\ act' = [act EXCEPT !.pc = "publish", !.recovery = r]
             /\ \/ r
                \/ act.name = Normal /\ box[Normal].st = "exited" /\ box[Normal].ok
             /\ WholeImages(stack) \/ Failures > MaxRetries + 1
  <2>1. PICK r \in BOOLEAN :
             /\ act' = [act EXCEPT !.pc = "publish", !.recovery = r]
             /\ \/ r
                \/ act.name = Normal /\ box[Normal].st = "exited" /\ box[Normal].ok
             /\ WholeImages(stack) \/ Failures > MaxRetries + 1
    BY <1>6
  <2>2. act'.pc = "publish" /\ act'.name = act.name /\ act'.att = act.att /\ act'.recovery = r
    BY <1>1, <2>1 DEF Acts
  <2>3. Handed' \subseteq Handed
    BY <1>1, <1>3, <2>2, HandedKept, HandedKnown
  <2>4. Cleared'
    BY <1>1, <1>2, <1>3, <2>2 DEF Cleared, Before, There, Other
  <2>5. SuccessBuilt'
    BY <1>1, <2>1, <2>2 DEF SuccessBuilt
  <2>6. FailuresTrue'
    <3> HIDE DEF Failures
    <3> QED
      BY <1>3, <1>4, <1>5, <2>2 DEF FailuresTrue, Recovering
  <2> QED
    BY <1>1, <1>2, <1>3, <2>1, <2>3, <2>4, <2>5, <2>6, GuardGoesOn
<1>7. CASE AfterFailure(FALSE) /\ (Failed(act.name) \/ Fault)
  <2> DEFINE pc == IF act.att = None THEN "unidentified"
                   ELSE IF ~act.recovery THEN "launchRecovery"
                   ELSE IF act.retries < MaxRetries THEN "retry" ELSE "giveUp"
  <2>1. Step(pc)
    BY <1>7 DEF AfterFailure
  <2>2. act'.pc = pc /\ act'.name = act.name /\ act'.att = act.att /\ act'.recovery = act.recovery
        /\ act'.retries = act.retries
    BY <2>1, Stepped
  <2>3. Handed' \subseteq Handed
    BY <1>1, <1>3, <2>2, HandedKept, HandedKnown
  <2>4. /\ pc \in {"unidentified", "launchRecovery", "retry", "giveUp"}
        /\ pc \in {"retry", "giveUp"} => act.recovery
        /\ pc = "launchRecovery" => ~act.recovery
        /\ pc = "giveUp" => act.retries >= 2
    BY <1>4
  <2> HIDE DEF pc
  <2>5. Cleared'
    BY <1>1, <1>2, <1>3, <2>2, <2>4 DEF Cleared, Before, There, Other
  <2>6. SuccessBuilt' /\ ~Settled'
    BY <2>2, <2>4 DEF SuccessBuilt, Settled, Before
  <2>7. FailuresTrue'
    <3> HIDE DEF Failures
    <3>1. act.recovery => Failures' > act.retries + 1
      <4>1. act.recovery => Failed(Recovery) \/ Fault
        BY <1>2, <1>7 DEF Failed
      <4> QED
        BY <1>4, <1>5, <4>1
    <3>2. ~act.recovery => Failures' > 0
      BY <1>2, <1>4, <1>5, <1>7, Two
    <3> QED
      BY <1>3, <1>4, <1>5, <2>2, <2>4, <3>1, <3>2 DEF FailuresTrue, Recovering
  <2> QED
    BY <1>1, <1>2, <1>3, <2>3, <2>5, <2>6, <2>7, GuardGoesOn
<1>8. CASE /\ box[act.name].st \in {"created", "exited"} /\ box[act.name].ok /\ Step("publish")
  <2>1. box[act.name].st = "exited" /\ box[act.name].ok
    BY <1>2, <1>8
  <2>2. WholeImages(stack) \/ Failures > MaxRetries + 1
    <3> HIDE DEF Failures
    <3> QED
      BY <1>2, <1>4, <2>1, BuiltWhole
  <2>3. act' = [act EXCEPT !.pc = "publish", !.recovery = act.recovery] /\ act.recovery \in BOOLEAN
    BY <1>1, <1>8 DEF Step, Acts
  <2>4. act.recovery \/ act.name = Normal
    BY <1>2, Two
  <2> QED
    BY <1>6, <2>1, <2>2, <2>3, <2>4
<1>9. CASE /\ AfterFailure(Restored) /\ (Failed(act.name) \/ Fault)
  <2>1. CASE Restored
    <3>1. act' = [act EXCEPT !.pc = "publish", !.recovery = TRUE]
      BY <1>9, <2>1 DEF AfterFailure
    <3>2. Failures <= MaxRetries + 1 => WholeImages(stack)
      BY <2>1, HandedKnown DEF Restored, Tidy, StackTrue
    <3>3. WholeImages(stack) \/ Failures > MaxRetries + 1
      <4> HIDE DEF Failures
      <4> QED
        BY <1>4, <3>2
    <3> QED
      BY <1>6, <3>1, <3>3
  <2>2. CASE ~Restored
    <3>1. AfterFailure(FALSE)
      BY <1>9, <2>2 DEF AfterFailure
    <3> QED
      BY <1>7, <1>9, <3>1
  <2> QED
    BY <2>1, <2>2
<1> QED
  <2>1. box[act.name].st # "running" /\ ~box[act.name].ok => Failed(act.name)
    BY <1>2 DEF Failed
  <2> QED
    BY <1>1, <1>7, <1>8, <1>9, <2>1 DEF Watch

\* The recovery is created beside the helper, which is then stopped.
LEMMA LaunchRecoveryTidy == Inv /\ Clean /\ Tidy /\ LaunchRecovery => Tidy'
<1> SUFFICES ASSUME Inv, Clean, Tidy, LaunchRecovery PROVE Tidy'
  OBVIOUS
<1>1. /\ act.pc = "launchRecovery" /\ act \in Acts /\ Counted /\ GuardOnly /\ Keep
      /\ act.att # None /\ act.att \in Attempts /\ InHand /\ act.name = Normal
      /\ record' = record /\ box \in [Helpers -> Boxes]
  BY BoxesThere, NoneAssumption
     DEF LaunchRecovery, Counted, Inv, GuardSide, ActKnown, Keep, InHand, Alone, OldIsNormal
<1>2. act.att \in Handed /\ ~There(Recovery) /\ There(Normal)
  <2>1. Other(Normal) = Recovery
    BY DEF Other
  <2>2. ~There(Recovery)
    BY <1>1, <2>1 DEF Tidy, BoxSide, Cleared, Watching
  <2>3. There(Normal)
    BY <1>1, WatchingKnown DEF Watching, There
  <2> QED
    BY <1>1, <2>2, <2>3, HandedKnown
<1>3. /\ Failures \in Nat /\ Failures' \in Nat /\ Failures' >= Failures /\ Failures > 0
      /\ record.retries > 0 => Failures > record.retries
      /\ record.retries \in Nat
  BY <1>1, Counts, Numbers DEF Tidy, FailuresTrue
<1>4. CASE Stage(act.att, 0) /\ UNCHANGED box
  <2>1. Failures' > 0
    <3> HIDE DEF Failures
    <3> QED
      BY <1>3
  <2> QED
    BY <1>1, <1>2, <1>4, <2>1, StageTidy
<1>5. CASE /\ Step("stopOld")
           /\ box' = [box EXCEPT ![Recovery] = Created(act.att, TRUE)]
  <2>1. /\ act'.pc = "stopOld" /\ act'.name = act.name /\ act'.att = act.att
        /\ act'.recovery = act.recovery /\ act'.retries = act.retries
    BY <1>5, Stepped
  <2>2. /\ box'[Normal] = box[Normal] /\ box'[Recovery].st = "created"
        /\ box'[Recovery].att = act.att
    <3>1. Created(act.att, TRUE).st = "created" /\ Created(act.att, TRUE).att = act.att
      BY <1>1, CreatedBox
    <3> QED
      BY <1>1, <1>5, <3>1, Two
  <2>3. Tame
    BY <2>2, Two DEF Tame
  <2>4. Handed' \subseteq Handed
    BY <1>2, <2>1, <2>2, Two, HandedKept, HandedKnown DEF There
  <2>5. Cleared' /\ SuccessBuilt' /\ ~Settled'
    BY <2>1, <2>2 DEF Cleared, SuccessBuilt, Settled, Before, Watching
  <2>6. FailuresTrue'
    <3> HIDE DEF Failures
    <3> QED
      BY <1>1, <1>3, <2>1, <2>2 DEF FailuresTrue, Recovering
  <2> QED
    BY <1>1, <2>3, <2>4, <2>5, <2>6, GuardGoesOn
<1> QED
  BY <1>4, <1>5 DEF LaunchRecovery

LEMMA StopOldTidy == Inv /\ Clean /\ Tidy /\ StopOld => Tidy'
<1> SUFFICES ASSUME Inv, Clean, Tidy, StopOld PROVE Tidy'
  OBVIOUS
<1>1. /\ act.pc = "stopOld" /\ act \in Acts /\ Counted /\ GuardOnly /\ Keep
      /\ act.att # None /\ act.att \in Attempts /\ InHand /\ act.name = Normal
      /\ record' = record /\ box \in [Helpers -> Boxes] /\ There(Recovery)
  BY BoxesThere, NoneAssumption
     DEF StopOld, Counted, Inv, GuardSide, ActKnown, Keep, InHand, Alone, OldIsNormal, RecoveryThere,
         There
<1>2. act.att \in Handed
  BY <1>1, HandedKnown
<1>3. /\ Failures \in Nat /\ Failures' \in Nat /\ Failures' >= Failures /\ Failures > 0
      /\ record.retries > 0 => Failures > record.retries
      /\ record.retries \in Nat
  BY <1>1, Counts, Numbers DEF Tidy, FailuresTrue
<1>4. CASE Stage(act.att, 0) /\ UNCHANGED box
  <2>1. Failures' > 0
    <3> HIDE DEF Failures
    <3> QED
      BY <1>3
  <2> QED
    BY <1>1, <1>2, <1>4, <2>1, StageTidy
<1>5. CASE /\ Step("startRecovery") /\ box' = [box EXCEPT ![Normal] = NoBox]
  <2>1. /\ act'.pc = "startRecovery" /\ act'.name = act.name /\ act'.att = act.att
        /\ act'.recovery = act.recovery /\ act'.retries = act.retries
    BY <1>5, Stepped
  <2>2. /\ box'[Normal].st = "absent" /\ box'[Recovery] = box[Recovery]
    BY <1>1, <1>5, Two, NothingTyped
  <2>3. Tame
    BY <2>2, Two DEF Tame
  <2>4. Handed' \subseteq Handed
    BY <1>2, <2>1, <2>2, Two, HandedKept, HandedKnown DEF There
  <2>5. Cleared' /\ SuccessBuilt' /\ ~Settled'
    BY <2>1, <2>2 DEF Cleared, SuccessBuilt, Settled, Before, Watching, There
  <2>6. FailuresTrue'
    <3> HIDE DEF Failures
    <3> QED
      BY <1>1, <1>3, <2>1, <2>2 DEF FailuresTrue, Recovering
  <2> QED
    BY <1>1, <2>3, <2>4, <2>5, <2>6, GuardGoesOn
<1> QED
  BY <1>1, <1>4, <1>5 DEF StopOld, CleanUp, Clean

LEMMA StartRecoveryTidy == Inv /\ Clean /\ Tidy /\ StartRecovery => Tidy'
<1> SUFFICES ASSUME Inv, Clean, Tidy, StartRecovery PROVE Tidy'
  OBVIOUS
<1>1. /\ act.pc = "startRecovery" /\ act \in Acts /\ Counted /\ GuardOnly /\ Keep
      /\ act.att # None /\ act.att \in Attempts /\ InHand
      /\ record' = record /\ box \in [Helpers -> Boxes] /\ There(Recovery) /\ ~There(Normal)
      /\ box[Recovery] \in Boxes
  BY BoxesThere, NoneAssumption
     DEF StartRecovery, Counted, Inv, GuardSide, ActKnown, Keep, InHand, Alone, RecoveryThere,
         There, Tidy, BoxSide, Cleared
<1>2. act.att \in Handed /\ box[Recovery].att \in Handed
  BY <1>1, HandedKnown, Two
<1>3. /\ Failures \in Nat /\ Failures' \in Nat /\ Failures' >= Failures /\ Failures > 0
      /\ record.retries > 0 => Failures > record.retries
      /\ record.retries \in Nat
  BY <1>1, Counts, Numbers DEF Tidy, FailuresTrue
<1>4. Failures' > 0 /\ (record'.retries > 0 => Failures' > record'.retries)
  <2> HIDE DEF Failures
  <2> QED
    BY <1>1, <1>3
<1>5. CASE Stage(act.att, 0) /\ UNCHANGED box
  BY <1>1, <1>2, <1>4, <1>5, StageTidy
<1>6. CASE box' = [box EXCEPT ![Recovery] = Started(@)] /\ Monitor(Recovery, act.att, TRUE, 0)
  <2>1. /\ box'[Recovery].st = "running" /\ box'[Recovery].att = box[Recovery].att
        /\ box'[Recovery].pc = "begin" /\ ~box'[Recovery].ok
        /\ box'[Normal] = box[Normal]
    BY <1>1, <1>6, Two, StartedFields
  <2>2. Tame /\ ~There(Normal)' /\ ~Failed(Normal)' /\ ~Failed(Recovery)'
    BY <1>1, <2>1, Two DEF Tame, There, Failed
  <2>3. Handed' \subseteq Handed
    BY <1>2, <1>6, <2>1, <2>2, Two, HandedKept, Monitored
  <2>4. ~There(Other(Recovery))' /\ TRUE = (Recovery = Recovery)
    BY <2>2, Two DEF Other
  <2> QED
    BY <1>1, <1>4, <1>6, <2>1, <2>2, <2>3, <2>4, Two, MonitorTidy
<1> QED
  BY <1>5, <1>6 DEF StartRecovery

\* What a recovery's attempt is recorded as.
LEMMA PersistOpen ==
  ASSUME Inv, Tidy, InHand, NEW att \in Attempts, att \in Handed, NEW retries \in 0 .. MaxRetries,
         Persist(att, retries)
  PROVE  /\ \E new \in Records : Write(new) /\ new.st = "pending" /\ new.id = record.id /\ ~new.queued
         /\ record'.retries = retries
<1> DEFINE old == IF Mine(att) THEN record ELSE Pending(att.id, att.target, att.prev[Updater])
           new == [old EXCEPT !.st = "pending", !.retries = retries]
<1>1. record \in Records /\ ~record.queued /\ att.id = record.id
  BY DEF Inv, TypeOK, RecordTyped, Tidy, HandTrue
<1>2. Pending(att.id, att.target, att.prev[Updater]) \in Records
  BY AttemptTyped, OutcomeTyped DEF Pending
<1>3. old \in Records /\ old.id = record.id /\ ~old.queued
  BY <1>1, <1>2 DEF Pending, Outcome
<1>4. Write(new)
  BY DEF Persist
<1> HIDE DEF old
<1>5. new \in Records /\ new.id = record.id /\ ~new.queued /\ new.st = "pending" /\ new.retries = retries
  BY <1>3 DEF Records
<1> HIDE DEF new
<1>6. record' = new
  BY <1>4 DEF Write
<1> QED
  BY <1>4, <1>5, <1>6

\* What a task that has the request in hand and watches a helper knows.
LEMMA WatchingTidy ==
  ASSUME Inv, Tidy, act.pc \in {"retry", "rerun", "unidentified", "giveUp"}
  PROVE  /\ InHand /\ act.name \in Helpers /\ act \in Acts /\ box \in [Helpers -> Boxes]
         /\ box[act.name] \in Boxes /\ There(act.name) /\ ~There(Other(act.name))
         /\ act.recovery = (act.name = Recovery)
         /\ act.pc # "unidentified" => act.recovery /\ act.name = Recovery /\ ~There(Normal)
         /\ There(Normal) \/ There(Recovery)
         /\ act.pc # "unidentified" => act.att # None /\ act.att \in Attempts /\ act.att \in Handed
         /\ box[act.name].att \in Handed
<1>1. InHand /\ act.pc \in Watching
  BY DEF InHand, Watching
<1>2. /\ act.name \in Helpers /\ act \in Acts /\ box \in [Helpers -> Boxes] /\ box[act.name] \in Boxes
  BY BoxesThere
<1>3. There(act.name) /\ act.recovery = (act.name = Recovery)
  BY <1>1, WatchingKnown DEF There
<1>4. ~There(Other(act.name))
  BY <1>1 DEF Tidy, BoxSide, Cleared
<1>5. act.pc # "unidentified" => act.recovery
  BY DEF Tidy, BoxSide, SuccessBuilt
<1>6. act.pc # "unidentified" => act.name = Recovery
  BY <1>3, <1>5
<1>7. act.pc # "unidentified" => ~There(Normal)
  BY <1>4, <1>6 DEF Other
<1>8. There(Normal) \/ There(Recovery)
  BY <1>2, <1>3, Two
<1>9. act.pc # "unidentified" => act.att # None /\ act.att \in Attempts
  BY NoneAssumption DEF Inv, GuardSide, ActKnown
<1> QED
  BY <1>1, <1>2, <1>3, <1>4, <1>5, <1>6, <1>7, <1>8, <1>9, HandedKnown

LEMMA RetryTidy == Inv /\ Clean /\ Tidy /\ Retry => Tidy'
<1> SUFFICES ASSUME Inv, Clean, Tidy, Retry PROVE Tidy'
  OBVIOUS
<1>1. /\ act.pc = "retry" /\ Counted /\ GuardOnly /\ UNCHANGED box /\ act.retries + 1 \in 0 .. MaxRetries
  BY Numbers DEF Retry, Same, Counted, Inv, GuardSide, ActKnown
<1>2. /\ InHand /\ act.name = Recovery /\ There(Recovery) /\ ~There(Normal)
      /\ act.att # None /\ act.att \in Attempts /\ act.att \in Handed /\ act \in Acts
      /\ act.recovery
  BY <1>1, WatchingTidy
<1>3. /\ Failures \in Nat /\ Failures' \in Nat /\ Failures' >= Failures
      /\ Failures > act.retries + 1 /\ act.retries \in Nat
  BY <1>1, Counts, Numbers DEF Tidy, FailuresTrue
<1>4. Failures' > act.retries + 1 /\ Failures' > 0
  <2> HIDE DEF Failures
  <2> QED
    BY <1>3
<1>5. CASE Stage(act.att, act.retries + 1) /\ Keep
  BY <1>1, <1>2, <1>3, <1>4, <1>5, StageTidy
<1>6. CASE /\ Persist(act.att, act.retries + 1)
           /\ act' = [act EXCEPT !.pc = "rerun", !.retries = @ + 1]
  <2>1. /\ act'.pc = "rerun" /\ act'.name = act.name /\ act'.att = act.att
        /\ act'.recovery = act.recovery /\ act'.retries = act.retries + 1
    BY <1>2, <1>6 DEF Acts
  <2>2. Tame /\ \A name : (There(name)' <=> There(name)) /\ (Failed(name)' <=> Failed(name))
    BY <1>1 DEF Tame, There, Failed
  <2>3. Handed' \subseteq Handed
    BY <1>1, <1>2, <2>1, <2>2, HandedKept, HandedKnown
  <2>4. /\ \E new \in Records : Write(new) /\ new.st = "pending" /\ new.id = record.id /\ ~new.queued
        /\ record'.retries = act.retries + 1
    BY <1>1, <1>2, <1>6, PersistOpen
  <2>5. Cleared' /\ SuccessBuilt' /\ ~Settled'
    BY <1>2, <2>1, <2>2
       DEF Cleared, SuccessBuilt, Settled, Before, Watching, There, Other
  <2>6. FailuresTrue'
    <3> HIDE DEF Failures
    <3> QED
      BY <1>3, <1>4, <2>1, <2>2, <2>4 DEF FailuresTrue, Recovering
  <2> QED
    BY <1>1, <1>2, <2>2, <2>3, <2>4, <2>5, <2>6, GuardGoesOn
<1> QED
  BY <1>5, <1>6 DEF Retry, Keep

LEMMA RerunTidy == Inv /\ Clean /\ Tidy /\ Rerun => Tidy'
<1> SUFFICES ASSUME Inv, Clean, Tidy, Rerun PROVE Tidy'
  OBVIOUS
<1>1. /\ act.pc = "rerun" /\ Counted /\ GuardOnly /\ Keep
  BY DEF Rerun, Counted
<1>2. /\ InHand /\ act.name = Recovery /\ There(Recovery) /\ ~There(Normal)
      /\ act.att # None /\ act.att \in Attempts /\ act.att \in Handed /\ act \in Acts
      /\ act.recovery /\ box[Recovery] \in Boxes /\ box \in [Helpers -> Boxes]
      /\ box[Recovery].att \in Handed
  BY <1>1, WatchingTidy
<1>3. /\ Failures \in Nat /\ Failures' \in Nat /\ Failures' >= Failures
      /\ Failures > act.retries /\ act.retries \in Nat
      /\ record.retries > 0 => Failures > record.retries
      /\ record.retries \in Nat /\ record' = record
  BY <1>1, Counts, Numbers DEF Tidy, FailuresTrue, Recovering, Keep
<1>4. Failures' > act.retries /\ Failures' > 0 /\ (record'.retries > 0 => Failures' > record'.retries)
  <2> HIDE DEF Failures
  <2> QED
    BY <1>3
<1>5. CASE Stage(act.att, act.retries) /\ UNCHANGED box
  BY <1>1, <1>2, <1>3, <1>4, <1>5, StageTidy
<1>6. CASE box' = [box EXCEPT ![act.name] = Started(@)] /\ Step("monitor")
  <2>1. /\ box'[Recovery].st = "running" /\ box'[Recovery].att = box[Recovery].att
        /\ box'[Recovery].pc = "begin" /\ ~box'[Recovery].ok
        /\ box'[Normal] = box[Normal]
    BY <1>2, <1>6, Two, StartedFields
  <2>2. Tame /\ ~There(Normal)' /\ ~Failed(Normal)' /\ ~Failed(Recovery)'
    BY <1>2, <2>1, Two DEF Tame, There, Failed
  <2>3. Monitor(Recovery, act.att, TRUE, act.retries)
    BY <1>2, <1>6 DEF Step, Monitor, Acts
  <2>4. Handed' \subseteq Handed
    BY <1>2, <2>1, <2>2, <2>3, Two, HandedKept, Monitored
  <2>5. ~There(Other(Recovery))' /\ TRUE = (Recovery = Recovery)
    BY <2>2, Two DEF Other
  <2> QED
    BY <1>1, <1>2, <1>3, <1>4, <2>1, <2>2, <2>3, <2>4, <2>5, Two, MonitorTidy
<1> QED
  BY <1>5, <1>6 DEF Rerun

\* The guard tries again to read what the helper was asked.
LEMMA UnidentifiedTidy == Inv /\ Clean /\ Tidy /\ Unidentified => Tidy'
<1> SUFFICES ASSUME Inv, Clean, Tidy, Unidentified PROVE Tidy'
  OBVIOUS
<1> DEFINE att == box[act.name].att
           retries == IF act.recovery THEN Retries(att) ELSE 0
<1>1. /\ act.pc = "unidentified" /\ Counted /\ GuardOnly /\ Keep /\ UNCHANGED box
      /\ Monitor(act.name, att, act.recovery, retries)
  BY DEF Unidentified, Counted, Same
<1>2. /\ InHand /\ act.name \in Helpers /\ act \in Acts /\ There(act.name)
      /\ ~There(Other(act.name)) /\ act.recovery = (act.name = Recovery) /\ att \in Handed
  BY <1>1, WatchingTidy
<1>3. box[act.name].st \in {"running", "exited"} /\ act.recovery \in BOOLEAN
  BY <1>1, <1>2 DEF Tidy, BoxSide, Cleared, Acts
<1>4. /\ Failures \in Nat /\ Failures' \in Nat /\ Failures' >= Failures
      /\ record.retries > 0 => Failures > record.retries
      /\ Failed(Normal) \/ There(Recovery) => Failures > 0
      /\ Failed(Recovery) => Failures > record.retries + 1
      /\ record.retries \in Nat /\ record' = record
  BY <1>1, Counts, Numbers DEF Tidy, FailuresTrue, Keep
<1>5. Tame /\ \A name : (There(name)' <=> There(name)) /\ (Failed(name)' <=> Failed(name))
  BY <1>1 DEF Tame, There, Failed
<1>6. retries \in Nat /\ retries \in {0, record.retries}
  BY <1>4 DEF Retries
<1> HIDE DEF att, retries
<1>7. Handed' \subseteq Handed
  BY <1>1, <1>2, <1>5, HandedKept, HandedKnown, Monitored
<1>8. act.recovery => There(Recovery)
  BY <1>2
<1>9. /\ record'.retries > 0 => Failures' > record'.retries
      /\ act.recovery => Failures' > retries
      /\ Failed(Normal)' => Failures' > 0
      /\ Failed(Recovery)' => Failures' > retries + 1 /\ Failures' > record'.retries + 1
  <2> HIDE DEF Failures
  <2> QED
    BY <1>4, <1>5, <1>6, <1>8
<1>10. PICK name \in Helpers : name = act.name
  BY <1>2
<1>11. box'[name].st \in {"running", "exited"} /\ ~There(Other(name))'
  BY <1>1, <1>2, <1>3, <1>10 DEF There
<1> QED
  BY <1>1, <1>2, <1>3, <1>5, <1>6, <1>7, <1>9, <1>10, <1>11, MonitorTidy

LEMMA GiveUpTidy == Inv /\ Clean /\ Tidy /\ GiveUp => Tidy'
<1> SUFFICES ASSUME Inv, Clean, Tidy, GiveUp PROVE Tidy'
  OBVIOUS
<1>1. /\ act.pc = "giveUp" /\ Counted /\ GuardOnly /\ Keep
  BY DEF GiveUp, Counted
<1>2. /\ InHand /\ act.name = Recovery /\ There(Recovery) /\ ~There(Normal)
      /\ act.att # None /\ act.att \in Attempts /\ act.att \in Handed /\ act \in Acts
      /\ act.recovery /\ box[Recovery] \in Boxes /\ box \in [Helpers -> Boxes]
      /\ box[Recovery].att \in Handed
  BY <1>1, WatchingTidy
<1>3. /\ Failures \in Nat /\ Failures' \in Nat /\ Failures' >= Failures
      /\ Failures > MaxRetries + 1 /\ act.retries \in Nat /\ act.retries <= MaxRetries
      /\ record.retries > 0 => Failures > record.retries
      /\ record.retries \in Nat /\ record' = record /\ MaxRetries = 2
  BY <1>1, Counts, Numbers DEF Tidy, FailuresTrue, Keep
<1>4. Failures' > act.retries /\ Failures' > 0 /\ (record'.retries > 0 => Failures' > record'.retries)
  <2> HIDE DEF Failures
  <2> QED
    BY <1>3
<1>5. CASE Stage(act.att, act.retries) /\ UNCHANGED box
  BY <1>1, <1>2, <1>3, <1>4, <1>5, StageTidy
<1>6. CASE Step("publish") /\ box' = [box EXCEPT ![act.name] = Stopped(@)]
  <2>1. /\ act'.pc = "publish" /\ act'.name = act.name /\ act'.att = act.att
        /\ act'.recovery = act.recovery /\ act'.retries = act.retries
    BY <1>6, Stepped
  <2>2. /\ box'[Normal] = box[Normal] /\ box'[Recovery].att = box[Recovery].att
        /\ \/ box'[Recovery] = box[Recovery]
           \/ box'[Recovery].st = "exited" /\ ~box'[Recovery].ok
    BY <1>2, <1>6, Two DEF Stopped, Boxes
  <2>3. Tame /\ ~There(Normal)' /\ ~Failed(Normal)'
    BY <1>2, <2>2, Two DEF Tame, There, Failed
  <2>4. Handed' \subseteq Handed
    BY <1>2, <2>1, <2>2, <2>3, Two, HandedKept
  <2>5. Cleared' /\ SuccessBuilt'
    BY <1>2, <2>1, <2>3
       DEF Cleared, SuccessBuilt, Before, Watching, There, Other
  <2>6. FailuresTrue'
    <3> HIDE DEF Failures
    <3> QED
      BY <1>4, <2>1, <2>3 DEF FailuresTrue, Recovering
  <2> QED
    BY <1>1, <1>2, <1>3, <2>3, <2>4, <2>5, <2>6, GuardGoesOn
<1> QED
  BY <1>5, <1>6 DEF GiveUp

\* Steps that leave the record and the worker alone.
LEMMA RecordSideKept ==
  ASSUME Tidy, Keep, UNCHANGED <<workerVars, requests>>
  PROVE  RecordSide'
  BY DEF workerVars, Keep, Tidy, RecordSide, RequestOpen, TaskTrue, JobTrue

LEMMA PublishTidy == Inv /\ Clean /\ Tidy /\ Publish => Tidy'
<1> SUFFICES ASSUME Inv, Clean, Tidy, Publish PROVE Tidy'
  OBVIOUS
<1>1. /\ act.pc = "publish" /\ Counted /\ GuardOnly /\ UNCHANGED box /\ act \in Acts
      /\ InHand /\ Settled
      /\ act'.pc = "cleanup" /\ act'.name = act.name /\ act'.att = act.att
      /\ act'.recovery = act.recovery /\ act'.retries = act.retries
  BY Stepped, BoxesThere DEF Publish, Counted, Same, InHand, Settled
<1>2. record.st = "pending" /\ ~record.queued
  BY <1>1 DEF Tidy, HandTrue
<1>3. RecordSide' /\ record'.retries \in {0, record.retries}
  <2>1. CASE Keep
    BY <1>1, <2>1, RecordSideKept DEF GuardOnly, Keep
  <2>2. CASE act.att # None
    <3> USE StackAssumption
    <3> DEFINE st == IF act.recovery THEN "failed" ELSE "succeeded"
               new == Outcome(st, act.att.id, act.att.target, act.att.prev[Updater])
    <3>1. act.att \in Attempts /\ act.att.id = record.id
      BY <1>1, <2>2, HandedKnown DEF Acts, Tidy, HandTrue
    <3>2. /\ act.att.id \in Ids /\ act.att.target \in Versions \cup {None}
          /\ act.att.prev[Updater] \in Versions \cup {None}
      BY <3>1, AttemptTyped
    <3>3. st \in {"pending", "succeeded", "failed"}
      OBVIOUS
    <3>4. new \in Records /\ new.id = record.id
      BY <3>1, <3>2, <3>3, OutcomeTyped
    <3>5. ~new.queued /\ new.retries = 0
      BY DEF Outcome
    <3>6. Write(new)
      BY <2>2 DEF Publish
    <3> HIDE DEF new
    <3>7. RecordSide'
      BY <1>1, <1>2, <3>4, <3>5, <3>6, HandRecordsOnly DEF GuardOnly
    <3> QED
      BY <3>5, <3>6, <3>7 DEF Write
  <2> QED
    BY <2>1, <2>2 DEF Publish
<1>4. Tame /\ \A name : (There(name)' <=> There(name)) /\ (Failed(name)' <=> Failed(name))
  BY <1>1 DEF Tame, There, Failed
<1>5. Handed' \subseteq Handed
  BY <1>1, <1>4, HandedKept, HandedKnown
<1>6. Cleared' /\ SuccessBuilt' /\ ~InHand'
  BY <1>1 DEF Tidy, BoxSide, Cleared, SuccessBuilt, Before, There, Other, InHand
<1>7. /\ Failures \in Nat /\ Failures' \in Nat /\ Failures' >= Failures /\ record.retries \in Nat
  BY <1>1, Counts, Numbers
<1>8. FailuresTrue'
  <2> HIDE DEF Failures
  <2> QED
    BY <1>1, <1>3, <1>4, <1>7 DEF Tidy, FailuresTrue, Recovering
<1> QED
  BY <1>1, <1>3, <1>4, <1>5, <1>6, <1>7, <1>8, GuardTidy DEF GuardOnly

LEMMA OpenTidy == Inv /\ Clean /\ Tidy /\ Open => Tidy'
<1> SUFFICES ASSUME Inv, Clean, Tidy, Open PROVE Tidy'
  OBVIOUS
<1>1. /\ act.pc = "cleanup" /\ Counted /\ GuardOnly /\ Keep /\ act' = NoAct
      /\ box' = [box EXCEPT ![act.name] = NoBox] /\ Settled
  BY DEF Open, Counted, CleanUp, Clean, Settled
<1>2. guard = "up"
  BY <1>1 DEF Inv, GuardSide, GateOwned, TypeOK, GuardTyped
<1>3. RecordSide' /\ record' = record
  BY <1>1, RecordSideKept DEF GuardOnly, Keep
<1>4. ~There(Normal)' /\ ~There(Recovery)'
  BY <1>1, BoxesThere, NothingTyped, Two DEF Tidy, BoxSide, Cleared, There, Other
<1> QED
  BY <1>1, <1>2, <1>3, <1>4, GuardLetsGo

LEMMA StageRecoveryTidy == Inv /\ Clean /\ Tidy /\ StageRecovery => Tidy'
<1> SUFFICES ASSUME Inv, Clean, Tidy, StageRecovery PROVE Tidy'
  OBVIOUS
<1>1. /\ act.pc = "stage" /\ Counted /\ GuardOnly /\ Keep /\ InHand
      /\ act.att \in Attempts /\ act.att # None /\ act.att \in Handed
      /\ act'.pc = "staged" /\ act'.name = act.name /\ act'.att = act.att
      /\ act'.recovery = act.recovery /\ act'.retries = act.retries
  BY Stepped, NoneAssumption, HandedKnown
     DEF StageRecovery, Counted, InHand, Inv, GuardSide, ActKnown
<1>2. /\ box'[Normal] = box[Normal]
      /\ \/ box'[Recovery] = box[Recovery] /\ There(Recovery)
         \/ box'[Recovery].st = "created" /\ box'[Recovery].att = act.att
  BY <1>1, CreatedBox, BoxesThere DEF StageRecovery, There
<1>3. Tame /\ There(Recovery)' /\ (There(Normal)' <=> There(Normal))
  BY <1>2, Two DEF Tame, There
<1>4. Handed' \subseteq Handed
  BY <1>1, <1>2, <1>3, Two, HandedKept, HandedKnown
<1>5. Cleared' /\ SuccessBuilt' /\ ~Settled'
  BY <1>1, <1>2, <1>3 DEF Tidy, BoxSide, Cleared, SuccessBuilt, Settled, Before, There, Watching
<1>6. FailuresTrue'
  <2>1. /\ Failures \in Nat /\ Failures' \in Nat /\ Failures' >= Failures
        /\ record.retries \in Nat /\ act.retries \in Nat /\ record' = record
    BY <1>1, Counts, Numbers DEF Keep
  <2> HIDE DEF Failures
  <2> QED
    BY <1>1, <2>1 DEF Tidy, FailuresTrue, Recovering
<1> QED
  BY <1>1, <1>3, <1>4, <1>5, <1>6, GuardGoesOn

LEMMA RunStagedTidy == Inv /\ Clean /\ Tidy /\ RunStaged => Tidy'
<1> SUFFICES ASSUME Inv, Clean, Tidy, RunStaged PROVE Tidy'
  OBVIOUS
<1>1. /\ act.pc = "staged" /\ Counted /\ GuardOnly /\ InHand
      /\ act.att \in Attempts /\ act.att # None /\ act.att \in Handed
      /\ There(Recovery) /\ box[Recovery].att \in Handed
      /\ box[Recovery] \in Boxes /\ box \in [Helpers -> Boxes]
      /\ act.retries \in 0 .. MaxRetries /\ act.retries \in Nat
  BY NoneAssumption, HandedKnown, BoxesThere, Numbers, Two
     DEF RunStaged, Counted, InHand, Inv, GuardSide, ActKnown, Alone, RecoveryThere, There, Acts
<1>2. /\ Failures \in Nat /\ Failures' \in Nat /\ Failures' >= Failures
      /\ record.retries \in Nat /\ Failures > act.retries
      /\ record.retries > 0 => Failures > record.retries
  BY <1>1, Counts, Numbers DEF Tidy, FailuresTrue, Recovering
<1>3. Failures' > act.retries /\ Failures' > 0 /\ (record.retries > 0 => Failures' > record.retries)
  <2> HIDE DEF Failures
  <2> QED
    BY <1>1, <1>2
<1>4. CASE Step("stage") /\ Keep /\ box' \in {box, Removed(Normal)}
  <2>1. act'.pc = "stage" /\ act'.att = act.att /\ act'.retries = act.retries
    BY <1>4, Stepped
  <2> QED
    BY <1>1, <1>3, <1>4, <2>1, StagingTidy
<1>5. CASE /\ IF act.retries > 0 THEN Persist(act.att, act.retries) ELSE Keep
           /\ LET b == box[Recovery]
                  done == b.st = "running" \/ (b.st = "exited" /\ b.ok)
              IN  box' = [box EXCEPT ![Normal] = NoBox, ![Recovery] = IF done THEN b ELSE Started(b)]
           /\ Monitor(Recovery, act.att, TRUE, act.retries)
  <2>1. /\ \/ Keep
           \/ \E new \in Records : Write(new) /\ new.st = "pending" /\ new.id = record.id /\ ~new.queued
        /\ record'.retries \in {act.retries, record.retries}
    BY <1>1, <1>5, PersistOpen DEF Keep
  <2>2. /\ box'[Normal] = NoBox
        /\ box'[Recovery].att = box[Recovery].att
        /\ \/ box'[Recovery] = box[Recovery] /\ box[Recovery].st = "running"
           \/ box'[Recovery] = box[Recovery] /\ box[Recovery].st = "exited" /\ box[Recovery].ok
           \/ box'[Recovery].st = "running" /\ box'[Recovery].pc = "begin" /\ ~box'[Recovery].ok
    BY <1>1, <1>5, Two, StartedFields
  <2>3. Tame /\ ~There(Normal)' /\ ~Failed(Normal)' /\ ~Failed(Recovery)'
    BY <2>2, Two, NothingTyped DEF Tame, There, Failed
  <2>4. box'[Recovery].st \in {"running", "exited"}
    BY <2>2
  <2>5. Handed' \subseteq Handed
    <3>1. act'.att = act.att
      BY <1>5, Monitored
    <3> QED
      BY <1>1, <2>2, <2>3, <3>1, Two, HandedKept
  <2>6. ~There(Other(Recovery))' /\ TRUE = (Recovery = Recovery)
    BY <2>3, Two DEF Other
  <2>7. record'.retries > 0 => Failures' > record'.retries
    <3> HIDE DEF Failures
    <3> QED
      BY <1>3, <2>1
  <2> QED
    BY <1>1, <1>3, <1>5, <2>1, <2>3, <2>4, <2>5, <2>6, <2>7, Two, MonitorTidy
<1> QED
  BY <1>4, <1>5 DEF RunStaged, CleanUp, Clean

\* A guard that comes up: whether a helper is there tells whether the request is
\* in hand.
LEMMA BootTidy ==
  ASSUME Inv, Tidy, Boots
  PROVE  /\ act.pc = "none" /\ guard = "down" /\ Keep
         /\ (box[Residual].st # "absent" => InHand /\ There(Residual) /\ box[Residual].att \in Handed)
         /\ Residual = Normal => ~There(Recovery)
         /\ Residual = Recovery => There(Recovery)
         /\ Residual \in Helpers
<1>1. act.pc = "none" /\ guard = "down" /\ Keep
  BY DEF Boots, Inv, GuardSide, GateOwned
<1>2. Residual \in Helpers /\ (Residual = Normal => ~There(Recovery)) /\ (Residual = Recovery => There(Recovery))
  BY Two DEF Residual, There
<1>3. box[Residual].st # "absent" => There(Residual) /\ InHand
  BY <1>1, <1>2 DEF There, InHand
<1> QED
  BY <1>1, <1>2, <1>3, HandedKnown

LEMMA ResumedTidy ==
  ASSUME Inv, Clean, Tidy, Boots, box[Residual].st # "absent", box' \in Resumed
  PROVE  /\ box'[Residual].st \in {"running", "exited"} /\ box'[Residual].att = box[Residual].att
         /\ box'[Residual] = box[Residual] \/ (/\ box'[Residual].st = "running"
                                               /\ box'[Residual].pc = "begin" /\ ~box'[Residual].ok)
         /\ \A other \in Helpers : other # Residual => box'[other].st = "absent"
<1> DEFINE res == Residual
           started(b) == IF b.st = "created" THEN Started(b) ELSE b
<1>1. box' = [box EXCEPT ![Normal] = IF res = Recovery THEN NoBox ELSE @,
                         ![res] = IF @.st = "created" THEN Started(@) ELSE @]
  BY DEF Resumed, CleanUp, Clean
<1>2. res \in Helpers /\ (res = Normal => ~There(Recovery)) /\ There(res)
  BY BootTidy
<1>3. box'[res] = started(box[res]) /\ \A other \in Helpers : other # res => box'[other].st = "absent"
  <2> HIDE DEF res
  <2>1. CASE res = Recovery
    BY <1>1, <2>1, BoxesThere, Two, NothingTyped
  <2>2. CASE res = Normal
    BY <1>1, <1>2, <2>2, BoxesThere, Two DEF There
  <2> QED
    BY <1>2, <2>1, <2>2, Two
<1>4. box[res] \in Boxes /\ box[res].st # "absent"
  BY <1>2, BoxesThere DEF There
<1> HIDE DEF res
<1>5. /\ started(box[res]).st \in {"running", "exited"} /\ started(box[res]).att = box[res].att
      /\ \/ started(box[res]) = box[res]
         \/ started(box[res]).st = "running" /\ started(box[res]).pc = "begin" /\ ~started(box[res]).ok
  BY <1>4, StartedFields DEF Boxes
<1> HIDE DEF started
<1> QED
  BY <1>3, <1>5 DEF res

LEMMA GuardResumesTidy == Inv /\ Clean /\ Tidy /\ GuardResumes => Tidy'
<1> SUFFICES ASSUME Inv, Clean, Tidy, GuardResumes PROVE Tidy'
  OBVIOUS
<1> DEFINE att == box[Residual].att
           recovery == Residual = Recovery
           retries == IF recovery THEN Retries(att) ELSE 0
<1>1. Boots /\ box[Residual].st # "absent" /\ Counted
  BY DEF GuardResumes, Counted
<1>2. /\ act.pc = "none" /\ guard = "down" /\ Keep /\ InHand /\ There(Residual) /\ att \in Handed
      /\ Residual = Normal => ~There(Recovery)
      /\ Residual = Recovery => There(Recovery)
      /\ record' = record
  BY <1>1, BootTidy DEF Keep
<1>3. PICK name \in Helpers : name = Residual
  BY <1>1, BootTidy
<1>4. /\ Failures \in Nat /\ Failures' \in Nat /\ Failures' >= Failures
      /\ Fault => Failures' = Failures + 1
      /\ record.retries > 0 => Failures > record.retries
      /\ Failed(Normal) \/ There(Recovery) => Failures > 0
      /\ Failed(Recovery) => Failures > record.retries + 1
      /\ record.retries \in Nat
  BY <1>1, <1>2, Counts, Numbers DEF Tidy, FailuresTrue
<1>5. retries \in {0, record.retries} /\ retries \in Nat
  BY <1>4 DEF Retries
<1>6. CASE box' \in Resumed /\ \E a \in {att, None}, n \in {retries, 0} : Monitor(Residual, a, recovery, n)
  <2>1. PICK a \in {att, None}, n \in {retries, 0} : Monitor(Residual, a, recovery, n)
    BY <1>6
  <2>2. /\ box'[name].st \in {"running", "exited"} /\ box'[name].att = box[name].att
        /\ box'[name] = box[name] \/ (/\ box'[name].st = "running"
                                      /\ box'[name].pc = "begin" /\ ~box'[name].ok)
        /\ \A other \in Helpers : other # name => box'[other].st = "absent"
    BY <1>1, <1>3, <1>6, ResumedTidy
  <2>3. Tame /\ ~There(Other(name))'
    BY <1>3, <2>2, Two DEF Tame, There, Other
  <2>4. n \in {0, record.retries} /\ n \in Nat /\ recovery \in BOOLEAN /\ recovery = (name = Recovery)
    BY <1>3, <1>5
  <2>5. act'.att = a
    BY <2>1, Monitored
  <2>6. Handed' \subseteq Handed
    <3>1. \A other \in Helpers : There(other)' => other = name
      BY <2>2 DEF There
    <3> QED
      BY <1>2, <1>3, <2>2, <2>5, <3>1, HandedKept
  <2>7. (Failed(Normal)' => Failed(Normal)) /\ (Failed(Recovery)' => Failed(Recovery))
    BY <2>2, Two DEF Failed
  <2>8. recovery => There(Recovery)
    BY <1>2
  <2> HIDE DEF recovery, retries, att
  <2>9. /\ record'.retries > 0 => Failures' > record'.retries
        /\ recovery => Failures' > n
        /\ Failed(Normal)' => Failures' > 0
        /\ Failed(Recovery)' => Failures' > n + 1 /\ Failures' > record'.retries + 1
    <3> HIDE DEF Failures
    <3> QED
      BY <1>2, <1>4, <2>4, <2>7, <2>8
  <2>10. Monitor(name, a, recovery, n)
    BY <1>3, <2>1
  <2> QED
    BY <1>1, <1>2, <1>3, <2>2, <2>3, <2>4, <2>6, <2>9, <2>10, MonitorTidy
<1>7. CASE /\ box' \in {box, Removed(Normal)} /\ (recovery \/ box' = box)
           /\ Stage(att, retries) /\ Fault
  <2>1. There(Normal) \/ There(Recovery)
    BY <1>2, <1>3, Two
  <2>2. box' = box \/ (box' = Removed(Normal) /\ There(Recovery))
    BY <1>2, <1>7
  <2> HIDE DEF retries, att, recovery
  <2>3. Failures' > retries
    <3> HIDE DEF Failures
    <3> QED
      BY <1>4, <1>5, <1>7
  <2> QED
    BY <1>1, <1>2, <1>5, <1>7, <2>1, <2>2, <2>3, StageTidy
<1> QED
  BY <1>6, <1>7 DEF GuardResumes

LEMMA GuardStuckTidy == Inv /\ Clean /\ Tidy /\ GuardStuck => Tidy'
<1> SUFFICES ASSUME Inv, Clean, Tidy, GuardStuck PROVE Tidy'
  OBVIOUS
<1>1. /\ Boots /\ UNCHANGED box /\ act' = [NoAct EXCEPT !.pc = "stuck"]
      /\ box[Residual].st # "absent" /\ faults' = faults + 2 /\ crashes' = crashes
  BY DEF GuardStuck
<1>2. InHand /\ There(Residual) /\ Residual \in Helpers /\ Keep /\ act.pc = "none"
  BY <1>1, BootTidy
<1>3. /\ act'.pc = "stuck" /\ act'.att = None /\ ~act'.recovery
  BY <1>1 DEF NoAct
<1>4. Tame /\ \A name : (There(name)' <=> There(name)) /\ (Failed(name)' <=> Failed(name))
  BY <1>1 DEF Tame, There, Failed
<1>5. Handed' \subseteq Handed
  BY <1>1, <1>3, <1>4, HandedKept, HandedKnown
<1>6. Cleared' /\ SuccessBuilt' /\ ~Settled'
  <2>1. There(Normal)' \/ There(Recovery)'
    BY <1>2, <1>4, Two
  <2>2. There(Normal)' => box'[Recovery].st \in {"absent", "created"}
    BY <1>1, <1>4 DEF Tidy, BoxSide, Cleared
  <2> QED
    BY <1>3, <2>1, <2>2 DEF Cleared, SuccessBuilt, Settled, Before, Watching
<1>7. Failures \in Nat /\ Failures' \in Nat /\ Failures' >= Failures
  BY <1>1 DEF Inv, TypeOK, CountsTyped, Failures
<1>8. RecordSide' /\ record' = record /\ stack' = stack
  BY <1>1, <1>2, RecordSideKept DEF Boots, Keep
<1>9. FailuresTrue'
  <2> HIDE DEF Failures
  <2> QED
    BY <1>3, <1>4, <1>7, <1>8, Numbers DEF Tidy, FailuresTrue, Recovering
<1>10. record.st = "pending" /\ ~record.queued
  BY <1>2 DEF Tidy, HandTrue
<1> QED
  BY <1>2, <1>4, <1>5, <1>6, <1>7, <1>8, <1>9, <1>10, GuardTidy

LEMMA GuardStartsTidy == Inv /\ Clean /\ Tidy /\ GuardStarts => Tidy'
<1> SUFFICES ASSUME Inv, Clean, Tidy, GuardStarts PROVE Tidy'
  OBVIOUS
<1>1. /\ Boots /\ UNCHANGED box /\ act' = [NoAct EXCEPT !.pc = "reconcile"] /\ Counted
      /\ box[Residual].st = "absent"
  BY DEF GuardStarts, Counted
<1>2. ~There(Normal) /\ ~There(Recovery) /\ Keep /\ act.pc = "none"
  BY <1>1, BootTidy DEF Residual, There
<1>3. Settled /\ act'.pc = "reconcile" /\ act'.att = None /\ ~act'.recovery
  BY <1>1, <1>2 DEF Settled, NoAct
<1>4. Tame /\ \A name : (There(name)' <=> There(name)) /\ (Failed(name)' <=> Failed(name))
  BY <1>1 DEF Tame, There, Failed
<1>5. Handed' \subseteq Handed /\ ~InHand'
  BY <1>1, <1>3, <1>4, HandedKept, HandedKnown DEF InHand
<1>6. Cleared' /\ SuccessBuilt'
  BY <1>2, <1>3, <1>4 DEF Cleared, SuccessBuilt, Watching
<1>7. Failures \in Nat /\ Failures' \in Nat /\ Failures' >= Failures
  BY <1>1, Counting DEF Inv
<1>8. RecordSide' /\ record' = record /\ stack' = stack
  BY <1>1, <1>2, RecordSideKept DEF Boots, Keep
<1>9. FailuresTrue'
  <2> HIDE DEF Failures
  <2> QED
    BY <1>3, <1>4, <1>7, <1>8, Numbers DEF Tidy, FailuresTrue, Recovering
<1> QED
  BY <1>3, <1>4, <1>5, <1>6, <1>7, <1>8, <1>9, GuardTidy

LEMMA ReconcileTidy == Inv /\ Clean /\ Tidy /\ Reconcile => Tidy'
<1> SUFFICES ASSUME Inv, Clean, Tidy, Reconcile PROVE Tidy'
  OBVIOUS
<1>1. /\ act.pc = "reconcile" /\ Counted /\ GuardOnly /\ UNCHANGED box /\ act' = NoAct
  BY DEF Reconcile, Counted
<1>2. guard = "up" /\ Settled /\ ~There(Normal)' /\ ~There(Recovery)'
  BY <1>1 DEF Inv, GuardSide, GateOwned, TypeOK, GuardTyped, Settled, Before, Tidy, BoxSide, Cleared,
              There
<1>3. CASE Keep
  <2>1. RecordSide' /\ record' = record
    BY <1>1, <1>3, RecordSideKept DEF GuardOnly, Keep
  <2> QED
    BY <1>1, <1>2, <2>1, GuardLetsGo
<1>4. CASE /\ record.st = "pending" /\ ~record.queued
           /\ \E st \in {"succeeded", "failed"} : Write(Outcome(st, record.id, record.target, record.prev))
  <2>1. PICK st \in {"succeeded", "failed"} : Write(Outcome(st, record.id, record.target, record.prev))
    BY <1>4
  <2> DEFINE new == Outcome(st, record.id, record.target, record.prev)
  <2>2. new \in Records /\ new.id = record.id
    <3>1. /\ record.id \in Ids /\ record.target \in Versions \cup {None}
          /\ record.prev \in Versions \cup {None}
      BY <1>4 DEF Inv, TypeOK, RecordTyped, Records, WorkerSide, RecordKnown, Absent
    <3>2. st \in {"pending", "succeeded", "failed"}
      OBVIOUS
    <3> QED
      BY <3>1, <3>2, OutcomeTyped DEF Outcome
  <2>3. ~new.queued /\ new.retries = 0
    BY DEF Outcome
  <2> HIDE DEF new
  <2>4. Write(new)
    BY <2>1 DEF new
  <2>5. RecordSide'
    BY <1>1, <1>4, <2>2, <2>3, <2>4, HandRecordsOnly DEF GuardOnly
  <2>6. record'.retries = 0
    BY <2>3, <2>4 DEF Write
  <2> QED
    BY <1>1, <1>2, <2>5, <2>6, GuardLetsGo
<1> QED
  BY <1>3, <1>4 DEF Reconcile

LEMMA GuardDiesTidy == Inv /\ Clean /\ Tidy /\ GuardDies => Tidy'
<1> SUFFICES ASSUME Inv, Clean, Tidy, GuardDies PROVE Tidy'
  OBVIOUS
<1>1. /\ act' = NoAct /\ guard' = "down" /\ Crash /\ Keep
      /\ post' = (IF post = "sent" THEN "broken" ELSE post)
      /\ UNCHANGED <<task, strays, updaterUp, job, jobs, stack, requests>>
  BY DEF GuardDies, GuardGone, Keep
<1>2. act'.pc = "none" /\ act'.att = None /\ act'.retries = 0 /\ ~act'.recovery
  BY <1>1 DEF NoAct
<1>3. guard = "up" /\ act.pc # "cleanup"
  BY DEF GuardDies, Clean
<1>4. Counted /\ (Fault \/ Crash)
  BY <1>1 DEF Counted
<1>5. RecordSide' /\ record' = record
  <2>1. TaskTrue'
    BY <1>1 DEF Tidy, RecordSide, TaskTrue, Keep
  <2> QED
    BY <1>1, <2>1 DEF Tidy, RecordSide, RequestOpen, JobTrue, Keep
<1>6. \/ UNCHANGED box
      \/ /\ act.pc = "launch" /\ act.att \in Attempts
         /\ box'[Recovery] = box[Recovery] /\ box'[Normal].att = act.att
         /\ \/ box'[Normal].st = "created"
            \/ box'[Normal].st = "running" /\ box'[Normal].pc = "begin" /\ ~box'[Normal].ok
  <2> SUFFICES ASSUME act.pc = "launch",
                      NEW new \in {Created(act.att, TRUE), Started(Created(act.att, TRUE))},
                      box' = [box EXCEPT ![Normal] = new]
               PROVE  /\ act.att \in Attempts
                      /\ box'[Recovery] = box[Recovery] /\ box'[Normal].att = act.att
                      /\ \/ box'[Normal].st = "created"
                         \/ box'[Normal].st = "running" /\ box'[Normal].pc = "begin" /\ ~box'[Normal].ok
    BY DEF GuardDies
  <2>1. act.att \in Attempts
    BY DEF Inv, GuardSide, ActKnown
  <2>2. /\ new.att = act.att
        /\ new.st = "created" \/ (new.st = "running" /\ new.pc = "begin" /\ ~new.ok)
    BY DEF Created, Started, NoBox
  <2>3. box'[Normal] = new /\ box'[Recovery] = box[Recovery]
    BY Two, BoxesThere
  <2> QED
    BY <2>1, <2>2, <2>3
<1>7. Tame
  BY <1>6, Two DEF Tame
<1>8. Handed' \subseteq Handed
  BY <1>2, <1>6, HandedKnown, HandedKept, NoneAssumption, Two DEF There
<1>9. act.pc \in {"prepare", "launch", "reconcile", "none"} => ~There(Normal) /\ ~There(Recovery)
  BY <1>3 DEF Tidy, BoxSide, Cleared, Before
<1>10. InHand' => InHand
  BY <1>2, <1>3, <1>6, <1>9, Two DEF InHand, There
<1>11. Cleared'
  BY <1>1, <1>2, <1>6, <1>9, Two DEF Tidy, BoxSide, Cleared, Before, Watching, There
<1>12. SuccessBuilt'
  BY <1>2 DEF SuccessBuilt
<1>13. /\ Failures \in Nat /\ Failures' = Failures + 1 /\ record.retries \in Nat
       /\ record.retries > 0 => Failures > record.retries
       /\ There(Recovery) => Failures > 0
  BY <1>4, Counts, Numbers
<1>14. Failed(Recovery)' => There(Recovery)
  BY <1>6 DEF Failed, There
<1>15. FailuresTrue'
  <2> HIDE DEF Failures
  <2> QED
    BY <1>2, <1>5, <1>13, <1>14 DEF FailuresTrue, Recovering
<1>16. Settled' => Settled
  <2>1. CASE There(Normal) \/ There(Recovery)
    BY <1>2, <1>1, <1>6, <2>1 DEF Settled, Before, There
  <2>2. CASE ~There(Normal) /\ ~There(Recovery)
    <3>1. act.pc \notin Watching \cup {"startRecovery", "stage", "staged", "stuck"}
      BY <2>2, Two DEF Tidy, BoxSide, Cleared, There, Inv, GuardSide, Alone, WatchesOne, RecoveryThere,
                       TypeOK, GuardTyped, Acts
    <3> QED
      BY <2>2, <3>1 DEF Settled, Before, Watching, Inv, TypeOK, GuardTyped, Acts
  <2> QED
    BY <2>1, <2>2
<1>17. InHand => record.st = "pending" /\ ~record.queued
  BY DEF Tidy, HandTrue
<1>18. Failures' \in Nat /\ Failures' >= Failures
  <2> HIDE DEF Failures
  <2> QED
    BY <1>13
<1> QED
  BY <1>1, <1>5, <1>7, <1>8, <1>10, <1>11, <1>12, <1>15, <1>16, <1>17, <1>18, GuardTidy

-----------------------------------------------------------------------------
(***************************************************************************)
(* What holds in the scenarios without either.                             *)
(***************************************************************************)
LEMMA GuardingTidy == Inv /\ Clean /\ Tidy /\ Guarding => Tidy'
  BY PrepareTidy, LaunchTidy, WatchTidy, LaunchRecoveryTidy, StopOldTidy, StartRecoveryTidy,
     RetryTidy, RerunTidy, UnidentifiedTidy, GiveUpTidy, PublishTidy, OpenTidy,
     StageRecoveryTidy, RunStagedTidy, GuardResumesTidy, GuardStuckTidy, GuardStartsTidy,
     ReconcileTidy
  DEF Guarding

\* The scenario is chosen at the start.
LEMMA ScenarioKept == Next => scenario' = scenario
<1> USE DEF NoFault, Fault, Crash, boundVars
<1>1. Worker => scenario' = scenario
  BY DEF Worker, Schedule, Choose, LookUp, Ask, Answered, Lose, Confirm, Failing, PublishRefused,
         Dismiss, Admit, Begin, Finish, WorkerStarts
<1>2. Guarding => scenario' = scenario
  BY DEF Guarding, Prepare, Launch, Watch, LaunchRecovery, StopOld, StartRecovery, Retry, Rerun,
         Unidentified, GiveUp, Publish, Open, StageRecovery, RunStaged, GuardResumes, GuardStuck,
         GuardStarts, Reconcile
<1>3. ASSUME NEW name \in Helpers, Helper(name) \/ HelperFails(name) \/ HelperDies(name)
      PROVE  scenario' = scenario
  BY <1>3 DEF Helper, HelperBegins, HelperChecks, HelperReplaces, HelperEnds, HelperFails, HelperDies
<1>4. Acquire \/ Release \/ Receive \/ ReceiveStray \/ GuardDies \/ WorkerDies => scenario' = scenario
  BY DEF Acquire, Release, Receive, ReceiveStray, GuardDies, WorkerDies
<1> QED
  BY <1>1, <1>2, <1>3, <1>4 DEF Next

LEMMA NextTidy == Inv /\ CleanInv /\ [Next]_vars => CleanInv'
<1> SUFFICES ASSUME Inv, CleanInv, [Next]_vars, Clean' PROVE Tidy'
  BY DEF CleanInv
<1>1. Clean /\ Tidy
  BY ScenarioKept DEF CleanInv, Clean, vars, boundVars
<1>2. CASE Next
  BY <1>1, <1>2, WorkerStepsTidy, LeaseTidy, ReceiveTidy, GuardingTidy, HelperStepsTidy, GuardDiesTidy
  DEF Next
<1>3. CASE UNCHANGED vars
  <2>1. /\ Keep /\ NoFault /\ UNCHANGED <<guardVars, dockerVars, requests>> /\ UNCHANGED workerVars
    BY <1>3 DEF vars, Keep, NoFault
  <2>2. Counted /\ TaskTrue' /\ JobTrue'
    BY <1>1, <2>1 DEF Counted, Tidy, RecordSide, TaskTrue, JobTrue, Keep, workerVars
  <2> QED
    BY <1>1, <2>1, <2>2, WorkerQuietTidy
<1> QED
  BY <1>2, <1>3

LEMMA CleanInvariance == Spec => []CleanInv
<1>1. Init => CleanInv
  BY InitTidy DEF CleanInv
<1> QED
  BY <1>1, NextTidy, Invariance, PTL DEF Spec

\* Who writes that a request has succeeded.
LEMMA SuccessWriters ==
  ASSUME Inv, Tidy, Next, record'.st = "succeeded", record.st # "succeeded"
  PROVE  Publish \/ Reconcile
<1>1. ~Keep
  BY DEF Keep
<1>2. task.pc = "lookup" => record.queued /\ record.st = "pending" /\ task.mine = record
  BY DEF Tidy, RecordSide, RequestOpen, TaskTrue
<1>3. \A id, target, prev : Pending(id, target, prev).st = "pending"
  BY DEF Pending, Outcome
<1>4. \A id, target, prev : ~Write(Outcome("failed", id, target, prev))
  BY DEF Write, Outcome
<1>5. ~Worker
  <2>1. ~Schedule
    BY DEF Schedule, Write, Pending, Outcome
  <2>2. ~LookUp
    <3>1. ASSUME LookUp PROVE FALSE
      <4>1. record \in Records /\ record.st = "pending" /\ task.mine = record
        BY <1>2, <3>1 DEF LookUp, Inv, TypeOK, RecordTyped
      <4>2. PICK v : record' = [record EXCEPT !.target = v]
        BY <3>1, <4>1 DEF LookUp, Write
      <4> QED
        BY <4>1, <4>2 DEF Records
    <3> QED
      BY <3>1
  <2>3. ~PublishRefused /\ ~Dismiss
    BY <1>4 DEF PublishRefused, Dismiss, Write, Absent
  <2> QED
    BY <1>1, <2>1, <2>2, <2>3
    DEF Worker, Choose, Ask, Answered, Lose, Confirm, Failing, Admit, Begin, Finish, WorkerStarts, Keep
<1>6. \A message : ~Accept(message)
  BY <1>3 DEF Accept, Write
<1>7. \A name \in Helpers : ~(Helper(name) \/ HelperFails(name) \/ HelperDies(name))
  <2>1. \A name \in Helpers : ~Write(HelperPending(name))
    BY DEF Write, HelperPending, Pending, Outcome
  <2> QED
    BY <1>1, <2>1
    DEF Helper, HelperBegins, HelperChecks, HelperReplaces, HelperEnds, HelperFails, HelperDies, Keep
<1>8. \A att, retries : ~Persist(att, retries)
  <2> SUFFICES ASSUME NEW att, NEW retries, Persist(att, retries) PROVE FALSE
    OBVIOUS
  <2> DEFINE old == IF Mine(att) THEN record ELSE Pending(att.id, att.target, att.prev[Updater])
  <2>1. [old EXCEPT !.st = "pending"].st = "pending"
    BY DEF Pending, Outcome, Inv, TypeOK, RecordTyped, Records
  <2>2. record' = [old EXCEPT !.st = "pending", !.retries = retries]
    BY DEF Persist, Write
  <2>3. record'.st = "pending"
    BY <2>2 DEF Pending, Outcome, Inv, TypeOK, RecordTyped, Records
  <2> QED
    BY <2>3
<1>9. ~Prepare /\ ~FailBefore
  BY <1>4 DEF Prepare, FailBefore, Write, Pending, Outcome
<1>10. Guarding => Publish \/ Reconcile
  BY <1>1, <1>8, <1>9
  DEF Guarding, Launch, Watch, LaunchRecovery, StopOld, StartRecovery, Retry, Rerun, Unidentified,
      GiveUp, Open, StageRecovery, RunStaged, GuardResumes, GuardStuck, GuardStarts, Boots, Keep
<1>11. ~(Acquire \/ Release \/ Receive \/ ReceiveStray \/ GuardDies \/ WorkerDies)
  BY <1>1, <1>6 DEF Acquire, Release, Receive, ReceiveStray, GuardDies, WorkerDies, Keep
<1> QED
  BY <1>5, <1>7, <1>10, <1>11 DEF Next

\* A helper runs only while its request is pending, so no job was admitted and
\* none is while it runs: where no helper stays behind the record is enough.
THEOREM SelfUpdateJobAlone == Spec => []JobAlone
<1>1. Inv /\ CleanInv => JobAlone
  <2> SUFFICES ASSUME Inv, Clean, Tidy, NEW name \in Helpers, Running(name)
               PROVE  job # "running"
    BY DEF JobAlone, CleanInv
  <2> QED
    BY RunningInHand DEF Running, Tidy, RecordSide, JobTrue
<1> QED
  BY <1>1, Invariance, CleanInvariance, PTL

\* What a running helper works on is the request on record, which is pending, and
\* a pending request has no outcome yet.
THEOREM SelfUpdateFinalIsFinal == Spec => []FinalIsFinal
<1>1. Inv /\ CleanInv => FinalIsFinal
  <2> SUFFICES ASSUME Inv, Clean, Tidy, NEW name \in Helpers, Running(name)
               PROVE  box[name].att.id \notin final
    BY DEF FinalIsFinal, CleanInv
  <2> QED
    BY RunningInHand DEF Running, Tidy, RecordSide, RequestOpen
<1> QED
  BY <1>1, Invariance, CleanInvariance, PTL

\* A guard that is up with an open gate has cleared the helpers away, and unless
\* more has failed than the recoveries are for, the stack is then what it was at
\* first, or one version throughout.
THEOREM SelfUpdateWholeStack == Spec => []WholeStack
<1>1. Inv /\ CleanInv => WholeStack
  <2> SUFFICES ASSUME Inv, Clean, Tidy, guard = "up", gate = "open", Failures <= MaxRetries + 1
               PROVE  Whole
    BY DEF WholeStack, CleanInv, Idle, Failures
  <2>1. act.pc = "none" /\ Settled
    BY DEF Inv, GuardSide, GateOwned, Settled, Before
  <2> QED
    BY <2>1 DEF Tidy, StackTrue, WholeImages, Whole
<1> QED
  BY <1>1, Invariance, CleanInvariance, PTL

\* A success is written in two places: by the task that saw the helper end well,
\* which has left every service at the target, and by a guard that starts and
\* finds every service at it.
THEOREM SelfUpdateOutcomeTrue == Spec => OutcomeTrue
<1>1. Inv /\ CleanInv /\ [Next]_vars =>
        [Clean /\ record'.st = "succeeded" /\ record.st # "succeeded"
           => \A s \in Services : stack[s] = record'.target]_vars
  <2> SUFFICES ASSUME Inv, Clean, Tidy, Next, record'.st = "succeeded", record.st # "succeeded"
               PROVE  \A s \in Services : stack[s] = record'.target
    BY DEF CleanInv
  <2>1. Publish \/ Reconcile
    BY SuccessWriters
  <2>2. CASE Publish
    <3>1. /\ act.pc = "publish" /\ act.att # None /\ ~act.recovery
          /\ record'.target = act.att.target
      BY <2>2 DEF Publish, Write, Outcome, Keep
    <3>2. act.name = Normal /\ box[Normal].st = "exited" /\ box[Normal].ok
      BY <3>1 DEF Tidy, BoxSide, SuccessBuilt
    <3>3. box[Normal].att = act.att
      BY <3>1, <3>2, HandedKnown, Two DEF Tidy, BoxSide, OneAttempt, There
    <3>4. box[Normal].left = {} /\ \A s \in Services \ box[Normal].left : stack[s] = Images(Normal)[s]
      BY <3>2, Two DEF Tidy, BoxSide, Built, EndedWhole
    <3> QED
      BY <3>1, <3>3, <3>4, Two DEF Images
  <2>3. CASE Reconcile
    BY <2>3 DEF Reconcile, Write, Outcome, Keep, TargetActive
  <2> QED
    BY <2>1, <2>2, <2>3
<1> QED
  BY <1>1, Invariance, CleanInvariance, PTL DEF Spec, OutcomeTrue
=============================================================================
