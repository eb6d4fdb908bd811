------------------------ MODULE SelfUpdateProperties ------------------------
(* What the handoff of the updater's own stack promises. *)
EXTENDS SelfUpdate

Running(name) == box[name].st = "running"
Idle == guard = "up" /\ gate = "open" /\ record.st # "pending"
Whole == stack = Installed \/ \E v \in Versions : stack = [s \in Services |-> v]

\* No helper stays behind and no request arrives late.
Clean == ~scenario.residue /\ ~scenario.late

\* Two helpers never recreate the stack at once, whatever fails or dies: a
\* recovery is started after the helper it replaces has been stopped.
OneInstaller == ~(Running(Normal) /\ Running(Recovery))

\* While a helper runs, a guard that listens forwards no other mutation, also a
\* guard that came up only after the helper was started.
GateHeld == (\E name \in Helpers : Running(name)) /\ guard = "up" => gate = "self" /\ leases = 0

\* When the handoff is over the services run one version, or all what they ran
\* at first.  MaxRetries + 2 failures are needed to exhaust the recoveries.
WholeStack == Clean /\ Idle /\ faults + crashes <= MaxRetries + 1 => Whole

\* An update or rollback and a helper never work at the same time: the worker
\* refuses a job by the record, the guard a request by job.current.
JobAlone == Clean /\ job = "running" => \A name \in Helpers : ~Running(name)

\* A published outcome is final: no helper of that request runs afterwards.
FinalIsFinal ==
  Clean => \A name \in Helpers : Running(name) => box[name].att.id \notin final

\* A success is published only of a stack that runs the target throughout.
OutcomeTrue ==
  [][Clean /\ record'.st = "succeeded" /\ record.st # "succeeded"
       => \A s \in Services : stack[s] = record'.target]_vars

\* The two ways a handoff never ends: a guard that comes up and cannot read what
\* the helper was asked does not publish its success, and one that can neither
\* read nor start the helper keeps the gate closed.
Unread == act.pc \in {"publish", "cleanup"} /\ act.att = None
Stuck == act.pc = "stuck"
Owned == record.queued \/ guard = "down" \/ gate # "open"

\* Else a request that is under way gets its outcome, and the gate reopens.
HandoffEnds == record.st = "pending" /\ Owned ~> (record.st # "pending" \/ Unread \/ Stuck)
GateReopens == gate # "open" ~> (gate = "open" \/ Stuck)
=============================================================================
