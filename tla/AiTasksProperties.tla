-------------------------- MODULE AiTasksProperties --------------------------
(* What the quota, the registry and the tasks have to guarantee together. *)
EXTENDS AiTasks, Functions

\* Every part has its type.
TypeOK ==
  /\ request \in [Requests -> {"idle", "checked", "reserved", "refunding",
                               "registered", "waiting", "answered", "dropped"}]
  /\ task \in [Requests -> {"none", "spawned", "running", "ended", "billed", "over"}]
  /\ local \in [Requests -> {"none"} \cup Unfinished \cup Terminal]
  /\ signal \in [Requests -> BOOLEAN]
  /\ outcome \in [Requests -> {"none"} \cup Terminal]
  /\ used \in [Requests -> Nat]
  /\ bill \in [Requests -> {"none", "reserved", "settled", "released", "refunded"}]
  /\ pinned \in [Requests -> Days]
  /\ row \in [Ids -> [by : Requests \cup {None},
                      status : {"none"} \cup Unfinished \cup Terminal]]
  /\ cancelled \subseteq Ids
  /\ calls \in [Buckets -> [Days -> Int]]
  /\ tokens \in [Buckets -> [Days -> Int]]
  /\ day \in Days
  /\ scenario \in Scenarios
  /\ faults \in 0 .. scenario.faults /\ drops \in 0 .. scenario.drops
  /\ crashes \in 0 .. scenario.crashes

Worker(r) == task[r] \in {"spawned", "running", "ended", "billed"}

\* The call of r counts: it was reserved and not taken back.
Counted(r) == bill[r] \notin {"none", "refunded"}
Holders(b, d) == {r \in Requests : b \in BucketsOf[r] /\ pinned[r] = d /\ Counted(r)}
Held ==
  [r \in Requests |->
     CASE bill[r] = "reserved" -> Estimate[r]
       [] bill[r] = "settled" -> used[r]
       [] OTHER -> 0]

\* Nothing works on a request whose call is not counted, and in every bucket and on
\* every day the ledger shows each call that is not taken back, within the limit.
CallsTrue ==
  /\ \A r \in Requests : task[r] # "none" => Counted(r)
  /\ \A b \in Buckets, d \in Days :
       calls[b][d] = Cardinality(Holders(b, d)) /\ calls[b][d] <= CallLimit[b]

\* The tokens it shows are those these requests hold.
TokensTrue ==
  \A b \in Buckets, d \in Days : tokens[b][d] = SumFunctionOnSet(Held, Holders(b, d))

\* No model is called without a call on the budget of the day it was reserved on,
\* no budget is overdrawn, and what is given back or settled reaches the rows it was
\* taken from: whatever fails, dies or is refunded in between, also past midnight.
LedgerTrue == CallsTrue /\ TokensTrue

\* Two tasks never work under one key, on any two processes, and no subject has
\* more of them at work than MAX_ACTIVE_TASKS_PER_SUBJECT.
OneRunEach ==
  /\ \A r, q \in Requests : Worker(r) /\ Worker(q) /\ IdOf[r] = IdOf[q] => r = q
  /\ \A s \in Subjects :
       Cardinality({r \in Requests : Worker(r) /\ SubjectOf[IdOf[r]] = s}) <= MaxActive

\* An outcome its process knows to be recorded is what clients read until it
\* expires: no late task, no repeated request and no sweep writes another.
OutcomeStands ==
  [][\A i \in Ids :
       row[i].status \in Terminal /\ local[row[i].by] = row[i].status
         => row'[i] \in {row[i], NoRow}]_vars

\* No record stays queued or running for ever, whatever fails, panics or dies.
RecordsEnd == \A i \in Ids : row[i].status \in Unfinished ~> row[i].status \notin Unfinished

=============================================================================
