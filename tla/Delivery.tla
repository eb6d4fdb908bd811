------------------------------ MODULE Delivery ------------------------------
(***************************************************************************)
(* The queue of outgoing federation activities                             *)
(* (federation/delivery/queue.rs and query.rs), the workers of the         *)
(* processes that drain it, and the receipts of the inbox that receives    *)
(* (federation/inbox/receipt.rs and receive.rs).                           *)
(*                                                                         *)
(* A worker claims a row under a lease, posts the activity, and settles    *)
(* the row in a transaction that changes nothing unless the row is still   *)
(* being delivered under its lease.  A lease that is not renewed expires   *)
(* and another worker delivers the row again, so an activity may arrive    *)
(* more than once; the receipt keeps it from taking effect again.  Owners  *)
(* cancel, retry and dismiss rows meanwhile, and a domain that has been    *)
(* unreachable for too long loses the rows it still has.                   *)
(*                                                                         *)
(* A statement or a transaction of the database is one step.  The backoff  *)
(* of a row is the time until its claim.                                   *)
(***************************************************************************)
EXTENDS Integers, FiniteSets

CONSTANTS
  Rows,          \* an activity and an inbox it goes to
  Domains, DomainOf,
  Local,         \* follows of an account of this instance
  Resource,      \* rows about a room or channel, but for the word of its end
  Workers, None,
  MaxAttempts,   \* max_attempts
  Threshold,     \* DELIVERY_FAILURE_REVOCATION_THRESHOLD
  Scenarios      \* what may happen in a behaviour

ASSUME RowAssumption ==
  /\ DomainOf \in [Rows -> Domains]
  /\ Local \subseteq Rows /\ Resource \subseteq Rows
ASSUME WorkerAssumption == IsFiniteSet(Workers) /\ None \notin Workers
ASSUME LimitAssumption ==
  MaxAttempts \in Nat \ {0} /\ Threshold \in Nat \ {0}
\* A scenario says which rows there are, and bounds the faults, the retries of
\* owners and the requests that may still be on their way for a row.
ASSUME ScenarioAssumption ==
  Scenarios \subseteq [rows : SUBSET Rows, faults : Nat, retries : Nat, strays : Nat]

VARIABLES
  queue,     \* federation_delivery_queue
  worker,    \* the item of process_delivery_queue_detailed a process works on
  health,    \* federation_instances: failure_count, and whether failing_since
             \* is a week old
  asked,     \* rows whose retry passed the first look at their status
  inProcess, \* the in-process delivery of a local follow: todo or mark
  receipt,   \* federation_inbox_receipts of the receiver
  effects,   \* times the handler's effects were committed (history)
  strays,    \* requests on their way that no worker waits for
  sends,     \* requests sent for the row (history)
  granted,   \* attempts its owner asked for (history)
  scenario,  \* the scenario, chosen at the start
  faults, retries

peerVars == <<receipt, effects>>
historyVars == <<sends, granted>>
ownerVars == <<asked, inProcess>>
boundVars == <<scenario, faults, retries>>
vars == <<queue, worker, health, ownerVars, peerVars, strays, historyVars, boundVars>>

Statuses == {"new", "pending", "delivering", "delivered", "dead", "gone"}
Items == [status : Statuses, attempts : Nat, lease : Workers \cup {None},
          expired : BOOLEAN, cancelled : BOOLEAN]
Tasks == [pc : {"idle", "exhausted", "claimed", "posted", "answered"},
          row : Rows \cup {None}, attempts : Nat,
          answer : {"none", "ok", "permanent", "failed"}]

\* cancelled: error_message begins with "cancelled:".
Item(status, attempts) ==
  [status |-> status, attempts |-> attempts, lease |-> None, expired |-> FALSE,
   cancelled |-> FALSE]
Idle == [pc |-> "idle", row |-> None, attempts |-> 0, answer |-> "none"]
Well == [failures |-> 0, week |-> FALSE]

Init ==
  /\ queue = [r \in Rows |-> Item("new", 0)]
  /\ worker = [w \in Workers |-> Idle]
  /\ health = [d \in Domains |-> Well]
  /\ asked = {}
  /\ inProcess = [r \in Rows |-> "none"]
  /\ receipt = [r \in Rows |-> "none"]
  /\ effects = [r \in Rows |-> 0]
  /\ strays = [r \in Rows |-> 0]
  /\ sends = [r \in Rows |-> 0]
  /\ granted = [r \in Rows |-> 0]
  /\ scenario \in Scenarios
  /\ faults = 0
  /\ retries = 0

Live(r) == queue[r].status \in {"pending", "delivering"}
Dead(r) == queue[r].status = "dead"

Fault == faults < scenario.faults /\ faults' = faults + 1 /\ UNCHANGED <<scenario, retries>>

Asks == retries < scenario.retries /\ retries' = retries + 1 /\ UNCHANGED <<scenario, faults>>

(***************************************************************************)
(* The lease.                                                              *)
(***************************************************************************)
Works(w, r) == worker[w].pc # "idle" /\ worker[w].row = r

\* Faulty variant: a settlement names the row and not the lease.
OwnsByRow(w) == worker[w].row \in Rows

\* The token of a claim is new, so a lease of w is that of its present work.
Owns(w) ==
  LET item == queue[worker[w].row]
  IN  item.status = "delivering" /\ item.lease = w

Reclaimable(r) == queue[r].status = "delivering" /\ queue[r].expired

\* Faulty variant: only pending rows are claimed.
ClaimablePending(r) == queue[r].status = "pending"

Claimable(r) == queue[r].status = "pending" \/ Reclaimable(r)

\* Faulty variant: a reclaimed delivery does not count as an attempt.
AttemptsAsBefore(r) == queue[r].attempts

AttemptsAtClaim(r) ==
  IF queue[r].status = "delivering" THEN queue[r].attempts + 1 ELSE queue[r].attempts

\* The row is claimed under a new lease; an expired one counts as an attempt,
\* and may have been the last.
Claim(w, r) ==
  LET attempts == AttemptsAtClaim(r)
      last == queue[r].status = "delivering" /\ attempts >= MaxAttempts
  IN  /\ worker[w].pc = "idle" /\ Claimable(r)
      /\ queue' = [queue EXCEPT ![r].status = "delivering", ![r].attempts = attempts,
                                ![r].lease = w, ![r].expired = FALSE]
      /\ worker' = [worker EXCEPT ![w] = [pc |-> IF last THEN "exhausted" ELSE "claimed",
                                          row |-> r, attempts |-> attempts,
                                          answer |-> "none"]]
      /\ UNCHANGED <<health, ownerVars, peerVars, strays, historyVars, boundVars>>

\* Ten minutes pass without a renewal: nobody works under the lease, or the
\* worker's heartbeat did not reach the database.
Expire(r) ==
  /\ queue[r].status = "delivering" /\ ~queue[r].expired
  /\ IF \E w \in Workers : Works(w, r) /\ queue[r].lease = w
     THEN Fault
     ELSE UNCHANGED boundVars
  /\ queue' = [queue EXCEPT ![r].expired = TRUE]
  /\ UNCHANGED <<worker, health, ownerVars, peerVars, strays, historyVars>>

\* The heartbeat renews a lease that is still its own, also one that expired.
Renew(w) ==
  /\ worker[w].pc # "idle" /\ Owns(w) /\ queue[worker[w].row].expired
  /\ queue' = [queue EXCEPT ![worker[w].row].expired = FALSE]
  /\ UNCHANGED <<worker, health, ownerVars, peerVars, strays, historyVars, boundVars>>
(***************************************************************************)
(* Settling: only the row the worker still owns changes.                   *)
(***************************************************************************)
Finish(w) == worker' = [worker EXCEPT ![w] = Idle]

Settle(w, item) ==
  /\ queue' = IF Owns(w) THEN [queue EXCEPT ![worker[w].row] = item] ELSE queue
  /\ Finish(w)

\* What becomes of a row after a failure that may pass.
Again(attempts) ==
  IF attempts >= MaxAttempts THEN Item("dead", attempts) ELSE Item("pending", attempts)

\* A reclaimed row without attempts left is given up unsent.
Exhaust(w) ==
  /\ worker[w].pc = "exhausted"
  /\ Settle(w, Item("dead", worker[w].attempts))
  /\ UNCHANGED <<health, ownerVars, peerVars, strays, historyVars, boundVars>>

\* The trust policy or the sender cannot be read: later, and no attempt.
Postpone(w) ==
  /\ worker[w].pc = "claimed" /\ Fault
  /\ Settle(w, Item("pending", worker[w].attempts))
  /\ UNCHANGED <<health, ownerVars, peerVars, strays, historyVars>>

\* The policy blocks the domain, or nobody can be found to send as.
Refuse(w) ==
  /\ worker[w].pc = "claimed"
  /\ Settle(w, Item("dead", worker[w].attempts))
  /\ UNCHANGED <<health, ownerVars, peerVars, strays, historyVars, boundVars>>

\* The key cannot be loaded, for now or for good, or the request cannot be made.
FailLocally(w) ==
  LET attempts == worker[w].attempts + 1
  IN  /\ worker[w].pc = "claimed"
      /\ \/ Settle(w, Again(attempts))
         \/ Settle(w, Item("dead", attempts))
      /\ UNCHANGED <<health, ownerVars, peerVars, strays, historyVars, boundVars>>

\* The lease is not looked at again before the request is sent.
Send(w) ==
  /\ worker[w].pc = "claimed"
  /\ worker' = [worker EXCEPT ![w].pc = "posted"]
  /\ sends' = [sends EXCEPT ![worker[w].row] = @ + 1]
  /\ UNCHANGED <<queue, health, ownerVars, peerVars, strays, granted, boundVars>>

(***************************************************************************)
(* The inbox that receives.  The receipt, the handler's effects and the    *)
(* outcome are one transaction; a failure that may pass leaves nothing,    *)
(* and so does a refusal before the receipt.                               *)
(***************************************************************************)
\* Faulty variant: every request runs the handler.
TakesAlways(r) ==
  /\ receipt' = [receipt EXCEPT ![r] = "accepted"]
  /\ effects' = [effects EXCEPT ![r] = @ + 1]

Takes(r) ==
  /\ receipt[r] = "none"
  /\ receipt' = [receipt EXCEPT ![r] = "accepted"]
  /\ effects' = [effects EXCEPT ![r] = @ + 1]

Rejects(r) ==
  /\ receipt[r] = "none"
  /\ receipt' = [receipt EXCEPT ![r] = "rejected"]
  /\ UNCHANGED effects

\* The inbox answers a request for r.
Answers(r, answer) ==
  \/ answer = "ok" /\ Takes(r)
  \/ answer = "ok" /\ receipt[r] = "accepted" /\ UNCHANGED peerVars
  \/ answer = "permanent" /\ Rejects(r)
  \/ answer = "permanent" /\ UNCHANGED peerVars
  \/ answer = "failed" /\ UNCHANGED peerVars

\* The request is answered, and the answer arrives or is lost.
Answer(w) ==
  /\ worker[w].pc = "posted"
  /\ \E answer \in {"ok", "permanent", "failed"} :
       /\ Answers(worker[w].row, answer)
       /\ \E heard \in {answer, "failed"} :
            worker' = [worker EXCEPT ![w].pc = "answered", ![w].answer = heard]
  /\ UNCHANGED <<queue, health, ownerVars, strays, historyVars, boundVars>>

\* A request nobody waits for is lost, or arrives later.
Loses(r) ==
  \/ UNCHANGED strays
  \/ strays[r] < scenario.strays /\ strays' = [strays EXCEPT ![r] = @ + 1]

\* No answer came in thirty seconds, or no connection.
TimeOut(w) ==
  /\ worker[w].pc = "posted"
  /\ Loses(worker[w].row)
  /\ worker' = [worker EXCEPT ![w].pc = "answered", ![w].answer = "failed"]
  /\ UNCHANGED <<queue, health, ownerVars, peerVars, historyVars, boundVars>>

StrayArrives(r) ==
  /\ strays[r] > 0
  /\ strays' = [strays EXCEPT ![r] = @ - 1]
  /\ \E answer \in {"ok", "permanent", "failed"} : Answers(r, answer)
  /\ UNCHANGED <<queue, worker, health, ownerVars, historyVars, boundVars>>

(***************************************************************************)
(* Settling an answer, with the health of the domain.                      *)
(***************************************************************************)
\* Success ends the domain's streak, unless the row is no longer the worker's.
SettleSuccess(w) ==
  LET r == worker[w].row
  IN  /\ worker[w].pc = "answered" /\ worker[w].answer = "ok"
      /\ Settle(w, Item("delivered", queue[r].attempts))
      /\ health' = IF Owns(w) THEN [health EXCEPT ![DomainOf[r]] = Well] ELSE health
      /\ UNCHANGED <<ownerVars, peerVars, strays, historyVars, boundVars>>

\* The peer answered and declined: its health is left alone.
SettleRejection(w) ==
  /\ worker[w].pc = "answered" /\ worker[w].answer = "permanent"
  /\ Settle(w, Item("dead", worker[w].attempts + 1))
  /\ UNCHANGED <<health, ownerVars, peerVars, strays, historyVars, boundVars>>

Streak(d) ==
  [health[d] EXCEPT !.failures = IF @ < Threshold THEN @ + 1 ELSE @]

Revoked(d) == Streak(d).failures >= Threshold /\ Streak(d).week

\* Every row of the domain that is still to be delivered dies with it.
Swept(item, r, w) ==
  LET own == IF r = worker[w].row THEN item ELSE queue[r]
  IN  IF DomainOf[r] = DomainOf[worker[w].row] /\ own.status \in {"pending", "delivering"}
      THEN [Item("dead", own.attempts) EXCEPT !.cancelled = TRUE]
      ELSE own

\* The peer did not answer: the row waits or dies, the streak grows, and a
\* streak that is long enough revokes the domain.
SettleFailure(w) ==
  LET item == Again(worker[w].attempts + 1)
      d == DomainOf[worker[w].row]
  IN  /\ worker[w].pc = "answered" /\ worker[w].answer = "failed"
      /\ \/ ~Owns(w) /\ UNCHANGED <<queue, health>>
         \/ /\ Owns(w) /\ ~Revoked(d)
            /\ queue' = [queue EXCEPT ![worker[w].row] = item]
            /\ health' = [health EXCEPT ![d] = Streak(d)]
         \/ /\ Owns(w) /\ Revoked(d)
            /\ queue' = [r \in Rows |-> Swept(item, r, w)]
            /\ health' = [health EXCEPT ![d] = Well]
      /\ Finish(w)
      /\ UNCHANGED <<ownerVars, peerVars, strays, historyVars, boundVars>>

WeekPasses(d) ==
  /\ health[d].failures > 0 /\ ~health[d].week
  /\ health' = [health EXCEPT ![d].week = TRUE]
  /\ UNCHANGED <<queue, worker, ownerVars, peerVars, strays, historyVars, boundVars>>

\* The process dies, or a statement fails and ends the batch; its heartbeat
\* stops with it and the row keeps the lease.
Abandon(w) ==
  /\ worker[w].pc # "idle" /\ Fault
  /\ IF worker[w].pc = "posted" THEN Loses(worker[w].row) ELSE UNCHANGED strays
  /\ Finish(w)
  /\ UNCHANGED <<queue, health, ownerVars, peerVars, historyVars>>

(***************************************************************************)
(* The owner.                                                              *)
(***************************************************************************)
\* The activity is recorded and its row inserted in one transaction; a follow
\* of an account of this instance is then delivered in process as well.
Enqueue(r) ==
  /\ queue[r].status = "new" /\ r \in scenario.rows
  /\ queue' = [queue EXCEPT ![r] = Item("pending", 0)]
  /\ inProcess' = [inProcess EXCEPT ![r] = IF r \in Local THEN "todo" ELSE "none"]
  /\ granted' = [granted EXCEPT ![r] = MaxAttempts]
  /\ UNCHANGED <<worker, health, asked, peerVars, strays, sends, boundVars>>

\* The local inbox handles the follow under the same receipt; when it fails,
\* or the process dies, the row is left to the workers.
DeliverInProcess(r) ==
  /\ inProcess[r] = "todo"
  /\ \/ /\ Answers(r, "ok")
        /\ inProcess' = [inProcess EXCEPT ![r] = "mark"]
     \/ /\ \E answer \in {"permanent", "failed"} : Answers(r, answer)
        /\ inProcess' = [inProcess EXCEPT ![r] = "none"]
  /\ UNCHANGED <<queue, worker, health, asked, strays, historyVars, boundVars>>

\* The row is marked whatever its status and its lease; the mark may fail.
MarkInProcess(r) ==
  /\ inProcess[r] = "mark"
  /\ inProcess' = [inProcess EXCEPT ![r] = "none"]
  /\ \/ UNCHANGED queue
     \/ /\ queue[r].status # "gone"
        /\ queue' = [queue EXCEPT ![r].status = "delivered"]
  /\ UNCHANGED <<worker, health, asked, peerVars, strays, historyVars, boundVars>>

Cancelled(S) ==
  queue' = [r \in Rows |-> IF r \in S
                           THEN [Item("dead", queue[r].attempts) EXCEPT !.cancelled = TRUE]
                           ELSE queue[r]]

\* An owner cancels one row, or as many of the live ones as the call takes.
Cancel(S) ==
  /\ S # {} /\ \A r \in S : Live(r)
  /\ Cancelled(S)
  /\ UNCHANGED <<worker, health, ownerVars, peerVars, strays, historyVars, boundVars>>

\* The room or channel ends; the word of its end is still delivered.
CancelResource ==
  /\ \E r \in Resource : Live(r)
  /\ Cancelled({r \in Resource : Live(r)})
  /\ UNCHANGED <<worker, health, ownerVars, peerVars, strays, historyVars, boundVars>>

Requeued(S) ==
  /\ queue' = [r \in Rows |-> IF r \in S THEN Item("pending", 0) ELSE queue[r]]
  /\ granted' = [r \in Rows |-> IF r \in S THEN granted[r] + MaxAttempts ELSE granted[r]]

Retriable(r) == queue[r].status \in {"dead", "pending"}

\* retry_delivery_item looks at the status first ...
AskRetry(r) ==
  /\ Retriable(r) /\ r \notin asked /\ Asks
  /\ asked' = asked \cup {r}
  /\ UNCHANGED <<queue, worker, health, inProcess, peerVars, strays, historyVars>>

\* Faulty variant: the statement relies on that look.
RetryUnchecked(r) ==
  /\ r \in asked
  /\ asked' = asked \ {r}
  /\ Requeued({r})
  /\ UNCHANGED <<worker, health, inProcess, peerVars, strays, sends, boundVars>>

\* ... and again in the statement that puts the row back, cancelled or not.
Retry(r) ==
  /\ r \in asked
  /\ asked' = asked \ {r}
  /\ IF Retriable(r) THEN Requeued({r}) ELSE UNCHANGED <<queue, granted>>
  /\ UNCHANGED <<worker, health, inProcess, peerVars, strays, sends, boundVars>>

\* retry_all_dead_for_user leaves cancelled rows alone.
RetryAllDead(S) ==
  /\ S # {} /\ \A r \in S : Dead(r) /\ ~queue[r].cancelled
  /\ Asks
  /\ Requeued(S)
  /\ UNCHANGED <<worker, health, ownerVars, peerVars, strays, sends>>

\* Dead rows are dismissed one by one or purged.
Dismiss(S) ==
  /\ S # {} /\ \A r \in S : Dead(r)
  /\ queue' = [r \in Rows |-> IF r \in S THEN Item("gone", 0) ELSE queue[r]]
  /\ UNCHANGED <<worker, health, ownerVars, peerVars, strays, historyVars, boundVars>>

WorkerStep(w) ==
  \/ \E r \in Rows : Claim(w, r)
  \/ Exhaust(w) \/ Refuse(w) \/ FailLocally(w) \/ Send(w)
  \/ Answer(w) \/ TimeOut(w)
  \/ SettleSuccess(w) \/ SettleRejection(w) \/ SettleFailure(w)

Disturbance ==
  \/ \E w \in Workers : Postpone(w) \/ Abandon(w) \/ Renew(w)
  \/ \E r \in Rows : StrayArrives(r)
  \/ \E d \in Domains : WeekPasses(d)

OwnerStep ==
  \/ \E r \in Rows : Enqueue(r) \/ DeliverInProcess(r) \/ MarkInProcess(r)
  \/ \E r \in Rows : AskRetry(r) \/ Retry(r)
  \/ \E S \in SUBSET Rows : Cancel(S) \/ RetryAllDead(S) \/ Dismiss(S)
  \/ CancelResource

Next ==
  \/ \E w \in Workers : WorkerStep(w)
  \/ \E r \in Rows : Expire(r)
  \/ Disturbance
  \/ OwnerStep

Spec == Init /\ [][Next]_vars

\* The job of each process runs every few seconds, a request is bounded by its
\* timeout, and time passes.
Fairness ==
  /\ \A w \in Workers : WF_vars(WorkerStep(w))
  /\ \A r \in Rows : WF_vars(Expire(r))

FairSpec == Spec /\ Fairness

=============================================================================
