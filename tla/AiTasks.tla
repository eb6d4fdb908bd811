------------------------------- MODULE AiTasks -------------------------------
(***************************************************************************)
(* The AI tasks of Tapps and of the host (api/tapp_runtime/ai_tasks.rs,    *)
(* services/governed_text.rs), their quota (ai_quota.rs), their records in *)
(* the shared registry (ai_task_registry.rs) and the tasks that carry them *)
(* out in each process (ai_task_runtime.rs, ai_task_execute.rs).           *)
(*                                                                         *)
(* A request reserves a call and an estimate of tokens in every budget it  *)
(* counts against, registers its task in a transaction that checks key and *)
(* limits again, and leaves the work to a task of its own.  That task      *)
(* settles the reservation by what was used, or gives the tokens back, and *)
(* writes the outcome; a sweep writes it for one that broke off.           *)
(*                                                                         *)
(* A transaction of the database is one step.  The id of a task is its     *)
(* idempotency key, or its own when it has none.                           *)
(***************************************************************************)
EXTENDS Integers, FiniteSets

CONSTANTS
  Requests, None,
  Governed,              \* requests of the host, which wait for the outcome
  Ids, IdOf,             \* requests with the same key have the same id
  Subjects, SubjectOf,   \* whose task an id is
  Replicas, ReplicaOf,   \* the process a request is served by
  Buckets, BucketsOf,    \* the budgets a request counts against
  CallLimit, TokenLimit, \* a bucket's calls and tokens of a day
  Estimate, Usages,      \* tokens reserved, and tokens that may be used
  MaxActive,             \* MAX_ACTIVE_TASKS_PER_SUBJECT
  MaxRetained,           \* MAX_RETAINED_TASKS_PER_SUBJECT
  Days,                  \* the days of a behaviour at most, numbered from 1
  Scenarios              \* what may happen in a behaviour

ASSUME RequestAssumption ==
  /\ IsFiniteSet(Requests) /\ None \notin Requests /\ Governed \subseteq Requests
  /\ IdOf \in [Requests -> Ids] /\ SubjectOf \in [Ids -> Subjects]
  /\ ReplicaOf \in [Requests -> Replicas]
  /\ \A r \in Governed, q \in Requests : IdOf[r] = IdOf[q] => r = q
ASSUME BudgetAssumption ==
  /\ BucketsOf \in [Requests -> SUBSET Buckets]
  /\ CallLimit \in [Buckets -> Nat] /\ TokenLimit \in [Buckets -> Nat]
  /\ Estimate \in [Requests -> Nat] /\ Usages \subseteq Nat
ASSUME TaskLimitAssumption ==
  /\ IsFiniteSet(Ids) /\ MaxActive \in Nat \ {0} /\ MaxRetained \in Nat
ASSUME DayAssumption == 1 \in Days /\ IsFiniteSet(Days) /\ Days = 1 .. Cardinality(Days)

\* A scenario says which requests come, and bounds the days, the operations that
\* fail, the handlers that are dropped and the processes that die.
ASSUME ScenarioAssumption ==
  Scenarios \subseteq [requests : SUBSET Requests, days : Days, faults : Nat,
                       drops : Nat, crashes : Nat]

VARIABLES
  request,  \* where the handler of a request stands
  task,     \* where the task that carries it out stands
  local,    \* the status in AI_TASKS of its process
  signal,   \* the watch channel of the task says cancelled
  outcome, used, \* what the model provider answered, and tokens used
  bill,     \* what became of its reservation (history)
  pinned,   \* the day of its reservation, period_start
  row,      \* runtime_registry, namespace ai_task
  cancelled,\* ids with a record in namespace ai_cancel
  calls, tokens, \* ai_quota_usage: used, per bucket and day
  day,
  scenario, \* the scenario, chosen at the start
  faults, drops, crashes

ledgerVars == <<calls, tokens, bill, pinned>>
registryVars == <<row, cancelled>>
taskVars == <<task, local, signal, outcome, used>>
boundVars == <<scenario, faults, drops, crashes>>
vars == <<request, taskVars, ledgerVars, registryVars, day, boundVars>>

Terminal == {"Completed", "Failed", "Cancelled"}
Unfinished == {"Queued", "Running"}
NoRow == [by |-> None, status |-> "none"]
Record(r, status) == [by |-> r, status |-> status]

Init ==
  /\ request = [r \in Requests |-> "idle"]
  /\ task = [r \in Requests |-> "none"]
  /\ local = [r \in Requests |-> "none"]
  /\ signal = [r \in Requests |-> FALSE]
  /\ outcome = [r \in Requests |-> "none"]
  /\ used = [r \in Requests |-> 0]
  /\ bill = [r \in Requests |-> "none"]
  /\ pinned = [r \in Requests |-> 1]
  /\ row = [i \in Ids |-> NoRow]
  /\ cancelled = {}
  /\ calls = [b \in Buckets |-> [d \in Days |-> 0]]
  /\ tokens = [b \in Buckets |-> [d \in Days |-> 0]]
  /\ day = 1
  /\ scenario \in Scenarios
  /\ faults = 0 /\ drops = 0 /\ crashes = 0

Fault ==
  faults < scenario.faults /\ faults' = faults + 1 /\ UNCHANGED <<scenario, drops, crashes>>
NoFault == UNCHANGED boundVars

Moves(r, from, to) == request[r] = from /\ request' = [request EXCEPT ![r] = to]
Steps(r, from, to) == task[r] = from /\ task' = [task EXCEPT ![r] = to]

(***************************************************************************)
(* The ledger.  Every batch of rows is added in one transaction, or not at *)
(* all: a row of the reserved period that is missing or would fall below   *)
(* zero takes the whole batch back.                                        *)
(***************************************************************************)
\* Faulty variant: a batch goes to the rows of today.
PeriodOfToday(r) == day

Period(r) == pinned[r]

Added(ledger, r, period, amount) ==
  [b \in Buckets |-> [d \in Days |->
     IF b \in BucketsOf[r] /\ d = period THEN ledger[b][d] + amount ELSE ledger[b][d]]]

Covers(ledger, r, amount) ==
  \A b \in BucketsOf[r] : ledger[b][Period(r)] + amount >= 0

\* reserve_buckets: the call and the estimate fit into every budget of today.
Fits(r) ==
  \A b \in BucketsOf[r] :
    /\ calls[b][day] < CallLimit[b]
    /\ Estimate[r] <= TokenLimit[b] - tokens[b][day]

Reserved(r) ==
  /\ calls' = Added(calls, r, day, 1)
  /\ tokens' = Added(tokens, r, day, Estimate[r])
  /\ pinned' = [pinned EXCEPT ![r] = day]
  /\ bill' = [bill EXCEPT ![r] = "reserved"]

\* settle_ai_quota, release_ai_token_reservation and rollback_ai_quota_reservation
\* either apply or, failing, are logged and forgotten.
Applied(r, callAmount, tokenAmount, what) ==
  \/ /\ Covers(calls, r, callAmount) /\ Covers(tokens, r, tokenAmount)
     /\ calls' = Added(calls, r, Period(r), callAmount)
     /\ tokens' = Added(tokens, r, Period(r), tokenAmount)
     /\ bill' = [bill EXCEPT ![r] = what]
     /\ UNCHANGED pinned
     /\ NoFault
  \/ /\ ~(Covers(calls, r, callAmount) /\ Covers(tokens, r, tokenAmount))
     /\ UNCHANGED ledgerVars
     /\ NoFault
  \/ Fault /\ UNCHANGED ledgerVars

(***************************************************************************)
(* A request: create_ai_task, execute_governed_text.                       *)
(***************************************************************************)
Taken(r) == row[IdOf[r]] # NoRow

RowsOf(s) == {i \in Ids : SubjectOf[i] = s /\ row[i] # NoRow}
ActiveOf(s) == {i \in RowsOf(s) : row[i].status \notin Terminal}
Full(r) ==
  LET s == SubjectOf[IdOf[r]]
  IN  Cardinality(ActiveOf(s)) >= MaxActive \/ Cardinality(RowsOf(s)) >= MaxRetained

LocalFull(r) ==
  LET here == {q \in Requests : /\ ReplicaOf[q] = ReplicaOf[r] /\ local[q] # "none"
                                /\ SubjectOf[IdOf[q]] = SubjectOf[IdOf[r]]}
  IN  \/ Cardinality({q \in here : local[q] \notin Terminal}) >= MaxActive
      \/ Cardinality(here) >= MaxRetained

\* The first look at the registry and at AI_TASKS; only requests of Tapps take it.
Preflight(r) ==
  LET refused == r \notin Governed /\ (Taken(r) \/ Full(r) \/ LocalFull(r))
  IN  /\ r \in scenario.requests
      /\ Moves(r, "idle", IF refused THEN "answered" ELSE "checked")
      /\ UNCHANGED <<taskVars, ledgerVars, registryVars, day, boundVars>>

\* No context, no model, the rate limit, the cooldown or a budget.
Refuse(r) ==
  /\ Moves(r, "checked", "answered")
  /\ UNCHANGED <<taskVars, ledgerVars, registryVars, day, boundVars>>

\* A commit whose answer is lost leaves a reservation nobody knows of.
Reserve(r) ==
  /\ Fits(r) /\ Reserved(r)
  /\ \/ Moves(r, "checked", "reserved") /\ NoFault
     \/ Moves(r, "checked", "answered") /\ Fault
  /\ UNCHANGED <<taskVars, registryVars, day>>

UsageUnread(r) ==
  /\ Moves(r, "reserved", "refunding")
  /\ Fault
  /\ UNCHANGED <<taskVars, ledgerVars, registryVars, day>>

Queue(r) == row' = [row EXCEPT ![IdOf[r]] = Record(r, "Queued")]

\* Faulty variant: what the first look found is enough.
RegisterUnchecked(r) ==
  /\ Moves(r, "reserved", "registered") /\ Queue(r) /\ NoFault
  /\ UNCHANGED <<taskVars, ledgerVars, cancelled, day>>

\* register_ai_task_atomically: the transaction holds the subject's lock.  When
\* its commit fails it may have been carried out all the same.
Register(r) ==
  /\ \/ /\ ~Taken(r) /\ ~Full(r)
        /\ Queue(r)
        /\ \/ Moves(r, "reserved", "registered") /\ NoFault
           \/ Moves(r, "reserved", "refunding") /\ Fault
     \/ /\ Taken(r) \/ Full(r)
        /\ Moves(r, "reserved", "refunding") /\ NoFault /\ UNCHANGED row
     \/ Moves(r, "reserved", "refunding") /\ Fault /\ UNCHANGED row
  /\ UNCHANGED <<taskVars, ledgerVars, cancelled, day>>

Refund(r) ==
  /\ Moves(r, "refunding", "answered")
  /\ Applied(r, -1, -Estimate[r], "refunded")
  /\ UNCHANGED <<taskVars, registryVars, day>>

\* insert_local and tokio::spawn.
Spawn(r) ==
  /\ Moves(r, "registered", IF r \in Governed THEN "waiting" ELSE "answered")
  /\ Steps(r, "none", "spawned")
  /\ local' = [local EXCEPT ![r] = "Queued"]
  /\ UNCHANGED <<signal, outcome, used, ledgerVars, registryVars, day, boundVars>>

\* The host has the outcome, from local_snapshot.
Collect(r) ==
  /\ Moves(r, "waiting", "answered")
  /\ task[r] = "over"
  /\ UNCHANGED <<taskVars, ledgerVars, registryVars, day, boundVars>>

\* The client hangs up, or the host's caller stops: the handler ends where it
\* waits.  Only run_owned_local tells the task (CancelOnDrop).
Drop(r) ==
  /\ drops < scenario.drops /\ drops' = drops + 1
  /\ request[r] \in {"checked", "reserved", "refunding", "registered", "waiting"}
  /\ request' = [request EXCEPT ![r] = "dropped"]
  /\ signal' = [signal EXCEPT ![r] = @ \/ request[r] = "waiting"]
  /\ UNCHANGED <<task, local, outcome, used, ledgerVars, registryVars, day, scenario, faults, crashes>>

(***************************************************************************)
(* The task: execute_task.                                                 *)
(***************************************************************************)
\* update_task_state(Running); the record stays Queued when it cannot be written.
Start(r) ==
  /\ Steps(r, "spawned", "running")
  /\ local' = [local EXCEPT ![r] = "Running"]
  /\ \/ row' = [row EXCEPT ![IdOf[r]] = Record(r, "Running")] /\ NoFault
     \/ UNCHANGED row /\ Fault
  /\ UNCHANGED <<request, signal, outcome, used, ledgerVars, cancelled, day>>

Ends(r, what, spent) ==
  /\ Steps(r, "running", "ended")
  /\ outcome' = [outcome EXCEPT ![r] = what]
  /\ used' = [used EXCEPT ![r] = spent]
  /\ UNCHANGED <<request, local, signal, ledgerVars, registryVars, day, boundVars>>

\* Pictures and searches are settled at no tokens, as they reserved none.
Answered(r) ==
  \E spent \in IF Estimate[r] = 0 THEN {0} ELSE Usages : Ends(r, "Completed", spent)

\* The provider failed, or TASK_TIMEOUT is over.
ProviderFails(r) == Ends(r, "Failed", 0)

HearCancel(r) == (signal[r] \/ IdOf[r] \in cancelled) /\ Ends(r, "Cancelled", 0)

\* Settled when the provider answered, else only the tokens are given back.
Bill(r) ==
  /\ Steps(r, "ended", "billed")
  /\ \/ outcome[r] = "Completed" /\ Applied(r, 0, used[r] - Estimate[r], "settled")
     \/ outcome[r] # "Completed" /\ Applied(r, 0, -Estimate[r], "released")
  /\ UNCHANGED <<request, local, signal, outcome, used, registryVars, day>>

\* finish_task: the outcome, or a failure to save it, or neither; each commit may
\* have been carried out though it is reported as failed.
Written(r, status) ==
  \/ /\ row' = [row EXCEPT ![IdOf[r]] = Record(r, status)]
     /\ local' = [local EXCEPT ![r] = status]
     /\ NoFault
  \/ /\ row' = [row EXCEPT ![IdOf[r]] = Record(r, "Failed")]
     /\ local' = [local EXCEPT ![r] = "Failed"]
     /\ Fault
  \/ /\ row' \in {row, [row EXCEPT ![IdOf[r]] = Record(r, status)],
                  [row EXCEPT ![IdOf[r]] = Record(r, "Failed")]}
     /\ UNCHANGED local
     /\ Fault

Finish(r) ==
  /\ Steps(r, "billed", "over")
  /\ Written(r, outcome[r])
  /\ UNCHANGED <<request, signal, outcome, used, ledgerVars, cancelled, day>>

\* The task panics at work (analyzer/client.rs does when no client can be built).
Panic(r) ==
  /\ Steps(r, "running", "over")
  /\ Fault
  /\ UNCHANGED <<request, local, signal, outcome, used, ledgerVars, registryVars, day>>

\* Faulty variant: the sweep takes only what was cancelled.
AbandonedByCaller(r) == task[r] = "over" /\ local[r] \in Unfinished /\ signal[r]

\* The receiver of the watch channel is gone with the task.
Abandoned(r) == task[r] = "over" /\ local[r] \in Unfinished

\* cleanup_local_tasks
Reap(r) ==
  /\ Abandoned(r)
  /\ Written(r, "Cancelled")
  /\ UNCHANGED <<request, task, signal, outcome, used, ledgerVars, cancelled, day>>

(***************************************************************************)
(* Cancelling, retention, days and deaths.                                 *)
(***************************************************************************)
\* cancel_ai_task, and cancel_shared for one record: the request to cancel is
\* recorded, and the process that serves it also tells a task of its own.
Cancel(i, p) ==
  /\ row[i].status \in Unfinished
  /\ cancelled' = cancelled \cup {i}
  /\ signal' = [r \in Requests |->
       signal[r] \/ (IdOf[r] = i /\ ReplicaOf[r] = p /\ local[r] \in Unfinished)]
  /\ UNCHANGED <<request, task, local, outcome, used, ledgerVars, row, day, boundVars>>

\* A process registers, works on or still has to end the task.
Worked(i) ==
  \E r \in Requests :
    /\ IdOf[r] = i
    /\ request[r] = "registered" \/ local[r] \in Unfinished

\* A record, its request to cancel and the local copy of its outcome expire
\* together.  Work ends long before its record expires.
Expire(i) ==
  /\ row[i] # NoRow /\ ~Worked(i)
  /\ row' = [row EXCEPT ![i] = NoRow]
  /\ cancelled' = cancelled \ {i}
  /\ local' = [r \in Requests |-> IF IdOf[r] = i THEN "none" ELSE local[r]]
  /\ UNCHANGED <<request, task, signal, outcome, used, ledgerVars, day, boundVars>>

NextDay ==
  /\ day < scenario.days /\ day' = day + 1
  /\ UNCHANGED <<request, taskVars, ledgerVars, registryVars, boundVars>>

Crash(p) ==
  LET here == {r \in Requests : ReplicaOf[r] = p}
  IN  /\ crashes < scenario.crashes /\ crashes' = crashes + 1
      /\ request' = [r \in Requests |->
           IF r \in here /\ request[r] \notin {"idle", "answered"}
           THEN "dropped" ELSE request[r]]
      /\ task' = [r \in Requests |->
           IF r \in here /\ task[r] # "none" THEN "over" ELSE task[r]]
      /\ local' = [r \in Requests |-> IF r \in here THEN "none" ELSE local[r]]
      /\ UNCHANGED <<signal, outcome, used, ledgerVars, registryVars, day, scenario, faults, drops>>

RequestStep(r) ==
  \/ Preflight(r) \/ Refuse(r) \/ Reserve(r) \/ UsageUnread(r) \/ Register(r)
  \/ Refund(r) \/ Spawn(r) \/ Collect(r) \/ Drop(r)

TaskStep(r) ==
  \/ Start(r) \/ Answered(r) \/ ProviderFails(r) \/ HearCancel(r) \/ Bill(r)
  \/ Finish(r) \/ Panic(r) \/ Reap(r)

RegistryStep(i) == Expire(i) \/ \E p \in Replicas : Cancel(i, p)

Next ==
  \/ \E r \in Requests : RequestStep(r) \/ TaskStep(r)
  \/ \E i \in Ids : RegistryStep(i)
  \/ NextDay
  \/ \E p \in Replicas : Crash(p)

Spec == Init /\ [][Next]_vars

\* A handler that registered goes on unless it is dropped; a task runs on and its
\* provider answers or TASK_TIMEOUT ends it; the sweep comes every minute; time
\* passes.  Clients need not do anything.
TaskFairness ==
  /\ \A r \in Requests :
       /\ WF_vars(Spawn(r)) /\ WF_vars(Start(r)) /\ WF_vars(ProviderFails(r))
       /\ WF_vars(Bill(r)) /\ WF_vars(Finish(r)) /\ WF_vars(Reap(r))
  /\ \A i \in Ids : WF_vars(Expire(i))

FairSpec == Spec /\ TaskFairness

=============================================================================
