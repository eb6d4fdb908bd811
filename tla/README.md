# Formal models of Myriad

Myriad is a self-hosted personal portal: a Rust backend with a database, a
TypeScript frontend, a proxy in front of both, extensions ("tapps"), and an
*updater*, a daemon of its own that replaces the running installation by a newer
release and takes it back when that goes wrong. This directory holds TLA+ models
of its protocols, the TLC configurations that check them, and proofs that the
TLA+ proof system checks.

Seven parts are modelled. Four are of the updater (`src/updater`), whose mistakes
cost most: it stops the site, copies and wipes the database directory, rewrites
`.env` and the Compose file, and replaces itself, and has to pick up after its own
death between any two of those steps. Three are of the backend: the *host lease*
(`services/persona_sync`), the row that says on which end the persona ("she", as the
code calls her) lives, the site or one of the owner's devices; the *delivery queue* of
the federation (`federation/delivery`), from which workers deliver activities to the
inboxes of other instances; and the *AI tasks* of tapps and of the host
(`services/ai_*.rs`), which reserve, spend and give back a quota of model calls and tokens.

| Part | Modules | What it is about |
|---|---|---|
| updates and rollbacks | `Updater` and what it extends | one job at a time through its phases, and the recovery of an interrupted one |
| front desk | `Admission`, which extends `Updater` | repeated requests, and rescue calls beside the worker |
| backups | `Snapshots` | the directories behind `snapshots.json`: copying, restoring, retention, sweeping |
| self-update | `SelfUpdate` | three processes that replace each other |
| host lease | `HostLease` | moves, imports, merges and removals of devices that change one row |
| delivery queue | `Delivery` | claims under leases, retries and cancellations, and the receipts of the inbox at the other end |
| AI tasks and quota | `AiTasks` | requests that reserve and register, tasks that settle and write an outcome, the sweep of those that broke off |

## 1. Inventory

### Updater (`src/updater/src`)

| Part | State | Operations |
|---|---|---|
| `state/` | job files, `job.current`, `maintenance.json`, `updater.json`, `prepared.<job>.json`, `snapshots.json` | atomic write and read of each |
| `worker/mod.rs` | one loop over a command channel | admit an update or a rollback, reconcile `current_version`, spawn tasks, resume or restore after a restart, release jobs on rescue |
| `worker/update.rs` | the task of one update job | preflight, maintenance, stop, snapshot, install Compose, swap tags, start, probe, finalize; finish after a failure before or after the swap |
| `worker/rollback.rs` | the task of one rollback job, or the second half of a failed update | stop, swap tag back, restore snapshot, start the old release, probe |
| `worker/machine.rs` | the steps of the job file and the phase in `maintenance.json` | enter a phase, finish a step |
| `worker/recovery.rs` | none of its own | classify what a dead process left, act on the classification |
| `snapshot.rs` | snapshot directories and their index | create, restore, prune, sweep, delete |
| `deployment.rs` | the Compose file and a backup of it per job | install and restore a release's template |
| `worker/preflight*.rs` | the prepared report | check the target, write the report |
| `worker/self_update.rs` | `self-update-last.json`, the worker's task | record a request, look up its target, hand it to the guard, publish that it was refused, resume it after a restart |
| `docker/guard/` | the mutation gate, the task that holds it | accept a request, start a helper, watch it, start and retry a recovery, publish the outcome; take all this up again at startup |
| `docker/self_update_helper.rs` | none; one process per helper container | recreate guard, updater and gateway with the images it was given |
| `api/`, `rescue.rs` | none of its own | HTTP commands; the rescue calls, which write `job.current` and `maintenance.json` themselves |
| `release/` | none | ask GitHub, Docker Hub and cosign |

How they interact: the API sends commands to the worker loop; the loop writes
the job file and `job.current` and spawns a task for the job; the task advances
through phases, each recorded first in `maintenance.json` and then in the job
file; the proxy reads `maintenance.json` and closes or opens the site; the
backend migrates the database it is started on; a restarted updater reads
`maintenance.json`, `job.current` and the job file they name and decides what to
do before it serves.

What is hard: the records are separate files, so a crash can fall between any
two writes; the phase is recorded before the work it names, so a record does
not say whether the work was done; recovery may itself be interrupted, and what
it wrote is read by the next recovery; a failure handler may fail; several
operations of Docker fail halfway (some containers stopped, some not); the
backend migrates pgdata on its own time, after which the old release cannot
run on it; and a task outlives the command that admitted it. `snapshots.json` and
the directories it names change in separate steps, in several threads and without a
lock. A self-update kills the worker that asked for it and the guard that watches
it; what is left is a container and a record, and three programs write that record.

What makes it correct: one task drives the host at a time; old code never runs
on pgdata of a newer release or on a half-restored one; an update never goes
forward without a backup of what it leaves; a site left closed names the job an
operator must look at; what `updater.json` says is what the host runs once the
site is open; a recorded success stays one; a crash alone never needs an
operator; every job ends; and a repeated request begins nothing twice and is told of nothing
that does not run. A backup that an update in flight depends on is never
removed, and data set out to be replaced is never lost. Two helpers never recreate
the stack at once, nothing else uses Docker meanwhile, and an outcome that was
published is true and final.

### The host lease (`src/backend/src/services/persona_sync`)

| Part | State | Operations |
|---|---|---|
| `lease.rs` | one row: holder, epoch, state, the move under way | read, change by a move's step, orphan settlement; this process's copy of it and the announcements that refresh it |
| `moves.rs` | the sealed files of a move | start, agree, confirm, seal, take pieces, apply, commit, cancel |
| `import.rs`, `merge.rs` | the import session | propose, confirm, take pages, check and land, hold and merge, cancel |
| `devices.rs`, `backups.rs`, `api/agent/devices.rs` | linked devices | revoke a device, take a backup, let go of or clear what is left of her |

The owner (HTTP), the devices (their own protocol) and the listener of announcements
call these at any time and in any order; each transaction locks the row, and what is
done between two transactions (sealing files, checking pages, merging) is not
protected. What is hard: requests may be lost, repeated or late; a device may be removed
amid its own move; the backend may die between the statements of an operation. What
makes it correct: two ends never live her at one epoch; the end that the row names has
her; a frozen her can always be given back; and the row changes only as a lease may.

### The delivery queue (`src/backend/src/federation`)

| Part | State | Operations |
|---|---|---|
| `types.rs`, `inbox/local_deliver.rs` | rows of `federation_delivery_queue` | insert a row with its activity; deliver in process what goes to this instance |
| `delivery/queue.rs` | a row's status, attempts and lease; a domain's failure streak | claim, renew, postpone, give up, settle an answer, revoke a domain |
| `delivery/dispatch.rs` | none | sign and send the request, class its answer |
| `delivery/query.rs` | none of its own | an owner's cancel, retry, retry all, dismiss and purge; the end of a room or channel |
| `inbox/receive.rs`, `inbox/receipt.rs` | `federation_inbox_receipts` | check a request, claim its receipt, run the handler, keep the outcome |
| `follow.rs` | none of its own | follow an account; one of this instance is delivered at once |

The table is polled by the combined process (`main.rs:593`) or by the federation process
(`worker.rs:126`), and by more than one of them when a second one is started or an old one has
not stopped yet, which is what the leases are for. Owners and ending rooms change rows while a request is on its way; the peer may answer late, twice or not at
all. What is hard: the worker that sends holds no transaction meanwhile, its lease may
expire and the row be taken by another, and a timed-out request may still arrive. What makes
it correct: an activity takes effect at its inbox at most once however often it is sent; it
counts as delivered only if it did; requests stay within the attempts its owner asked for; a
cancelled row stays cancelled; and no row is left behind by a dead worker.

### AI tasks and quota (`src/backend/src`)

| Part | State | Operations |
|---|---|---|
| `services/ai_quota.rs` | `ai_quota_usage`: calls and tokens used, per budget and day | reserve a call and an estimate in every budget a request counts against; settle, release or roll back a reservation, in the rows it was taken from |
| `services/ai_task_registry.rs` | records of tasks in `runtime_registry`, and requests to cancel them | register a task under its subject's lock; write a status |
| `services/ai_task_runtime.rs` | `AI_TASKS`, this process's copy of its tasks, each with a cancel channel | insert, cancel, write an outcome, sweep tasks whose executor is gone |
| `services/ai_task_execute.rs` | none beyond the task's own | call the provider until it answers, is cancelled or times out; settle or release; finish |
| `api/tapp_runtime/ai_tasks.rs`, `services/governed_text.rs` | none | create a task for a tapp, which polls; run one for the host, which waits; cancel |

Several processes share the database. What is hard: a request checks the registry first and
registers at the end, with the reservation and network calls in between, while another process
takes the same key or the last free slot; the reservation is settled minutes later, perhaps on
another day; the handler is dropped when its client hangs up, at any await; a commit may be
carried out though its answer is lost; the task may panic or its process die. What makes it
correct: one task works for a key; no model is called without a call on a budget, and the
ledger shows what is held; an outcome is written once; and no record stays unfinished.

### Other components

| Component | State and operations | What would make it correct |
|---|---|---|
| Docker guard | filter of Docker API requests | a forwarded request is one of the allowed shapes |
| Proxy | reads `maintenance.json`, forwards | never forwards while the site is closed |
| Job registry (`backend/src/services/jobs.rs`) | jobs with progress; start, update, cancel, finish, sweep | a finished job never changes again |
| Federation gate (`backend/src/services/federation_gate.rs`) | counters | the limit holds with concurrent requests |
| Runtime registry (`crates/myriad-runtime-registry`) | registered runtimes and leases | a dead runtime is forgotten, a live one is not |
| Persona merge (`crates/myriad-persona-sync`) | hybrid logical clocks, records | merge is commutative, associative, idempotent; clocks are monotone |
| MCP connections (`crates/myriad-mcp/src/actor.rs`) | one actor per connection | every request gets one answer or an error |
| Agent runtime | sessions, tool calls | - |
| HTTP API, integrations, frontend, tapps, tools, scripts | request handlers, user interface, packaging | - |

## 2. Modules

| Module | Content |
|---|---|
| `UpdaterTypes` | versions, phases and their classes (`state/types.rs`), job and maintenance records |
| `RecoveryPlan` | `plan_crash_recovery` as the pure function `CrashPlan`, with each test it makes as a predicate |
| `Updater` | the worker loop, the tasks, startup recovery, crashes, the backend's migrations: the state machine |
| `UpdaterProperties` | what is claimed of `Updater`, the statements of the repository the code does not keep, and the refinement mapping |
| `Admission` | idempotency keys and the rescue calls of the API, composed with `Updater` |
| `AdmissionProperties` | what a repeated request and a rescued site may rely on |
| `AdmissionInvariants` | the inductive invariant `DeskKept`, in named parts |
| `AdmissionProofs` | `DeskKept` is inductive under `GuidedSpec`; `KeyRunsOnce` and `ToldIsTrue` follow, and `SingleExecutor` on a rescued site; so is `HostFits` under `GuidedSpec` and `Restorable`, and `RescuedSiteIsSafe` follows |
| `Deployment` | the abstract specification: a site that changes release as a whole behind a closed gate |
| `MCUpdater` | the symmetry of job identifiers for TLC |
| `UpdaterInvariants` | the inductive invariants of the proofs |
| `UpdaterProofs` | one lemma per action of a task: what it can do to the variables the invariants read; `Sound` is inductive; type correctness and `NoDanglingJob` follow; then `Exclusive` under `PatientSpec`, and `SingleExecutor`; then `Recorded`, with `ClosedSiteHasOwner` and `SuccessIsFinal` |
| `UpdaterHostProofs` | `HostFits`, which ties the records to the host, is inductive under `PatientSpec` and `Restorable`; `NoOldCodeOnNewData` and `RecordMatchesSite` follow; so is `CalmFits`, for an updater that is only killed, and `NoOperatorNeeded` and `TagsAgree` follow; `SiteFits`, what template and schema are at each point, is inductive under `UpdateSpec` and `Restorable`; each step is one of `Deployment` or none, so `ImplementsDeployment` follows |
| `Snapshots` | the copy before an update, both ways of restoring, prune, sweep and delete, step by step |
| `SnapshotsProperties` | what backups are for |
| `SnapshotsProofs` | `LiveKept`, `RetentionKept`, `InFlightBackup` and `RollbackRestores`, with cleaners at work throughout |
| `SelfUpdate` | the worker's request, the guard's gate and task, the helper containers, their deaths |
| `SelfUpdateProperties`, `MCSelfUpdate` | what the handoff promises; five scenarios |
| `SelfUpdateInvariants` | the inductive invariants `Inv`, for every scenario, and `CleanInv`, where nothing stays behind or arrives late |
| `SelfUpdateProofs` | both are inductive; types, `OneInstaller` and `GateHeld` follow from the first, `JobAlone`, `FinalIsFinal`, `WholeStack` and `OutcomeTrue` from the second |
| `HostLease` | the row, the import session, the devices, this process's copy |
| `HerHome` | the abstract specification: a home that is left only when stopped or lost, and an epoch that goes up |
| `HostLeaseProperties`, `MCHostLease` | what the lease must keep; the refinement mapping; device symmetry |
| `HostLeaseInvariants` | the inductive invariants `RowInv`, of the row, and `HomeInv`, of the devices' copies, in named parts |
| `HostLeaseProofs` | one lemma per step: what it does to the row, the session and the ids; `RowInv` is inductive; `FrozenCanBeGivenBack` and `ImplementsHome` follow; while nobody deletes her `HomeInv` is too; `OneHome` and `HomeHasHer` follow |
| `Delivery` | the rows, the workers and their leases, the owners, the receiving inbox |
| `Courier` | the abstract specification: an activity takes effect at most once, and what is delivered did |
| `DeliveryProperties`, `MCDelivery` | what the queue must keep; the refinement mapping; four scenarios |
| `DeliveryProofs` | `Sound` and `Budget` are inductive; types, `ImplementsCourier`, `SendsBounded` and `CancelSticks` follow |
| `AiTasks` | the handlers, the tasks, the ledger, the registry, cancelling, expiry and deaths |
| `AiTasksProperties`, `MCAiTasks` | what they have to guarantee together; seven scenarios |
| `AiTasksProofs` | sums over finite sets; `Sound` is inductive; types, `OneRunEach`, `LedgerTrue` and `OutcomeStands` follow |

`Admission` is a composition: its steps are those of `Updater` with the front desk's state beside
them. The other parts are separate models. `Updater` keeps of a snapshot what update and rollback
need of it: whether it exists and which data it holds; `Snapshots` has the directories and
of a job only its use of snapshots. `SelfUpdate` keeps of jobs that `job.current` names
one and that it mutates through the guard.

### How `Updater` corresponds to the code

*State.* A job file is a record: kind, status, origin and target version,
snapshot, and of its list of steps the three facts the code reads back (last
phase, whether that step ended ok, last phase that is not `NeedsManual`).
`maint` is `maintenance.json`, `current` is `job.current`, `curVer` is
`updater.json`. The host is two tags of `.env`, the release whose template the
Compose file holds, the release the application containers run, whether postgres
runs, and the schema of pgdata. A version number doubles as the schema its
release leaves behind; `Damaged` is a pgdata that is neither the old nor the new
content. What a process has in memory (`exec`, `loop`, `boot`, `probe`) is lost
in a crash; everything else survives it.

*Steps.* A task's program counter is at a phase name when
`PhaseRecorder::enter` is about to record that phase: `NoteMaintenance` writes
`maintenance.json` and `NoteStep` the job file, in the code's order. Then come the
operations of the phase, each an action with the name of what the code does there.
Every durable write and every Docker operation is one action, and `Crash` can fall
between any two of them. An operation that can fail has a failing disjunct which
leaves what a failing Docker call can leave: a stop may have stopped the containers
or not, and a start may have removed the old ones, started the new ones, or neither. The first lemmas of `UpdaterProofs` say what each action may change.

*Recovery.* `BootPlan` reads the records, tries to read `.env` (this may fail)
and asks `CrashPlan`; the following boot actions are the writes of the branch
taken in `recovery.rs`; `Serve` opens the API and spawns the task that restores
the stack or resumes the job (`main` in `bin/updater.rs` and `worker/mod.rs`).

*Environment.* `Migrate` is the backend upgrading the schema of a pgdata it runs
on; nothing else about the backend matters here. `RequestUpdate` and
`RequestRollback` are the operators.

*The front desk.* `Admission` adds to each job file its key and, for the one rescue call that
may be under way, where that call stands. `HeldBy`, `Unadmitted`, `Replay` and
`FinishAdmission` are `replay_idempotent_update` and what `handle_update` does with each of
its results; a new keyed job is `RequestUpdate` with its key in the file. The request's
fingerprint is its target. A rescue call runs in a thread of the API, so each of its
writes is a step and the worker, the tasks and a crash come in between: `RescueContinue` reads
the records and decides, `RescueFree` removes `job.current`, `RescueRollback` or
`RescueRefused` is the worker's answer to the command; `RescueExit` and `RescueLeave` are the
two writes of `rescue_exit`. `begun` (how often a key's update was started), `told` (what
clients were answered) and `loose` (a rescue was overtaken: a restart found the site closed and no `job.current`, or a
late write of a rescue met a task or a job at work) are histories, which no step of the code
reads. A job that recovery releases unanswered (`Forgotten`) is taken out of them, because the
promise to its client is broken there, and what follows is a new request.

### How the other models correspond to the code

`Snapshots`: a directory is what it contains (`Absent`, `Holed`, or the data of a
release at one time); `index` is `snapshots.json`, read into `mine` or `seen` and
written back in a later step, as in the code. The task of a job walks through
`create`, or through `restore` (in place on a mount point, by renaming elsewhere), one
file-system operation per action. A cleaner is any of the threads that prune, sweep or
delete: it may be at any of its steps at any step of the task and of another cleaner, as
nothing in the code keeps them apart. `NestCopy` and `NestFill` are a first `cp` that fails
and leaves a part, into which the second nests (`cp_a`). Three history variables say
what happened to a copy: `made` are the updates whose backup got its entry, `doubted` those
whose copy a cleaner worked beside between its first write and the job file that names it
(`Making`), or whose `cp` nested, and `marred` the jobs whose restore under way lost its
staging directory to a sweep, or whose `cp` nested.

`SelfUpdate`: `record` is `self-update-last.json`, `task` the worker's
`request_handoff`, `post` and `strays` its request to the guard, `act` the guard's task
that holds the gate with the step it is about to take, `box` the two helper containers,
`stack` the image of each service. A helper replaces services one by one; replacing
the updater or the guard ends that process, and Docker starts the new one. `final`
remembers which outcomes were published. A *scenario* is chosen at the start: whether
a helper may stay behind, whether a request the worker gave up may still arrive,
and how many requests, jobs, faults and deaths there are.

`HostLease`: `lease` is the row, `session` the import session, `dev` what each device
has of her, `copy` this process's copy of the row, `sealing`, `landing`, `merging` and
`leaving` what the code does between two transactions. Each transaction is one action;
its guard is the transaction's checks in the code's order. The devices' program is not in
the repository: `Device...` actions are what the site's protocol lets one do.

`Delivery`: `queue` is a row's status, attempts and lease, `cancelled` whether its
`error_message` begins with the word the code looks for. `worker` is the item that one pass
of `process_delivery_queue_detailed` works on. Each statement or transaction is one step, and
other steps fall between a look at a row and the statement that relies on it (`AskRetry` and
`Retry`), or between a claim, the request, its answer and the settlement. A claim has a new
token in the code; the model names its worker instead, which is the same since a worker has
one item. The time a row waits is the time until its claim. `health` saturates at the
threshold. The inbox is the code of `inbox/`, as it runs on the instance that receives: a
receipt and the handler's effects are one transaction, so `effects` counts the commits that
ran the handler. `strays` are requests that nobody waits for any more.

`AiTasks`: `request` is where a handler stands at its next await, `task` where the spawned
executor stands, `local` the status in `AI_TASKS`, `row` and `cancelled` the records of the
registry under a task's id, `signal` the cancel channel. Requests with one idempotency key
have one id, as `task_id_for_request` gives it. A transaction is one step. One that fails
changes nothing, and a lost answer is a step that changes the tables and is taken for a
failure. `Reserved`, `Applied` and `Register` are the transactions of the
code with their guards in its order; `Period` is the `period_start` the reservation carries.
`Finish` and `Reap` both are `finish_task`, which tries the outcome and then a failure, and
leaves the local copy as it was when neither could be saved (`Written`). `bill` is a history:
what the code applied to the ledger for this request, so that the ledger can be compared with
the requests. A key is for one request (a changed body is refused as `Existing` is answered,
which is the same here).

### The specifications of the updater

- `Spec` lets operators ask for anything the code admits.
- `PatientSpec` is `Spec` where an operator asks for a rollback only when no task
  runs. The code does not enforce this (section 3, *Updater*), and nothing else
  about operators is assumed.
- `UpdateSpec` has updates, crashes and failures and no rollback requests. It is the
  smaller system on which longer sequences can be checked.
- `GuidedSpec` (in `Admission`) adds repeated requests and rescue calls of operators who
  follow `docs/deployment/UPDATER_QUICKSTART.md` section 5: they rescue a closed site that
  nothing works on any more, one call at a time, force maintenance off only where the services
  are healthy and run what `.env` and `updater.json` say, and ask for a rollback only when no
  task runs. None of this is enforced by the code for `/rescue/continue`. Anything may come
  between a rescue's reading, its writes and its queued rollback.
- `PressedSpec` has the button of the admin UI pressed whenever it does something.

## 3. What the runs check

For the updater's runs the bounds in the `.cfg` files are `Jobs` (how many jobs
are ever admitted), `MaxVersion` (how many releases exist), `MaxFaults` (operations
that may fail in a behaviour), `MaxCrashes` and `MaxProbes` (reconciliations).
Nothing else is bounded: phases, records and interleavings are explored in full.

| Run | Specification and bounds | Checks |
|---|---|---|
| `updates` | `UpdateSpec`, 2 jobs, 3 releases, 2 faults, 3 crashes | `NoOperatorNeeded`, and that `Updater` implements `Deployment` |
| `rollbacks` | `PatientSpec`, 3 jobs, 2 releases, 2 faults, 1 crash | `SingleExecutor`, `NoOldCodeOnNewData`, `ClosedSiteHasOwner`, `RecordMatchesSite`, `SuccessIsFinal` |
| `admission` | `FairGuidedSpec`, 2 jobs, 2 releases, 1 fault, 2 crashes, 1 key, 1 rescue call | `KeyRunsOnce`, `ToldIsTrue`, `RescuedSiteIsSafe`, `JobsEnd`, `SiteReopens`, `ContinueIsCarriedOut` |
| `external_database` | `PatientSpec`, external database, proxy image, 2 jobs, 2 faults, 2 crashes, 1 reconciliation | `TagsAgree` |
| `snapshots` | `FairSpec` of `Snapshots`, 2 jobs, 1 snapshot kept, 1 cleaner, 1 failure, 1 crash, both kinds of pgdata | `InFlightBackup`, `LiveKept`, `RollbackRestores`, `RetentionKept`, `LeftoversSwept` |
| `self_update` | `FairSpec` of `SelfUpdate`, 2 versions, 3 services, 5 scenarios | `OneInstaller`, `GateHeld`, `WholeStack`, `JobAlone`, `FinalIsFinal`, `OutcomeTrue`, `HandoffEnds`, `GateReopens` |
| `host_moves` | `Spec` of `HostLease`, 2 devices, 3 moves or imports, 4 epochs, 1 birth | `OneHome`, `HomeHasHer`, `ImplementsHome` |
| `host_restarts` | `Spec`, 2 devices, 1 move, 1 crash, 1 slow read, deletions by the owner | `FrozenCanBeGivenBack`, `CopyCatchesUp`, `OrphanSettles` |
| `delivery` | `FairSpec` of `Delivery`, 2 workers, 2 rows, 1 domain, 2 attempts, a threshold of 2 failures, 4 scenarios | `SendsBounded`, `CancelSticks`, `ImplementsCourier`, `DeliverySettles` |
| `ai_tasks` | `FairSpec` of `AiTasks`, 3 requests with 2 keys, 2 processes, 2 budgets, 2 days, 7 scenarios | `LedgerTrue`, `OneRunEach`, `RecordsEnd` |

Why the updater's bounds show what they should: two jobs are needed because recovery
may find the records of one job and the pointer to another; three where a
rollback is requested to the snapshot of an earlier update while a failed job still
holds `job.current`. Three releases let a second update start from an updated
site. Two faults let a failure handler fail too: one failure starts a rollback,
the second makes it give up. Two crashes interrupt the recovery from a first crash;
three, in `updates`, interrupt the recovery from that.

What they show: across these bounds the site changes release only as a whole
behind closed maintenance, with a recorded snapshot of what it leaves; old code
never meets newer or damaged data; a site that stays closed always names a job
in `NeedsManual`; after everything ended `updater.json`, `.env` and the containers
agree; crashes alone never call for an operator.

*Front desk.* One key with two jobs can be begun as a second job or a second time; a death
between the job file and the pointer leaves the file that a repeated request has to finish.
A crash past the swap and a fault in the recovery leave the site one rescues; the one
rescue call then interleaves with a death, a repeated request or a plain one. The second
crash falls on what the recovery from the first left behind. What the run shows: as long as no
rescue was overtaken (`loose`), a key begins its update once, clients are told of nothing that
does not run unless recovery released it, and a rescued site has one task at a time and data
that fits; a rescue in its second half is carried out, or the operator is called again.
`loose` has three ways, each of which TLC shows to break those promises with three jobs or
another crash (below, *Rescue*): a death after a rescue freed the slot, a late
write of a rescue that removes a pointer set since it read the records, and its
queued rollback admitted beside a task that already said it needs an operator. The
liveness holds without that condition. Two crashes and two faults together, and three jobs,
take longer than a run should; the three invariants were found to hold there too, without
the liveness. `rescue_pressed` is what happens to operators who do not follow
the guide.

`RecordMatchesSite` and `NoOldCodeOnNewData` are checked without reconciliations
(`MaxProbes = 0`), and proved for that case. With one they fail, for the reason of the finding
*slow reconciliation* below: the stale version the reconciliation writes becomes the
origin of the next update and the version its snapshot is labelled with. `NoOperatorNeeded`
and `TagsAgree` are proved without reconciliations for the same reason: with one, and three
releases, TLC refutes both. `external_database` has a reconciliation but only two releases,
too few for a stale version to be the origin of another update, and `TagsAgree` holds there.

*Snapshots.* Two jobs and one kept snapshot are the least with which retention has to
choose: a second update pushes the first copy out, or a rollback restores it while a cleaner
is about to. One failure and one death in any order reach every retry of a restore, since
each needs only one of them to be repeated. A cleaner is at work at any time, also beside a
copy or a restore, and goes by a reading of the index as old as its own slowest step allows.
Two of them, with readings of different age, are four and a half million states where pgdata is
renamed, found to keep `RetentionKept` in the same way, and more than a run with liveness
should take; the theorems are for any number.

`InFlightBackup`, `RollbackRestores` and `RetentionKept` except a copy that a cleaner was
at work beside before the job file named it, or whose `cp` nested, and no other interleaving: once the job file
names a copy nobody worked beside, no prune, sweep or deletion, in whatever order and on
however old a reading, costs it. The exception is one the code needs: without it TLC
refutes `InFlightBackup` with one update, one cleaner, no failure and no death. The sweep reads the
index while the copy is made and removes it when the job file already names it (below,
*Snapshots*). A rollback is further excepted if a sweep removes the very stage it restores from.

*Self-update.* The scenarios are: two requests with three faults and a death; one with
four faults and a death, so that the recovery and both its retries fail and the last
helper is stopped for good; two requests where a helper may stay behind; two where a
request may arrive late; and both of these. Starting on a stack of mixed versions
makes "what ran before" differ from every version. `WholeStack` is claimed for at most
`MaxRetries + 1` faults and deaths: more exhaust the recoveries, and the code gives up
with whatever runs by then. `FinalIsFinal`, `JobAlone`, `OutcomeTrue` and `WholeStack` are
claimed for scenarios where nothing stays behind or arrives late (`Clean`);
`OneInstaller`, `GateHeld`, `GateReopens` and `HandoffEnds` for all.

*Host lease.* With two devices one can be removed, or hold an old copy, while the other
takes her; three moves are a move there, one back or to the other device, and an import or
reclaim on top. Four epochs are what these can reach. `host_restarts` has one move,
since its properties are about one, and instead crashes, deletions and a slow read.
Symmetry of the devices is used only where no liveness is checked.

*Delivery.* Two workers are what it takes for one to lose its lease to another and settle
afterwards; two attempts let a row fail, be tried again and be given up, and let a reclaim
take the last attempt; two failures are a streak that the first does not end. Rows interact
only through their domain, a bulk call and the end of a room, which one scenario with
two rows covers without faults. The others have one row: a local follow with two faults (two
workers die, or a lease expires under a live one, twice) and a late request; the same with a
retry by its owner; a room's row with a fault, a retry and a late request. The `MaxAttempts`
of a row is 12 in the database and the threshold 20; both only count.

*AI tasks.* Two requests with one key on two processes race for its id; one of the host
competes with them for the site's budget and for the one slot of their subject (`MaxActive`
is 4 in the code, `MaxRetained` 64, which only count). The key's own budget fits one call, the
site's two, so that a second request is refused unless the first was taken back; usages are
below and above the estimate. Two days let a reservation of the first be settled on the
second. The scenarios spread what would be too much at once: which requests come, and up to
two failing statements, a dropped handler, a death and a midnight. Tokens may exceed a limit
by what a call used beyond its estimate, which the code accepts; calls never do.

### Fairness

`FairGuidedSpec` is weakly fair in each task's next step (the Tokio runtime polls a
spawned task until it ends), in the steps of startup recovery (straight-line code
before the process serves), in `AdmitAndTell` (the loop's next statement after it wrote the
job file), in the remaining steps of a rescue call once it is made, and in `Migrate` (a backend started on an older schema migrates it at
startup). Requests, reconciliations and crashes are not fair: they may never
happen. Docker operations return, since the code gives each a deadline, but may fail.
Weak fairness is enough: a task's next step stays enabled until it is taken or the
process dies, and `MaxCrashes` says it dies finitely often. Without that bound
no updater can promise that a job ends.

In `Snapshots` the task and a cleaner at work go on, and the periodic prune comes again
and again; that is strong fairness of `Ticks`, since a cleaner of another kind may be at
work each time it comes, but does not keep a thread of its own from its turn.

In `SelfUpdate` processes that are up take their steps, Docker restarts those that are
down and answers what it is asked; faults, deaths and requests need not happen. The
guard waits for a helper with a deadline, which is a fault.

In `HostLease` the listener and its rereads run for as long as the process does, and
the sweep that settles a row naming a removed device is repeated.

In `Delivery` each worker goes on (the job of each process ticks every few seconds, and
a request ends by its timeout) and a lease expires ten minutes after its last renewal.
What postpones a row without counting an attempt is a fault, and those are bounded: a
policy table that can never be read keeps its rows waiting for good. The location gate that
may keep the workers from starting is taken as open.

In `AiTasks` a handler that registered goes on to spawn unless it is dropped or dies, the
task runs on and its provider answers or the timeout ends it, the sweep comes every minute
(`memory_cleanup.rs:44`), and records expire once nothing works on them. Requests,
cancellations, failures, drops, midnights and deaths need not happen.

### Findings

Each of these is a run in which TLC violates one statement that a comment of the
repository makes; the finding quotes it.

| Run | Statement | What happens |
|---|---|---|
| `rescue_pressed` | at most one job is in flight (`worker/mod.rs:6`); the button is for stuck jobs (`api/routes.rs:42`) | closed maintenance in a late phase is taken for stuck while its task works; the slot of the running job is freed and a rollback starts beside it, with two tasks on the host |
| `host_cleared` | what was left of others is let go of while she is away (`devices.rs:707`) | the place is read before the transaction; she lands in between and is deleted |

Further differences that the models have, seen while modelling; no run is kept for them:

- *Rescue.* When `rescue/continue` or `forget-current` has removed `job.current` and the updater
  dies, the restarted one takes the job from `maintenance.json` and serves while a task restores
  the stack. That task clears maintenance and then removes the pointer; since no pointer names
  its job, an update may be admitted between the two. The pointer removed is the update's: a
  second job is admitted beside it, and a repeated key may begin its update again.
  `rescue_exit` makes the same mistake in one call: it clears maintenance and then removes
  whatever pointer there is (`api/routes.rs:1008`), so a job admitted in between goes on without
  one. The rollback of `rescue/continue` waits in the worker's queue; when an operator's own
  rollback is ahead of it and has just recorded `NeedsManual`, it is admitted beside that
  task. Forcing maintenance off where `updater.json` is behind the containers (a crash
  before the version was recorded) labels the next snapshot with the older version, so a later
  rollback puts old code on new data; hence the guard in `GuidedSpec`. Rescue calls also
  race with each other.
- *Updater.* `handle_rollback` admits a rollback whenever the current job says `NeedsManual`
  (`worker/mod.rs:847`), even if that job's task still runs: a task records that status before it
  is done, and a rollback resumed after a restart keeps it. This is why `PatientSpec` is
  needed. A failing write of `PROXY_TAG` is handled as a pre-swap failure although
  `MYRIAD_TAG` has moved (`update.rs:839` says the previous tag is still current), and a
  crash between the two saves leaves them apart (`update.rs:356`); `TagsAgree` shows that
  the recovery which follows repairs the second. When the pre-swap stack is restored, the
  Compose template is that of the job `job.current` names, not always the one recovery
  classified (`update.rs:793`, `worker/mod.rs:369`). Recovery may release an admitted,
  never started job without an answer when `maintenance.json` still names an older finished
  one (`recovery.rs:96`: the job of maintenance comes first; `recovery.rs:57` fails such a job
  and says so). An earlier release of a finished job leaves the records like that: it
  removes the pointer and not the name in `maintenance.json` (`recovery.rs:371`). The client
  was given an id that nothing runs, and its key, repeated, begins the update anew. *Slow reconciliation*: `reconcile_current_deploy` looks at
  `job.current` once, before two network calls, and writes the version afterwards
  (`worker/mod.rs:397` and `481`). After a failed rollback nothing starts the services
  (`docs/updater-spec.md:370` says they are started); the order of
  `docs/updater-spec.md:307` (snapshot before tag) is the reverse of `rollback.rs:160` on.
- *Snapshots.* A sweep that read `snapshots.json` before `create` wrote its entry removes the
  finished copy of an update that goes on, which then swaps and migrates without a backup
  (`snapshot.rs:525`; `snapshot.rs:399` says a snapshot an in-flight job refers to is always
  retained), hence `doubted`. A prune that read the index then writes it back without
  the entry, with the same end. A failing first `cp` leaves a part into which its fallback
  nests, and reports success (`NestCopy`, `NestFill`). A sweep beside a restore in place removes
  its stage (`marred`). A crash between moving pgdata aside and the copy's
  first write makes every retry fail at `require_pgdata` (`snapshot.rs:162` says retry
  remains possible). A crash amid a removal leaves a directory with holes in it that is still in
  the index and may be restored. Two cleaners at once may still leave no whole backup: an
  operator's DELETE counts the entries of its own reading, also of copies that a prune or
  another DELETE is removing and of those with holes. `RetentionKept` says what is kept: nothing but
  that DELETE takes one of the newest. Index entries written from a stale reading undo others. `broken-inplace-*` is never
  swept (`docs/updater-spec.md` section 9.3 lists it).
- *Self-update.* A guard that comes up and cannot inspect the helper watches it all the
  same; if that helper succeeds nothing is published, the gate opens and the record stays
  pending until the guard's next start (`guard/self_update.rs:481`; section 14.3 of the
  document has the guard publish the result). It is `Unread` in `HandoffEnds`. A
  helper that can neither be inspected nor started leaves the gate closed for good
  (`guard/mod.rs:197`; `startup.rs:176`: a temporary outage must not leave a permanent
  gate): `Stuck`. A helper that stays behind after its outcome was published is taken for a
  handoff under way by the next guard: a failing `docker wait` then rolls a published success
  back, and a container `docker run` created and did not start reports success when
  waited for. A request that arrives twice is accepted twice.
- *Host lease.* Cancelling a move while it is sealed leaves the sealed files behind. After
  the site forgot her, an import with an older copy lets a lineage's epoch go down (so
  `Register` of `HerHome` allows a new one). Confirming a recovery's or a merge's id through
  the move's endpoint leads to a state only a cancellation leaves. Removing the old holder
  during a reclaim keeps the import session busy until it is cancelled. A repeated commit
  of a merge lets the first that fails thaw her while the second still merges.

- *Delivery.* `inbox/mod.rs:70` says a failure after the inbound activity is committed only
  leaves the reply queued; but the reply is recorded after that commit, so a failing
  statement or a crash there loses an Accept, and a repeated Follow is answered from its
  receipt without one. `follow.rs:140` marks a row delivered whatever its status and its lease,
  so it may revive a row its owner cancelled (`queue.rs:897`: do not resurrect); the exception in
  `CancelSticks`. A success whose lease was lost does not end the domain's streak, while
  `queue.rs:122` says any successful delivery does.
- *AI tasks.* `docs/development/tapp/REST_API.md:476` says a request that is not registered
  has its reservation rolled back in full and leaves no task that is charged and not run. A
  handler whose client hangs up between the reservation and the spawn rolls nothing back, and
  neither does one that loses the answer of its reservation's commit; a registration whose
  commit's answer is lost is rolled back, but its record stays queued until it expires.
  `LedgerTrue` therefore counts a reservation nobody settles as held. When the commit of an
  outcome is carried out and its answer lost, and the write of a failure fails too, the sweep
  later writes `Cancelled` over the recorded outcome (`ai_task_runtime.rs:334`);
  `OutcomeStands` speaks of outcomes the process knows to be recorded.
  `docs/development/tapp/API_REFERENCE.md:725` gives a task 125 seconds, the code 15 minutes
  (`ai_task_execute.rs:44`), which is as long as a record lives: a task that uses all of it may
  outlive its record.

## 4. What is proved

TLAPS checks the following for every value of the constants: any set of jobs, devices,
versions, services, rows, domains, requests and budgets, any number of cleaners, any retention limit, every scenario and
any bound on faults, crashes and requests.

| Theorem | Statement |
|---|---|
| `UpdaterIsSound` | `Spec => []Sound` |
| `UpdaterTyped` | `Spec => []TypeOK` |
| `UpdaterNoDanglingJob` | `Spec => []NoDanglingJob`: no record names a job without a file, so a restarted updater never refuses to start for that reason |
| `UpdaterIsSafe` | `PatientSpec => []Safe` |
| `UpdaterSingleExecutor` | `PatientSpec => []SingleExecutor`: at most one task at a time |
| `UpdaterKeepsRecords` | `PatientSpec => []Kept`, the invariant of the records |
| `UpdaterClosedSiteHasOwner` | `PatientSpec => []ClosedSiteHasOwner`: a site left closed names the job that waits for an operator |
| `UpdaterSuccessIsFinal` | `PatientSpec => SuccessIsFinal`: no recovery takes back a recorded success |
| `UpdaterRecordsFitHost` | `PatientSpec => []HostFits`, if `Restorable`: what the records and a task's point say of the tag, the containers, the database and the backup |
| `UpdaterNoOldCodeOnNewData` | `PatientSpec => []NoOldCodeOnNewData`, if `Restorable`: no release serves a database a newer one migrated |
| `UpdaterRecordMatchesSite` | `PatientSpec => []RecordMatchesSite`, if `Restorable`: an open site runs the recorded release |
| `UpdaterCalmFits` | `PatientSpec => []CalmFits`, if `MaxProbes = 0`: what the records promise while only deaths disturb the updates |
| `UpdaterNoOperatorNeeded` | `PatientSpec => []NoOperatorNeeded`, if `MaxProbes = 0`: no death makes recovery give an update up |
| `UpdaterTagsAgree` | `PatientSpec => []TagsAgree`, if `MaxProbes = 0` and `ShipsProxy`: an open, quiet site has both tags on one release |
| `UpdaterSiteFits` | `UpdateSpec => []SiteFits`, if `Restorable`: what the Compose template and the schema are at each point of an update |
| `UpdaterImplementsDeployment` | `UpdateSpec => ImplementsDeployment`, if `Restorable`: the updater implements `Deployment`, step by step |
| `GuidedDeskKept` | `GuidedSpec => []DeskKept`, the invariant of the front desk |
| `AdmissionKeyRunsOnce` | `GuidedSpec => []KeyRunsOnce`: a key makes one job, which begins once |
| `AdmissionToldIsTrue` | `GuidedSpec => []ToldIsTrue`: nobody is told of a job that nothing would run |
| `RescuedSiteSingleExecutor` | `GuidedSpec => [](~loose => SingleExecutor)`: a rescued site is not worked on by two tasks |
| `RescuedRecordsFitHost` | `GuidedSpec => [](~loose => HostFits)`, if `Restorable`: the records fit the host whatever was rescued |
| `AdmissionRescuedSiteIsSafe` | `GuidedSpec => []RescuedSiteIsSafe`, if `Restorable`: nor does it run containers on data of a newer release |
| `SnapshotsTyped` | `Spec => []TypeOK` |
| `SnapshotsKeepReplaced` | `Spec => []LiveKept`: data set out to be replaced is somewhere nothing removes it |
| `SnapshotsKeepBackup` | `Spec => []InFlightBackup`: an update past its swap has its backup, unless the copy is `doubted` |
| `SnapshotsRollBack` | `Spec => RollbackRestores`: its rollback restores what it started from, unless the copy is `doubted` or the restore `marred` |
| `SnapshotsRetainNewest` | `Spec => RetentionKept`: a backup not `doubted` goes once `KeepN` later ones are recorded, or by a DELETE of it |
| `SelfUpdateTyped` | `Spec => []TypeOK` |
| `SelfUpdateOneInstaller` | `Spec => []OneInstaller`: helper and recovery never run together |
| `SelfUpdateGateHeld` | `Spec => []GateHeld`: a guard that is up while a helper runs forwards nothing else |
| `SelfUpdateWholeStack` | `Spec => []WholeStack`: over, the services run one version or what they ran at first |
| `SelfUpdateJobAlone` | `Spec => []JobAlone`: no job and helper at once |
| `SelfUpdateFinalIsFinal` | `Spec => []FinalIsFinal`: no helper runs for a published outcome |
| `SelfUpdateOutcomeTrue` | `Spec => OutcomeTrue`: a success is published of a stack on the target |
| `HostLeaseInvariant` | `Spec => []RowInv` |
| `FrozenIsGivenBack` | `Spec => []FrozenCanBeGivenBack`: a frozen her has a move that may be called off |
| `RowImplementsHome` | `Spec => ImplementsHome`: the row implements `HerHome`, step by step |
| `HomeInvariant` | `Spec => []HomeInv`, if `~Forgets` |
| `OneHomeAlways` | `Spec => []OneHome`, if `~Forgets`: two ends never live her at one epoch |
| `HomeHasHerAlways` | `Spec => []HomeHasHer`, if `~Forgets`: a home the row names has her |
| `DeliverySound` | `Spec => []Sound`, what a worker knows of its row and what receipts say |
| `DeliveryTyped` | `Spec => []TypeOK` |
| `DeliveryImplementsCourier` | `Spec => ImplementsCourier`: an activity takes effect at most once, and what is delivered did |
| `DeliverySendsBounded` | `Spec => []SendsBounded`: no more requests than attempts asked for |
| `DeliveryCancelSticks` | `Spec => CancelSticks`: a cancelled row comes back only on request |
| `AiTasksTyped` | `Spec => []TypeOK` |
| `AiTasksRunOnce` | `Spec => []OneRunEach`: one task at work for a key, and no more than a subject may have |
| `AiTasksCallsTrue` | `Spec => []CallsTrue`: nothing works uncounted, and the ledger shows every call not taken back |
| `AiTasksLedgerTrue` | `Spec => []LedgerTrue`: that, and the tokens of each budget are the sum of what requests hold |
| `AiTasksOutcomeStands` | `Spec => OutcomeStands`: an outcome known to be recorded is not written over |

Assumptions: besides the hypotheses in the table (`Restorable`, `MaxProbes = 0`, `ShipsProxy`,
`~Forgets`), only the named `ASSUME`s, which say that bounds are numbers, switches
Booleans, and that names are distinct: `NoJobAssumption`, `MaxVersionAssumption`,
`SwitchAssumption` and `BoundAssumption` of the updater, `KeyAssumption` and `RescueAssumption` of `Admission`, `SnapshotBounds` and
`SnapshotSwitches`, `StackAssumption`, `NoneAssumption` and `ScenarioAssumption` of `SelfUpdate`,
`SiteAssumption`, `BoundsAssumption` and `ForgetsAssumption` of `HostLease`, `RowAssumption`, `WorkerAssumption`, `LimitAssumption` and `ScenarioAssumption` of `Delivery`, and
`RequestAssumption`, `BudgetAssumption`, `TaskLimitAssumption`, `DayAssumption` and
`ScenarioAssumption` of `AiTasks`. TLC evaluates
them in every run.

*`UpdaterProofs`.* `TypeOK` is not inductive alone: a restart indexes `jobs`
by whatever the records name, and `Serve` spawns a task for that job.
`Sound == TypeOK /\ Grounded` adds `Grounded`: `job.current`,
`maintenance.json`, the loop's pending admission, every task and every branch of
recovery that still has to write a job have a job file. It is preserved because a
file is written before its name is put anywhere, and no action removes a file.

*`Exclusive`.* That at most one task runs needs to know who may start
one: the loop, and recovery. `Exclusive` (in `UpdaterInvariants`) says that while
a task runs, `job.current` names its job or the task has just cleared it
(`OwnerRuns`), so that the loop admits no update; that jobs with a file which
neither run nor are named are finished or were left behind unanswered
(`LeftBehind`, `OnlyFinishedBehind`); what the records may say when nothing runs
(`IdleRecords`, `OpenOnlyInPreflight`); and what recovery may find and do
(`Unstarted`, `Noted`, `RecoveryOwns`), in particular that its choice between the
two records never starts a task for one job while another has one. `Safe` is
`Sound /\ Exclusive`. The proof needs `PatientSpec`: under `Spec` the property is
false (section 3, *Updater*). The proofs use one lemma per action, each
naming what the action may change among the variables the invariants read.

*`Recorded`.* What the site is left with depends on what recovery reads, so the invariant
is about the records. `Recorded` says of every job that a success is recorded together with
the step that proves it (`Marked`, `OldMarked`), which is what lets the plan tell a finished job
from an interrupted one; that a task whose job has succeeded has only the version, the
maintenance record and the pointer left to write (`StillOpen`); where the task of an operator's
rollback may be, and that the maintenance record names its job there (`OnItsWay`), since
`ManualMaint` leaves that record's job as it found it; that a task about to commit or to hand over
is named (`Named`); that a pointer the maintenance record does not back is to no success
(`PointerOpen`); and that each branch of recovery works on the job the records name, which has not
succeeded (`RecoveryRecorded`). `ClosedWaits` is `ClosedSiteHasOwner` from the moment recovery has
written its last record. Only the steps that end a task and those of recovery can break it, and
each of them leaves the site open or has written both records. With these, no writer of a job
file works on a job that has succeeded, which is `SuccessIsFinal`.

*`UpdaterHostProofs`.* Whether old code may meet new data is decided by what a restarted updater
believes of a host it has not looked at. `HostFits` says what may be believed. `Fits(j, phase)`
is the host behind each phase a record may name: before the tag moved (`BeforeSwap`), after it,
with a backup of what was left (`AfterSwap`, `BackedUp`), committed, or on the way back; in phase
`SwapTag` it may be either side of the write. `MaintFits` and `CurrentFits` say that both phases
the plan compares, that of `maintenance.json` and that of the job file, are true of the host,
although the two are written one after the other; `PointerFresh` and `PointerAlone` say which
jobs the records may name apart, `PointerAlone` for the rescued sites of `AdmissionProofs` too. `FitsBefore`, `FitsAfter`, `FitsBack` and `FitsEnd` say the same
of each point of a task, and `BootFits` of each branch of recovery. Two lemmas carry the
restart: `EffectiveFits`, that the phase the plan settles on is one the host is in, and
`PlanFits`, that each branch it takes starts from there. In the steps that follow, the backend
migrates only behind a backup (`AfterSwap`), a refill comes from a copy no newer than the tag
written before it, and maintenance is cleared only `AtRest`. With `Facts`, which holds both
properties, this is inductive under `PatientSpec`, on top of `Safe` and `Recorded`.

`Restorable` (in `UpdaterInvariants`) is `~External /\ ~ShipsProxy /\ MaxProbes = 0`, as in
`rollbacks`, and each part is needed. With an external database there is no pgdata to
refill, and an update rolled back leaves its old code before a migrated one. With a proxy tag, a
failing second write leaves `MYRIAD_TAG` moved and is handled as if it had not; with a
reconciliation, a stale version is recorded (section 3, *Updater*). Jobs, releases, failures,
deaths and requests are unrestricted.

The last part of `UpdaterHostProofs` asks for less and assumes less. `NoOperatorNeeded` and
`TagsAgree` are about behaviours in which the updater only dies (`OnlyCrashes`: no failure so
far, and every job an update), so its invariant `CalmFits` is `OnlyCrashes => Calm`, and a step
may use that it does not fail (`NoFailure`). In return the database may be external and there
may be two tags: `Calm` says nothing of what the containers run. It says of each phase what the recovery
that reads it will need (`Believed`): before the switch `.env` still selects the recorded
release (`Rests`); from there on the update is `Prepared`, that is, its report is ready and, with
a local pgdata, its backup is taken; or it has `Landed`. The difficulty is again the phase `SwapTag`,
of which the records cannot tell whether the tag was written, and with two tags there is a third
place to die in: `Believed` allows `MYRIAD_TAG` to be on the target and `PROXY_TAG` anywhere.
Recovery sees only the first tag and resumes forward; the check before the containers start
(`SelectsPreflightImages`) finds the proxy's tag wrong and sends the job back, which writes both. `CalmFile` says that a job
without a step has not begun and that reports and snapshots are true. `PlanCalm` then shows that the plan
is never `NeedsManual` and that each of its branches starts where it may, and `ResumeCalm` and `BackMovesOn` that the
way forward or back then leads to a release both tags name. That no failure is forgotten and no job
changes its kind (`CalmBefores`) carries the implication over a step. `MaxProbes = 0` is needed as
above; `ShipsProxy` only says that there is a second tag to agree with.

The third part of `UpdaterHostProofs` is the refinement. `HostFits` speaks of the tag, the containers and whether the schema is one
the code understands; the deployment promises more, that template, schema and code are of one
release. `SiteFits` says at each phase a record may name (`Stands`), each point of a task
(`SiteTask`) and each branch of recovery (`SiteBoot`) what they are: untouched before the swap
and at the end of a failed update (`Whole`), those of the target once the update has committed
(`Landing`), and in between something that can be put back (`Restores`), which needs that the
report still describes the recorded release (`ReportHolds`). `Described` says that report and copy are of what the
update started from; without it a restore would be of anything. Like `HostFits` it is needed for both
records the plan compares, and it is proved on top of `HostFits`.

The mapping takes the site behind a closed gate to be the release `updater.json` records, so what
the refinement says of an update in flight is when that record may change and what has to be kept
by then; and that what is found behind the gate when it opens is that release, code, schema
and template together, is `Whole`, which only `SiteFits` can tell. By `SiteIsRecorded` the site is then
the recorded release in every state. A step changes at most one of three things: the gate (`GateMoves`:
`Close`, `Open` or nothing), the record, at the two points that commit an update (`LandingMoves`: `Upgrade`,
whose copy is there by `Landing` and `Described`), or the copies (`CopyMoves`: `Keep`).
`UpdateSpec` is needed: when an operator's rollback of an update that failed for good is cut off by a death before
it began, recovery classifies the update but puts back the template of the job `job.current` names,
the rollback (section 3, *Updater*), and the site opens on the target's template. TLC finds this under `PatientSpec`
with three jobs, two failures and one death, so the refinement is false there.

*`AdmissionProofs`.* A rescue takes the pointer away from a site that stays closed, and
`ClosedWaits` and `IdleRecords` do not hold of such a slot (`Freed`). `Records` is the updater's
invariant with these two replaced there by `FreedWaits`: the job of the record still waits for an
operator and nobody is at work. So a step either finds the slot its own, where `Records` is `Kept` and the
proof for `PatientSpec` applies, or finds it freed, where only the loop, a death or another
rescue can step; a death there makes the run `loose`. `Settles` is about two things the
updater's invariant does not need: an open site nobody works on has at most a job in the slot that
an operator left there (`OpenRests`), and an update without a step is about to take its first, or
recovery is about to fail it, or to release it with the record of another (`FreshFits`).
With it an idempotency key can be followed over any number of restarts: `KeyFiles` ties keys to files, and `Promises` says that an update begun
under its key, or told to a client, is not admitted again, and is under way (`Underway`) until its first step.
The case that needs all of them is the replay: that an answer may be given for a job without a
step only because `job.current` names it is sound since then its task runs. The theorems carry
the condition of the properties, that no rescue was overtaken (`~loose`), and so far assume nothing of
the constants.

The half of `RescuedSiteIsSafe` about data rests on `HostFits`, under `Restorable`. A freed slot costs it
nothing: the job that waits is in `maintenance.json`, and `HostFits` says what that means. A site that
is forced open costs more. The operator of the guide opens only what is at rest, but the job stays in
`job.current` until the second write, and if the updater dies between the two, recovery finds
a failed update in its way back that no record claims, and takes it up again. So `PointerAlone`
allows for such an update behind a closed site, which has to be at rest, and `BootFits`, `FitsBack` and `FitsEnd` for
its recovery: only backwards, until the task's first write puts the job into `maintenance.json`.
A stronger form, without these cases, is true of `PatientSpec` and false here; TLC
finds that with two jobs, two failures, two deaths and a rescue. What remains is that
each call finds the site as its guard says (`FreedFits`, `OpenedFits`), and that whoever is admitted to a freed slot
finds the record of the job that waited (`AdmissionFits`).

*`SnapshotsProofs`.* `Owned` ties where the task stands to the job in flight and the
snapshot it uses. `Kept` says where replaced data is at each point of a restore: in pgdata
until the step that sets it aside, then in a `broken` directory, whose names no cleaner
removes. With `TypeOK` these are inductive whatever interleaves, and give `LiveKept`.
`Retained` is about the index and who has read it. `OnlyMade` says that every reading lists only
recorded updates. `MadeAlone` says that beside a copy which is not `doubted` no cleaner is at
work until the job file names it; hence `Listed`: every reading that somebody still goes by is younger than
that copy's entry and has it, so that neither a sweep nor a write of an old
reading misses it. `Chosen` says that whatever a prune has chosen, enough later updates have
replaced: the entries it counted as newer are recorded updates (`ExcessReplaced`), and their
number only grows (`LaterGrows`). This gives `RetentionKept`, and half of
`InFlightBackup`. The other half, `BackupKept`, says that pgdata is there to be copied
(`DataThere`), what the copy holds at each point (`CopyOnTheWay`), that a finished one stays
as it was (`BackupThere`), and that no cleaner has chosen it (`CleanersHarmless`), since whoever read the index after
the job file named the copy finds it in use, and nobody at work read it before. `RestoreOnTheWay` says how far a restore has got
after any number of repetitions and gives `RollbackRestores`.

*`SelfUpdateProofs`.* What keeps helpers apart is the task that owns the gate, so the
invariant says what each of its steps knows: the steps in `Watching` have a container and
know that the other does not run (`WatchesOne`), those in `Quiet` know that none does
(`NoneRuns`), a recovery is started from a normal helper (`OldIsNormal`) that has been
stopped, and exists by then (`RecoveryThere`). `GateOwned` says that the gate is closed
exactly while there is such a task and that nothing is forwarded then, which carries
`NoneRuns` over to the time when no task exists and the guard is up: a request is accepted
on an open gate only. A guard that is down knows nothing; the guard that comes up decides
by the containers and establishes the parts anew. `BoxKnown` and `ActKnown` say that what is
started and published is an attempt, and `WorkerSide` that a record is of a request, which
`TypeOK` needs.

`CleanInv` adds what holds where nothing stays behind or arrives late (`Clean`; the
scenarios are chosen at the start, and the properties say so themselves). Its parts are about
one request at a time: `RequestOpen` and `TaskTrue` tie the worker's task to the record,
`HandTrue` and `OneAttempt` everything in the guard's or a helper's hands to the pending record,
`Cleared` says which containers each step of the guard has removed before it goes on. From these
follow `JobAlone` (a job needs a record that is not pending) and `FinalIsFinal` (an outcome is
published of the pending record only). `Built`, `EndedWhole` and `SuccessBuilt` say what a helper
has made of the stack, which gives `OutcomeTrue`. `WholeStack` has to count: `FailuresTrue` says
how many failures each step of the recovery stands for, so that the step that gives up is reached
only past the bound, and `StackTrue` that until then the stack is whole whenever no helper works
and that what an attempt would go back to is whole. `NoneAssumption` (the absent attempt is no
attempt) is needed because the guard tells them apart.

*`HostLeaseProofs`.* `RowOfState` and `RowOfMove` say which moves a row in each state may
carry and what each kind of move remembers; with them a frozen row names a move at a
step where it may be given back. The refinement needs more, since an import's
transactions change the row by what its session says: ids are given out once (`Ids`), so a
row and a session with one id are of one kind and device (`Together`); a lineage that
is born later is another one (`Born`); a removal under way leaves no session of the
removed device that could still land (`Leaving`); and where an import lands the
row still carries it, frozen, or knows no home, or is about another lineage
(`LandsSafely`). The step simulation has one case per action, and for each names the
step of `HerHome` it is, or that it is none.

`OneHome` and `HomeHasHer` are about the devices' copies, which the row's invariant leaves open.
`HomeInv` says what each copy is: at or behind the row's epoch, and at it only on the device she
lives on (`CopiesBehind`), apart from each other (`EpochsApart`), reached through the site
(`OnlyThroughSite`), kept by the device an import comes from until it is over (`SessionHeld`),
past what that device gave once it has her again (`CommittedIsPast`), and, where a move put a
copy aside, of that move (`ApartOfMove`, `AppliedHasHer`). It needs `~Forgets`, as the run has
it: after the site forgot her an older copy may be registered anew, and two devices may then be
at one epoch (section 3, *Host lease*).

*`DeliveryProofs`.* A worker acts on what it read at its claim, so the invariant says what of
that still holds: its row was enqueued (`AtWork`); if it still owns the row, the attempts it
read are the row's (`Current`); one that may send has an attempt left (`HasAttempt`); a success
it heard is in the receipt (`Heard`); a receipt that was accepted stands for one effect
(`Once`). Every step but a claim changes rows, workers and receipts in one of a few ways
(`GoesOn`), which keep these; the lemmas show it per action. The refinement then has one
case per action: a settlement is `GiveUp` or no step of `Courier`, a mark or a heard success is
`Deliver` and its effect is there by `Heard` and `Once`. `SendsBounded` needs a count:
`Budget` says that requests sent, claims whose worker may still send and attempts left stay
within those granted. A claim takes one from the attempts left, a request turns a
claim into one sent, and a lost lease leaves a claim that was paid for; this is the step where
a reclaim has to count as an attempt. The proof needs finitely many workers
(`WorkerAssumption`) and nothing of the scenario.

*`AiTasksProofs`.* `Handlers` says what a handler has reserved and left to a task at each of
its points; `Owned` that the record of an id is that of the request about to hand over its
task or whose task its process has not seen end, and unfinished while the task works. So two
tasks at work under one id would be one, and as many work for a subject as have an unfinished
record (`Bounded`), which only the registering transaction adds to, under its lock. A record
does not expire while something works on it, which is the guard of `Expire`. `CallsCounted`
compares each row of the ledger with the set of requests that hold a call in it; every
transaction moves one request into the sets of its period or out of them. A reservation
rolled back had no task, by `Handlers`, and what is settled keeps its call. The tokens are a
sum over those sets. The library's sum is a fold by a function recursive on finite sets; that it
unfolds one element at a time (`SumUnfolded`) is proved by well-founded induction on the subsets of
a finite set, in the form of a least counterexample (`WFMin`), since the induction theorems with an
operator parameter cannot be used. `TokensMoved` then treats a transaction like `CallsCounted`: it
moves one request's tokens into the sum of its period, out of it, or from the estimate to the
usage. `OutcomeStands`
follows because whoever writes a record owns it or registers a new one.

Every invariant was model-checked before it was proved.

*Model-checked only*: `JobsEnd`, `SiteReopens`,
`ContinueIsCarriedOut`, `LeftoversSwept`,
`HandoffEnds`, `GateReopens`, `CopyCatchesUp`, `OrphanSettles`, `DeliverySettles` and `RecordsEnd` are liveness under
fairness, which the prover does not reach (nor `ENABLED`); induction over data and
`RECURSIVE` operators are out of its reach too, and none of these modules has a recursive
definition.

## 5. What is abstracted, and what is not modelled

In the updater's model:

- writes to the state directory are atomic and succeed (`state/mod.rs` writes a
  temporary file and renames it); a full disk there is not modelled;
- the Compose file is installed and restored by one write; `MYRIAD_TAG` is present;
- a restore is a wipe and a refill. A refill that fails halfway is damaged data; one that
  fails before it touched anything is the failing wipe;
- `compose up` never starts postgres (`--no-deps`), and a restart of the updater does
  not restart containers: a reboot of the host is not modelled;
- requests with the flags that allow downgrades are left out;
- `RollbackDone` is the write of `to_version` and of the final status in one, and
  `finish_with_rollback` writes the same `updater.json` twice, once here;
- pinning of rollback images, progress heartbeats, history, audit lines and the banner of
  the last failure decide nothing here and are left out; pruning and sweeping of backups are
  in `Snapshots`;
- an external database has no pgdata: snapshots and restores are skipped, and the
  properties about data are not checked in that run.

`BootFreeze`, the branch for maintenance that names no job, is in the code for
records a person edited. The proof of `UpdaterIsSafe` shows that under `PatientSpec`
the updater never writes such records, so the step is in the model and never taken
in those runs.

In `Admission`: a fingerprint is the target, without the mode and the risk flags; the command
line's own rollback and its clean-snapshots are left out, and a client's lost answer is a
client that asks again.

In `Snapshots`: a copy is whole or has holes; sizes, free space, digests and ages of
directories are left out, so retention by number decides; a file-system call that fails
leaves what it had or a part, never other data.

In `SelfUpdate`: images are the version they hold, so tags that move and a record that does
not tell two attempts of the same tags apart are left out; so are pulling and verifying an
image, the token between worker and guard, a record or a helper's arguments that
cannot be parsed, the helper that synchronises policy files when the guard starts, and the
names tried after a name is taken. A deadline that passes is a fault, not a clock.

In `HostLease`: pages, files and their checks are one decision, right or not; sealed
files and the rotation of backups are left out, and so are linking a device (the set of
linked ones only shrinks) and an import read from a file, which has no device that waits.
A merge's result is not modelled, only that it is at work.

In `Delivery`: what a revocation ends besides the rows (follows, memberships, friends) and
what handlers do are left out, so are signatures, redirects and the checks of a request
before its receipt, which are an answer that leaves nothing. Of the in-process deliveries
only that of a follow is modelled; rows of `inbox/local_deliver.rs` are inserted after theirs,
already settled or pending. Replies sent after a commit are not modelled, nor is the closing
location gate.

In `AiTasks`: what a provider answers and how often a picture is tried again are one outcome
and a number of tokens; the event mailbox, the cost ledger, the media a result refers to and
the usage numbers shown decide nothing here. The rate limit and the cooldown are one refusal.
Which budgets a request counts against (its role, its address, the site) is a constant; a user
without limits has none. A cancellation of many tasks is one of each. Work ends before its
record expires (section 3, *AI tasks*).

### Not modelled

Components listed in section 1 and not in section 2 are not modelled yet. The
agent runtime, the HTTP handlers, the frontend, tapps and scripts are not planned:
they are prompts, database queries and user interface without a protocol of their own, and
they are most of the repository's lines. The map is a small share of it for that reason: what
is modelled are protocols whose state outlives a request.

## 6. Plan

In this order:

1. *Persona merge*: clocks and merge as operators, checked exhaustively over small inputs;
   lemmas on order.
2. *Runtime registry, job registry, federation gate, MCP connections*: one module
   each, with the counters at their limits.
3. *Proofs*: an abstract specification that a rollback by an operator keeps too.
