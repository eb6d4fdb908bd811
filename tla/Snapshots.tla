----------------------------- MODULE Snapshots -----------------------------
(***************************************************************************)
(* The updater's backups of pgdata (snapshot.rs): a copy made before each  *)
(* update, restored by a rollback, and removed by retention, by a sweep of *)
(* unregistered directories and by an operator.                            *)
(*                                                                         *)
(* One task works for a job.  Cleaners are the periodic prune, the one a   *)
(* listing or a change of preferences runs, the one at an update's end and *)
(* the DELETE of one snapshot: they run in other threads, and nothing      *)
(* keeps them and the task apart.  snapshots.json is read, changed and     *)
(* written in separate steps, and so are the directories.                  *)
(*                                                                         *)
(* A directory is what it contains: nothing, a copy with holes in it, or   *)
(* the data of a release as it was at one time.                            *)
(***************************************************************************)
EXTENDS Integers, FiniteSets

CONSTANTS
  MaxJobs,        \* bound: updates and rollbacks ever admitted
  KeepN,          \* snapshot_limit
  Mounts,         \* whether pgdata may be a mount point, which cannot be renamed
  Cleaners,       \* threads that prune, sweep or delete
  MaxFailures,    \* bound: operations that fail
  MaxCrashes      \* bound: deaths of the updater

ASSUME SnapshotBounds ==
  /\ MaxJobs \in Nat /\ MaxFailures \in Nat /\ MaxCrashes \in Nat
  /\ KeepN \in Nat \ {0}
ASSUME SnapshotSwitches == Mounts \subseteq BOOLEAN

Jobs == 1 .. MaxJobs

(***************************************************************************)
(* Contents.  The data a site was installed with is followed by what each  *)
(* update makes of it.                                                     *)
(***************************************************************************)
Absent == 0
Holed == 1
Installed == 2
Migrated(job) == Installed + job
Contents == Nat
Whole(content) == content >= Installed

\* The entry of the copy a rollback set aside; it is pinned.
Aside(job) == MaxJobs + job

VARIABLES
  mounted,    \* whether pgdata is a mount point
  index,      \* ids in snapshots.json
  dir,        \* snapshots/<id>
  tmp,        \* snapshots/<id>.tmp
  stage,      \* snapshots/restore-stage-<time>
  safe,       \* what pgdata.broken, broken-inplace and aside directories hold
  pgdata,
  current,    \* job.current
  uses,       \* snapshot_id of each job file
  stuck,      \* the job maintenance.json names while its phase is past the
              \* swap, a rollback's, or needs_manual
  nextJob,
  pc,         \* where the task stands
  mine,       \* the index as the task read it
  before,     \* pgdata as the copy or restore under way found it
  cpc,        \* where each cleaner stands
  seen,       \* the index as it read it
  drop,       \* the snapshots it chose
  failures, crashes,
  original,   \* pgdata when each update copied it (history)
  replaced,   \* whole data restores set out to replace (history)
  made,       \* updates whose backup got its entry in the index (history)
  doubted,    \* updates whose copy a cleaner worked beside before the job file
              \* named it, or whose cp nested (history)
  marred      \* jobs whose restore under way lost its stage to a sweep, or
              \* whose cp nested (history)

dataVars == <<index, dir, tmp, stage, safe, pgdata>>
jobVars == <<current, uses, stuck, nextJob>>
taskVars == <<pc, mine, before>>
cleanerVars == <<cpc, seen, drop>>
boundVars == <<failures, crashes>>
historyVars == <<original, replaced, made, doubted, marred>>
vars == <<mounted, dataVars, jobVars, taskVars, cleanerVars, boundVars, historyVars>>

UpdatePoints == {"copy", "copying", "rename", "recordRead", "recordWrite", "note", "noted"}
RestorePoints ==
  {"restore", "aside", "safety", "stage", "staging", "wipe", "fill", "filling",
   "adoptRead", "adoptWrite", "restored"}
Points == {"idle", "running"} \cup UpdatePoints \cup RestorePoints

\* From a copy's first write to the job file that names it.
Making == {"copying", "rename", "recordRead", "recordWrite", "note"}
\* A restore in place needs its stage.
Staged == {"staging", "wipe", "fill", "filling"}
CleanerPoints == {"idle", "protect", "remove", "delete", "orphan", "sweepRead", "sweep"}

DataTypeOK ==
  /\ mounted \in BOOLEAN
  /\ index \subseteq 1 .. 2 * MaxJobs
  /\ dir \in [Jobs -> Contents]
  /\ tmp \in Contents /\ stage \in Contents /\ pgdata \in Contents
  /\ safe \subseteq Contents

JobTypeOK ==
  /\ current \in 0 .. MaxJobs /\ stuck \in 0 .. MaxJobs
  /\ uses \in [Jobs -> 0 .. MaxJobs]
  /\ nextJob \in Nat

TaskTypeOK == pc \in Points /\ mine \subseteq 1 .. 2 * MaxJobs /\ before \in Contents

CleanerTypeOK ==
  /\ cpc \in [Cleaners -> CleanerPoints]
  /\ seen \in [Cleaners -> SUBSET (1 .. 2 * MaxJobs)]
  /\ drop \in [Cleaners -> SUBSET Jobs]

HistoryTypeOK ==
  /\ failures \in Nat /\ crashes \in Nat
  /\ original \in [Jobs -> Contents]
  /\ replaced \subseteq Contents
  /\ made \subseteq Jobs /\ doubted \subseteq Jobs /\ marred \subseteq Jobs

TypeOK == DataTypeOK /\ JobTypeOK /\ TaskTypeOK /\ CleanerTypeOK /\ HistoryTypeOK

Init ==
  /\ mounted \in Mounts
  /\ index = {} /\ dir = [j \in Jobs |-> Absent]
  /\ tmp = Absent /\ stage = Absent /\ safe = {} /\ pgdata = Installed
  /\ current = 0 /\ uses = [j \in Jobs |-> 0] /\ stuck = 0 /\ nextJob = 1
  /\ pc = "idle" /\ mine = {} /\ before = Absent
  /\ cpc = [c \in Cleaners |-> "idle"]
  /\ seen = [c \in Cleaners |-> {}] /\ drop = [c \in Cleaners |-> {}]
  /\ failures = 0 /\ crashes = 0
  /\ original = [j \in Jobs |-> Absent] /\ replaced = {}
  /\ made = {} /\ doubted = {} /\ marred = {}

\* A copy or a restore at work on directories and the index.
Copying == pc \notin {"idle", "running", "copy", "noted", "restore"}

Task == UNCHANGED <<mounted, cleanerVars, crashes>>
Steps(from, to) == pc = from /\ pc' = to
Fails == failures < MaxFailures /\ failures' = failures + 1

\* What a cp that reports success may have left, from src, at a place where
\* there is dst when it ends: a retry of a cp whose destination was swept
\* meanwhile copies all of it, or into what could not be swept; a source that
\* was removed meanwhile is copied in part.
Copied(src, dst) ==
  ({src} \ {Absent}) \cup (IF src = Absent \/ dst = Absent THEN {Holed} ELSE {})

(***************************************************************************)
(* An update's backup.                                                     *)
(***************************************************************************)
RequestUpdate ==
  /\ current = 0 /\ stuck = 0 /\ nextJob \in Jobs
  /\ Steps("idle", "copy")
  /\ current' = nextJob /\ nextJob' = nextJob + 1
  /\ UNCHANGED <<dataVars, uses, stuck, mine, before, failures, historyVars>> /\ Task

\* A failure before the swap: the job ends, the site is as it was.
GiveUp == pc' = "idle" /\ current' = 0

BeginCopy ==
  /\ Steps("copy", "copying")
  /\ tmp' = Holed /\ original' = [original EXCEPT ![current] = pgdata]
  /\ doubted' = IF \A c \in Cleaners : cpc[c] = "idle" THEN doubted ELSE doubted \cup {current}
  /\ UNCHANGED <<index, dir, stage, safe, pgdata, jobVars, mine, before, failures, replaced,
                 made, marred>>
  /\ Task

EndCopy ==
  /\ Steps("copying", "rename")
  /\ tmp' \in Copied(pgdata, tmp)
  /\ UNCHANGED <<index, dir, stage, safe, pgdata, jobVars, mine, before, failures, historyVars>>
  /\ Task

\* The first try of cp fails and leaves a part; the second copies into it,
\* one level down, and reports success.
NestCopy ==
  /\ Steps("copying", "rename") /\ Fails
  /\ tmp' = Holed /\ doubted' = doubted \cup {current}
  /\ UNCHANGED <<index, dir, stage, safe, pgdata, jobVars, mine, before, original, replaced,
                 made, marred>>
  /\ Task

CopyFails ==
  /\ pc = "copying" /\ Fails /\ GiveUp
  /\ tmp' = Absent
  /\ UNCHANGED <<index, dir, stage, safe, pgdata, uses, stuck, nextJob, mine, before, historyVars>>
  /\ Task

Rename ==
  /\ pc = "rename"
  /\ IF tmp = Absent
     THEN GiveUp /\ UNCHANGED <<dir, tmp>>
     ELSE /\ dir' = [dir EXCEPT ![current] = tmp] /\ tmp' = Absent
          /\ pc' = "recordRead" /\ UNCHANGED current
  /\ UNCHANGED <<index, stage, safe, pgdata, uses, stuck, nextJob, mine, before, failures,
                 historyVars>>
  /\ Task

RecordRead ==
  /\ Steps("recordRead", "recordWrite")
  /\ mine' = index
  /\ UNCHANGED <<dataVars, jobVars, before, failures, historyVars>> /\ Task

RecordWrite ==
  /\ Steps("recordWrite", "note")
  /\ index' = mine \cup {current} /\ mine' = {} /\ made' = made \cup {current}
  /\ UNCHANGED <<dir, tmp, stage, safe, pgdata, jobVars, before, failures, original, replaced,
                 doubted, marred>>
  /\ Task

\* postgres is started again, then the job file names the snapshot.
Note ==
  /\ Steps("note", "noted")
  /\ uses' = [uses EXCEPT ![current] = current]
  /\ UNCHANGED <<dataVars, current, stuck, nextJob, mine, before, failures, historyVars>>
  /\ Task

FailBeforeSwap ==
  /\ pc \in {"note", "noted"} /\ Fails /\ GiveUp
  /\ UNCHANGED <<dataVars, uses, stuck, nextJob, mine, before, historyVars>> /\ Task

\* The new release runs, and migrates the data.
Swap ==
  /\ Steps("noted", "running")
  /\ stuck' = current /\ pgdata' = Migrated(current)
  /\ UNCHANGED <<index, dir, tmp, stage, safe, current, uses, nextJob, mine, before, failures,
                 historyVars>>
  /\ Task

Succeed ==
  /\ Steps("running", "idle")
  /\ current' = 0 /\ stuck' = 0
  /\ UNCHANGED <<dataVars, uses, nextJob, mine, before, failures, historyVars>> /\ Task

Unhealthy ==
  /\ Steps("running", "restore")
  /\ UNCHANGED <<dataVars, jobVars, mine, before, failures, historyVars>> /\ Task

(***************************************************************************)
(* A rollback's restore.                                                   *)
(***************************************************************************)
\* An operator asks for a snapshot, when no job is in flight or when the one
\* there is needs them.
RequestRollback(id) ==
  /\ current = 0 \/ stuck = current
  /\ nextJob \in Jobs /\ id < nextJob
  /\ Steps("idle", "restore")
  /\ current' = nextJob /\ stuck' = nextJob /\ nextJob' = nextJob + 1
  /\ uses' = [uses EXCEPT ![nextJob] = id]
  /\ UNCHANGED <<dataVars, mine, before, failures, historyVars>> /\ Task

ForgetJob ==
  /\ pc = "idle" /\ current # 0
  /\ current' = 0
  /\ UNCHANGED <<dataVars, uses, stuck, nextJob, taskVars, failures, historyVars>> /\ Task

Target == uses[current]
HasTarget == Target \in index /\ dir[Target] # Absent

\* The job stays as it is, for an operator.
RestoreEnds == pc' = "idle" /\ UNCHANGED jobVars

RestoreCheck ==
  /\ pc = "restore"
  /\ IF HasTarget /\ (mounted \/ pgdata # Absent)
     THEN /\ pc' = IF mounted THEN "safety" ELSE "aside"
          /\ before' = pgdata
          /\ replaced' = IF Whole(pgdata) THEN replaced \cup {pgdata} ELSE replaced
     ELSE pc' = "idle" /\ UNCHANGED <<before, replaced>>
  /\ marred' = marred \ {current}
  /\ UNCHANGED <<dataVars, jobVars, mine, failures, original, made, doubted>> /\ Task

MoveAside ==
  /\ Steps("aside", "fill")
  /\ safe' = safe \cup {pgdata} /\ pgdata' = Absent
  /\ UNCHANGED <<index, dir, tmp, stage, jobVars, mine, before, failures, historyVars>> /\ Task

SafetyCopy ==
  /\ Steps("safety", "stage")
  /\ safe' = IF pgdata = Absent THEN safe ELSE safe \cup {pgdata}
  /\ UNCHANGED <<index, dir, tmp, stage, pgdata, jobVars, mine, before, failures, historyVars>>
  /\ Task

\* Mutant of SafetyFails: a failed safety copy does not keep the restore from
\* going on.
SafetySkipped ==
  /\ pc = "safety" /\ Fails /\ pc' = "stage"
  /\ UNCHANGED <<dataVars, jobVars, mine, before, historyVars>> /\ Task

SafetyFails ==
  /\ pc \in {"aside", "safety"} /\ Fails /\ RestoreEnds
  /\ UNCHANGED <<dataVars, mine, before, historyVars>> /\ Task

BeginStage ==
  /\ Steps("stage", "staging")
  /\ stage' = Holed
  /\ UNCHANGED <<index, dir, tmp, safe, pgdata, jobVars, mine, before, failures, historyVars>>
  /\ Task

EndStage ==
  /\ Steps("staging", "wipe")
  /\ stage' \in Copied(dir[Target], stage)
  /\ UNCHANGED <<index, dir, tmp, safe, pgdata, jobVars, mine, before, failures, historyVars>>
  /\ Task

\* A copy that fails for want of its source needs no other failure.
CopyBreaks(src) ==
  \/ src = Absent /\ UNCHANGED failures
  \/ Fails

StageFails ==
  /\ pc = "staging" /\ CopyBreaks(dir[Target]) /\ RestoreEnds
  /\ stage' = Absent
  /\ UNCHANGED <<index, dir, tmp, safe, pgdata, mine, before, historyVars>> /\ Task

Wipe ==
  /\ Steps("wipe", "fill")
  /\ pgdata' = Absent
  /\ UNCHANGED <<index, dir, tmp, stage, safe, jobVars, mine, before, failures, historyVars>>
  /\ Task

WipeFails ==
  /\ pc = "wipe" /\ Fails /\ RestoreEnds
  /\ pgdata' = Holed
  /\ UNCHANGED <<index, dir, tmp, stage, safe, mine, before, historyVars>> /\ Task

Source == IF mounted THEN stage ELSE dir[Target]

BeginFill ==
  /\ Steps("fill", "filling")
  /\ pgdata' = Holed
  /\ UNCHANGED <<index, dir, tmp, stage, safe, jobVars, mine, before, failures, historyVars>>
  /\ Task

EndFill ==
  /\ Steps("filling", "adoptRead")
  /\ pgdata' \in Copied(Source, pgdata)
  /\ stage' = Absent
  /\ UNCHANGED <<index, dir, tmp, safe, jobVars, mine, before, failures, historyVars>> /\ Task

\* The directory moved aside leaves a new place for cp, whose second try nests
\* into what the first left.
NestFill ==
  /\ ~mounted /\ Steps("filling", "adoptRead") /\ Fails
  /\ pgdata' = Holed /\ marred' = marred \cup {current}
  /\ UNCHANGED <<index, dir, tmp, stage, safe, jobVars, mine, before, original, replaced, made,
                 doubted>>
  /\ Task

\* What was there is put back, if that works: the safety copy is copied, the
\* directory moved aside is moved back.
PutBack ==
  \/ pgdata' = Holed /\ UNCHANGED safe
  \/ /\ before # Absent
     /\ pgdata' = before
     /\ safe' = IF mounted THEN safe ELSE safe \ {before}

FillFails ==
  /\ pc = "filling" /\ CopyBreaks(Source) /\ RestoreEnds
  /\ PutBack
  /\ stage' = Absent
  /\ UNCHANGED <<index, dir, tmp, mine, before, historyVars>> /\ Task

AdoptRead ==
  /\ Steps("adoptRead", "adoptWrite")
  /\ mine' = index
  /\ UNCHANGED <<dataVars, jobVars, before, failures, historyVars>> /\ Task

AdoptWrite ==
  /\ Steps("adoptWrite", "restored")
  /\ index' = IF before = Absent THEN index ELSE mine \cup {Aside(current)}
  /\ mine' = {} /\ before' = Absent
  /\ UNCHANGED <<dir, tmp, stage, safe, pgdata, jobVars, failures, historyVars>>
  /\ Task

RestoreDone ==
  /\ Steps("restored", "idle")
  /\ current' = 0 /\ stuck' = 0
  /\ UNCHANGED <<dataVars, uses, nextJob, mine, before, failures, historyVars>> /\ Task

(***************************************************************************)
(* Retention, sweeping, deletion.                                          *)
(***************************************************************************)
Cleans(c, from, to) ==
  /\ cpc[c] = from /\ cpc' = [cpc EXCEPT ![c] = to]
  /\ doubted' = IF pc \in Making THEN doubted \cup {current} ELSE doubted
  /\ UNCHANGED <<mounted, tmp, stage, safe, pgdata, jobVars, taskVars, crashes, original,
                 replaced, made, marred>>

\* Mutant of InUse: only the job in flight counts.
InUseByCurrent(id) == current # 0 /\ uses[current] = id

\* in_use_reason
InUse(id) ==
  \E job \in {current, stuck} \ {0} : uses[job] = id

PruneRead(c) ==
  /\ Cleans(c, "idle", "protect")
  /\ seen' = [seen EXCEPT ![c] = index]
  /\ UNCHANGED <<index, dir, drop, failures>>

\* Pins and what is in use are kept, and the newest of the others.
Eligible(ids) == {id \in ids \cap Jobs : ~InUse(id)}
\* Mutant of Excess: a snapshot counts among those newer than it.
ExcessOfOne(ids) == {id \in ids : Cardinality({i \in ids : i >= id}) >= KeepN}
Excess(ids) == {id \in ids : Cardinality({i \in ids : i > id}) >= KeepN}

Protect(c) ==
  /\ Cleans(c, "protect", "remove")
  /\ drop' = [drop EXCEPT ![c] = Excess(Eligible(seen[c]))]
  /\ UNCHANGED <<index, dir, seen, failures>>

DeleteRead(c, id) ==
  /\ id \in index => ~InUse(id) /\ Cardinality(index) > 1
  /\ Cleans(c, "idle", IF id \in index THEN "delete" ELSE "orphan")
  /\ seen' = [seen EXCEPT ![c] = index] /\ drop' = [drop EXCEPT ![c] = {id}]
  /\ UNCHANGED <<index, dir, failures>>

Removing == {"remove", "delete", "orphan"}

RemoveDir(c, id) ==
  /\ cpc[c] \in Removing /\ Cleans(c, cpc[c], cpc[c])
  /\ id \in drop[c] /\ dir[id] # Absent
  /\ dir' = [dir EXCEPT ![id] = Absent]
  /\ UNCHANGED <<index, seen, drop, failures>>

\* A directory that cannot be removed, or only in part, keeps its entry.
RemoveFails(c, id) ==
  /\ cpc[c] \in Removing /\ Cleans(c, cpc[c], cpc[c])
  /\ id \in drop[c] /\ dir[id] # Absent /\ Fails
  /\ drop' = [drop EXCEPT ![c] = @ \ {id}]
  /\ \/ dir' = dir
     \/ dir' = [dir EXCEPT ![id] = Holed]
  /\ UNCHANGED <<index, seen>>

DropEntries(c) ==
  /\ cpc[c] \in Removing /\ \A id \in drop[c] : dir[id] = Absent
  /\ Cleans(c, cpc[c], IF cpc[c] = "remove" THEN "sweepRead" ELSE "idle")
  /\ index' = IF cpc[c] = "orphan" \/ drop[c] = {} THEN index ELSE seen[c] \ drop[c]
  /\ seen' = [seen EXCEPT ![c] = {}] /\ drop' = [drop EXCEPT ![c] = {}]
  /\ UNCHANGED <<dir, failures>>

\* Also alone, when the limit is off.
SweepRead(c) ==
  /\ cpc[c] \in {"sweepRead", "idle"} /\ Cleans(c, cpc[c], "sweep")
  /\ seen' = [seen EXCEPT ![c] = index]
  /\ UNCHANGED <<index, dir, drop, failures>>

\* Mutant of Sweep: staging directories are not among the names it removes.
SweepCopies(c) ==
  /\ cpc[c] = "sweep" /\ cpc' = [cpc EXCEPT ![c] = "idle"]
  /\ dir' = [id \in Jobs |-> IF id \in seen[c] THEN dir[id] ELSE Absent]
  /\ tmp' = Absent
  /\ seen' = [seen EXCEPT ![c] = {}]
  /\ UNCHANGED <<mounted, index, stage, safe, pgdata, jobVars, taskVars, drop, boundVars,
                 historyVars>>

Sweep(c) ==
  /\ cpc[c] = "sweep" /\ cpc' = [cpc EXCEPT ![c] = "idle"]
  /\ dir' = [id \in Jobs |-> IF id \in seen[c] THEN dir[id] ELSE Absent]
  /\ tmp' = Absent /\ stage' = Absent
  /\ seen' = [seen EXCEPT ![c] = {}]
  /\ marred' = IF stage # Absent /\ pc \in Staged THEN marred \cup {current} ELSE marred
  /\ UNCHANGED <<mounted, index, safe, pgdata, jobVars, taskVars, drop, boundVars, original,
                 replaced, made, doubted>>

(***************************************************************************)
(* A death of the updater, and its recovery: an update before its swap is  *)
(* given up, one after it goes on, a restore starts again.  Directories    *)
(* being removed are left with holes.                                      *)
(***************************************************************************)
BeingRemoved ==
  {id \in Jobs : dir[id] # Absent /\ \E c \in Cleaners : cpc[c] \in Removing /\ id \in drop[c]}

\* Mutant of Crash: a restore that was interrupted is taken to have been made.
CrashTrustsRestore ==
  /\ crashes < MaxCrashes /\ crashes' = crashes + 1
  /\ pc \in RestorePoints /\ pc' = "restored"
  /\ cpc' = [c \in Cleaners |-> "idle"]
  /\ seen' = [c \in Cleaners |-> {}] /\ drop' = [c \in Cleaners |-> {}]
  /\ UNCHANGED <<mounted, dataVars, jobVars, mine, before, failures, historyVars>>

Crash ==
  /\ crashes < MaxCrashes /\ crashes' = crashes + 1
  /\ \E part \in SUBSET BeingRemoved :
       dir' = [id \in Jobs |-> IF id \in part THEN Holed ELSE dir[id]]
  /\ pc' = CASE pc \in UpdatePoints -> "idle"
             [] pc \in RestorePoints -> "restore"
             [] OTHER -> pc
  /\ current' = IF pc \in UpdatePoints THEN 0 ELSE current
  /\ cpc' = [c \in Cleaners |-> "idle"]
  /\ seen' = [c \in Cleaners |-> {}] /\ drop' = [c \in Cleaners |-> {}]
  /\ mine' = {} /\ before' = Absent
  /\ UNCHANGED <<mounted, index, tmp, stage, safe, pgdata, uses, stuck, nextJob, failures,
                 historyVars>>

(***************************************************************************)
(* The specification.                                                      *)
(***************************************************************************)
CopySteps ==
  BeginCopy \/ EndCopy \/ NestCopy \/ CopyFails \/ Rename \/ RecordRead \/ RecordWrite \/ Note
    \/ FailBeforeSwap \/ Swap \/ Succeed \/ Unhealthy

RestoreSteps ==
  RestoreCheck \/ MoveAside \/ SafetyCopy \/ SafetyFails \/ BeginStage \/ EndStage \/ StageFails
    \/ Wipe \/ WipeFails \/ BeginFill \/ EndFill \/ NestFill \/ FillFails \/ AdoptRead
    \/ AdoptWrite \/ RestoreDone

CleanerSteps(c) ==
  \/ PruneRead(c) \/ Protect(c) \/ DropEntries(c) \/ SweepRead(c) \/ Sweep(c)
  \/ \E id \in Jobs : DeleteRead(c, id) \/ RemoveDir(c, id) \/ RemoveFails(c, id)

Requests == RequestUpdate \/ ForgetJob \/ \E id \in Jobs : RequestRollback(id)

Next ==
  Requests \/ CopySteps \/ RestoreSteps \/ (\E c \in Cleaners : CleanerSteps(c)) \/ Crash

Spec == Init /\ [][Next]_vars

\* The periodic check prunes for as long as the process lives, in a thread of
\* its own: what other cleaners do does not keep it from its turn.  A task
\* and a cleaner at work go on.
Ticks == \E c \in Cleaners : PruneRead(c)
Cleaning ==
  \E c \in Cleaners :
    \/ Protect(c) \/ DropEntries(c) \/ Sweep(c) \/ (cpc[c] = "sweepRead" /\ SweepRead(c))
    \/ \E id \in Jobs : RemoveDir(c, id)
Fairness == WF_vars(CopySteps \/ RestoreSteps) /\ WF_vars(Cleaning) /\ SF_vars(Ticks)

FairSpec == Spec /\ Fairness

=============================================================================
