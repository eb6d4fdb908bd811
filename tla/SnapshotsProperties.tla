------------------------ MODULE SnapshotsProperties ------------------------
(***************************************************************************)
(* What backups are for.                                                   *)
(***************************************************************************)
EXTENDS Snapshots

\* While an update past its swap is under way or waits for an operator, the
\* copy of the data it started from is there, all of it, and in the index
\* without which no restore accepts it, whatever prunes, sweeps and deletions
\* run beside the swap, the new release, its rollback and the wait.  Not so if
\* a cleaner was at work between the copy's first write and the job file that
\* names it, when a sweep or a write of an older reading of the index does cost
\* the copy, or if cp nested.
InFlightBackup ==
  stuck # 0 /\ uses[stuck] = stuck /\ stuck \notin doubted =>
    stuck \in index /\ dir[stuck] = original[stuck]

\* The rollback of a failed update leaves the data the update started from,
\* if the copy is beyond doubt and no sweep took the restore's stage away.
RollbackRestores ==
  [][RestoreDone /\ uses[current] = current /\ current \notin doubted \cup marred
       => pgdata = original[current]]_vars

\* Data a restore set out to replace is still in pgdata, or in a directory
\* that nothing removes, whatever failed or was interrupted since.
LiveKept ==
  \A content \in replaced : content \in safe \/ content = pgdata

\* The backup an update got an entry for is taken away or damaged only once
\* as many later updates as retention keeps have theirs, or at the hands of an
\* operator's DELETE of that snapshot: the newest ones stay, on however old a
\* reading of the index, beside whatever other cleaners and jobs do, and when a
\* removal fails or is cut off (prune, sweep_orphan_snapshot_dirs).  A copy a
\* cleaner worked beside before the job file named it is excepted, as above.
Later(id) == {job \in made : job > id}
Deleting(id) == \E c \in Cleaners : cpc[c] = "delete" /\ id \in drop[c]
RetentionKept ==
  [][\A id \in made \ doubted :
       dir'[id] # dir[id] => Cardinality(Later(id)) >= KeepN \/ Deleting(id)]_vars

\* What an interrupted copy or restore left is removed in the end.
Leftovers == ~Copying /\ (tmp # Absent \/ stage # Absent)
LeftoversSwept == Leftovers ~> ~Leftovers

=============================================================================
