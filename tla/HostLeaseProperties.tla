------------------------ MODULE HostLeaseProperties ------------------------
(***************************************************************************)
(* What the host lease must keep, whatever is asked, lost, repeated or     *)
(* interrupted.                                                            *)
(***************************************************************************)
EXTENDS HostLease

CONSTANT Nowhere

(***************************************************************************)
(* Invariants.                                                             *)
(***************************************************************************)
\* Frozen, no end has her: there is then always a move to call off, at a
\* step where calling it off is allowed, so the owner can give her back.
FrozenCanBeGivenBack ==
  lease.state = "frozen" =>
    lease.move.kind # "none" /\ lease.move.phase \in Frozen .. Applied

\* The site knows no home: she left it, or is being taken back after that.
HomeUnknown ==
  \/ lease.state = "vacant"
  \/ lease.move.kind = "Recover" /\ lease.move.was = "vacant"

SiteLives == lease.state = "live" /\ lease.holder = Site

LivesOn(d) == d \in linked /\ dev[d].at = "living"

\* Two ends never live her at the same epoch: a device that runs a copy of
\* the her who lives on the site, or on another device, is at an older
\* epoch and stops when it next reads the row.
OneHome ==
  \A d \in Devices : LivesOn(d) =>
    /\ SiteLives /\ dev[d].lineage = lease.lineage => dev[d].epoch < lease.epoch
    /\ \A e \in Devices \ {d} :
         LivesOn(e) /\ dev[e].lineage = dev[d].lineage => dev[e].epoch # dev[d].epoch

\* The end the row names as her home has her: what was let go of on the
\* other end had arrived.
HomeHasHer ==
  lease.state \in {"live", "frozen"} /\ ~HomeUnknown =>
    /\ lease.holder = Site => persona
    /\ lease.holder \in linked =>
         dev[lease.holder].at # "none" /\ dev[lease.holder].lineage = lease.lineage

(***************************************************************************)
(* Steps.                                                                  *)
(***************************************************************************)
\* clear_sealed lets go of what was left of others "while she is away": never
\* of the her who lives on the site.
ClearedOnlyWhileAway == [][ClearSealed => ~SiteLives]_vars

Home == INSTANCE HerHome WITH
  home <- IF lease.state = "none" \/ HomeUnknown THEN Nowhere ELSE lease.holder,
  stopped <- lease.state \in {"frozen", "moved_out"},
  registered <- lease.state # "none",
  lineage <- lease.lineage,
  epoch <- lease.epoch

\* The row, through every move, import, merge and removal, does what her
\* one home promises.
ImplementsHome == Home!Spec

(***************************************************************************)
(* Liveness.                                                               *)
(***************************************************************************)
\* A process's copy comes to agree with the row, also after a slow request
\* put back an older read.
CopyCatchesUp == []<>(copy = Place(lease))

\* A row without a move that names a removed device does not stay so.
OrphanSettles ==
  (lease.holder \notin linked \cup {Site} /\ lease.state = "live" /\ lease.move = NoMove)
    ~> ~(lease.holder \notin linked \cup {Site} /\ lease.state = "live" /\ lease.move = NoMove)

=============================================================================
