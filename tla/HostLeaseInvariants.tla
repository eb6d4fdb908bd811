------------------------ MODULE HostLeaseInvariants -------------------------
(***************************************************************************)
(* The inductive invariant of the host lease: what FrozenCanBeGivenBack and *)
(* ImplementsHome need of the row, the session, their ids and landings to be *)
(* kept by every step.                                                     *)
(***************************************************************************)
EXTENDS HostLeaseProperties

(***************************************************************************)
(* What the row says, by its state and by the kind of its move.            *)
(***************************************************************************)
RowOfState ==
  /\ lease.state = "none" => lease = NoLease
  /\ lease.state # "none" => lease.epoch >= 1 /\ lease.lineage >= 1
  /\ lease.state = "moved_out" => lease.move.kind = "none"
  /\ lease.state = "vacant" =>
       \/ lease.move.kind = "none"
       \/ lease.move.kind = "Recover" /\ lease.move.was = "vacant" /\ lease.move.phase = Proposed
  /\ lease.state = "frozen" => lease.move.kind # "none" /\ Freezes(lease.move.phase)

RowOfMove ==
  /\ lease.move.kind = "none" => lease.move = NoMove
  /\ lease.move.kind # "none" =>
       /\ lease.move.phase >= Proposed /\ lease.move.device \in Devices
       /\ Freezes(lease.move.phase) =>
            lease.state = "frozen" \/ (lease.state = "live" /\ lease.move.kind = "Merge")
  /\ lease.move.kind \in {"ToDevice", "MergeAsked"} =>
       lease.holder = Site /\ lease.move.was = "live" /\ lease.move.import = 0
  /\ lease.move.kind = "Merge" =>
       lease.holder = Site /\ lease.move.was = "none" /\ lease.move.import = 0
  /\ lease.move.kind = "Back" => lease.holder = lease.move.device /\ lease.move.was = "live"
  /\ lease.move.kind = "Arrival" =>
       /\ lease.holder = lease.move.device /\ lease.move.was \in {"none", "vacant"}
       /\ lease.move.phase # Proposed
  /\ lease.move.kind = "Recover" =>
       lease.move.was \in {"live", "vacant"} /\ lease.move.import = lease.move.id

Row == RowOfState /\ RowOfMove

(***************************************************************************)
(* Ids are given out once, so a move and a session of the same id belong   *)
(* together.                                                               *)
(***************************************************************************)
Given == 1 .. nextId - 1

Ids ==
  /\ nextId >= 1
  /\ lease.move.kind # "none" => lease.move.id \in Given /\ lease.move.import < nextId
  /\ session.kind = "none" => session = NoSession
  /\ session.kind # "none" =>
       /\ session.id \in Given /\ session.device \in Devices
       /\ session.phase # "none" /\ session.epoch >= 1 /\ session.lineage >= 1
  /\ landing \subseteq Given /\ sealing \subseteq Given

Together ==
  /\ lease.move.kind # "none" /\ session.kind # "none" /\ lease.move.id = session.id =>
       /\ lease.move.device = session.device
       /\ \/ lease.move.kind = "Merge" /\ session.kind = "merge"
          \/ lease.move.kind = "Recover" /\ session.kind = "recover"
          \/ lease.move.kind = "Arrival" /\ session.kind = "import"
  /\ lease.move.kind # "none" /\ lease.move.id \in sealing => lease.move.kind = "ToDevice"
  /\ session.kind # "none" => session.id \notin sealing
  /\ session.id \in landing =>
       session.kind # "merge" /\ session.phase \in {"transferring", "committed"}

(***************************************************************************)
(* A lineage born later is another one.                                    *)
(***************************************************************************)
Born ==
  /\ lease.lineage <= births /\ session.lineage <= births
  /\ \A d \in Devices :
       /\ dev[d].lineage <= births
       /\ dev[d].at # "none" => dev[d].lineage >= 1
       /\ dev[d].at \in {"living", "still"} => dev[d].epoch >= 1

\* device_gone drops a removed device's sessions before it gives moves of it
\* back, and one late request does not take a new session to its commit.
Leaving ==
  \A d \in Devices :
    /\ leaving[d] # 0 => d \notin linked
    /\ leaving[d] \in {3, 4} /\ session.device = d /\ session.phase # "committed" =>
         d \notin linked \cup late /\ session.id \notin landing

\* Where an import lands she does not live on another end meanwhile: the row
\* still carries the import, frozen, or knows no home, or is about another her.
LandsSafely ==
  Receiving /\ session.kind # "merge" /\ (session.kind = "import" \/ session.id \in landing) =>
    \/ lease.lineage # session.lineage
    \/ HomeUnknown
    \/ lease.state = "frozen" /\ Carries(session.id)

\* The invariant the theorems rest on: each part needs the ones before it.
RowInv == TypeOK /\ Row /\ Ids /\ Together /\ Born /\ Leaving /\ LandsSafely

(***************************************************************************)
(* Where she is, while nobody deletes her (~Forgets): what OneHome and     *)
(* HomeHasHer need, of the row and of every device's copy of her.          *)
(***************************************************************************)
\* The site has taken her in for good: calling a move off does not forget her.
TakenIn ==
  lease.state # "none" /\ ~(lease.move.kind = "Arrival" /\ lease.move.was = "none")

\* No end is named, or only the one she may be taken back from.
Lost == lease.state = "vacant" \/ lease.move.was = "vacant"

NothingCleared == clearing = "none"

\* A merge being committed is of a merge session.
MergesSession ==
  \A m \in merging : m[1] \in Given /\ (session.id = m[1] => session.kind = "merge")

\* The row says of her home: it is registered, and known.
Knows == lease.state # "none" /\ ~HomeUnknown

LeftFromSite == lease.state = "moved_out" => lease.holder = Site

\* The device an import comes from keeps her until it is over.
SessionHeld ==
  session.kind \in {"import", "return"} /\ session.phase # "committed" =>
    /\ dev[session.device].at \in {"living", "still"}
    /\ dev[session.device].lineage = session.lineage
    /\ dev[session.device].epoch = session.epoch

\* A reclaim and a merge are of a her the site has taken in.
SessionOfRow ==
  /\ session.kind \in {"recover", "merge"} /\ session.phase # "committed" => TakenIn
  /\ session.kind = "recover" /\ session.phase # "committed" =>
       session.lineage = lease.lineage
  /\ session.kind = "merge" /\ session.phase # "committed" /\ session.lineage = lease.lineage =>
       session.epoch <= lease.epoch

\* Two devices have the same her only through the site.
OnlyThroughSite ==
  \A d, e \in Devices :
    d # e /\ dev[d].at # "none" /\ dev[e].at # "none" /\ dev[d].lineage = dev[e].lineage =>
      TakenIn /\ dev[d].lineage = lease.lineage

\* A copy is behind the row, or is the one of the device she lives on.
CopiesBehind ==
  \A d \in Devices :
    lease.state # "none" /\ dev[d].at # "none" /\ dev[d].lineage = lease.lineage =>
      /\ dev[d].epoch <= lease.epoch
      /\ d \in linked /\ dev[d].epoch = lease.epoch => lease.holder = d /\ ~Lost

EpochsApart ==
  \A d, e \in linked :
    /\ d # e /\ dev[d].at \in {"living", "still"} /\ dev[e].at \in {"living", "still"}
    /\ dev[d].lineage = dev[e].lineage
    => dev[d].epoch # dev[e].epoch

\* A copy kept apart is of the move that carried it.
ApartOfMove ==
  \A d \in Devices : dev[d].at = "apart" =>
    /\ dev[d].epoch = 0
    /\ dev[d].move \in Given
    /\ lease.move.kind = "ToDevice" /\ lease.move.id = dev[d].move =>
         dev[d].lineage = lease.lineage
    /\ d \in linked /\ lease.holder = d =>
         /\ lease.state # "none" /\ ~Lost
         /\ lease.done = dev[d].move /\ dev[d].lineage = lease.lineage

\* A move is applied once its device has all of her.
AppliedHasHer ==
  lease.move.kind = "ToDevice" /\ lease.move.phase = Applied =>
    /\ dev[lease.move.device].at = "apart"
    /\ dev[lease.move.device].move = lease.move.id

\* A device that had been taken from and has her again is past what it gave.
CommittedIsPast ==
  session.phase = "committed" /\ session.lineage = lease.lineage /\ lease.state # "none" =>
    /\ session.epoch < lease.epoch
    /\ lease.holder = session.device /\ lease.holder \in linked
         /\ dev[lease.holder].at \in {"living", "still"}
         /\ dev[lease.holder].lineage = lease.lineage =>
         dev[lease.holder].epoch > session.epoch

SiteHasHer == Knows /\ lease.holder = Site => persona

DeviceHasHer ==
  Knows /\ lease.holder \in linked =>
    dev[lease.holder].at # "none" /\ dev[lease.holder].lineage = lease.lineage

\* What those two theorems rest on, beside RowInv.
HomeInv ==
  /\ NothingCleared /\ MergesSession /\ LeftFromSite /\ SessionHeld /\ SessionOfRow
  /\ OnlyThroughSite /\ CopiesBehind /\ EpochsApart /\ ApartOfMove /\ AppliedHasHer /\ CommittedIsPast
  /\ SiteHasHer /\ DeviceHasHer

=============================================================================
