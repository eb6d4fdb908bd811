----------------------------- MODULE HostLease -----------------------------
(***************************************************************************)
(* The host lease (services/persona_sync): the one row that says on which  *)
(* end she lives, the moves that change it, and the imports that carry her *)
(* into the site.                                                          *)
(*                                                                         *)
(* Every transaction that locks the row is one step.  What the code does   *)
(* between transactions is not: sealing her for a device, the checks of an *)
(* import's commit before it lands, a merge's hold and its landing, the    *)
(* statements of a device's removal, a request that read where she is and  *)
(* acts on it later.  The backend may crash between any two of them.       *)
(*                                                                         *)
(* A move's kind stands for its kind, direction and id prefix: "ToDevice"  *)
(* and "Back" are Kind::Move with an mv_ id, "Arrival" is Kind::Move with  *)
(* an imp_ id, "Merge" and "MergeAsked" are Kind::Merge with an imp_ and   *)
(* an mv_ id, "Recover" is Kind::Recover.  Ids, epochs and lineages are    *)
(* numbers.  The devices' own program is not in the repository: the        *)
(* actions Device... are external.                                         *)
(***************************************************************************)
EXTENDS Naturals, FiniteSets

CONSTANTS
  Devices,     \* devices the owner may link
  Site,        \* the holder when she lives on the site
  MaxIds,      \* bound: moves and imports ever started
  MaxEpoch,    \* bound: epochs reached
  MaxBirths,   \* bound: lineages born, on the site or on a device
  MaxCrashes,  \* bound: crashes of the backend
  MaxReads,    \* bound: reads of the row adopted late
  Forgets      \* whether the owner deletes her, or what is left of her

ASSUME SiteAssumption == Site \notin Devices
ASSUME BoundsAssumption ==
  /\ MaxIds \in Nat /\ MaxEpoch \in Nat /\ MaxBirths \in Nat
  /\ MaxCrashes \in Nat /\ MaxReads \in Nat
ASSUME ForgetsAssumption == Forgets \in BOOLEAN

Ends == Devices \cup {Site}
States == {"none", "live", "frozen", "vacant", "moved_out"}
Kinds == {"none", "ToDevice", "Back", "Arrival", "Merge", "MergeAsked", "Recover"}

(***************************************************************************)
(* Moves.  Phases are numbered as in Phase::step.                          *)
(***************************************************************************)
Proposed == 1
Frozen == 2
Transferring == 3
Applied == 4

Freezes(phase) == phase \in Frozen .. Applied

Move ==
  [kind : Kinds, id : Nat, device : Ends, phase : 0 .. 4, agreed : BOOLEAN,
   sealed : BOOLEAN, import : Nat, was : States]

NoMove ==
  [kind |-> "none", id |-> 0, device |-> Site, phase |-> 0, agreed |-> FALSE,
   sealed |-> FALSE, import |-> 0, was |-> "none"]

NewMove(kind, id, device, phase, was) ==
  [NoMove EXCEPT !.kind = kind, !.id = id, !.device = device, !.phase = phase,
                 !.was = was]

IsImport(kind) == kind \in {"Arrival", "Merge"}

(***************************************************************************)
(* The row, and the import session beside it.                              *)
(***************************************************************************)
Lease ==
  [state : States, holder : Ends, lineage : Nat, epoch : Nat, move : Move,
   done : Nat]

NoLease ==
  [state |-> "none", holder |-> Site, lineage |-> 0, epoch |-> 0,
   move |-> NoMove, done |-> 0]

SessionKinds == {"none", "import", "merge", "return", "recover"}
SessionPhases == {"none", "proposed", "confirmed", "transferring", "committed"}

Session ==
  [kind : SessionKinds, id : Nat, device : Ends, lineage : Nat, epoch : Nat,
   phase : SessionPhases]

NoSession ==
  [kind |-> "none", id |-> 0, device |-> Site, lineage |-> 0, epoch |-> 0,
   phase |-> "none"]

Her == [at : {"none", "apart", "living", "still"}, lineage : Nat, epoch : Nat,
        move : Nat]

NoHer == [at |-> "none", lineage |-> 0, epoch |-> 0, move |-> 0]

Place(lease) ==
  CASE lease.state = "none" -> "here"
    [] lease.state = "frozen" -> "moving"
    [] lease.state = "vacant" -> "vacant"
    [] lease.state = "moved_out" -> "moved_out"
    [] lease.state = "live" /\ lease.holder = Site -> "here"
    [] OTHER -> "elsewhere"

Places == {"here", "moving", "vacant", "moved_out", "elsewhere"}

VARIABLES
  lease,     \* agent_host_lease
  session,   \* agent_host_import
  persona,   \* whether the site has a persona row
  linked,    \* devices with a live token
  late,      \* removed devices with a request already past its token check
  leaving,   \* statements device_gone has run for a device being removed
  dev,       \* what each device holds of her
  backups,   \* <<device, lineage>> of the complete backups on the site
  sealing,   \* moves being sealed by a confirm_to_device
  landing,   \* import commits past their checks
  merging,   \* <<import, request>>: merge commits that have put her on hold
  clearing,  \* what clear_sealed read before its transaction
  copy,      \* the place this process last adopted
  fetched,   \* a place read and not adopted yet
  reads,     \* reads of the row adopted late
  nextId, births, crashes

siteVars == <<lease, session, persona, backups>>
stepVars == <<sealing, landing, merging, clearing>>
deviceVars == <<linked, late, leaving, dev>>
copyVars == <<copy, fetched, reads>>
countVars == <<nextId, births, crashes>>
vars == <<siteVars, stepVars, deviceVars, copyVars, countVars>>

TypeOK ==
  /\ lease \in Lease
  /\ session \in Session
  /\ persona \in BOOLEAN
  /\ linked \in SUBSET Devices
  /\ late \in SUBSET Devices
  /\ leaving \in [Devices -> 0 .. 4]
  /\ dev \in [Devices -> Her]
  /\ backups \in SUBSET (Devices \X Nat)
  /\ sealing \in SUBSET Nat
  /\ landing \in SUBSET Nat
  /\ merging \in SUBSET (Nat \X {1, 2})
  /\ clearing \in {"none", "elsewhere", "vacant"}
  /\ copy \in Places
  /\ fetched \in Places \cup {"none"}
  /\ reads \in Nat
  /\ nextId \in Nat
  /\ births \in Nat
  /\ crashes \in Nat

Init ==
  /\ lease = NoLease /\ session = NoSession /\ persona = FALSE
  /\ linked = Devices /\ late = {} /\ leaving = [d \in Devices |-> 0]
  /\ dev = [d \in Devices |-> NoHer]
  /\ backups = {}
  /\ sealing = {} /\ landing = {} /\ merging = {} /\ clearing = "none"
  /\ copy = "here" /\ fetched = "none" /\ reads = 0
  /\ nextId = 1 /\ births = 0 /\ crashes = 0

(***************************************************************************)
(* Who may ask.  A device's token is checked before its request runs, so   *)
(* one request of a device being removed may still be served.              *)
(***************************************************************************)
Asks(d) == d \in linked \cup late /\ late' = late \ {d}

OwnerOrDevice(d, by) ==
  \/ by = "owner" /\ UNCHANGED late
  \/ by = "device" /\ Asks(d)

NewId == nextId <= MaxIds /\ nextId' = nextId + 1

NothingElse == UNCHANGED <<linked, leaving, dev, copyVars, births, crashes>>

(***************************************************************************)
(* Moves on the row.                                                       *)
(***************************************************************************)
\* start: a move to a device waits for both, a merge the owner asks for
\* freezes her at once.
StartMove(d, kind, by) ==
  /\ kind \in {"ToDevice", "MergeAsked"}
  /\ by = "owner" => d \in linked
  /\ lease.move = NoMove
  /\ lease.state = "live" /\ lease.holder = Site
  /\ OwnerOrDevice(d, by) /\ NewId
  /\ LET now == kind = "MergeAsked" /\ by = "owner"
         move == NewMove(kind, nextId, d, IF now THEN Frozen ELSE Proposed, "live")
     IN lease' = [lease EXCEPT !.state = IF now THEN "frozen" ELSE "live",
                    !.move = [move EXCEPT !.agreed = kind = "ToDevice" /\ by = "device"]]
  /\ UNCHANGED <<session, persona, backups, stepVars>> /\ NothingElse

StartBack(d, by) ==
  /\ by = "owner" => d \in linked
  /\ lease.move = NoMove
  /\ lease.state = "live" /\ lease.holder = d
  /\ OwnerOrDevice(d, by) /\ NewId
  /\ lease' = [lease EXCEPT
       !.state = IF by = "owner" THEN "frozen" ELSE "live",
       !.move = NewMove("Back", nextId, d,
                        IF by = "owner" THEN Frozen ELSE Proposed, "live")]
  /\ UNCHANGED <<session, persona, backups, stepVars>> /\ NothingElse

Agree(d) ==
  /\ lease.move.kind = "ToDevice" /\ lease.move.device = d
  /\ lease.move.phase = Proposed
  /\ Asks(d)
  /\ lease' = [lease EXCEPT !.move.agreed = TRUE]
  /\ UNCHANGED <<session, persona, backups, stepVars, nextId>> /\ NothingElse

\* The owner confirms a move by its id; a move to a device is then sealed.
Confirm ==
  /\ lease.move.phase = Proposed
  /\ lease.move.kind = "ToDevice" => lease.move.agreed
  /\ lease' = [lease EXCEPT !.state = "frozen", !.move.phase = Frozen]
  /\ sealing' = IF lease.move.kind = "ToDevice"
                THEN sealing \cup {lease.move.id} ELSE sealing
  /\ UNCHANGED <<session, persona, backups, landing, merging, clearing,
                 late, nextId>>
  /\ NothingElse

\* lease::cancel of a move that is not an import.
Restored == [lease EXCEPT !.state = IF lease.move.was = "none" THEN "live" ELSE lease.move.was,
                          !.move = NoMove]

Dropped(id) ==
  IF session.id = id /\ session.phase # "committed" THEN NoSession ELSE session

\* called_off_on, after its session went: forget_arrival, then
\* merge_called_off.
CalledOff(id) ==
  LET move == lease.move
      its == move.kind # "none" /\ move.id = id
      carried == move.kind # "none" /\ move.import = id
  IN IF its /\ lease.holder # Site /\ move.was = "none" THEN NoLease
     ELSE IF carried \/ (its /\ move.was = "vacant") THEN Restored
     ELSE IF its /\ lease.holder = Site
          THEN [lease EXCEPT !.state = "live", !.move = NoMove]
          ELSE lease

CancelledLease(id) ==
  IF IsImport(lease.move.kind) THEN CalledOff(id) ELSE Restored

CancelledSession(id) ==
  IF IsImport(lease.move.kind)
  THEN IF session.id = id THEN NoSession ELSE session
  ELSE IF lease.move.import # 0 THEN Dropped(lease.move.import) ELSE session

Cancel ==
  /\ lease.move.kind # "none"
  /\ lease' = CancelledLease(lease.move.id)
  /\ session' = CancelledSession(lease.move.id)
  /\ UNCHANGED <<persona, backups, stepVars, nextId>> /\ NothingElse

CancelByOwner == Cancel /\ UNCHANGED late

CancelByDevice(d) == lease.move.device = d /\ Asks(d) /\ Cancel

(***************************************************************************)
(* A move to a device: sealed, taken, applied, committed.                  *)
(***************************************************************************)
Sealed(id) ==
  /\ id \in sealing
  /\ lease.move.id = id /\ lease.move.phase = Frozen
  /\ lease' = [lease EXCEPT !.state = "frozen", !.move.sealed = TRUE]
  /\ sealing' = sealing \ {id}
  /\ UNCHANGED <<session, persona, backups, landing, merging, clearing,
                 late, nextId>>
  /\ NothingElse

\* Sealing her failed, or her move was called off meanwhile: cancelled if it
\* is still there.
SealFails(id) ==
  /\ id \in sealing
  /\ sealing' = sealing \ {id}
  /\ IF lease.move.id = id
     THEN lease' = Restored
     ELSE UNCHANGED lease
  /\ UNCHANGED <<session, persona, backups, landing, merging, clearing, late, nextId>>
  /\ NothingElse

ToThisDevice(d) == lease.move.kind = "ToDevice" /\ lease.move.device = d

\* piece: the device reads the sealed file.
Piece(d) ==
  /\ ToThisDevice(d) /\ lease.move.sealed /\ Freezes(lease.move.phase)
  /\ Asks(d)
  /\ lease' = [lease EXCEPT !.move.phase = IF @ < Transferring THEN Transferring ELSE @]
  /\ UNCHANGED <<session, persona, backups, stepVars, nextId>> /\ NothingElse

\* applied, once the device has all of her kept apart.
ApplyOnDevice(d) ==
  /\ ToThisDevice(d) /\ lease.move.sealed /\ Freezes(lease.move.phase)
  /\ dev[d].at = "apart" /\ dev[d].move = lease.move.id
  /\ Asks(d)
  /\ lease' = [lease EXCEPT !.state = "frozen", !.move.phase = Applied]
  /\ UNCHANGED <<session, persona, backups, stepVars, nextId>> /\ NothingElse

\* As CommitToDevice, without waiting for the device to have all of her.
CommitUnapplied(d) ==
  /\ ToThisDevice(d) /\ lease.move.phase \in {Transferring, Applied}
  /\ <<d, lease.lineage>> \in backups
  /\ lease.epoch < MaxEpoch
  /\ Asks(d)
  /\ lease' = [lease EXCEPT !.holder = d, !.epoch = @ + 1, !.state = "live",
                            !.done = lease.move.id, !.move = NoMove]
  /\ persona' = FALSE
  /\ UNCHANGED <<session, backups, stepVars, nextId>> /\ NothingElse

CommitToDevice(d) ==
  /\ ToThisDevice(d) /\ lease.move.phase = Applied
  /\ <<d, lease.lineage>> \in backups
  /\ lease.epoch < MaxEpoch
  /\ Asks(d)
  /\ lease' = [lease EXCEPT !.holder = d, !.epoch = @ + 1, !.state = "live",
                            !.done = lease.move.id, !.move = NoMove]
  /\ persona' = FALSE
  /\ UNCHANGED <<session, backups, stepVars, nextId>> /\ NothingElse

MayPush(d) ==
  \/ lease.holder = d /\ lease.state \in {"live", "frozen"}
  \/ ToThisDevice(d) /\ lease.move.phase \in {Transferring, Applied}

TakeBackup(d) ==
  /\ MayPush(d) /\ dev[d].at # "none" /\ dev[d].lineage = lease.lineage
  /\ Asks(d)
  /\ backups' = backups \cup {<<d, lease.lineage>>}
  /\ UNCHANGED <<lease, session, persona, stepVars, nextId>> /\ NothingElse

(***************************************************************************)
(* Imports: her on her way into the site from a device.                    *)
(***************************************************************************)
NotEmpty == persona \/ lease.state \notin {"none", "vacant"}

\* make_room: a session that is over, or this device's own unconfirmed one,
\* makes room for a new one.
MakesRoom(d) ==
  \/ session.phase \in {"none", "committed"}
  \/ session.phase = "proposed" /\ session.device = d

NewSession(kind, d, lineage, epoch, phase) ==
  [kind |-> kind, id |-> nextId, device |-> d, lineage |-> lineage,
   epoch |-> epoch, phase |-> phase]

Holds(d) == dev[d].at \in {"living", "still"}

ProposeImport(d) ==
  /\ ~NotEmpty /\ MakesRoom(d) /\ Holds(d)
  /\ Asks(d) /\ NewId
  /\ session' = NewSession("import", d, dev[d].lineage, dev[d].epoch, "proposed")
  /\ UNCHANGED <<lease, persona, backups, stepVars>> /\ NothingElse

ProposeMerge(d) ==
  /\ NotEmpty /\ MakesRoom(d) /\ Holds(d)
  /\ lease.state = "live" /\ lease.holder = Site /\ lease.move = NoMove
  /\ Asks(d) /\ NewId
  /\ session' = NewSession("merge", d, dev[d].lineage, dev[d].epoch, "proposed")
  /\ lease' = [lease EXCEPT !.move = NewMove("Merge", nextId, d, Proposed, "none")]
  /\ UNCHANGED <<persona, backups, stepVars>> /\ NothingElse

\* propose_reclaim and reclaiming: another device opened a backup of her.
ProposeReclaim(d) ==
  /\ \E b \in backups : b[2] = lease.lineage
  /\ MakesRoom(d) /\ lease.move = NoMove
  /\ \/ lease.state = "live" /\ lease.holder \notin {Site, d}
     \/ lease.state = "vacant"
  /\ Asks(d) /\ NewId
  /\ session' = NewSession("recover", d, lease.lineage, lease.epoch, "proposed")
  /\ lease' = [lease EXCEPT !.move =
       [NewMove("Recover", nextId, d, Proposed, lease.state) EXCEPT !.import = nextId]]
  /\ UNCHANGED <<persona, backups, stepVars>> /\ NothingElse

\* arriving: the row of a site she left is hers again, or the first one.
Arriving ==
  LET move == NewMove("Arrival", session.id, session.device, Frozen,
                      IF lease.state = "vacant" /\ lease.lineage = session.lineage
                      THEN "vacant" ELSE "none")
  IN IF move.was = "vacant"
     THEN [lease EXCEPT !.holder = session.device, !.state = "frozen", !.move = move]
     ELSE [NoLease EXCEPT !.state = "frozen", !.holder = session.device,
                          !.lineage = session.lineage, !.epoch = session.epoch,
                          !.move = move]

\* What was left of another her is let go only when the owner said so.
ReplacesSealed(lineage) == lease.state = "vacant" /\ lease.lineage # lineage

ConfirmImport ==
  /\ session.kind = "import" /\ session.phase = "proposed"
  /\ ~NotEmpty
  /\ ReplacesSealed(session.lineage) => Forgets
  /\ lease' = Arriving
  /\ session' = [session EXCEPT !.phase = "confirmed"]
  /\ UNCHANGED <<persona, backups, stepVars, late, nextId>> /\ NothingElse

ConfirmReclaim ==
  /\ session.kind = "recover" /\ session.phase = "proposed"
  /\ lease.move.import = session.id /\ lease.move.phase = Proposed
  /\ lease' = [lease EXCEPT !.state = "frozen", !.move.phase = Frozen]
  /\ session' = [session EXCEPT !.phase = "confirmed"]
  /\ UNCHANGED <<persona, backups, stepVars, late, nextId>> /\ NothingElse

ConfirmMerge ==
  /\ session.kind = "merge" /\ session.phase = "proposed"
  /\ lease.state = "live" /\ lease.holder = Site
  /\ lease.move.id = session.id
  /\ lease' = [lease EXCEPT !.move.phase = Transferring]
  /\ session' = [session EXCEPT !.phase = "confirmed"]
  /\ UNCHANGED <<persona, backups, stepVars, late, nextId>> /\ NothingElse

\* report_frozen: the device she lives on froze her for the move back, and
\* an import carries her.
ReportFrozen(d) ==
  /\ lease.move.kind \in {"Back", "Arrival"} /\ lease.move.device = d
  /\ Freezes(lease.move.phase) /\ lease.move.import = 0
  /\ Holds(d) /\ dev[d].lineage = lease.lineage
  /\ MakesRoom(d)
  /\ Asks(d) /\ NewId
  /\ session' = NewSession("return", d, lease.lineage, dev[d].epoch, "confirmed")
  /\ lease' = [lease EXCEPT !.state = "frozen", !.move.import = nextId]
  /\ UNCHANGED <<persona, backups, stepVars>> /\ NothingElse

Receiving == session.phase \in {"confirmed", "transferring"}

\* import_step: the move that carries the import follows it.
Carries(id) ==
  lease.move.kind # "none" /\ (lease.move.id = id \/ lease.move.import = id)

TakePage(d) ==
  /\ session.device = d /\ session.phase = "confirmed"
  /\ Asks(d)
  /\ session' = [session EXCEPT !.phase = "transferring"]
  /\ lease' = IF Carries(session.id) /\ lease.move.phase < Transferring
              THEN [lease EXCEPT !.move.phase = Transferring,
                      !.state = IF lease.move.kind = "Merge" THEN @ ELSE "frozen"]
              ELSE lease
  /\ UNCHANGED <<persona, backups, stepVars, nextId>> /\ NothingElse

\* commit, up to where it lands: all of her is here and as confirmed, and the
\* move a carried import belongs to is still the row's.
CheckCommit(d) ==
  /\ session.device = d /\ session.phase = "transferring" /\ session.kind # "merge"
  /\ session.kind \in {"return", "recover"} =>
       Carries(session.id) /\ Freezes(lease.move.phase)
  /\ Asks(d)
  /\ landing' = landing \cup {session.id}
  /\ UNCHANGED <<lease, session, persona, backups, sealing, merging, clearing, nextId>>
  /\ NothingElse

\* As Higher, taking the epoch the device said.
DevicesEpoch(a, b) == b

Higher(a, b) == IF a > b THEN a ELSE b

\* As Landed, without going one epoch on.
LandedAtTheSameEpoch ==
  [lease EXCEPT !.holder = Site, !.epoch = Higher(@, session.epoch), !.state = "live",
                !.move = NoMove, !.done = IF lease.move = NoMove THEN @ ELSE lease.move.id]

\* landed: the row names the site, one epoch on from the higher of the two.
Landed ==
  [lease EXCEPT !.holder = Site, !.epoch = Higher(@, session.epoch) + 1,
                !.state = "live", !.move = NoMove,
                !.done = IF lease.move = NoMove THEN @ ELSE lease.move.id]

Land(id) ==
  /\ id \in landing
  /\ landing' = landing \ {id}
  /\ IF /\ session.id = id /\ Receiving
        /\ ~persona /\ ~ReplacesSealed(session.lineage)
        /\ lease.state # "none" => lease.lineage = session.lineage
     THEN /\ Higher(lease.epoch, session.epoch) < MaxEpoch
          /\ lease' = IF lease.state = "none"
                      THEN [NoLease EXCEPT !.state = "live", !.lineage = session.lineage,
                                           !.epoch = session.epoch + 1]
                      ELSE Landed
          /\ session' = [session EXCEPT !.phase = "committed"]
          /\ persona' = TRUE
     ELSE UNCHANGED <<lease, session, persona>>
  /\ UNCHANGED <<backups, sealing, merging, clearing, late, nextId>> /\ NothingElse

\* merge::commit: she stops, the two of her land in one transaction, or she
\* goes on as she was.  A commit asked again runs beside the first.
HoldForMerge(d, request) ==
  /\ session.kind = "merge" /\ session.device = d /\ session.phase = "transferring"
  /\ lease.move.kind = "Merge" /\ lease.move.id = session.id
  /\ <<session.id, request>> \notin merging
  /\ Asks(d)
  /\ lease' = [lease EXCEPT !.state = "frozen", !.move.phase = Applied]
  /\ merging' = merging \cup {<<session.id, request>>}
  /\ UNCHANGED <<session, persona, backups, sealing, landing, clearing, nextId>>
  /\ NothingElse

MergeIn(id, request) ==
  /\ <<id, request>> \in merging
  /\ session.id = id /\ Receiving
  /\ lease.holder = Site /\ lease.move.id = id /\ lease.epoch < MaxEpoch
  /\ lease' = [lease EXCEPT !.epoch = @ + 1, !.state = "live", !.move = NoMove]
  /\ session' = [session EXCEPT !.phase = "committed"]
  /\ merging' = merging \ {<<id, request>>}
  /\ UNCHANGED <<persona, backups, sealing, landing, clearing, late, nextId>>
  /\ NothingElse

MergeFails(id, request) ==
  /\ <<id, request>> \in merging
  /\ lease' = IF lease.move.kind = "Merge" /\ lease.move.id = id
              THEN [lease EXCEPT !.state = "live", !.move.phase = Transferring]
              ELSE lease
  /\ merging' = merging \ {<<id, request>>}
  /\ UNCHANGED <<session, persona, backups, sealing, landing, clearing, late, nextId>>
  /\ NothingElse

\* import::cancel, by the owner or by the device it is from.
CancelImport ==
  /\ session.phase \notin {"none", "committed"}
  /\ session' = NoSession
  /\ lease' = CalledOff(session.id)
  /\ UNCHANGED <<persona, backups, stepVars, nextId>> /\ NothingElse

CancelImportByOwner == CancelImport /\ UNCHANGED late

CancelImportByDevice(d) == session.device = d /\ Asks(d) /\ CancelImport

(***************************************************************************)
(* A device is removed: its token first, then device_gone, one statement   *)
(* after another.                                                          *)
(***************************************************************************)
Revoke(d) ==
  /\ d \in linked
  /\ linked' = linked \ {d}
  /\ late' \in {late, late \cup {d}}
  /\ leaving' = [leaving EXCEPT ![d] = 1]
  /\ UNCHANGED <<siteVars, stepVars, dev, copyVars, countVars>>

Leaves(d, statement) ==
  /\ leaving[d] = statement
  /\ leaving' = [leaving EXCEPT ![d] = (@ + 1) % 5]
  /\ UNCHANGED <<persona, backups, stepVars, linked, late, dev, copyVars, countVars>>

GoneArrival(d) ==
  /\ Leaves(d, 1)
  /\ lease' = IF lease.holder = d /\ lease.move.kind = "Arrival" /\ lease.move.was = "none"
              THEN NoLease ELSE lease
  /\ UNCHANGED session

GoneSessions(d) ==
  /\ Leaves(d, 2)
  /\ session' = IF session.device = d /\ session.phase # "committed"
                THEN NoSession ELSE session
  /\ UNCHANGED lease

GoneHolder(d) ==
  /\ Leaves(d, 3)
  /\ lease' = IF lease.holder = d /\ lease.state # "vacant"
              THEN [lease EXCEPT !.state = "vacant", !.move = NoMove] ELSE lease
  /\ UNCHANGED session

\* As GoneMoves, forgetting to give her back.
GoneMovesFrozen(d) ==
  /\ Leaves(d, 4)
  /\ lease' = IF lease.holder # d /\ lease.move.kind # "none" /\ lease.move.device = d
              THEN [lease EXCEPT !.move = NoMove] ELSE lease
  /\ UNCHANGED session

GoneMoves(d) ==
  /\ Leaves(d, 4)
  /\ lease' = IF lease.holder # d /\ lease.move.kind # "none" /\ lease.move.device = d
              THEN Restored ELSE lease
  /\ UNCHANGED session

\* As SettleOrphan, for a frozen row only.
SettleFrozenOrphan ==
  /\ lease.state = "frozen" /\ lease.move = NoMove
  /\ lease.holder \notin linked \cup {Site}
  /\ lease' = [lease EXCEPT !.state = "vacant"]
  /\ UNCHANGED <<session, persona, backups, stepVars, late, nextId>> /\ NothingElse

\* settle_orphan, from the listener: a row that names a device the owner no
\* longer has.
SettleOrphan ==
  /\ lease.state \in {"live", "frozen"} /\ lease.move = NoMove
  /\ lease.holder \notin linked \cup {Site}
  /\ lease' = [lease EXCEPT !.state = "vacant"]
  /\ UNCHANGED <<session, persona, backups, stepVars, late, nextId>> /\ NothingElse

(***************************************************************************)
(* Her birth on the site, her moving out, and what the owner lets go.      *)
(***************************************************************************)
\* The owner makes a persona, as far as this process knows while she is
\* here; a site without a row is issued one by the next read of it.
Birth ==
  /\ copy = "here" /\ ~persona /\ births < MaxBirths
  /\ persona' = TRUE
  /\ births' = births + 1
  /\ lease' = IF lease.state = "none"
              THEN [NoLease EXCEPT !.state = "live", !.lineage = births + 1, !.epoch = 1]
              ELSE lease
  /\ UNCHANGED <<session, backups, stepVars, deviceVars, copyVars, nextId, crashes>>

\* clear_on deletes the persona and then forget_birth the row that names the
\* site.
Cleared == IF lease.holder = Site THEN NoLease ELSE lease

DeletePersona ==
  /\ Forgets /\ copy = "here" /\ persona
  /\ persona' = FALSE
  /\ lease' = Cleared
  /\ UNCHANGED <<session, backups, stepVars, late, nextId>> /\ NothingElse

MoveOut ==
  /\ lease.move = NoMove /\ lease.state = "live" /\ lease.holder = Site
  /\ lease' = [lease EXCEPT !.state = "moved_out"]
  /\ UNCHANGED <<session, persona, backups, stepVars, late, nextId>> /\ NothingElse

UndoMoveOut ==
  /\ lease.state = "moved_out"
  /\ lease' = [lease EXCEPT !.state = "live", !.move = NoMove]
  /\ UNCHANGED <<session, persona, backups, stepVars, late, nextId>> /\ NothingElse

LetGo ==
  /\ lease.state = "moved_out"
  /\ lease' = [lease EXCEPT !.state = "vacant", !.move = NoMove]
  /\ persona' = FALSE
  /\ UNCHANGED <<session, backups, stepVars, late, nextId>> /\ NothingElse

\* clear_sealed: where she is is read, and acted on in a transaction of its
\* own.
AskToClear ==
  /\ Forgets /\ clearing = "none"
  /\ clearing' = Place(lease) /\ clearing' \in {"elsewhere", "vacant"}
  /\ UNCHANGED <<siteVars, sealing, landing, merging, late, nextId>> /\ NothingElse

ClearSealed ==
  /\ clearing # "none"
  /\ clearing' = "none"
  /\ persona' = FALSE
  /\ lease' = IF clearing = "vacant" /\ lease.state = "vacant" THEN NoLease ELSE Cleared
  /\ UNCHANGED <<session, backups, sealing, landing, merging, late, nextId>>
  /\ NothingElse

(***************************************************************************)
(* This process's copy of the row.  A request reads the row and adopts     *)
(* what it read later, whatever the listener adopted in between.           *)
(***************************************************************************)
Fetch ==
  /\ fetched = "none" /\ reads < MaxReads
  /\ fetched' = Place(lease) /\ reads' = reads + 1
  /\ UNCHANGED <<siteVars, stepVars, deviceVars, countVars, copy>>

Adopt ==
  /\ fetched # "none"
  /\ copy' = fetched /\ fetched' = "none"
  /\ UNCHANGED <<siteVars, stepVars, deviceVars, countVars, reads>>

\* As Reread, on the announcement only: nothing reads the row again after a
\* slow request.
RereadOnAnnouncement ==
  /\ copy # Place(lease) /\ (reads = 0 \/ fetched # "none")
  /\ copy' = Place(lease)
  /\ UNCHANGED <<siteVars, stepVars, deviceVars, countVars, fetched, reads>>

Reread ==
  /\ copy # Place(lease)
  /\ copy' = Place(lease)
  /\ UNCHANGED <<siteVars, stepVars, deviceVars, countVars, fetched, reads>>

\* Nothing of a request survives; a process that has not read the row yet
\* takes her to be here.
Crash ==
  /\ crashes < MaxCrashes /\ crashes' = crashes + 1
  /\ sealing' = {} /\ landing' = {} /\ merging' = {} /\ clearing' = "none"
  /\ leaving' = [d \in Devices |-> 0] /\ late' = {}
  /\ copy' = "here" /\ fetched' = "none"
  /\ UNCHANGED <<siteVars, linked, dev, reads, nextId, births>>

(***************************************************************************)
(* The devices (external): what their program must do, by how the site     *)
(* answers them.                                                           *)
(***************************************************************************)
DeviceBirth(d) ==
  /\ dev[d].at = "none" /\ births < MaxBirths
  /\ births' = births + 1
  /\ dev' = [dev EXCEPT ![d] = [NoHer EXCEPT !.at = "living", !.lineage = births + 1,
                                             !.epoch = 1]]
  /\ UNCHANGED <<siteVars, stepVars, linked, late, leaving, copyVars, nextId, crashes>>

\* It has read all of the sealed file: a copy kept apart, not started.
DeviceKeeps(d) ==
  /\ d \in linked /\ dev[d].at = "none"
  /\ ToThisDevice(d) /\ lease.move.phase = Transferring
  /\ dev' = [dev EXCEPT ![d] = [at |-> "apart", lineage |-> lease.lineage, epoch |-> 0,
                                move |-> lease.move.id]]
  /\ UNCHANGED <<siteVars, stepVars, linked, late, leaving, copyVars, countVars>>

\* What it does of what it holds on reading the row (and its import).
Heard(d) ==
  LET her == dev[d] IN
  IF her.at = "apart"
  THEN IF lease.done = her.move /\ lease.holder = d /\ lease.state # "none"
       THEN [her EXCEPT !.at = "living", !.epoch = lease.epoch, !.move = 0]
       ELSE IF lease.move.id = her.move THEN her ELSE NoHer
  ELSE IF \/ /\ session.phase = "committed" /\ session.device = d
             /\ session.lineage = her.lineage /\ session.epoch >= her.epoch
          \/ /\ lease.lineage = her.lineage /\ lease.epoch > her.epoch
             /\ lease.holder # d /\ lease.state # "vacant"
             /\ session.device = d => session.phase = "committed"
       THEN NoHer
       ELSE IF lease.lineage = her.lineage /\ lease.state = "frozen"
            THEN [her EXCEPT !.at = "still"]
            ELSE [her EXCEPT !.at = "living"]

DeviceHears(d) ==
  /\ d \in linked /\ dev[d].at # "none"
  /\ Heard(d) # dev[d]
  /\ dev' = [dev EXCEPT ![d] = Heard(d)]
  /\ UNCHANGED <<siteVars, stepVars, linked, late, leaving, copyVars, countVars>>

(***************************************************************************)
(* The specification.                                                      *)
(***************************************************************************)
MoveSteps ==
  \/ \E d \in Devices, by \in {"owner", "device"} :
       \/ \E kind \in {"ToDevice", "MergeAsked"} : StartMove(d, kind, by)
       \/ StartBack(d, by)
  \/ Confirm \/ CancelByOwner
  \/ \E d \in Devices : Agree(d) \/ CancelByDevice(d)
  \/ \E id \in sealing : Sealed(id) \/ SealFails(id)
  \/ \E d \in Devices : Piece(d) \/ ApplyOnDevice(d) \/ CommitToDevice(d) \/ TakeBackup(d)

ImportSteps ==
  \/ \E d \in Devices :
       ProposeImport(d) \/ ProposeMerge(d) \/ ProposeReclaim(d) \/ ReportFrozen(d)
  \/ ConfirmImport \/ ConfirmReclaim \/ ConfirmMerge
  \/ \E d \in Devices : TakePage(d) \/ CheckCommit(d) \/ CancelImportByDevice(d)
  \/ \E id \in landing : Land(id)
  \/ \E d \in Devices, request \in {1, 2} : HoldForMerge(d, request)
  \/ \E m \in merging : MergeIn(m[1], m[2]) \/ MergeFails(m[1], m[2])
  \/ CancelImportByOwner

DeviceSteps ==
  \E d \in Devices :
    \/ Revoke(d) \/ GoneArrival(d) \/ GoneSessions(d) \/ GoneHolder(d) \/ GoneMoves(d)
    \/ DeviceBirth(d) \/ DeviceKeeps(d) \/ DeviceHears(d)

SiteSteps ==
  \/ Birth \/ DeletePersona \/ MoveOut \/ UndoMoveOut \/ LetGo
  \/ AskToClear \/ ClearSealed \/ SettleOrphan

CopySteps == Fetch \/ Adopt \/ Reread

Next == MoveSteps \/ ImportSteps \/ DeviceSteps \/ SiteSteps \/ CopySteps \/ Crash

\* The listener and its rereads run for as long as the process does.
Fairness == WF_vars(SettleOrphan) /\ WF_vars(Adopt) /\ WF_vars(Reread)

Spec == Init /\ [][Next]_vars /\ Fairness

=============================================================================
