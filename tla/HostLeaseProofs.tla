-------------------------- MODULE HostLeaseProofs ---------------------------
(***************************************************************************)
(* Theorems about the host lease, for any number of devices, moves, imports, *)
(* births, epochs and crashes: frozen, she can always be given back; the   *)
(* row does what HerHome promises; and, while nobody deletes her, she has  *)
(* one home and that home has her.                                         *)
(***************************************************************************)
EXTENDS HostLeaseInvariants, TLAPS

(***************************************************************************)
(* What the steps do to the row.                                           *)
(***************************************************************************)
\* The row after a step, field by field.
Becomes(state, holder, lineage, epoch, move) ==
  /\ lease'.state = state /\ lease'.holder = holder /\ lease'.lineage = lineage
  /\ lease'.epoch = epoch /\ lease'.move = move

\* A move called off: she is as she was before it.
GivenBack(l) ==
  /\ l.state = IF lease.move.was = "vacant" THEN "vacant" ELSE "live"
  /\ l.holder = lease.holder /\ l.lineage = lease.lineage /\ l.epoch = lease.epoch
  /\ l.move = NoMove /\ l.done = lease.done

\* She had not arrived: calling her move off forgets her.
OnHerWay == lease.holder # Site /\ lease.move.was = "none"

\* The row after a step that may call a move off.
MayGiveBack ==
  \/ lease' = lease
  \/ lease.move.kind # "none" /\ ((lease' = NoLease /\ OnHerWay) \/ GivenBack(lease'))

\* Restored gives her back.
LEMMA RestoredGivesBack ==
  ASSUME TypeOK, Row, lease.move.kind # "none"
  PROVE  GivenBack(Restored)
<1>1. lease.move.was \in {"none", "live", "vacant"}
  BY DEF Row, RowOfMove, TypeOK, Lease, Move, Kinds
<1> QED
  BY <1>1 DEF TypeOK, Lease, GivenBack, Restored

\* So does calling an import off, or it forgets her who had not arrived.
LEMMA CalledOffGivesBack ==
  ASSUME TypeOK, Row, NEW id
  PROVE  \/ CalledOff(id) = lease
         \/ /\ lease.move.kind # "none"
            /\ (CalledOff(id) = NoLease /\ OnHerWay) \/ GivenBack(CalledOff(id))
<1>1. CASE lease.move.kind = "none"
  <2>1. lease.move.was = "none"
    BY <1>1 DEF Row, RowOfMove, NoMove
  <2> QED
    BY <1>1, <2>1 DEF CalledOff
<1>2. CASE lease.move.kind # "none"
  <2>1. GivenBack(Restored)
    BY <1>2, RestoredGivesBack
  <2>2. lease.move.was # "vacant" => GivenBack([lease EXCEPT !.state = "live", !.move = NoMove])
    BY DEF TypeOK, Lease, GivenBack
  <2> QED
    BY <1>2, <2>1, <2>2 DEF CalledOff, OnHerWay
<1> QED
  BY <1>1, <1>2

\* lease::cancel may give her back.
LEMMA CancelRow ==
  ASSUME TypeOK, Row, Cancel
  PROVE  MayGiveBack
BY RestoredGivesBack, CalledOffGivesBack DEF Cancel, CancelledLease, MayGiveBack

\* So may import::cancel.
LEMMA CancelImportRow ==
  ASSUME TypeOK, Row, CancelImport
  PROVE  MayGiveBack
BY CalledOffGivesBack DEF CancelImport, MayGiveBack

\* So may a sealing that failed.
LEMMA SealFailsRow ==
  ASSUME TypeOK, Row, Ids, NEW id \in sealing, SealFails(id)
  PROVE  MayGiveBack
<1>1. lease.move.id = id => lease.move.kind # "none"
  BY DEF Ids, Given, Row, RowOfMove, NoMove
<1> QED
  BY <1>1, RestoredGivesBack DEF SealFails, MayGiveBack

\* And a device's removal.
LEMMA GoneMovesRow ==
  ASSUME TypeOK, Row, NEW d \in Devices, GoneMoves(d)
  PROVE  MayGiveBack
BY RestoredGivesBack DEF GoneMoves, MayGiveBack

\* A move starts: she is frozen at once, or both are waited for.
LEMMA StartMoveRow ==
  ASSUME TypeOK, NEW d \in Devices, NEW kind, NEW by, StartMove(d, kind, by)
  PROVE  /\ kind \in {"ToDevice", "MergeAsked"} /\ lease.state = "live" /\ lease.holder = Site
         /\ lease.move = NoMove
         /\ \E agreed \in BOOLEAN :
              \/ Becomes("live", lease.holder, lease.lineage, lease.epoch,
                   [NewMove(kind, nextId, d, Proposed, "live") EXCEPT !.agreed = agreed])
              \/ Becomes("frozen", lease.holder, lease.lineage, lease.epoch,
                   [NewMove(kind, nextId, d, Frozen, "live") EXCEPT !.agreed = agreed])
<1> DEFINE agreed == kind = "ToDevice" /\ by = "device"
<1>1. agreed \in BOOLEAN
  OBVIOUS
<1>2. CASE kind = "MergeAsked" /\ by = "owner"
  <2>1. lease' = [lease EXCEPT !.state = "frozen",
                    !.move = [NewMove(kind, nextId, d, Frozen, "live") EXCEPT !.agreed = agreed]]
    BY <1>2 DEF StartMove
  <2> QED
    BY <1>1, <2>1 DEF StartMove, TypeOK, Lease, Becomes
<1>3. CASE ~(kind = "MergeAsked" /\ by = "owner")
  <2>1. lease' = [lease EXCEPT !.state = "live",
                    !.move = [NewMove(kind, nextId, d, Proposed, "live") EXCEPT !.agreed = agreed]]
    BY <1>3 DEF StartMove
  <2> QED
    BY <1>1, <2>1 DEF StartMove, TypeOK, Lease, Becomes
<1> QED
  BY <1>2, <1>3

\* A move back starts.
LEMMA StartBackRow ==
  ASSUME TypeOK, NEW d \in Devices, NEW by, StartBack(d, by)
  PROVE  /\ lease.state = "live" /\ lease.holder = d /\ lease.move = NoMove
         /\ \/ Becomes("live", d, lease.lineage, lease.epoch,
                 NewMove("Back", nextId, d, Proposed, "live"))
            \/ Becomes("frozen", d, lease.lineage, lease.epoch,
                 NewMove("Back", nextId, d, Frozen, "live"))
BY DEF StartBack, TypeOK, Lease, Becomes

\* A merge is proposed while she lives on.
LEMMA ProposeMergeRow ==
  ASSUME TypeOK, NEW d \in Devices, ProposeMerge(d)
  PROVE  /\ lease.state = "live" /\ lease.holder = Site /\ lease.move = NoMove
         /\ Becomes("live", Site, lease.lineage, lease.epoch,
              NewMove("Merge", nextId, d, Proposed, "none"))
BY DEF ProposeMerge, TypeOK, Lease, Becomes

\* A reclaim is proposed of a her elsewhere, or not known.
LEMMA ProposeReclaimRow ==
  ASSUME TypeOK, NEW d \in Devices, ProposeReclaim(d)
  PROVE  /\ lease.state \in {"live", "vacant"} /\ lease.move = NoMove
         /\ Becomes(lease.state, lease.holder, lease.lineage, lease.epoch,
              [NewMove("Recover", nextId, d, Proposed, lease.state) EXCEPT !.import = nextId])
BY DEF ProposeReclaim, TypeOK, Lease, Becomes

\* A confirmed import freezes her on the device she comes from.
LEMMA ConfirmImportRow ==
  ASSUME TypeOK, Row, ConfirmImport
  PROVE  /\ lease.state \in {"none", "vacant"}
         /\ \/ /\ lease.state = "vacant" /\ lease.lineage = session.lineage
               /\ Becomes("frozen", session.device, lease.lineage, lease.epoch,
                    NewMove("Arrival", session.id, session.device, Frozen, "vacant"))
            \/ /\ lease.state = "none" \/ lease.lineage # session.lineage
               /\ Becomes("frozen", session.device, session.lineage, session.epoch,
                    NewMove("Arrival", session.id, session.device, Frozen, "none"))
<1>1. CASE lease.state = "vacant" /\ lease.lineage = session.lineage
  <2>1. NewMove("Arrival", session.id, session.device, Frozen, "vacant").was = "vacant"
    BY DEF NewMove, NoMove
  <2>2. lease' = [lease EXCEPT !.holder = session.device, !.state = "frozen",
                    !.move = NewMove("Arrival", session.id, session.device, Frozen, "vacant")]
    BY <1>1, <2>1 DEF ConfirmImport, Arriving
  <2> QED
    BY <1>1, <2>2 DEF TypeOK, Lease, Becomes
<1>2. CASE ~(lease.state = "vacant" /\ lease.lineage = session.lineage)
  <2>1. NewMove("Arrival", session.id, session.device, Frozen, "none").was = "none"
    BY DEF NewMove, NoMove
  <2>2. lease' = [NoLease EXCEPT !.state = "frozen", !.holder = session.device,
                    !.lineage = session.lineage, !.epoch = session.epoch,
                    !.move = NewMove("Arrival", session.id, session.device, Frozen, "none")]
    BY <1>2, <2>1 DEF ConfirmImport, Arriving
  <2> QED
    BY <1>2, <2>2 DEF ConfirmImport, NotEmpty, NoLease, Becomes
<1> QED
  BY <1>1, <1>2

\* A page may move the move that carries it on.
LEMMA TakePageRow ==
  ASSUME TypeOK, NEW d \in Devices, TakePage(d)
  PROVE  \/ lease' = lease
         \/ /\ Carries(session.id) /\ lease.move.phase < Transferring
            /\ Becomes(IF lease.move.kind = "Merge" THEN lease.state ELSE "frozen",
                 lease.holder, lease.lineage, lease.epoch,
                 [lease.move EXCEPT !.phase = Transferring])
BY DEF TakePage, TypeOK, Lease, Move, Becomes

\* She lands, one epoch on, or nothing changes.
LEMMA LandRow ==
  ASSUME TypeOK, NEW id \in landing, Land(id)
  PROVE  \/ lease' = lease /\ session' = session
         \/ /\ session.id = id /\ Receiving /\ session' = [session EXCEPT !.phase = "committed"]
            /\ \/ /\ lease.state = "none"
                  /\ Becomes("live", Site, session.lineage, session.epoch + 1, NoMove)
               \/ /\ lease.state # "none" /\ lease.lineage = session.lineage
                  /\ \E epoch \in Nat : epoch > lease.epoch /\ epoch > session.epoch
                       /\ Becomes("live", Site, lease.lineage, epoch, NoMove)
<1>1. CASE /\ session.id = id /\ Receiving
           /\ ~persona /\ ~ReplacesSealed(session.lineage)
           /\ lease.state # "none" => lease.lineage = session.lineage
  <2>1. session' = [session EXCEPT !.phase = "committed"]
    BY <1>1 DEF Land
  <2>2. ASSUME lease.state = "none"
        PROVE  Becomes("live", Site, session.lineage, session.epoch + 1, NoMove)
    BY <1>1, <2>2 DEF Land, NoLease, Becomes
  <2>3. ASSUME lease.state # "none"
        PROVE  \E epoch \in Nat : epoch > lease.epoch /\ epoch > session.epoch
                 /\ Becomes("live", Site, lease.lineage, epoch, NoMove)
    <3> DEFINE epoch == Higher(lease.epoch, session.epoch) + 1
    <3>1. epoch \in Nat /\ epoch > lease.epoch /\ epoch > session.epoch
      BY DEF Higher, TypeOK, Lease, Session
    <3>2. lease' = Landed
      BY <1>1, <2>3 DEF Land
    <3>3. Becomes("live", Site, lease.lineage, epoch, NoMove)
      BY <3>2 DEF Landed, TypeOK, Lease, Becomes
    <3> QED
      BY <3>1, <3>3
  <2> QED
    BY <1>1, <2>1, <2>2, <2>3
<1>2. CASE ~(/\ session.id = id /\ Receiving
             /\ ~persona /\ ~ReplacesSealed(session.lineage)
             /\ lease.state # "none" => lease.lineage = session.lineage)
  BY <1>2 DEF Land
<1> QED
  BY <1>1, <1>2

\* A merge lands, one epoch on.
LEMMA MergeInRow ==
  ASSUME TypeOK, NEW id, NEW request, MergeIn(id, request)
  PROVE  /\ session.id = id /\ lease.holder = Site /\ lease.move.id = id /\ Receiving
         /\ session' = [session EXCEPT !.phase = "committed"]
         /\ Becomes("live", Site, lease.lineage, lease.epoch + 1, NoMove)
BY DEF MergeIn, TypeOK, Lease, Becomes

\* A merge that fails lets her go on.
LEMMA MergeFailsRow ==
  ASSUME TypeOK, NEW id, NEW request, MergeFails(id, request)
  PROVE  \/ lease' = lease
         \/ /\ lease.move.kind = "Merge"
            /\ Becomes("live", lease.holder, lease.lineage, lease.epoch,
                 [lease.move EXCEPT !.phase = Transferring])
BY DEF MergeFails, TypeOK, Lease, Move, Becomes

\* A removal forgets who had not arrived.
LEMMA GoneArrivalRow ==
  ASSUME NEW d \in Devices, GoneArrival(d)
  PROVE  lease' = lease \/ lease' = NoLease
BY DEF GoneArrival

\* A removed holder leaves her home unknown.
LEMMA GoneHolderRow ==
  ASSUME TypeOK, NEW d \in Devices, GoneHolder(d)
  PROVE  \/ lease' = lease
         \/ /\ lease.holder = d
            /\ Becomes("vacant", lease.holder, lease.lineage, lease.epoch, NoMove)
BY DEF GoneHolder, TypeOK, Lease, Becomes

\* A move called off keeps what the row says.
LEMMA GivenBackKeepsRow ==
  ASSUME TypeOK, Row, MayGiveBack
  PROVE  Row'
<1>1. CASE lease' = lease
  BY <1>1 DEF Row, RowOfState, RowOfMove
<1>2. CASE lease' = NoLease
  BY <1>2 DEF Row, RowOfState, RowOfMove, NoLease, NoMove
<1>3. CASE lease.move.kind # "none" /\ GivenBack(lease')
  <2>1. lease.state # "none"
    BY <1>3 DEF Row, RowOfState, NoLease, NoMove
  <2> QED
    BY <1>3, <2>1 DEF Row, RowOfState, RowOfMove, GivenBack, NoMove
<1> QED
  BY <1>1, <1>2, <1>3 DEF MayGiveBack

\* So does each step that starts, follows or ends a move.
LEMMA StartMoveKeepsRow ==
  ASSUME TypeOK, Row, NEW d \in Devices, NEW kind, NEW by, StartMove(d, kind, by)
  PROVE  Row'
<1>1. /\ kind \in {"ToDevice", "MergeAsked"} /\ lease.holder = Site
      /\ lease.epoch >= 1 /\ lease.lineage >= 1
  BY StartMoveRow DEF Row, RowOfState
<1>2. ASSUME NEW agreed \in BOOLEAN, NEW move,
             move = [NewMove(kind, nextId, d, Proposed, "live") EXCEPT !.agreed = agreed],
             Becomes("live", lease.holder, lease.lineage, lease.epoch, move)
      PROVE  Row'
  BY <1>1, <1>2 DEF Row, RowOfState, RowOfMove, Freezes, Proposed, Frozen, Transferring,
      Applied, Becomes, NewMove, NoMove
<1>3. ASSUME NEW agreed \in BOOLEAN, NEW move,
             move = [NewMove(kind, nextId, d, Frozen, "live") EXCEPT !.agreed = agreed],
             Becomes("frozen", lease.holder, lease.lineage, lease.epoch, move)
      PROVE  Row'
  BY <1>1, <1>3 DEF Row, RowOfState, RowOfMove, Freezes, Proposed, Frozen, Transferring,
      Applied, Becomes, NewMove, NoMove
<1> QED
  BY <1>2, <1>3, StartMoveRow

\* A move back.
LEMMA StartBackKeepsRow ==
  ASSUME TypeOK, Row, NEW d \in Devices, NEW by, StartBack(d, by)
  PROVE  Row'
<1>1. lease.holder = d /\ lease.epoch >= 1 /\ lease.lineage >= 1
  BY StartBackRow DEF Row, RowOfState
<1>2. ASSUME Becomes("live", d, lease.lineage, lease.epoch,
                     NewMove("Back", nextId, d, Proposed, "live"))
      PROVE  Row'
  BY <1>1, <1>2 DEF Row, RowOfState, RowOfMove, Freezes, Proposed, Frozen, Transferring,
      Applied, Becomes, NewMove, NoMove
<1>3. ASSUME Becomes("frozen", d, lease.lineage, lease.epoch,
                     NewMove("Back", nextId, d, Frozen, "live"))
      PROVE  Row'
  BY <1>1, <1>3 DEF Row, RowOfState, RowOfMove, Freezes, Proposed, Frozen, Transferring,
      Applied, Becomes, NewMove, NoMove
<1> QED
  BY <1>2, <1>3, StartBackRow

\* A merge's proposal.
LEMMA ProposeMergeKeepsRow ==
  ASSUME TypeOK, Row, NEW d \in Devices, ProposeMerge(d)
  PROVE  Row'
<1>1. /\ lease.epoch >= 1 /\ lease.lineage >= 1
      /\ Becomes("live", Site, lease.lineage, lease.epoch,
           NewMove("Merge", nextId, d, Proposed, "none"))
  BY ProposeMergeRow DEF Row, RowOfState
<1> QED
  BY <1>1 DEF Row, RowOfState, RowOfMove, Freezes, Proposed, Frozen, Transferring, Applied,
      Becomes, NewMove, NoMove

\* A reclaim's proposal.
LEMMA ProposeReclaimKeepsRow ==
  ASSUME TypeOK, Row, NEW d \in Devices, ProposeReclaim(d)
  PROVE  Row'
<1>1. /\ lease.state \in {"live", "vacant"} /\ lease.epoch >= 1 /\ lease.lineage >= 1
      /\ Becomes(lease.state, lease.holder, lease.lineage, lease.epoch,
           [NewMove("Recover", nextId, d, Proposed, lease.state) EXCEPT !.import = nextId])
  BY ProposeReclaimRow DEF Row, RowOfState
<1>2. ASSUME NEW move,
             move = [NewMove("Recover", nextId, d, Proposed, lease.state) EXCEPT !.import = nextId],
             Becomes(lease.state, lease.holder, lease.lineage, lease.epoch, move)
      PROVE  Row'
  BY <1>1, <1>2 DEF Row, RowOfState, RowOfMove, Freezes, Proposed, Frozen, Transferring,
      Applied, Becomes, NewMove, NoMove
<1> QED
  BY <1>1, <1>2

\* An import's confirmation.
LEMMA ConfirmImportKeepsRow ==
  ASSUME TypeOK, Row, Ids, ConfirmImport
  PROVE  Row'
<1>1. session.device \in Devices /\ session.epoch >= 1 /\ session.lineage >= 1
  BY DEF ConfirmImport, Ids
<1>2. ASSUME lease.state = "vacant",
             Becomes("frozen", session.device, lease.lineage, lease.epoch,
               NewMove("Arrival", session.id, session.device, Frozen, "vacant"))
      PROVE  Row'
  <2>1. lease.epoch >= 1 /\ lease.lineage >= 1
    BY <1>2 DEF Row, RowOfState
  <2> QED
    BY <1>1, <1>2, <2>1 DEF Row, RowOfState, RowOfMove, Freezes, Proposed, Frozen,
        Transferring, Applied, Becomes, NewMove, NoMove
<1>3. ASSUME Becomes("frozen", session.device, session.lineage, session.epoch,
               NewMove("Arrival", session.id, session.device, Frozen, "none"))
      PROVE  Row'
  BY <1>1, <1>3 DEF Row, RowOfState, RowOfMove, Freezes, Proposed, Frozen, Transferring,
      Applied, Becomes, NewMove, NoMove
<1> QED
  BY <1>2, <1>3, ConfirmImportRow

\* A page taken.
LEMMA TakePageKeepsRow ==
  ASSUME TypeOK, Row, NEW d \in Devices, TakePage(d)
  PROVE  Row'
<1>1. CASE lease' = lease
  BY <1>1 DEF Row, RowOfState, RowOfMove
<1>2. ASSUME Carries(session.id), lease.move.phase < Transferring, NEW move,
             move = [lease.move EXCEPT !.phase = Transferring],
             Becomes(IF lease.move.kind = "Merge" THEN lease.state ELSE "frozen",
               lease.holder, lease.lineage, lease.epoch, move)
      PROVE  Row'
  <2>1. lease.move \in Move /\ lease.move.kind # "none"
    BY <1>2 DEF TypeOK, Lease, Carries
  <2>2. /\ move.kind = lease.move.kind /\ move.id = lease.move.id
        /\ move.device = lease.move.device /\ move.import = lease.move.import
        /\ move.was = lease.move.was /\ move.phase = Transferring
    BY <1>2, <2>1 DEF Move
  <2>3. lease.state # "none"
    BY <2>1 DEF Row, RowOfState, NoLease, NoMove
  <2>4. lease.move.kind = "Merge" => lease.state \in {"live", "frozen"}
    BY <2>3 DEF Row, RowOfState, TypeOK, Lease, States
  <2> QED
    BY <1>2, <2>1, <2>2, <2>3, <2>4 DEF Row, RowOfState, RowOfMove, Freezes, Proposed,
        Frozen, Transferring, Applied, Becomes
<1> QED
  BY <1>1, <1>2, TakePageRow

\* A landing.
LEMMA LandKeepsRow ==
  ASSUME TypeOK, Row, Ids, NEW id \in landing, Land(id)
  PROVE  Row'
<1>1. Receiving => session.epoch \in Nat /\ session.epoch >= 1 /\ session.lineage >= 1
  BY DEF Ids, Receiving, NoSession, TypeOK, Session
<1>2. CASE lease' = lease
  BY <1>2 DEF Row, RowOfState, RowOfMove
<1>3. CASE Receiving /\ Becomes("live", Site, session.lineage, session.epoch + 1, NoMove)
  BY <1>1, <1>3 DEF Row, RowOfState, RowOfMove, Freezes, Proposed, Frozen, Transferring,
      Applied, Becomes, NoMove
<1>4. ASSUME lease.state # "none",
             NEW epoch \in Nat, epoch > lease.epoch,
             Becomes("live", Site, lease.lineage, epoch, NoMove)
      PROVE  Row'
  BY <1>4 DEF Row, RowOfState, RowOfMove, Freezes, Proposed, Frozen, Transferring, Applied,
      Becomes, NoMove, TypeOK, Lease
<1> QED
  BY <1>2, <1>3, <1>4, LandRow

\* A merge's landing.
LEMMA MergeInKeepsRow ==
  ASSUME TypeOK, Row, Ids, NEW id, NEW request, MergeIn(id, request)
  PROVE  Row'
<1>1. session.id >= 1
  BY MergeInRow DEF Ids, Given, Receiving, NoSession, TypeOK, Session
<1>2. lease.state # "none"
  BY <1>1, MergeInRow DEF Row, RowOfState, NoLease, NoMove
<1>3. /\ lease.epoch >= 1 /\ lease.lineage >= 1 /\ lease.epoch \in Nat
      /\ Becomes("live", Site, lease.lineage, lease.epoch + 1, NoMove)
  BY <1>2, MergeInRow DEF Row, RowOfState, TypeOK, Lease
<1> QED
  BY <1>3 DEF Row, RowOfState, RowOfMove, Freezes, Proposed, Frozen, Transferring, Applied,
      Becomes, NoMove

\* A merge's failure.
LEMMA MergeFailsKeepsRow ==
  ASSUME TypeOK, Row, NEW id, NEW request, MergeFails(id, request)
  PROVE  Row'
<1>1. lease.move.kind # "none" => lease.state # "none"
  BY DEF Row, RowOfState, NoLease, NoMove
<1> QED
  BY <1>1, MergeFailsRow DEF Row, RowOfState, RowOfMove, Freezes, Proposed, Frozen,
      Transferring, Applied, Becomes, TypeOK, Lease, Move

\* A removal's first statement.
LEMMA GoneArrivalKeepsRow ==
  ASSUME TypeOK, Row, NEW d \in Devices, GoneArrival(d)
  PROVE  Row'
<1>1. CASE lease' = lease
  BY <1>1 DEF Row, RowOfState, RowOfMove
<1>2. CASE lease' = NoLease
  BY <1>2 DEF Row, RowOfState, RowOfMove, NoLease, NoMove
<1> QED
  BY <1>1, <1>2, GoneArrivalRow

\* A removal's third statement.
LEMMA GoneHolderKeepsRow ==
  ASSUME TypeOK, Row, NEW d \in Devices, GoneHolder(d)
  PROVE  Row'
<1>1. lease.holder \in Devices => lease.state # "none"
  BY SiteAssumption DEF Row, RowOfState, NoLease
<1>2. CASE lease' = lease
  BY <1>2 DEF Row, RowOfState, RowOfMove
<1>3. CASE lease.holder = d /\ Becomes("vacant", lease.holder, lease.lineage, lease.epoch, NoMove)
  <2>1. lease.epoch >= 1 /\ lease.lineage >= 1
    BY <1>1, <1>3 DEF Row, RowOfState
  <2> QED
    BY <1>3, <2>1 DEF Row, RowOfState, RowOfMove, Freezes, Proposed, Frozen, Transferring,
        Applied, Becomes, NoMove
<1> QED
  BY <1>2, <1>3, GoneHolderRow

(***************************************************************************)
(* The steps that change the row, the session, or what the devices hold.   *)
(***************************************************************************)
\* The steps that change the row.
LEMMA RowSteps ==
  ASSUME Next \/ UNCHANGED vars
  PROVE  \/ lease' = lease
         \/ \E d \in Devices, kind \in {"ToDevice", "MergeAsked"}, by \in {"owner", "device"} :
              StartMove(d, kind, by)
         \/ \E d \in Devices, by \in {"owner", "device"} : StartBack(d, by)
         \/ \E d \in Devices : Agree(d)
         \/ Confirm
         \/ CancelByOwner
         \/ \E d \in Devices : CancelByDevice(d)
         \/ \E id \in sealing : Sealed(id)
         \/ \E id \in sealing : SealFails(id)
         \/ \E d \in Devices : Piece(d)
         \/ \E d \in Devices : ApplyOnDevice(d)
         \/ \E d \in Devices : CommitToDevice(d)
         \/ \E d \in Devices : ProposeMerge(d)
         \/ \E d \in Devices : ProposeReclaim(d)
         \/ \E d \in Devices : ReportFrozen(d)
         \/ ConfirmImport
         \/ ConfirmReclaim
         \/ ConfirmMerge
         \/ \E d \in Devices : TakePage(d)
         \/ CancelImportByOwner
         \/ \E d \in Devices : CancelImportByDevice(d)
         \/ \E id \in landing : Land(id)
         \/ \E d \in Devices, request \in {1, 2} : HoldForMerge(d, request)
         \/ \E m \in merging : MergeIn(m[1], m[2])
         \/ \E m \in merging : MergeFails(m[1], m[2])
         \/ \E d \in Devices : GoneArrival(d)
         \/ \E d \in Devices : GoneHolder(d)
         \/ \E d \in Devices : GoneMoves(d)
         \/ Birth
         \/ DeletePersona
         \/ MoveOut
         \/ UndoMoveOut
         \/ LetGo
         \/ ClearSealed
         \/ SettleOrphan
<1>1. CASE MoveSteps
  BY <1>1 DEF MoveSteps, TakeBackup, NothingElse, Leaves, siteVars
<1>2. CASE ImportSteps
  BY <1>2 DEF ImportSteps, ProposeImport, CheckCommit, NothingElse, Leaves, siteVars
<1>3. CASE DeviceSteps
  BY <1>3 DEF DeviceSteps, Revoke, GoneSessions, DeviceBirth, DeviceKeeps, DeviceHears,
      NothingElse, Leaves, siteVars
<1>4. CASE SiteSteps
  BY <1>4 DEF SiteSteps, AskToClear, NothingElse, Leaves, siteVars
<1>5. CASE CopySteps
  BY <1>5 DEF CopySteps, Fetch, Adopt, Reread, NothingElse, Leaves, siteVars
<1>6. CASE Crash
  BY <1>6 DEF Crash, NothingElse, Leaves, siteVars
<1>7. CASE UNCHANGED vars
  BY <1>7 DEF vars, siteVars
<1> QED
  BY <1>1, <1>2, <1>3, <1>4, <1>5, <1>6, <1>7 DEF Next

\* The steps that change the session.
LEMMA SessionSteps ==
  ASSUME Next \/ UNCHANGED vars
  PROVE  \/ session' = session
         \/ CancelByOwner
         \/ \E d \in Devices : CancelByDevice(d)
         \/ \E d \in Devices : ProposeImport(d)
         \/ \E d \in Devices : ProposeMerge(d)
         \/ \E d \in Devices : ProposeReclaim(d)
         \/ \E d \in Devices : ReportFrozen(d)
         \/ ConfirmImport
         \/ ConfirmReclaim
         \/ ConfirmMerge
         \/ \E d \in Devices : TakePage(d)
         \/ CancelImportByOwner
         \/ \E d \in Devices : CancelImportByDevice(d)
         \/ \E id \in landing : Land(id)
         \/ \E m \in merging : MergeIn(m[1], m[2])
         \/ \E d \in Devices : GoneSessions(d)
<1>1. CASE MoveSteps
  BY <1>1 DEF MoveSteps, StartMove, StartBack, Confirm, Agree, Sealed, SealFails, Piece,
      ApplyOnDevice, CommitToDevice, TakeBackup, NothingElse, Leaves, siteVars
<1>2. CASE ImportSteps
  BY <1>2 DEF ImportSteps, CheckCommit, HoldForMerge, MergeFails, NothingElse, Leaves,
      siteVars
<1>3. CASE DeviceSteps
  BY <1>3 DEF DeviceSteps, Revoke, GoneArrival, GoneHolder, GoneMoves, DeviceBirth,
      DeviceKeeps, DeviceHears, NothingElse, Leaves, siteVars
<1>4. CASE SiteSteps
  BY <1>4 DEF SiteSteps, Birth, DeletePersona, MoveOut, UndoMoveOut, LetGo, AskToClear,
      ClearSealed, SettleOrphan, NothingElse, Leaves, siteVars
<1>5. CASE CopySteps
  BY <1>5 DEF CopySteps, Fetch, Adopt, Reread, NothingElse, Leaves, siteVars
<1>6. CASE Crash
  BY <1>6 DEF Crash, NothingElse, Leaves, siteVars
<1>7. CASE UNCHANGED vars
  BY <1>7 DEF vars, siteVars
<1> QED
  BY <1>1, <1>2, <1>3, <1>4, <1>5, <1>6, <1>7 DEF Next

\* The steps that change what a device holds, or what was born.
LEMMA HeldSteps ==
  ASSUME Next \/ UNCHANGED vars
  PROVE  \/ dev' = dev /\ births' = births
         \/ \E d \in Devices : DeviceBirth(d)
         \/ \E d \in Devices : DeviceKeeps(d)
         \/ \E d \in Devices : DeviceHears(d)
         \/ Birth
<1>1. CASE MoveSteps
  BY <1>1 DEF MoveSteps, StartMove, StartBack, Confirm, CancelByOwner, Agree,
      CancelByDevice, Sealed, SealFails, Piece, ApplyOnDevice, CommitToDevice,
      TakeBackup, NothingElse, Leaves, Cancel, CancelImport, deviceVars, countVars
<1>2. CASE ImportSteps
  BY <1>2 DEF ImportSteps, ProposeImport, ProposeMerge, ProposeReclaim, ReportFrozen,
      ConfirmImport, ConfirmReclaim, ConfirmMerge, TakePage, CheckCommit,
      CancelImportByOwner, CancelImportByDevice, Land, HoldForMerge, MergeIn,
      MergeFails, NothingElse, Leaves, Cancel, CancelImport, deviceVars, countVars
<1>3. CASE DeviceSteps
  BY <1>3 DEF DeviceSteps, Revoke, GoneArrival, GoneSessions, GoneHolder, GoneMoves,
      NothingElse, Leaves, Cancel, CancelImport, deviceVars, countVars
<1>4. CASE SiteSteps
  BY <1>4 DEF SiteSteps, DeletePersona, MoveOut, UndoMoveOut, LetGo, AskToClear,
      ClearSealed, SettleOrphan, NothingElse, Leaves, Cancel, CancelImport, deviceVars,
      countVars
<1>5. CASE CopySteps
  BY <1>5 DEF CopySteps, Fetch, Adopt, Reread, NothingElse, Leaves, Cancel,
      CancelImport, deviceVars, countVars
<1>6. CASE Crash
  BY <1>6 DEF Crash, NothingElse, Leaves, Cancel, CancelImport, deviceVars, countVars
<1>7. CASE UNCHANGED vars
  BY <1>7 DEF vars, deviceVars, countVars
<1> QED
  BY <1>1, <1>2, <1>3, <1>4, <1>5, <1>6, <1>7 DEF Next

\* Every step keeps what the row says.
LEMMA RowKept ==
  ASSUME TypeOK, Row, Ids, Together, Next \/ UNCHANGED vars
  PROVE  Row'
<1>0. lease' = lease => Row'
  BY DEF Row, RowOfState, RowOfMove
<1>1. CASE \E d \in Devices, kind \in {"ToDevice", "MergeAsked"}, by \in {"owner", "device"} :
         StartMove(d, kind, by)
  BY <1>1, StartMoveKeepsRow
<1>2. CASE \E d \in Devices, by \in {"owner", "device"} : StartBack(d, by)
  BY <1>2, StartBackKeepsRow
<1>3. CASE \E d \in Devices : Agree(d)
  BY SiteAssumption, <1>3 DEF Agree, NothingElse, TypeOK, Lease, Move, NoMove, NoLease,
      Row, RowOfState, RowOfMove, Freezes, Proposed, Frozen, Transferring, Applied
<1>4. CASE Confirm
  BY SiteAssumption, <1>4 DEF Confirm, NothingElse, TypeOK, Lease, Move, NoMove,
      NoLease, Row, RowOfState, RowOfMove, Freezes, Proposed, Frozen, Transferring,
      Applied
<1>5. CASE CancelByOwner
  BY <1>5, CancelRow, GivenBackKeepsRow DEF CancelByOwner
<1>6. CASE \E d \in Devices : CancelByDevice(d)
  BY <1>6, CancelRow, GivenBackKeepsRow DEF CancelByDevice
<1>7. CASE \E id \in sealing : Sealed(id)
  BY SiteAssumption, <1>7 DEF Sealed, NothingElse, TypeOK, Lease, Move, NoMove, NoLease,
      Row, RowOfState, RowOfMove, Freezes, Proposed, Frozen, Transferring, Applied,
      Together, Ids, Given
<1>8. CASE \E id \in sealing : SealFails(id)
  BY <1>8, SealFailsRow, GivenBackKeepsRow
<1>9. CASE \E d \in Devices : Piece(d)
  BY SiteAssumption, <1>9 DEF Piece, ToThisDevice, NothingElse, TypeOK, Lease, Move,
      NoMove, NoLease, Row, RowOfState, RowOfMove, Freezes, Proposed, Frozen,
      Transferring, Applied
<1>10. CASE \E d \in Devices : ApplyOnDevice(d)
  BY SiteAssumption, <1>10 DEF ApplyOnDevice, ToThisDevice, NothingElse, TypeOK, Lease,
      Move, NoMove, NoLease, Row, RowOfState, RowOfMove, Freezes, Proposed, Frozen,
      Transferring, Applied
<1>11. CASE \E d \in Devices : CommitToDevice(d)
  BY SiteAssumption, <1>11 DEF CommitToDevice, ToThisDevice, NothingElse, TypeOK, Lease,
      Move, NoMove, NoLease, Row, RowOfState, RowOfMove, Freezes, Proposed, Frozen,
      Transferring, Applied
<1>12. CASE \E d \in Devices : ProposeMerge(d)
  BY <1>12, ProposeMergeKeepsRow
<1>13. CASE \E d \in Devices : ProposeReclaim(d)
  BY <1>13, ProposeReclaimKeepsRow
<1>14. CASE \E d \in Devices : ReportFrozen(d)
  BY SiteAssumption, <1>14 DEF ReportFrozen, MakesRoom, Holds, NewSession, NothingElse,
      TypeOK, Lease, Move, NoMove, NoLease, Row, RowOfState, RowOfMove, Freezes,
      Proposed, Frozen, Transferring, Applied
<1>15. CASE ConfirmImport
  BY <1>15, ConfirmImportKeepsRow
<1>16. CASE ConfirmReclaim
  BY SiteAssumption, <1>16 DEF ConfirmReclaim, NothingElse, TypeOK, Lease, Move, NoMove,
      NoLease, Row, RowOfState, RowOfMove, Freezes, Proposed, Frozen, Transferring,
      Applied, Together, Ids, Given
<1>17. CASE ConfirmMerge
  BY SiteAssumption, <1>17 DEF ConfirmMerge, NothingElse, TypeOK, Lease, Move, NoMove,
      NoLease, Row, RowOfState, RowOfMove, Freezes, Proposed, Frozen, Transferring,
      Applied, Together, Ids, Given
<1>18. CASE \E d \in Devices : TakePage(d)
  BY <1>18, TakePageKeepsRow
<1>19. CASE CancelImportByOwner
  BY <1>19, CancelImportRow, GivenBackKeepsRow DEF CancelImportByOwner
<1>20. CASE \E d \in Devices : CancelImportByDevice(d)
  BY <1>20, CancelImportRow, GivenBackKeepsRow DEF CancelImportByDevice
<1>21. CASE \E id \in landing : Land(id)
  BY <1>21, LandKeepsRow
<1>22. CASE \E d \in Devices, request \in {1, 2} : HoldForMerge(d, request)
  BY SiteAssumption, <1>22 DEF HoldForMerge, NothingElse, TypeOK, Lease, Move, NoMove,
      NoLease, Row, RowOfState, RowOfMove, Freezes, Proposed, Frozen, Transferring,
      Applied
<1>23. CASE \E m \in merging : MergeIn(m[1], m[2])
  BY <1>23, MergeInKeepsRow
<1>24. CASE \E m \in merging : MergeFails(m[1], m[2])
  BY <1>24, MergeFailsKeepsRow
<1>25. CASE \E d \in Devices : GoneArrival(d)
  BY <1>25, GoneArrivalKeepsRow
<1>26. CASE \E d \in Devices : GoneHolder(d)
  BY <1>26, GoneHolderKeepsRow
<1>27. CASE \E d \in Devices : GoneMoves(d)
  BY <1>27, GoneMovesRow, GivenBackKeepsRow
<1>28. CASE Birth
  BY SiteAssumption, <1>28 DEF Birth, NothingElse, TypeOK, Lease, Move, NoMove, NoLease,
      Row, RowOfState, RowOfMove, Freezes, Proposed, Frozen, Transferring, Applied
<1>29. CASE DeletePersona
  BY SiteAssumption, <1>29 DEF DeletePersona, Cleared, NothingElse, TypeOK, Lease, Move,
      NoMove, NoLease, Row, RowOfState, RowOfMove, Freezes, Proposed, Frozen,
      Transferring, Applied
<1>30. CASE MoveOut
  BY SiteAssumption, <1>30 DEF MoveOut, NothingElse, TypeOK, Lease, Move, NoMove,
      NoLease, Row, RowOfState, RowOfMove, Freezes, Proposed, Frozen, Transferring,
      Applied
<1>31. CASE UndoMoveOut
  BY SiteAssumption, <1>31 DEF UndoMoveOut, NothingElse, TypeOK, Lease, Move, NoMove,
      NoLease, Row, RowOfState, RowOfMove, Freezes, Proposed, Frozen, Transferring,
      Applied
<1>32. CASE LetGo
  BY SiteAssumption, <1>32 DEF LetGo, NothingElse, TypeOK, Lease, Move, NoMove, NoLease,
      Row, RowOfState, RowOfMove, Freezes, Proposed, Frozen, Transferring, Applied
<1>33. CASE ClearSealed
  BY SiteAssumption, <1>33 DEF ClearSealed, Cleared, NothingElse, TypeOK, Lease, Move,
      NoMove, NoLease, Row, RowOfState, RowOfMove, Freezes, Proposed, Frozen,
      Transferring, Applied
<1>34. CASE SettleOrphan
  BY SiteAssumption, <1>34 DEF SettleOrphan, NothingElse, TypeOK, Lease, Move, NoMove,
      NoLease, Row, RowOfState, RowOfMove, Freezes, Proposed, Frozen, Transferring,
      Applied
<1> QED
  BY <1>0, <1>1, <1>2, <1>3, <1>4, <1>5, <1>6, <1>7, <1>8, <1>9, <1>10, <1>11, <1>12,
      <1>13, <1>14, <1>15, <1>16, <1>17, <1>18, <1>19, <1>20, <1>21, <1>22, <1>23,
      <1>24, <1>25, <1>26, <1>27, <1>28, <1>29, <1>30, <1>31, <1>32, <1>33, <1>34,
      RowSteps

\* The empty values have their types.
LEMMA NothingIsTyped ==
  NoMove \in Move /\ NoLease \in Lease /\ NoSession \in Session /\ NoHer \in Her
BY DEF NoMove, NoLease, NoSession, NoHer, Move, Lease, Session, Her, Ends, Kinds, States,
  SessionKinds, SessionPhases

\* So has a new move.
LEMMA NewMoveTyped ==
  ASSUME NEW kind \in Kinds, NEW id \in Nat, NEW d \in Ends, NEW phase \in 0 .. 4, NEW was
         \in States
  PROVE  NewMove(kind, id, d, phase, was) \in Move
BY DEF NewMove, NoMove, Move, Kinds, States, Ends

\* So has the row after a move is called off.
LEMMA CalledOffTyped ==
  ASSUME TypeOK, NEW id
  PROVE  CalledOff(id) \in Lease /\ Restored \in Lease
<1>1. lease \in Lease /\ NoMove \in Move /\ NoLease \in Lease
  BY NothingIsTyped DEF TypeOK
<1>2. Restored \in Lease
  BY <1>1 DEF Restored, Lease, Move, States
<1>3. [lease EXCEPT !.state = "live", !.move = NoMove] \in Lease
  BY <1>1 DEF Lease, States
<1> QED
  BY <1>1, <1>2, <1>3 DEF CalledOff

\* The row stays a row.
LEMMA LeaseTyped ==
  ASSUME TypeOK, Row, Ids, Together, Next \/ UNCHANGED vars
  PROVE  lease' \in Lease
<1>0. lease' = lease => lease' \in Lease
  BY DEF TypeOK
<1>1. CASE \E d \in Devices, kind \in {"ToDevice", "MergeAsked"}, by \in {"owner", "device"} :
         StartMove(d, kind, by)
  <2> PICK d \in Devices, kind \in {"ToDevice", "MergeAsked"}, by \in {"owner", "device"} :
             StartMove(d, kind, by)
    BY <1>1
  <2> DEFINE now == kind = "MergeAsked" /\ by = "owner"
             phase == IF now THEN Frozen ELSE Proposed
             state == IF now THEN "frozen" ELSE "live"
             agreed == kind = "ToDevice" /\ by = "device"
             move == NewMove(kind, nextId, d, phase, "live")
  <2>1. phase \in 0 .. 4 /\ state \in States /\ agreed \in BOOLEAN
    BY DEF Frozen, Proposed, States
  <2>2. move \in Move
    BY <2>1, NewMoveTyped DEF TypeOK, Ends, Kinds, States
  <2>3. [move EXCEPT !.agreed = agreed] \in Move
    BY <2>1, <2>2 DEF Move
  <2>4. lease' = [lease EXCEPT !.state = state, !.move = [move EXCEPT !.agreed = agreed]]
    BY DEF StartMove
  <2> HIDE DEF move, state, agreed
  <2> QED
    BY <2>1, <2>3, <2>4 DEF TypeOK, Lease
<1>2. CASE \E d \in Devices, by \in {"owner", "device"} : StartBack(d, by)
  <2> PICK d \in Devices, by \in {"owner", "device"} : StartBack(d, by)
    BY <1>2
  <2> DEFINE phase == IF by = "owner" THEN Frozen ELSE Proposed
             state == IF by = "owner" THEN "frozen" ELSE "live"
             move == NewMove("Back", nextId, d, phase, "live")
  <2>1. phase \in 0 .. 4 /\ state \in States
    BY DEF Frozen, Proposed, States
  <2>2. move \in Move
    BY <2>1, NewMoveTyped DEF TypeOK, Ends, Kinds, States
  <2>3. lease' = [lease EXCEPT !.state = state, !.move = move]
    BY DEF StartBack
  <2> HIDE DEF move, state
  <2> QED
    BY <2>1, <2>2, <2>3 DEF TypeOK, Lease
<1>3. CASE \E d \in Devices : Agree(d)
  <2> PICK d \in Devices : Agree(d)
    BY <1>3
  <2>1. lease' = [lease EXCEPT !.move.agreed = TRUE]
    BY DEF Agree
  <2> QED
    BY <2>1 DEF TypeOK, Lease, Move
<1>4. CASE Confirm
  <2>0. [lease.move EXCEPT !.phase = Frozen] \in Move
    BY DEF TypeOK, Lease, Move, Frozen
  <2>1. lease' = [lease EXCEPT !.state = "frozen", !.move.phase = Frozen]
    BY <1>4 DEF Confirm
  <2> QED
    BY <2>0, <2>1 DEF TypeOK, Lease, States
<1>5. CASE CancelByOwner
  BY <1>5, CalledOffTyped DEF CancelByOwner, Cancel, CancelledLease
<1>6. CASE \E d \in Devices : CancelByDevice(d)
  BY <1>6, CalledOffTyped DEF CancelByDevice, Cancel, CancelledLease
<1>7. CASE \E id \in sealing : Sealed(id)
  <2> PICK id \in sealing : Sealed(id)
    BY <1>7
  <2>1. lease' = [lease EXCEPT !.state = "frozen", !.move.sealed = TRUE]
    BY DEF Sealed
  <2> QED
    BY <2>1 DEF TypeOK, Lease, Move, States
<1>8. CASE \E id \in sealing : SealFails(id)
  BY <1>8, CalledOffTyped DEF SealFails, TypeOK
<1>9. CASE \E d \in Devices : Piece(d)
  BY NothingIsTyped, SiteAssumption, BoundsAssumption, <1>9 DEF Piece, ToThisDevice,
      NothingElse, TypeOK, Lease, Frozen, Transferring, Applied, Proposed, States, Move
<1>10. CASE \E d \in Devices : ApplyOnDevice(d)
  <2> PICK d \in Devices : ApplyOnDevice(d)
    BY <1>10
  <2>0. [lease.move EXCEPT !.phase = Applied] \in Move
    BY DEF TypeOK, Lease, Move, Applied
  <2>1. lease' = [lease EXCEPT !.state = "frozen", !.move.phase = Applied]
    BY DEF ApplyOnDevice
  <2> QED
    BY <2>0, <2>1 DEF TypeOK, Lease, States
<1>11. CASE \E d \in Devices : CommitToDevice(d)
  <2> PICK d \in Devices : CommitToDevice(d)
    BY <1>11
  <2>0. /\ lease \in Lease /\ lease.epoch + 1 \in Nat /\ lease.move.id \in Nat
        /\ NoMove \in Move /\ d \in Ends /\ "live" \in States
    BY NothingIsTyped DEF TypeOK, Lease, Move, Ends, States
  <2>1. lease' = [lease EXCEPT !.holder = d, !.epoch = lease.epoch + 1, !.state = "live",
                          !.done = lease.move.id, !.move = NoMove]
    BY DEF CommitToDevice
  <2> QED
    BY <2>0, <2>1 DEF Lease
<1>12. CASE \E d \in Devices : ProposeMerge(d)
  <2> PICK d \in Devices : ProposeMerge(d)
    BY <1>12
  <2>0. NewMove("Merge", nextId, d, Proposed, "none") \in Move
    BY NewMoveTyped DEF TypeOK, Ends, Kinds, States, Proposed
  <2>1. lease' = [lease EXCEPT !.move = NewMove("Merge", nextId, d, Proposed, "none")]
    BY DEF ProposeMerge
  <2> QED
    BY <2>0, <2>1 DEF TypeOK, Lease
<1>13. CASE \E d \in Devices : ProposeReclaim(d)
  <2> PICK d \in Devices : ProposeReclaim(d)
    BY <1>13
  <2> DEFINE move == NewMove("Recover", nextId, d, Proposed, lease.state)
  <2>1. move \in Move
    BY NewMoveTyped DEF TypeOK, Lease, Ends, Kinds, Proposed
  <2>2. [move EXCEPT !.import = nextId] \in Move
    BY <2>1 DEF Move, TypeOK
  <2>3. lease' = [lease EXCEPT !.move = [move EXCEPT !.import = nextId]]
    BY DEF ProposeReclaim
  <2> HIDE DEF move
  <2> QED
    BY <2>2, <2>3 DEF TypeOK, Lease
<1>14. CASE \E d \in Devices : ReportFrozen(d)
  <2>1. nextId \in Nat /\ lease \in Lease /\ lease.move \in Move
    BY DEF TypeOK, Lease
  <2>2. lease' = [lease EXCEPT !.state = "frozen", !.move.import = nextId]
    BY <1>14 DEF ReportFrozen
  <2>3. [lease.move EXCEPT !.import = nextId] \in Move
    BY <2>1 DEF Move
  <2> QED
    BY <2>1, <2>2, <2>3 DEF Lease, States
<1>15. CASE ConfirmImport
  <2> DEFINE move(was) == NewMove("Arrival", session.id, session.device, Frozen, was)
  <2>1. move("vacant") \in Move /\ move("none") \in Move
    BY NewMoveTyped DEF TypeOK, Session, Ends, Kinds, States, Frozen
  <2>2. move("vacant").was = "vacant" /\ move("none").was = "none"
    BY DEF NewMove, NoMove
  <2>3. \/ lease' = [lease EXCEPT !.holder = session.device, !.state = "frozen",
                                  !.move = move("vacant")]
        \/ lease' = [NoLease EXCEPT !.state = "frozen", !.holder = session.device,
                       !.lineage = session.lineage, !.epoch = session.epoch,
                       !.move = move("none")]
    BY <2>2, <1>15 DEF ConfirmImport, Arriving
  <2> HIDE DEF move
  <2> QED
    BY <2>1, <2>3, NothingIsTyped DEF TypeOK, Lease, Session, States
<1>16. CASE ConfirmReclaim
  <2>0. [lease.move EXCEPT !.phase = Frozen] \in Move
    BY DEF TypeOK, Lease, Move, Frozen
  <2>1. lease' = [lease EXCEPT !.state = "frozen", !.move.phase = Frozen]
    BY <1>16 DEF ConfirmReclaim
  <2> QED
    BY <2>0, <2>1 DEF TypeOK, Lease, States
<1>17. CASE ConfirmMerge
  BY NothingIsTyped, SiteAssumption, BoundsAssumption, <1>17 DEF ConfirmMerge,
      NothingElse, TypeOK, Lease, Frozen, Transferring, Applied, Proposed, States, Move
<1>18. CASE \E d \in Devices : TakePage(d)
  <2> PICK d \in Devices : TakePage(d)
    BY <1>18
  <2>1. \/ lease' = lease
        \/ \E state \in {lease.state, "frozen"} :
             lease' = [lease EXCEPT !.move.phase = Transferring, !.state = state]
    BY DEF TakePage
  <2>2. [lease.move EXCEPT !.phase = Transferring] \in Move
    BY DEF TypeOK, Lease, Move, Transferring
  <2> QED
    BY <2>1, <2>2 DEF TypeOK, Lease, States
<1>19. CASE CancelImportByOwner
  BY <1>19, CalledOffTyped DEF CancelImportByOwner, CancelImport
<1>20. CASE \E d \in Devices : CancelImportByDevice(d)
  BY <1>20, CalledOffTyped DEF CancelImportByDevice, CancelImport
<1>21. CASE \E id \in landing : Land(id)
  <2> PICK id \in landing : Land(id)
    BY <1>21
  <2>1. \/ lease' = lease
        \/ lease' = [NoLease EXCEPT !.state = "live", !.lineage = session.lineage,
                                    !.epoch = session.epoch + 1]
        \/ lease' = Landed
    BY DEF Land
  <2>2. /\ lease \in Lease /\ NoLease \in Lease /\ NoMove \in Move /\ "live" \in States
        /\ Site \in Ends /\ session.lineage \in Nat /\ session.epoch + 1 \in Nat
        /\ lease.move.id \in Nat
    BY NothingIsTyped DEF TypeOK, Lease, Move, Session, States, Ends
  <2> DEFINE epoch == Higher(lease.epoch, session.epoch) + 1
             done == IF lease.move = NoMove THEN lease.done ELSE lease.move.id
  <2>3. epoch \in Nat /\ done \in Nat
    BY DEF Higher, TypeOK, Lease, Move, Session
  <2>4. Landed = [lease EXCEPT !.holder = Site, !.epoch = epoch, !.state = "live",
                    !.move = NoMove, !.done = done]
    BY DEF Landed
  <2> HIDE DEF epoch, done
  <2>5. Landed \in Lease
    BY <2>2, <2>3, <2>4 DEF Lease
  <2> QED
    BY <2>1, <2>2, <2>5 DEF Lease
<1>22. CASE \E d \in Devices, request \in {1, 2} : HoldForMerge(d, request)
  <2> PICK d \in Devices, request \in {1, 2} : HoldForMerge(d, request)
    BY <1>22
  <2>0. [lease.move EXCEPT !.phase = Applied] \in Move
    BY DEF TypeOK, Lease, Move, Applied
  <2>1. lease' = [lease EXCEPT !.state = "frozen", !.move.phase = Applied]
    BY DEF HoldForMerge
  <2> QED
    BY <2>0, <2>1 DEF TypeOK, Lease, States
<1>23. CASE \E m \in merging : MergeIn(m[1], m[2])
  <2>1. lease' = [lease EXCEPT !.epoch = lease.epoch + 1, !.state = "live", !.move = NoMove]
    BY <1>23 DEF MergeIn
  <2>2. lease \in Lease /\ lease.epoch + 1 \in Nat /\ NoMove \in Move /\ "live" \in States
    BY NothingIsTyped DEF TypeOK, Lease, States
  <2> QED
    BY <2>1, <2>2 DEF Lease
<1>24. CASE \E m \in merging : MergeFails(m[1], m[2])
  <2>1. lease' = lease \/ lease' = [lease EXCEPT !.state = "live", !.move.phase = Transferring]
    BY <1>24 DEF MergeFails
  <2>2. [lease.move EXCEPT !.phase = Transferring] \in Move
    BY DEF TypeOK, Lease, Move, Transferring
  <2> QED
    BY <2>1, <2>2 DEF TypeOK, Lease, States
<1>25. CASE \E d \in Devices : GoneArrival(d)
  BY <1>25, NothingIsTyped DEF GoneArrival, TypeOK
<1>26. CASE \E d \in Devices : GoneHolder(d)
  <2>1. lease' = lease \/ lease' = [lease EXCEPT !.state = "vacant", !.move = NoMove]
    BY <1>26 DEF GoneHolder
  <2> QED
    BY <2>1, NothingIsTyped DEF TypeOK, Lease, States
<1>27. CASE \E d \in Devices : GoneMoves(d)
  BY <1>27, CalledOffTyped DEF GoneMoves, TypeOK
<1>28. CASE Birth
  <2>1. \/ lease' = lease
        \/ lease' = [NoLease EXCEPT !.state = "live", !.lineage = births + 1, !.epoch = 1]
    BY <1>28 DEF Birth
  <2>2. /\ lease \in Lease /\ NoLease \in Lease /\ births + 1 \in Nat /\ 1 \in Nat
        /\ "live" \in States
    BY NothingIsTyped DEF TypeOK, States
  <2> QED
    BY <2>1, <2>2 DEF Lease
<1>29. CASE DeletePersona
  BY NothingIsTyped, SiteAssumption, BoundsAssumption, <1>29 DEF DeletePersona, Cleared,
      NothingElse, TypeOK, Lease, Frozen, Transferring, Applied, Proposed, States, Move
<1>30. CASE MoveOut
  BY NothingIsTyped, SiteAssumption, BoundsAssumption, <1>30 DEF MoveOut, NothingElse,
      TypeOK, Lease, Frozen, Transferring, Applied, Proposed, States, Move
<1>31. CASE UndoMoveOut
  BY NothingIsTyped, SiteAssumption, BoundsAssumption, <1>31 DEF UndoMoveOut,
      NothingElse, TypeOK, Lease, Frozen, Transferring, Applied, Proposed, States, Move
<1>32. CASE LetGo
  BY NothingIsTyped, SiteAssumption, BoundsAssumption, <1>32 DEF LetGo, NothingElse,
      TypeOK, Lease, Frozen, Transferring, Applied, Proposed, States, Move
<1>33. CASE ClearSealed
  BY NothingIsTyped, SiteAssumption, BoundsAssumption, <1>33 DEF ClearSealed, Cleared,
      NothingElse, TypeOK, Lease, Frozen, Transferring, Applied, Proposed, States, Move
<1>34. CASE SettleOrphan
  BY NothingIsTyped, SiteAssumption, BoundsAssumption, <1>34 DEF SettleOrphan,
      NothingElse, TypeOK, Lease, Frozen, Transferring, Applied, Proposed, States, Move
<1> QED
  BY <1>0, <1>1, <1>2, <1>3, <1>4, <1>5, <1>6, <1>7, <1>8, <1>9, <1>10, <1>11, <1>12,
      <1>13, <1>14, <1>15, <1>16, <1>17, <1>18, <1>19, <1>20, <1>21, <1>22, <1>23,
      <1>24, <1>25, <1>26, <1>27, <1>28, <1>29, <1>30, <1>31, <1>32, <1>33, <1>34,
      RowSteps

\* The session stays a session.
LEMMA SessionTyped ==
  ASSUME TypeOK, Row, Ids, Together, Next \/ UNCHANGED vars
  PROVE  session' \in Session
<1>0. session' = session => session' \in Session
  BY DEF TypeOK
<1>1. CASE CancelByOwner
  BY NothingIsTyped, <1>1 DEF CancelByOwner, Cancel, CancelledLease, CancelledSession,
      CalledOff, Restored, Dropped, IsImport, NothingElse, TypeOK, Session,
      SessionKinds, SessionPhases, Her, Lease, Ends
<1>2. CASE \E d \in Devices : CancelByDevice(d)
  BY NothingIsTyped, <1>2 DEF CancelByDevice, Cancel, CancelledLease, CancelledSession,
      CalledOff, Restored, Dropped, IsImport, NothingElse, TypeOK, Session,
      SessionKinds, SessionPhases, Her, Lease, Ends
<1>3. CASE \E d \in Devices : ProposeImport(d)
  BY NothingIsTyped, <1>3 DEF ProposeImport, MakesRoom, NotEmpty, Holds, NewSession,
      NothingElse, TypeOK, Session, SessionKinds, SessionPhases, Her, Lease, Ends
<1>4. CASE \E d \in Devices : ProposeMerge(d)
  BY NothingIsTyped, <1>4 DEF ProposeMerge, MakesRoom, Holds, NewSession, NewMove,
      NothingElse, TypeOK, Session, SessionKinds, SessionPhases, Her, Lease, Ends
<1>5. CASE \E d \in Devices : ProposeReclaim(d)
  BY NothingIsTyped, <1>5 DEF ProposeReclaim, MakesRoom, NewSession, NewMove,
      NothingElse, TypeOK, Session, SessionKinds, SessionPhases, Her, Lease, Ends
<1>6. CASE \E d \in Devices : ReportFrozen(d)
  BY NothingIsTyped, <1>6 DEF ReportFrozen, MakesRoom, Holds, NewSession, NothingElse,
      TypeOK, Session, SessionKinds, SessionPhases, Her, Lease, Ends
<1>7. CASE ConfirmImport
  BY NothingIsTyped, <1>7 DEF ConfirmImport, Arriving, NotEmpty, NewMove, NothingElse,
      TypeOK, Session, SessionKinds, SessionPhases, Her, Lease, Ends
<1>8. CASE ConfirmReclaim
  BY NothingIsTyped, <1>8 DEF ConfirmReclaim, NothingElse, TypeOK, Session,
      SessionKinds, SessionPhases, Her, Lease, Ends
<1>9. CASE ConfirmMerge
  BY NothingIsTyped, <1>9 DEF ConfirmMerge, NothingElse, TypeOK, Session, SessionKinds,
      SessionPhases, Her, Lease, Ends
<1>10. CASE \E d \in Devices : TakePage(d)
  BY NothingIsTyped, <1>10 DEF TakePage, Carries, NothingElse, TypeOK, Session,
      SessionKinds, SessionPhases, Her, Lease, Ends
<1>11. CASE CancelImportByOwner
  BY NothingIsTyped, <1>11 DEF CancelImportByOwner, CancelImport, CalledOff, Restored,
      NothingElse, TypeOK, Session, SessionKinds, SessionPhases, Her, Lease, Ends
<1>12. CASE \E d \in Devices : CancelImportByDevice(d)
  BY NothingIsTyped, <1>12 DEF CancelImportByDevice, CancelImport, CalledOff, Restored,
      NothingElse, TypeOK, Session, SessionKinds, SessionPhases, Her, Lease, Ends
<1>13. CASE \E id \in landing : Land(id)
  BY NothingIsTyped, <1>13 DEF Land, Landed, Higher, Receiving, NothingElse, TypeOK,
      Session, SessionKinds, SessionPhases, Her, Lease, Ends
<1>14. CASE \E m \in merging : MergeIn(m[1], m[2])
  BY NothingIsTyped, <1>14 DEF MergeIn, Receiving, NothingElse, TypeOK, Session,
      SessionKinds, SessionPhases, Her, Lease, Ends
<1>15. CASE \E d \in Devices : GoneSessions(d)
  BY NothingIsTyped, <1>15 DEF GoneSessions, Leaves, NothingElse, TypeOK, Session,
      SessionKinds, SessionPhases, Her, Lease, Ends
<1> QED
  BY <1>0, <1>1, <1>2, <1>3, <1>4, <1>5, <1>6, <1>7, <1>8, <1>9, <1>10, <1>11, <1>12,
      <1>13, <1>14, <1>15, SessionSteps

\* So does what the devices hold.
LEMMA DevicesTyped ==
  ASSUME TypeOK, Row, Ids, Together, Next \/ UNCHANGED vars
  PROVE  dev' \in [Devices -> Her]
<1>0. dev' = dev => dev' \in [Devices -> Her]
  BY DEF TypeOK
<1>1. CASE \E d \in Devices : DeviceBirth(d)
  <2> PICK d \in Devices : DeviceBirth(d)
    BY <1>1
  <2>0. NoHer \in Her /\ births + 1 \in Nat /\ 1 \in Nat
    BY NothingIsTyped DEF TypeOK
  <2>1. [NoHer EXCEPT !.at = "living", !.lineage = births + 1, !.epoch = 1] \in Her
    BY <2>0 DEF Her
  <2> QED
    BY <2>1 DEF DeviceBirth, TypeOK
<1>2. CASE \E d \in Devices : DeviceKeeps(d)
  BY NothingIsTyped, <1>2 DEF DeviceKeeps, ToThisDevice, TypeOK, Her, Lease, Move, NoHer
<1>3. CASE \E d \in Devices : DeviceHears(d)
  <2> PICK d \in Devices : DeviceHears(d)
    BY <1>3
  <2>1. dev[d] \in Her /\ lease.epoch \in Nat /\ NoHer \in Her
    BY NothingIsTyped DEF TypeOK, Lease
  <2>2. Heard(d) \in {dev[d], NoHer, [dev[d] EXCEPT !.at = "living", !.epoch = lease.epoch, !.move = 0],
          [dev[d] EXCEPT !.at = "still"], [dev[d] EXCEPT !.at = "living"]}
    BY DEF Heard
  <2>3. /\ [dev[d] EXCEPT !.at = "living", !.epoch = lease.epoch, !.move = 0] \in Her
        /\ [dev[d] EXCEPT !.at = "still"] \in Her /\ [dev[d] EXCEPT !.at = "living"] \in Her
    BY <2>1 DEF Her
  <2>4. Heard(d) \in Her
    BY <2>1, <2>2, <2>3
  <2> QED
    BY <2>4 DEF DeviceHears, TypeOK
<1>4. CASE Birth
  BY <1>0, <1>4 DEF Birth, deviceVars
<1> QED
  BY <1>0, <1>1, <1>2, <1>3, <1>4, HeldSteps

\* And the rest.
LEMMA RestTyped ==
  ASSUME TypeOK, Row, Ids, Together, Next \/ UNCHANGED vars
  PROVE  /\ persona' \in BOOLEAN /\ linked' \in SUBSET Devices /\ late' \in SUBSET Devices
         /\ leaving' \in [Devices -> 0 .. 4] /\ backups' \in SUBSET (Devices \X Nat)
         /\ sealing' \in SUBSET Nat /\ landing' \in SUBSET Nat
         /\ merging' \in SUBSET (Nat \X {1, 2})
         /\ clearing' \in {"none", "elsewhere", "vacant"}
         /\ copy' \in Places /\ fetched' \in Places \cup {"none"}
         /\ reads' \in Nat /\ nextId' \in Nat /\ births' \in Nat /\ crashes' \in Nat
<1>0. Place(lease) \in Places
  BY DEF Place, Places
<1>1. CASE \E d \in Devices, kind \in {"ToDevice", "MergeAsked"}, by \in {"owner", "device"} :
         StartMove(d, kind, by)
  BY BoundsAssumption, <1>1 DEF StartMove, NewMove, NothingElse, Asks, OwnerOrDevice,
      NewId, Cancel, CancelImport, TypeOK, siteVars, stepVars, deviceVars, copyVars,
      countVars, Lease, Move, Session
<1>2. CASE \E d \in Devices, by \in {"owner", "device"} : StartBack(d, by)
  BY BoundsAssumption, <1>2 DEF StartBack, NewMove, NothingElse, Asks, OwnerOrDevice,
      NewId, Cancel, CancelImport, TypeOK, siteVars, stepVars, deviceVars, copyVars,
      countVars, Lease, Move, Session
<1>3. CASE \E d \in Devices : Agree(d)
  BY BoundsAssumption, <1>3 DEF Agree, NothingElse, Asks, OwnerOrDevice, NewId, Cancel,
      CancelImport, TypeOK, siteVars, stepVars, deviceVars, copyVars, countVars, Lease,
      Move, Session
<1>4. CASE Confirm
  BY BoundsAssumption, <1>4 DEF Confirm, NothingElse, Asks, OwnerOrDevice, NewId,
      Cancel, CancelImport, TypeOK, siteVars, stepVars, deviceVars, copyVars, countVars,
      Lease, Move, Session
<1>5. CASE CancelByOwner
  BY BoundsAssumption, <1>5 DEF CancelByOwner, Cancel, CancelledLease, CancelledSession,
      CalledOff, Restored, Dropped, IsImport, NothingElse, Asks, OwnerOrDevice, NewId,
      CancelImport, TypeOK, siteVars, stepVars, deviceVars, copyVars, countVars, Lease,
      Move, Session
<1>6. CASE \E d \in Devices : CancelByDevice(d)
  BY BoundsAssumption, <1>6 DEF CancelByDevice, Cancel, CancelledLease,
      CancelledSession, CalledOff, Restored, Dropped, IsImport, NothingElse, Asks,
      OwnerOrDevice, NewId, CancelImport, TypeOK, siteVars, stepVars, deviceVars,
      copyVars, countVars, Lease, Move, Session
<1>7. CASE \E id \in sealing : Sealed(id)
  BY BoundsAssumption, <1>7 DEF Sealed, NothingElse, Asks, OwnerOrDevice, NewId, Cancel,
      CancelImport, TypeOK, siteVars, stepVars, deviceVars, copyVars, countVars, Lease,
      Move, Session
<1>8. CASE \E id \in sealing : SealFails(id)
  BY BoundsAssumption, <1>8 DEF SealFails, Restored, NothingElse, Asks, OwnerOrDevice,
      NewId, Cancel, CancelImport, TypeOK, siteVars, stepVars, deviceVars, copyVars,
      countVars, Lease, Move, Session
<1>9. CASE \E d \in Devices : Piece(d)
  BY BoundsAssumption, <1>9 DEF Piece, ToThisDevice, NothingElse, Asks, OwnerOrDevice,
      NewId, Cancel, CancelImport, TypeOK, siteVars, stepVars, deviceVars, copyVars,
      countVars, Lease, Move, Session
<1>10. CASE \E d \in Devices : ApplyOnDevice(d)
  BY BoundsAssumption, <1>10 DEF ApplyOnDevice, ToThisDevice, NothingElse, Asks,
      OwnerOrDevice, NewId, Cancel, CancelImport, TypeOK, siteVars, stepVars,
      deviceVars, copyVars, countVars, Lease, Move, Session
<1>11. CASE \E d \in Devices : CommitToDevice(d)
  BY <1>11 DEF CommitToDevice, NothingElse, Asks, TypeOK, stepVars, copyVars
<1>12. CASE \E d \in Devices : TakeBackup(d)
  BY BoundsAssumption, <1>12 DEF TakeBackup, NothingElse, Asks, OwnerOrDevice, NewId,
      Cancel, CancelImport, TypeOK, siteVars, stepVars, deviceVars, copyVars, countVars,
      Lease, Move, Session
<1>13. CASE \E d \in Devices : ProposeImport(d)
  BY BoundsAssumption, <1>13 DEF ProposeImport, MakesRoom, NotEmpty, Holds, NewSession,
      NothingElse, Asks, OwnerOrDevice, NewId, Cancel, CancelImport, TypeOK, siteVars,
      stepVars, deviceVars, copyVars, countVars, Lease, Move, Session
<1>14. CASE \E d \in Devices : ProposeMerge(d)
  BY BoundsAssumption, <1>14 DEF ProposeMerge, MakesRoom, Holds, NewSession, NewMove,
      NothingElse, Asks, OwnerOrDevice, NewId, Cancel, CancelImport, TypeOK, siteVars,
      stepVars, deviceVars, copyVars, countVars, Lease, Move, Session
<1>15. CASE \E d \in Devices : ProposeReclaim(d)
  BY BoundsAssumption, <1>15 DEF ProposeReclaim, MakesRoom, NewSession, NewMove,
      NothingElse, Asks, OwnerOrDevice, NewId, Cancel, CancelImport, TypeOK, siteVars,
      stepVars, deviceVars, copyVars, countVars, Lease, Move, Session
<1>16. CASE \E d \in Devices : ReportFrozen(d)
  BY BoundsAssumption, <1>16 DEF ReportFrozen, MakesRoom, Holds, NewSession,
      NothingElse, Asks, OwnerOrDevice, NewId, Cancel, CancelImport, TypeOK, siteVars,
      stepVars, deviceVars, copyVars, countVars, Lease, Move, Session
<1>17. CASE ConfirmImport
  BY BoundsAssumption, <1>17 DEF ConfirmImport, Arriving, NotEmpty, NewMove,
      NothingElse, Asks, OwnerOrDevice, NewId, Cancel, CancelImport, TypeOK, siteVars,
      stepVars, deviceVars, copyVars, countVars, Lease, Move, Session
<1>18. CASE ConfirmReclaim
  BY BoundsAssumption, <1>18 DEF ConfirmReclaim, NothingElse, Asks, OwnerOrDevice,
      NewId, Cancel, CancelImport, TypeOK, siteVars, stepVars, deviceVars, copyVars,
      countVars, Lease, Move, Session
<1>19. CASE ConfirmMerge
  BY BoundsAssumption, <1>19 DEF ConfirmMerge, NothingElse, Asks, OwnerOrDevice, NewId,
      Cancel, CancelImport, TypeOK, siteVars, stepVars, deviceVars, copyVars, countVars,
      Lease, Move, Session
<1>20. CASE \E d \in Devices : TakePage(d)
  BY BoundsAssumption, <1>20 DEF TakePage, Carries, NothingElse, Asks, OwnerOrDevice,
      NewId, Cancel, CancelImport, TypeOK, siteVars, stepVars, deviceVars, copyVars,
      countVars, Lease, Move, Session
<1>21. CASE \E d \in Devices : CheckCommit(d)
  BY BoundsAssumption, <1>21 DEF CheckCommit, Carries, NothingElse, Asks, OwnerOrDevice,
      NewId, Cancel, CancelImport, TypeOK, siteVars, stepVars, deviceVars, copyVars,
      countVars, Lease, Move, Session
<1>22. CASE CancelImportByOwner
  BY BoundsAssumption, <1>22 DEF CancelImportByOwner, CancelImport, CalledOff, Restored,
      NothingElse, Asks, OwnerOrDevice, NewId, Cancel, TypeOK, siteVars, stepVars,
      deviceVars, copyVars, countVars, Lease, Move, Session
<1>23. CASE \E d \in Devices : CancelImportByDevice(d)
  BY BoundsAssumption, <1>23 DEF CancelImportByDevice, CancelImport, CalledOff,
      Restored, NothingElse, Asks, OwnerOrDevice, NewId, Cancel, TypeOK, siteVars,
      stepVars, deviceVars, copyVars, countVars, Lease, Move, Session
<1>24. CASE \E id \in landing : Land(id)
  BY BoundsAssumption, <1>24 DEF Land, Landed, Higher, Receiving, NothingElse, Asks,
      OwnerOrDevice, NewId, Cancel, CancelImport, TypeOK, siteVars, stepVars,
      deviceVars, copyVars, countVars, Lease, Move, Session
<1>25. CASE \E d \in Devices, request \in {1, 2} : HoldForMerge(d, request)
  BY BoundsAssumption, <1>25 DEF HoldForMerge, NothingElse, Asks, OwnerOrDevice, NewId,
      Cancel, CancelImport, TypeOK, siteVars, stepVars, deviceVars, copyVars, countVars,
      Lease, Move, Session
<1>26. CASE \E m \in merging : MergeIn(m[1], m[2])
  BY BoundsAssumption, <1>26 DEF MergeIn, Receiving, NothingElse, Asks, OwnerOrDevice,
      NewId, Cancel, CancelImport, TypeOK, siteVars, stepVars, deviceVars, copyVars,
      countVars, Lease, Move, Session
<1>27. CASE \E m \in merging : MergeFails(m[1], m[2])
  BY BoundsAssumption, <1>27 DEF MergeFails, NothingElse, Asks, OwnerOrDevice, NewId,
      Cancel, CancelImport, TypeOK, siteVars, stepVars, deviceVars, copyVars, countVars,
      Lease, Move, Session
<1>28. CASE \E d \in Devices : Revoke(d)
  BY BoundsAssumption, <1>28 DEF Revoke, NothingElse, Asks, OwnerOrDevice, NewId,
      Cancel, CancelImport, TypeOK, siteVars, stepVars, deviceVars, copyVars, countVars,
      Lease, Move, Session
<1>29. CASE \E d \in Devices : GoneArrival(d)
  BY BoundsAssumption, <1>29 DEF GoneArrival, Leaves, NothingElse, Asks, OwnerOrDevice,
      NewId, Cancel, CancelImport, TypeOK, siteVars, stepVars, deviceVars, copyVars,
      countVars, Lease, Move, Session
<1>30. CASE \E d \in Devices : GoneSessions(d)
  BY BoundsAssumption, <1>30 DEF GoneSessions, Leaves, NothingElse, Asks, OwnerOrDevice,
      NewId, Cancel, CancelImport, TypeOK, siteVars, stepVars, deviceVars, copyVars,
      countVars, Lease, Move, Session
<1>31. CASE \E d \in Devices : GoneHolder(d)
  BY BoundsAssumption, <1>31 DEF GoneHolder, Leaves, NothingElse, Asks, OwnerOrDevice,
      NewId, Cancel, CancelImport, TypeOK, siteVars, stepVars, deviceVars, copyVars,
      countVars, Lease, Move, Session
<1>32. CASE \E d \in Devices : GoneMoves(d)
  BY BoundsAssumption, <1>32 DEF GoneMoves, Leaves, Restored, NothingElse, Asks,
      OwnerOrDevice, NewId, Cancel, CancelImport, TypeOK, siteVars, stepVars,
      deviceVars, copyVars, countVars, Lease, Move, Session
<1>33. CASE \E d \in Devices : DeviceBirth(d)
  BY BoundsAssumption, <1>33 DEF DeviceBirth, NothingElse, Asks, OwnerOrDevice, NewId,
      Cancel, CancelImport, TypeOK, siteVars, stepVars, deviceVars, copyVars, countVars,
      Lease, Move, Session
<1>34. CASE \E d \in Devices : DeviceKeeps(d)
  BY BoundsAssumption, <1>34 DEF DeviceKeeps, ToThisDevice, NothingElse, Asks,
      OwnerOrDevice, NewId, Cancel, CancelImport, TypeOK, siteVars, stepVars,
      deviceVars, copyVars, countVars, Lease, Move, Session
<1>35. CASE \E d \in Devices : DeviceHears(d)
  BY BoundsAssumption, <1>35 DEF DeviceHears, Heard, NothingElse, Asks, OwnerOrDevice,
      NewId, Cancel, CancelImport, TypeOK, siteVars, stepVars, deviceVars, copyVars,
      countVars, Lease, Move, Session
<1>36. CASE Birth
  BY BoundsAssumption, <1>36 DEF Birth, NothingElse, Asks, OwnerOrDevice, NewId, Cancel,
      CancelImport, TypeOK, siteVars, stepVars, deviceVars, copyVars, countVars, Lease,
      Move, Session
<1>37. CASE DeletePersona
  BY BoundsAssumption, <1>37 DEF DeletePersona, Cleared, NothingElse, Asks,
      OwnerOrDevice, NewId, Cancel, CancelImport, TypeOK, siteVars, stepVars,
      deviceVars, copyVars, countVars, Lease, Move, Session
<1>38. CASE MoveOut
  BY BoundsAssumption, <1>38 DEF MoveOut, NothingElse, Asks, OwnerOrDevice, NewId,
      Cancel, CancelImport, TypeOK, siteVars, stepVars, deviceVars, copyVars, countVars,
      Lease, Move, Session
<1>39. CASE UndoMoveOut
  BY BoundsAssumption, <1>39 DEF UndoMoveOut, NothingElse, Asks, OwnerOrDevice, NewId,
      Cancel, CancelImport, TypeOK, siteVars, stepVars, deviceVars, copyVars, countVars,
      Lease, Move, Session
<1>40. CASE LetGo
  BY BoundsAssumption, <1>40 DEF LetGo, NothingElse, Asks, OwnerOrDevice, NewId, Cancel,
      CancelImport, TypeOK, siteVars, stepVars, deviceVars, copyVars, countVars, Lease,
      Move, Session
<1>41. CASE AskToClear
  BY BoundsAssumption, <1>41 DEF AskToClear, NothingElse, Asks, OwnerOrDevice, NewId,
      Cancel, CancelImport, TypeOK, siteVars, stepVars, deviceVars, copyVars, countVars,
      Lease, Move, Session
<1>42. CASE ClearSealed
  BY BoundsAssumption, <1>42 DEF ClearSealed, Cleared, NothingElse, Asks, OwnerOrDevice,
      NewId, Cancel, CancelImport, TypeOK, siteVars, stepVars, deviceVars, copyVars,
      countVars, Lease, Move, Session
<1>43. CASE SettleOrphan
  BY BoundsAssumption, <1>43 DEF SettleOrphan, NothingElse, Asks, OwnerOrDevice, NewId,
      Cancel, CancelImport, TypeOK, siteVars, stepVars, deviceVars, copyVars, countVars,
      Lease, Move, Session
<1>44. CASE CopySteps
  <2>1. CASE Fetch
    BY <1>0, <2>1 DEF Fetch, TypeOK, siteVars, stepVars, deviceVars, countVars
  <2>2. CASE Adopt
    BY <2>2 DEF Adopt, TypeOK, siteVars, stepVars, deviceVars, countVars
  <2>3. CASE Reread
    BY <1>0, <2>3 DEF Reread, TypeOK, siteVars, stepVars, deviceVars, countVars
  <2> QED
    BY <1>44, <2>1, <2>2, <2>3 DEF CopySteps
<1>45. CASE Crash
  <2>1. leaving' = [d \in Devices |-> 0]
    BY <1>45 DEF Crash
  <2>2. leaving' \in [Devices -> 0 .. 4]
    BY <2>1
  <2> QED
    BY <2>2, <1>45 DEF Crash, TypeOK, siteVars, Places
<1>46. CASE UNCHANGED vars
  BY BoundsAssumption, <1>46 DEF vars, NothingElse, Asks, OwnerOrDevice, NewId, Cancel,
      CancelImport, TypeOK, siteVars, stepVars, deviceVars, copyVars, countVars, Lease,
      Move, Session
<1>47. CASE MoveSteps
  BY <1>47, <1>1, <1>2, <1>4, <1>5, <1>3, <1>6, <1>7, <1>8, <1>9, <1>10, <1>11, <1>12
      DEF MoveSteps
<1>48. CASE ImportSteps
  BY <1>48, <1>13, <1>14, <1>15, <1>16, <1>17, <1>18, <1>19, <1>20, <1>21, <1>22, <1>23,
      <1>24, <1>25, <1>26, <1>27 DEF ImportSteps
<1>49. CASE DeviceSteps
  BY <1>49, <1>28, <1>29, <1>30, <1>31, <1>32, <1>33, <1>34, <1>35 DEF DeviceSteps
<1>50. CASE SiteSteps
  BY <1>50, <1>36, <1>37, <1>38, <1>39, <1>40, <1>41, <1>42, <1>43 DEF SiteSteps
<1> QED
  BY <1>47, <1>48, <1>49, <1>50, <1>44, <1>45, <1>46 DEF Next

\* Every step keeps the types.
LEMMA TypesKept ==
  ASSUME TypeOK, Row, Ids, Together, Next \/ UNCHANGED vars
  PROVE  TypeOK'
BY LeaseTyped, SessionTyped, DevicesTyped, RestTyped DEF TypeOK

(***************************************************************************)
(* Ids.                                                                    *)
(***************************************************************************)
\* A step that starts no move, import or sealing: the move and the session
\* are the same ones, or gone.
SameMove ==
  \/ lease'.move.kind = "none"
  \/ /\ lease'.move.kind = lease.move.kind /\ lease'.move.id = lease.move.id
     /\ lease'.move.device = lease.move.device /\ lease'.move.import = lease.move.import
     /\ lease'.move.was = lease.move.was

SameSession ==
  \/ session' = session
  \/ session' = NoSession
  \/ /\ session.kind # "none"
     /\ \E phase \in SessionPhases \ {"none"} :
          /\ session' = [session EXCEPT !.phase = phase]
          /\ session.id \in landing => phase \in {"transferring", "committed"}

Settled == UNCHANGED nextId /\ landing' \subseteq landing /\ sealing' \subseteq sealing

\* A step that starts nothing keeps ids apart.
LEMMA SameKeepsIds ==
  ASSUME TypeOK, Ids, Together, SameMove, SameSession, Settled
  PROVE  Ids' /\ Together'
<1>1. \/ /\ session'.id = session.id
         /\ session'.kind = session.kind
         /\ session'.device = session.device
         /\ session'.epoch = session.epoch
         /\ session'.lineage = session.lineage
         /\ (session.kind = "none" => session' = NoSession)
         /\ (session.kind # "none" => session'.phase # "none")
         /\ (session.id \in landing => session'.phase \in {"transferring", "committed"})
      \/ session' = NoSession
  BY DEF SameSession, Ids, Together, TypeOK, Session
<1>2. session' = NoSession => session'.kind = "none" /\ session'.id = 0
  BY DEF NoSession
<1>3. 0 \notin landing'
  BY DEF Settled, Ids, Given
<1>4. Ids'
  BY <1>1, <1>2 DEF Ids, Given, SameMove, Settled
<1>5. Together'
  BY <1>1, <1>2, <1>3 DEF Together, Ids, SameMove, Settled
<1> QED
  BY <1>4, <1>5

\* Calling a move off starts nothing.
LEMMA GivenBackIsSame ==
  ASSUME MayGiveBack
  PROVE  SameMove
BY DEF MayGiveBack, GivenBack, SameMove, NoLease, NoMove

\* Most steps start nothing.
LEMMA MostStepsSame ==
  ASSUME TypeOK, Row, Ids, Together, Next \/ UNCHANGED vars
  PROVE  \/ SameMove /\ SameSession /\ Settled
         \/ \E d \in Devices, kind \in {"ToDevice", "MergeAsked"}, by \in {"owner", "device"} :
              StartMove(d, kind, by)
         \/ \E d \in Devices, by \in {"owner", "device"} : StartBack(d, by)
         \/ Confirm
         \/ \E d \in Devices : ProposeImport(d)
         \/ \E d \in Devices : ProposeMerge(d)
         \/ \E d \in Devices : ProposeReclaim(d)
         \/ \E d \in Devices : ReportFrozen(d)
         \/ ConfirmImport
         \/ \E d \in Devices : CheckCommit(d)
<1>a. lease' = lease => SameMove
  BY DEF SameMove
<1>b. session' = session => SameSession
  BY DEF SameSession
<1>c. Cancel => SameMove /\ SameSession /\ Settled
  <2>1. Cancel => SameMove
    BY CancelRow, GivenBackIsSame
  <2> QED
    BY <2>1 DEF Cancel, CancelledSession, Dropped, SameSession, Settled, NothingElse,
        stepVars
<1>d. CancelImport => SameMove /\ SameSession /\ Settled
  <2>1. CancelImport => SameMove
    BY CancelImportRow, GivenBackIsSame
  <2> QED
    BY <2>1 DEF CancelImport, SameSession, Settled, NothingElse, stepVars
<1>1. CASE \E d \in Devices, kind \in {"ToDevice", "MergeAsked"}, by \in {"owner", "device"} :
         StartMove(d, kind, by)
  BY <1>1
<1>2. CASE \E d \in Devices, by \in {"owner", "device"} : StartBack(d, by)
  BY <1>2
<1>3. CASE \E d \in Devices : Agree(d)
  <2> PICK d \in Devices : Agree(d)
    BY <1>3
  <2>1. SameMove
    BY DEF SameMove, Agree, TypeOK, Lease, Move, NoMove
  <2>2. SameSession
    BY <1>b DEF Agree, Leaves, siteVars
  <2>3. Settled
    BY DEF Agree, Settled, NothingElse, stepVars, countVars, Leaves
  <2> QED
    BY <2>1, <2>2, <2>3
<1>4. CASE Confirm
  BY <1>4
<1>5. CASE CancelByOwner
  BY <1>5, <1>c DEF CancelByOwner
<1>6. CASE \E d \in Devices : CancelByDevice(d)
  BY <1>6, <1>c DEF CancelByDevice
<1>7. CASE \E id \in sealing : Sealed(id)
  <2> PICK id \in sealing : Sealed(id)
    BY <1>7
  <2>1. SameMove
    BY DEF SameMove, Sealed, TypeOK, Lease, Move, NoMove
  <2>2. SameSession
    BY <1>b DEF Sealed, Leaves, siteVars
  <2>3. Settled
    BY DEF Sealed, Settled, NothingElse, stepVars, countVars, Leaves
  <2> QED
    BY <2>1, <2>2, <2>3
<1>8. CASE \E id \in sealing : SealFails(id)
  BY <1>8, SealFailsRow, GivenBackIsSame, <1>b DEF SealFails, Settled, NothingElse
<1>9. CASE \E d \in Devices : Piece(d)
  <2> PICK d \in Devices : Piece(d)
    BY <1>9
  <2>1. SameMove
    BY DEF SameMove, Piece, TypeOK, Lease, Move, NoMove
  <2>2. SameSession
    BY <1>b DEF Piece, Leaves, siteVars
  <2>3. Settled
    BY DEF Piece, Settled, NothingElse, stepVars, countVars, Leaves
  <2> QED
    BY <2>1, <2>2, <2>3
<1>10. CASE \E d \in Devices : ApplyOnDevice(d)
  <2> PICK d \in Devices : ApplyOnDevice(d)
    BY <1>10
  <2>1. SameMove
    BY DEF SameMove, ApplyOnDevice, TypeOK, Lease, Move, NoMove
  <2>2. SameSession
    BY <1>b DEF ApplyOnDevice, Leaves, siteVars
  <2>3. Settled
    BY DEF ApplyOnDevice, Settled, NothingElse, stepVars, countVars, Leaves
  <2> QED
    BY <2>1, <2>2, <2>3
<1>11. CASE \E d \in Devices : CommitToDevice(d)
  <2> PICK d \in Devices : CommitToDevice(d)
    BY <1>11
  <2>1. SameMove
    BY DEF SameMove, CommitToDevice, TypeOK, Lease, Move, NoMove
  <2>2. SameSession
    BY <1>b DEF CommitToDevice, Leaves, siteVars
  <2>3. Settled
    BY DEF CommitToDevice, Settled, NothingElse, stepVars, countVars, Leaves
  <2> QED
    BY <2>1, <2>2, <2>3
<1>12. CASE \E d \in Devices : TakeBackup(d)
  BY <1>a, <1>b, <1>12 DEF TakeBackup, siteVars, stepVars, countVars, vars, Settled,
      Fetch, Adopt, Reread, NothingElse
<1>13. CASE \E d \in Devices : ProposeImport(d)
  BY <1>13
<1>14. CASE \E d \in Devices : ProposeMerge(d)
  BY <1>14
<1>15. CASE \E d \in Devices : ProposeReclaim(d)
  BY <1>15
<1>16. CASE \E d \in Devices : ReportFrozen(d)
  BY <1>16
<1>17. CASE ConfirmImport
  BY <1>17
<1>18. CASE ConfirmReclaim
  <2>1. SameMove
    BY <1>18 DEF SameMove, ConfirmReclaim, TypeOK, Lease, Move, NoMove
  <2>2. SameSession
    BY <1>18 DEF ConfirmReclaim, Leaves, siteVars, Ids, Together, SameSession, SessionPhases
  <2>3. Settled
    BY <1>18 DEF ConfirmReclaim, Settled, NothingElse, stepVars, countVars, Leaves
  <2> QED
    BY <2>1, <2>2, <2>3
<1>19. CASE ConfirmMerge
  <2>1. SameMove
    BY <1>19 DEF SameMove, ConfirmMerge, TypeOK, Lease, Move, NoMove
  <2>2. SameSession
    BY <1>19 DEF ConfirmMerge, Leaves, siteVars, Ids, Together, SameSession, SessionPhases
  <2>3. Settled
    BY <1>19 DEF ConfirmMerge, Settled, NothingElse, stepVars, countVars, Leaves
  <2> QED
    BY <2>1, <2>2, <2>3
<1>20. CASE \E d \in Devices : TakePage(d)
  <2> PICK d \in Devices : TakePage(d)
    BY <1>20
  <2>1. SameMove
    BY TakePageRow DEF SameMove, TypeOK, Lease, Move, Becomes, NoMove
  <2>2. SameSession
    BY DEF TakePage, Leaves, siteVars, Ids, NoSession, SameSession, SessionPhases
  <2>3. Settled
    BY DEF TakePage, Settled, NothingElse, stepVars, countVars, Leaves
  <2> QED
    BY <2>1, <2>2, <2>3
<1>21. CASE \E d \in Devices : CheckCommit(d)
  BY <1>21
<1>22. CASE CancelImportByOwner
  BY <1>22, <1>d DEF CancelImportByOwner
<1>23. CASE \E d \in Devices : CancelImportByDevice(d)
  BY <1>23, <1>d DEF CancelImportByDevice
<1>24. CASE \E id \in landing : Land(id)
  <2> PICK id \in landing : Land(id)
    BY <1>24
  <2>1. SameMove
    BY LandRow DEF SameMove, Becomes, NoMove
  <2>2. SameSession
    BY DEF Land, Leaves, siteVars, Ids, Receiving, NoSession, SameSession, SessionPhases
  <2>3. Settled
    BY DEF Land, Settled, NothingElse, stepVars, countVars, Leaves
  <2> QED
    BY <2>1, <2>2, <2>3
<1>25. CASE \E d \in Devices, request \in {1, 2} : HoldForMerge(d, request)
  <2> PICK d \in Devices, request \in {1, 2} : HoldForMerge(d, request)
    BY <1>25
  <2>1. SameMove
    BY DEF SameMove, HoldForMerge, TypeOK, Lease, Move, NoMove
  <2>2. SameSession
    BY <1>b DEF HoldForMerge, Leaves, siteVars
  <2>3. Settled
    BY DEF HoldForMerge, Settled, NothingElse, stepVars, countVars, Leaves
  <2> QED
    BY <2>1, <2>2, <2>3
<1>26. CASE \E m \in merging : MergeIn(m[1], m[2])
  <2> PICK m \in merging : MergeIn(m[1], m[2])
    BY <1>26
  <2>1. SameMove
    BY MergeInRow DEF SameMove, Becomes, NoMove
  <2>2. SameSession
    BY DEF MergeIn, Leaves, siteVars, Ids, Receiving, NoSession, SameSession, SessionPhases
  <2>3. Settled
    BY DEF MergeIn, Settled, NothingElse, stepVars, countVars, Leaves
  <2> QED
    BY <2>1, <2>2, <2>3
<1>27. CASE \E m \in merging : MergeFails(m[1], m[2])
  <2> PICK m \in merging : MergeFails(m[1], m[2])
    BY <1>27
  <2>1. SameMove
    BY MergeFailsRow DEF SameMove, Becomes, TypeOK, Lease, Move, NoMove
  <2>2. SameSession
    BY <1>b DEF MergeFails, Leaves, siteVars
  <2>3. Settled
    BY DEF MergeFails, Settled, NothingElse, stepVars, countVars, Leaves
  <2> QED
    BY <2>1, <2>2, <2>3
<1>28. CASE \E d \in Devices : Revoke(d)
  BY <1>a, <1>b, <1>28 DEF Revoke, siteVars, stepVars, countVars, vars, Settled, Fetch,
      Adopt, Reread, NothingElse
<1>29. CASE \E d \in Devices : GoneArrival(d)
  <2> PICK d \in Devices : GoneArrival(d)
    BY <1>29
  <2>1. SameMove
    BY GoneArrivalRow DEF SameMove, NoLease, NoMove
  <2>2. SameSession
    BY <1>b DEF GoneArrival, Leaves, siteVars
  <2>3. Settled
    BY DEF GoneArrival, Settled, NothingElse, stepVars, countVars, Leaves
  <2> QED
    BY <2>1, <2>2, <2>3
<1>30. CASE \E d \in Devices : GoneSessions(d)
  <2> PICK d \in Devices : GoneSessions(d)
    BY <1>30
  <2>1. SameMove
    BY <1>a DEF GoneSessions, Leaves, siteVars, NoMove
  <2>2. SameSession
    BY DEF GoneSessions, Leaves, siteVars, NoSession, SameSession, SessionPhases
  <2>3. Settled
    BY DEF GoneSessions, Settled, NothingElse, stepVars, countVars, Leaves
  <2> QED
    BY <2>1, <2>2, <2>3
<1>31. CASE \E d \in Devices : GoneHolder(d)
  <2> PICK d \in Devices : GoneHolder(d)
    BY <1>31
  <2>1. SameMove
    BY GoneHolderRow DEF SameMove, Becomes, NoMove
  <2>2. SameSession
    BY <1>b DEF GoneHolder, Leaves, siteVars
  <2>3. Settled
    BY DEF GoneHolder, Settled, NothingElse, stepVars, countVars, Leaves
  <2> QED
    BY <2>1, <2>2, <2>3
<1>32. CASE \E d \in Devices : GoneMoves(d)
  BY <1>32, GoneMovesRow, GivenBackIsSame, <1>b DEF GoneMoves, Leaves, Settled, stepVars,
      countVars
<1>33. CASE \E d \in Devices : DeviceBirth(d)
  BY <1>a, <1>b, <1>33 DEF DeviceBirth, siteVars, stepVars, countVars, vars, Settled,
      Fetch, Adopt, Reread, NothingElse
<1>34. CASE \E d \in Devices : DeviceKeeps(d)
  BY <1>a, <1>b, <1>34 DEF DeviceKeeps, ToThisDevice, siteVars, stepVars, countVars,
      vars, Settled, Fetch, Adopt, Reread, NothingElse
<1>35. CASE \E d \in Devices : DeviceHears(d)
  BY <1>a, <1>b, <1>35 DEF DeviceHears, Heard, siteVars, stepVars, countVars, vars,
      Settled, Fetch, Adopt, Reread, NothingElse
<1>36. CASE Birth
  <2>1. SameMove
    BY <1>36 DEF SameMove, Birth, Cleared, NoLease, TypeOK, Lease, Move, NoMove
  <2>2. SameSession
    BY <1>36, <1>b DEF Birth, Leaves, siteVars
  <2>3. Settled
    BY <1>36 DEF Birth, Settled, NothingElse, stepVars, countVars, Leaves
  <2> QED
    BY <2>1, <2>2, <2>3
<1>37. CASE DeletePersona
  <2>1. SameMove
    BY <1>37 DEF SameMove, DeletePersona, Cleared, NoLease, TypeOK, Lease, Move, NoMove
  <2>2. SameSession
    BY <1>37, <1>b DEF DeletePersona, Leaves, siteVars
  <2>3. Settled
    BY <1>37 DEF DeletePersona, Settled, NothingElse, stepVars, countVars, Leaves
  <2> QED
    BY <2>1, <2>2, <2>3
<1>38. CASE MoveOut
  <2>1. SameMove
    BY <1>38 DEF SameMove, MoveOut, Cleared, NoLease, TypeOK, Lease, Move, NoMove
  <2>2. SameSession
    BY <1>38, <1>b DEF MoveOut, Leaves, siteVars
  <2>3. Settled
    BY <1>38 DEF MoveOut, Settled, NothingElse, stepVars, countVars, Leaves
  <2> QED
    BY <2>1, <2>2, <2>3
<1>39. CASE UndoMoveOut
  <2>1. SameMove
    BY <1>39 DEF SameMove, UndoMoveOut, Cleared, NoLease, TypeOK, Lease, Move, NoMove
  <2>2. SameSession
    BY <1>39, <1>b DEF UndoMoveOut, Leaves, siteVars
  <2>3. Settled
    BY <1>39 DEF UndoMoveOut, Settled, NothingElse, stepVars, countVars, Leaves
  <2> QED
    BY <2>1, <2>2, <2>3
<1>40. CASE LetGo
  <2>1. SameMove
    BY <1>40 DEF SameMove, LetGo, Cleared, NoLease, TypeOK, Lease, Move, NoMove
  <2>2. SameSession
    BY <1>40, <1>b DEF LetGo, Leaves, siteVars
  <2>3. Settled
    BY <1>40 DEF LetGo, Settled, NothingElse, stepVars, countVars, Leaves
  <2> QED
    BY <2>1, <2>2, <2>3
<1>41. CASE AskToClear
  BY <1>a, <1>b, <1>41 DEF AskToClear, siteVars, stepVars, countVars, vars, Settled,
      Fetch, Adopt, Reread, NothingElse
<1>42. CASE ClearSealed
  <2>1. SameMove
    BY <1>42 DEF SameMove, ClearSealed, Cleared, NoLease, TypeOK, Lease, Move, NoMove
  <2>2. SameSession
    BY <1>42, <1>b DEF ClearSealed, Leaves, siteVars
  <2>3. Settled
    BY <1>42 DEF ClearSealed, Settled, NothingElse, stepVars, countVars, Leaves
  <2> QED
    BY <2>1, <2>2, <2>3
<1>43. CASE SettleOrphan
  <2>1. SameMove
    BY <1>43 DEF SameMove, SettleOrphan, Cleared, NoLease, TypeOK, Lease, Move, NoMove
  <2>2. SameSession
    BY <1>43, <1>b DEF SettleOrphan, Leaves, siteVars
  <2>3. Settled
    BY <1>43 DEF SettleOrphan, Settled, NothingElse, stepVars, countVars, Leaves
  <2> QED
    BY <2>1, <2>2, <2>3
<1>44. CASE CopySteps
  BY <1>a, <1>b, <1>44 DEF CopySteps, Fetch, Adopt, Reread, siteVars, stepVars,
      countVars, vars, Settled, NothingElse
<1>45. CASE Crash
  BY <1>a, <1>b, <1>45 DEF Crash, siteVars, stepVars, countVars, vars, Settled, Fetch,
      Adopt, Reread, NothingElse
<1>46. CASE UNCHANGED vars
  BY <1>a, <1>b, <1>46 DEF vars, siteVars, stepVars, countVars, Settled, Fetch, Adopt,
      Reread, NothingElse
<1>47. CASE MoveSteps
  BY <1>47, <1>1, <1>2, <1>4, <1>5, <1>3, <1>6, <1>7, <1>8, <1>9, <1>10, <1>11, <1>12
      DEF MoveSteps
<1>48. CASE ImportSteps
  BY <1>48, <1>13, <1>14, <1>15, <1>16, <1>17, <1>18, <1>19, <1>20, <1>21, <1>22, <1>23,
      <1>24, <1>25, <1>26, <1>27 DEF ImportSteps
<1>49. CASE DeviceSteps
  BY <1>49, <1>28, <1>29, <1>30, <1>31, <1>32, <1>33, <1>34, <1>35 DEF DeviceSteps
<1>50. CASE SiteSteps
  BY <1>50, <1>36, <1>37, <1>38, <1>39, <1>40, <1>41, <1>42, <1>43 DEF SiteSteps
<1> QED
  BY <1>47, <1>48, <1>49, <1>50, <1>44, <1>45, <1>46 DEF Next

\* A move that starts has an id of its own.
LEMMA NewMoveKeepsIds ==
  ASSUME TypeOK, Ids, Together,
         nextId' = nextId + 1, landing' = landing, sealing' = sealing, session' = session,
         lease'.move.kind # "none" => lease'.move.id = nextId /\ lease'.move.import = 0
  PROVE  Ids' /\ Together'
<1>0. nextId \in Nat /\ \A i \in Given : i \in Given' /\ i # nextId
  BY DEF Given, TypeOK
<1>1. Ids'
  <2>1. nextId' >= 1 /\ nextId \in Given' /\ 0 < nextId'
    BY <1>0 DEF Ids, Given
  <2>2. landing' \subseteq Given' /\ sealing' \subseteq Given'
    BY <1>0 DEF Ids
  <2>3. session'.kind # "none" => session'.id \in Given'
    BY <1>0 DEF Ids
  <2> QED
    BY <2>1, <2>2, <2>3 DEF Ids
<1>2. session.kind # "none" => session.id # nextId
  BY <1>0 DEF Ids
<1>3. nextId \notin sealing
  BY <1>0 DEF Ids
<1> QED
  BY <1>1, <1>2, <1>3 DEF Together

\* A session that is proposed has an id of its own.
LEMMA NewSessionKeepsIds ==
  ASSUME TypeOK, Ids, Together, NEW d \in Devices, NEW kind \in SessionKinds \ {"none"},
         NEW lineage \in Nat \ {0}, NEW epoch \in Nat \ {0},
         NEW phase \in SessionPhases \ {"none"},
         session' = NewSession(kind, d, lineage, epoch, phase),
         nextId' = nextId + 1, landing' = landing, sealing' = sealing,
         \/ SameMove /\ lease'.move.import = lease.move.import
         \/ /\ lease'.move.kind = lease.move.kind /\ lease'.move.id = lease.move.id
            /\ lease'.move.device = lease.move.device /\ lease'.move.import = nextId
         \/ /\ lease'.move.kind = "Merge" /\ kind = "merge" /\ lease'.move.device = d
            /\ lease'.move.id = nextId /\ lease'.move.import = 0
         \/ /\ lease'.move.kind = "Recover" /\ kind = "recover" /\ lease'.move.device = d
            /\ lease'.move.id = nextId /\ lease'.move.import = nextId
  PROVE  Ids' /\ Together'
<1>1. session'.kind = kind /\ session'.id = nextId /\ session'.device = d
      /\ session'.lineage = lineage /\ session'.epoch = epoch /\ session'.phase = phase
  BY DEF NewSession
<1>2. nextId \notin landing /\ nextId \notin sealing /\ nextId \in Nat /\ nextId >= 1
  BY DEF Ids, Given, TypeOK
<1>0. nextId \in Nat /\ \A i \in Given : i \in Given'
  BY DEF Given, TypeOK
<1>3. Ids'
  <2>1. nextId' >= 1 /\ nextId \in Given'
    BY <1>0, <1>2 DEF Given
  <2>2. landing' \subseteq Given' /\ sealing' \subseteq Given'
    BY <1>0 DEF Ids
  <2>3. lease'.move.kind # "none" => lease'.move.id \in Given' /\ lease'.move.import < nextId'
    <3>0. lease.move.import \in Nat /\ (lease.move.kind # "none" => lease.move.import < nextId)
      BY DEF TypeOK, Lease, Move, Ids
    <3>1. lease.move.kind # "none" => lease.move.id \in Given'
      BY <1>0 DEF Ids
    <3> QED
      BY <1>0, <1>2, <2>1, <3>0, <3>1 DEF SameMove
  <2> QED
    BY <1>1, <2>1, <2>2, <2>3 DEF Ids
<1>4. Together'
  BY <1>1, <1>2 DEF Ids, Given, SameMove, Together
<1> QED
  BY <1>3, <1>4

\* The moves that start have new ids.
LEMMA StartKeepsIds ==
  ASSUME TypeOK, Ids, Together,
         \/ \E d \in Devices, kind \in {"ToDevice", "MergeAsked"}, by \in {"owner", "device"} :
              StartMove(d, kind, by)
         \/ \E d \in Devices, by \in {"owner", "device"} : StartBack(d, by)
  PROVE  Ids' /\ Together'
<1>1. ASSUME NEW d \in Devices, NEW kind, NEW by, StartMove(d, kind, by)
      PROVE  Ids' /\ Together'
  <2>1. lease'.move.id = nextId /\ lease'.move.import = 0
    <3>1. \A phase, agreed :
            LET move == [NewMove(kind, nextId, d, phase, "live") EXCEPT !.agreed = agreed]
            IN  move.id = nextId /\ move.import = 0
      BY DEF NewMove, NoMove
    <3>2. PICK agreed \in BOOLEAN :
            \/ Becomes("live", lease.holder, lease.lineage, lease.epoch,
                 [NewMove(kind, nextId, d, Proposed, "live") EXCEPT !.agreed = agreed])
            \/ Becomes("frozen", lease.holder, lease.lineage, lease.epoch,
                 [NewMove(kind, nextId, d, Frozen, "live") EXCEPT !.agreed = agreed])
      BY <1>1, StartMoveRow
    <3>3. \/ lease'.move = [NewMove(kind, nextId, d, Proposed, "live") EXCEPT !.agreed = agreed]
          \/ lease'.move = [NewMove(kind, nextId, d, Frozen, "live") EXCEPT !.agreed = agreed]
      BY <3>2 DEF Becomes
    <3> QED
      BY <3>1, <3>3
  <2> QED
    BY <1>1, <2>1, NewMoveKeepsIds DEF StartMove, NewId, stepVars
<1>2. ASSUME NEW d \in Devices, NEW by, StartBack(d, by)
      PROVE  Ids' /\ Together'
  <2>1. lease'.move.id = nextId /\ lease'.move.import = 0
    <3>1. \A phase : LET move == NewMove("Back", nextId, d, phase, "live")
                     IN  move.id = nextId /\ move.import = 0
      BY DEF NewMove, NoMove
    <3> QED
      BY <1>2, <3>1, StartBackRow DEF Becomes
  <2> QED
    BY <1>2, <2>1, NewMoveKeepsIds DEF StartBack, NewId, stepVars
<1> QED
  BY <1>1, <1>2

\* A device that has her knows her lineage and her epoch.
LEMMA HeldOfHer ==
  ASSUME TypeOK, Born, NEW d \in Devices, Holds(d)
  PROVE  dev[d].lineage \in Nat \ {0} /\ dev[d].epoch \in Nat \ {0}
BY DEF TypeOK, Her, Born, Holds

\* So have the sessions that are proposed or reported.
LEMMA ProposeKeepsIds ==
  ASSUME TypeOK, Row, Ids, Together, Born,
         \E d \in Devices : \/ ProposeImport(d) \/ ProposeMerge(d) \/ ProposeReclaim(d)
                           \/ ReportFrozen(d)
  PROVE  Ids' /\ Together'
<1>1. ASSUME NEW d \in Devices, ProposeImport(d)
      PROVE  Ids' /\ Together'
  <2>1. SameMove /\ lease'.move.import = lease.move.import
    BY <1>1 DEF ProposeImport, SameMove
  <2> QED
    BY <1>1, <2>1, HeldOfHer, NewSessionKeepsIds
      DEF ProposeImport, NewId, stepVars, SessionKinds, SessionPhases
<1>2. ASSUME NEW d \in Devices, ProposeMerge(d)
      PROVE  Ids' /\ Together'
  <2>1. /\ lease'.move.kind = "Merge" /\ lease'.move.device = d
        /\ lease'.move.id = nextId /\ lease'.move.import = 0
    BY <1>2, ProposeMergeRow DEF Becomes, NewMove, NoMove
  <2> QED
    BY <1>2, <2>1, HeldOfHer, NewSessionKeepsIds
      DEF ProposeMerge, NewId, stepVars, SessionKinds, SessionPhases
<1>3. ASSUME NEW d \in Devices, ProposeReclaim(d)
      PROVE  Ids' /\ Together'
  <2>1. /\ lease'.move.kind = "Recover" /\ lease'.move.device = d
        /\ lease'.move.id = nextId /\ lease'.move.import = nextId
    BY <1>3, ProposeReclaimRow DEF Becomes, NewMove, NoMove
  <2>2. lease.lineage \in Nat \ {0} /\ lease.epoch \in Nat \ {0}
    <3>1. lease.state \in {"live", "vacant"}
      BY <1>3, ProposeReclaimRow
    <3> QED
      BY <3>1 DEF Row, RowOfState, TypeOK, Lease
  <2> QED
    BY <1>3, <2>1, <2>2, NewSessionKeepsIds
      DEF ProposeReclaim, NewId, stepVars, SessionKinds, SessionPhases
<1>4. ASSUME NEW d \in Devices, ReportFrozen(d)
      PROVE  Ids' /\ Together'
  <2>1. /\ lease'.move.kind = lease.move.kind /\ lease'.move.id = lease.move.id
        /\ lease'.move.device = lease.move.device /\ lease'.move.import = nextId
    BY <1>4 DEF ReportFrozen, TypeOK, Lease, Move
  <2>2. lease.lineage \in Nat \ {0} /\ dev[d].epoch \in Nat \ {0}
    BY <1>4, HeldOfHer DEF ReportFrozen
  <2> QED
    BY <1>4, <2>1, <2>2, NewSessionKeepsIds
      DEF ReportFrozen, NewId, stepVars, SessionKinds, SessionPhases
<1> QED
  BY <1>1, <1>2, <1>3, <1>4

\* Confirming and checking a commit keep ids apart.
LEMMA ConfirmKeepsIds ==
  ASSUME TypeOK, Row, Ids, Together,
         \/ Confirm \/ ConfirmImport
         \/ \E d \in Devices : CheckCommit(d)
  PROVE  Ids' /\ Together'
<1>1. CASE Confirm
  <2>1. lease.move.kind # "none"
    BY <1>1 DEF Confirm, Row, RowOfMove, NoMove, Proposed
  <2>2. /\ lease'.move.kind = lease.move.kind /\ lease'.move.id = lease.move.id
        /\ lease'.move.device = lease.move.device /\ lease'.move.import = lease.move.import
    BY <1>1 DEF Confirm, TypeOK, Lease, Move
  <2>3. /\ UNCHANGED <<session, landing, nextId>>
        /\ \/ sealing' = sealing
           \/ sealing' = sealing \cup {lease.move.id} /\ lease.move.kind = "ToDevice"
    BY <1>1 DEF Confirm
  <2> QED
    BY <2>1, <2>2, <2>3 DEF Ids, Given, Together
<1>2. CASE ConfirmImport
  <2>1. /\ lease'.move.kind = "Arrival" /\ lease'.move.id = session.id
        /\ lease'.move.device = session.device /\ lease'.move.import = 0
    BY <1>2, ConfirmImportRow DEF Becomes, NewMove, NoMove
  <2>2. /\ UNCHANGED <<landing, sealing, nextId>>
        /\ session.kind = "import" /\ session.phase = "proposed"
        /\ session' = [session EXCEPT !.phase = "confirmed"]
    BY <1>2 DEF ConfirmImport, stepVars
  <2>3. session.id \notin sealing
    BY <2>2 DEF Together
  <2> QED
    BY <2>1, <2>2, <2>3 DEF Ids, Given, Together, TypeOK, Session
<1>3. ASSUME NEW d \in Devices, CheckCommit(d)
      PROVE  Ids' /\ Together'
  <2>1. /\ UNCHANGED <<lease, session, sealing, nextId>>
        /\ landing' = landing \cup {session.id}
        /\ session.kind # "merge" /\ session.phase = "transferring"
    BY <1>3 DEF CheckCommit
  <2>2. session.kind # "none"
    BY <2>1 DEF Ids, NoSession
  <2> QED
    BY <2>1, <2>2 DEF Ids, Given, Together
<1> QED
  BY <1>1, <1>2, <1>3

\* Every step keeps ids apart.
LEMMA IdsKept ==
  ASSUME TypeOK, Row, Ids, Together, Born, Next \/ UNCHANGED vars
  PROVE  Ids' /\ Together'
<1>1. CASE SameMove /\ SameSession /\ Settled
  BY <1>1, SameKeepsIds
<1>2. CASE ~(SameMove /\ SameSession /\ Settled)
  BY <1>2, MostStepsSame, StartKeepsIds, ProposeKeepsIds, ConfirmKeepsIds
<1> QED
  BY <1>1, <1>2

(***************************************************************************)
(* Lineages.                                                               *)
(***************************************************************************)
LEMMA GivenBackLineage ==
  ASSUME MayGiveBack
  PROVE  lease'.lineage \in {lease.lineage, 0}
BY DEF MayGiveBack, GivenBack, NoLease

\* Where the row's lineage comes from.
LEMMA LeaseLineage ==
  ASSUME TypeOK, Row, Ids, Together, Next \/ UNCHANGED vars
  PROVE  \/ lease'.lineage \in {lease.lineage, session.lineage, 0}
         \/ births' = births + 1 /\ lease'.lineage = births'
<1>0. lease' = lease => lease'.lineage = lease.lineage
  OBVIOUS
<1>1. CASE \E d \in Devices, kind \in {"ToDevice", "MergeAsked"}, by \in {"owner", "device"} :
         StartMove(d, kind, by)
  <2> PICK d \in Devices, kind \in {"ToDevice", "MergeAsked"}, by \in {"owner", "device"} :
             StartMove(d, kind, by)
    BY <1>1
  <2> QED
    BY StartMoveRow DEF Becomes
<1>2. CASE \E d \in Devices, by \in {"owner", "device"} : StartBack(d, by)
  BY <1>2, StartBackRow DEF Becomes
<1>3. CASE \E d \in Devices : Agree(d)
  BY <1>3 DEF Agree, NothingElse, TypeOK, Lease, Move, NoLease, States
<1>4. CASE Confirm
  BY <1>4 DEF Confirm, NothingElse, TypeOK, Lease, Move, NoLease, States
<1>5. CASE CancelByOwner
  BY <1>5, CancelRow, GivenBackLineage DEF CancelByOwner
<1>6. CASE \E d \in Devices : CancelByDevice(d)
  BY <1>6, CancelRow, GivenBackLineage DEF CancelByDevice
<1>7. CASE \E id \in sealing : Sealed(id)
  BY <1>7 DEF Sealed, NothingElse, TypeOK, Lease, Move, NoLease, States
<1>8. CASE \E id \in sealing : SealFails(id)
  BY <1>8, SealFailsRow, GivenBackLineage
<1>9. CASE \E d \in Devices : Piece(d)
  BY <1>9 DEF Piece, ToThisDevice, NothingElse, TypeOK, Lease, Move, NoLease, States
<1>10. CASE \E d \in Devices : ApplyOnDevice(d)
  BY <1>10 DEF ApplyOnDevice, ToThisDevice, NothingElse, TypeOK, Lease, Move, NoLease,
      States
<1>11. CASE \E d \in Devices : CommitToDevice(d)
  BY <1>11 DEF CommitToDevice, ToThisDevice, NothingElse, TypeOK, Lease, Move, NoLease,
      States
<1>12. CASE \E d \in Devices : ProposeMerge(d)
  BY <1>12, ProposeMergeRow DEF Becomes
<1>13. CASE \E d \in Devices : ProposeReclaim(d)
  BY <1>13, ProposeReclaimRow DEF Becomes
<1>14. CASE \E d \in Devices : ReportFrozen(d)
  BY <1>14 DEF ReportFrozen, MakesRoom, Holds, NewSession, NothingElse, TypeOK, Lease,
      Move, NoLease, States
<1>15. CASE ConfirmImport
  BY <1>15, ConfirmImportRow DEF Becomes
<1>16. CASE ConfirmReclaim
  BY <1>16 DEF ConfirmReclaim, NothingElse, TypeOK, Lease, Move, NoLease, States
<1>17. CASE ConfirmMerge
  BY <1>17 DEF ConfirmMerge, NothingElse, TypeOK, Lease, Move, NoLease, States
<1>18. CASE \E d \in Devices : TakePage(d)
  BY <1>18, TakePageRow DEF Becomes
<1>19. CASE CancelImportByOwner
  BY <1>19, CancelImportRow, GivenBackLineage DEF CancelImportByOwner
<1>20. CASE \E d \in Devices : CancelImportByDevice(d)
  BY <1>20, CancelImportRow, GivenBackLineage DEF CancelImportByDevice
<1>21. CASE \E id \in landing : Land(id)
  BY <1>21, LandRow DEF Becomes
<1>22. CASE \E d \in Devices, request \in {1, 2} : HoldForMerge(d, request)
  BY <1>22 DEF HoldForMerge, NothingElse, TypeOK, Lease, Move, NoLease, States
<1>23. CASE \E m \in merging : MergeIn(m[1], m[2])
  BY <1>23, MergeInRow DEF Becomes
<1>24. CASE \E m \in merging : MergeFails(m[1], m[2])
  BY <1>24, MergeFailsRow DEF Becomes
<1>25. CASE \E d \in Devices : GoneArrival(d)
  BY <1>25, GoneArrivalRow DEF NoLease
<1>26. CASE \E d \in Devices : GoneHolder(d)
  BY <1>26, GoneHolderRow DEF Becomes
<1>27. CASE \E d \in Devices : GoneMoves(d)
  BY <1>27, GoneMovesRow, GivenBackLineage
<1>28. CASE Birth
  BY <1>28 DEF Birth, NothingElse, TypeOK, Lease, Move, NoLease, States
<1>29. CASE DeletePersona
  BY <1>29 DEF DeletePersona, Cleared, NothingElse, TypeOK, Lease, Move, NoLease, States
<1>30. CASE MoveOut
  BY <1>30 DEF MoveOut, NothingElse, TypeOK, Lease, Move, NoLease, States
<1>31. CASE UndoMoveOut
  BY <1>31 DEF UndoMoveOut, NothingElse, TypeOK, Lease, Move, NoLease, States
<1>32. CASE LetGo
  BY <1>32 DEF LetGo, NothingElse, TypeOK, Lease, Move, NoLease, States
<1>33. CASE ClearSealed
  BY <1>33 DEF ClearSealed, Cleared, NothingElse, TypeOK, Lease, Move, NoLease, States
<1>34. CASE SettleOrphan
  BY <1>34 DEF SettleOrphan, NothingElse, TypeOK, Lease, Move, NoLease, States
<1> QED
  BY <1>0, <1>1, <1>2, <1>3, <1>4, <1>5, <1>6, <1>7, <1>8, <1>9, <1>10, <1>11, <1>12,
      <1>13, <1>14, <1>15, <1>16, <1>17, <1>18, <1>19, <1>20, <1>21, <1>22, <1>23,
      <1>24, <1>25, <1>26, <1>27, <1>28, <1>29, <1>30, <1>31, <1>32, <1>33, <1>34,
      RowSteps

\* And the session's.
LEMMA SessionLineage ==
  ASSUME TypeOK, Row, Ids, Together, Next \/ UNCHANGED vars
  PROVE  \/ session'.lineage \in {session.lineage, lease.lineage, 0}
         \/ \E d \in Devices : session'.lineage = dev[d].lineage
<1>0. session' = session => session'.lineage = session.lineage
  OBVIOUS
<1>1. CASE CancelByOwner
  BY <1>1 DEF CancelByOwner, Cancel, CancelledLease, CancelledSession, CalledOff,
      Restored, Dropped, IsImport, TypeOK, Session, NoSession
<1>2. CASE \E d \in Devices : CancelByDevice(d)
  BY <1>2 DEF CancelByDevice, Cancel, CancelledLease, CancelledSession, CalledOff,
      Restored, Dropped, IsImport, TypeOK, Session, NoSession
<1>3. CASE \E d \in Devices : ProposeImport(d)
  BY <1>3 DEF ProposeImport, MakesRoom, NotEmpty, Holds, NewSession, TypeOK, Session,
      NoSession, Dropped
<1>4. CASE \E d \in Devices : ProposeMerge(d)
  BY <1>4 DEF ProposeMerge, MakesRoom, Holds, NewSession, NewMove, TypeOK, Session,
      NoSession, Dropped
<1>5. CASE \E d \in Devices : ProposeReclaim(d)
  BY <1>5 DEF ProposeReclaim, MakesRoom, NewSession, NewMove, TypeOK, Session,
      NoSession, Dropped
<1>6. CASE \E d \in Devices : ReportFrozen(d)
  BY <1>6 DEF ReportFrozen, MakesRoom, Holds, NewSession, TypeOK, Session, NoSession,
      Dropped
<1>7. CASE ConfirmImport
  BY <1>7 DEF ConfirmImport, Arriving, NotEmpty, NewMove, TypeOK, Session, NoSession,
      Dropped
<1>8. CASE ConfirmReclaim
  BY <1>8 DEF ConfirmReclaim, TypeOK, Session, NoSession, Dropped
<1>9. CASE ConfirmMerge
  BY <1>9 DEF ConfirmMerge, TypeOK, Session, NoSession, Dropped
<1>10. CASE \E d \in Devices : TakePage(d)
  BY <1>10 DEF TakePage, Carries, TypeOK, Session, NoSession, Dropped
<1>11. CASE CancelImportByOwner
  BY <1>11 DEF CancelImportByOwner, CancelImport, CalledOff, Restored, TypeOK, Session,
      NoSession, Dropped
<1>12. CASE \E d \in Devices : CancelImportByDevice(d)
  BY <1>12 DEF CancelImportByDevice, CancelImport, CalledOff, Restored, TypeOK, Session,
      NoSession, Dropped
<1>13. CASE \E id \in landing : Land(id)
  BY <1>13 DEF Land, Landed, Higher, Receiving, TypeOK, Session, NoSession, Dropped
<1>14. CASE \E m \in merging : MergeIn(m[1], m[2])
  BY <1>14 DEF MergeIn, Receiving, TypeOK, Session, NoSession, Dropped
<1>15. CASE \E d \in Devices : GoneSessions(d)
  BY <1>15 DEF GoneSessions, Leaves, TypeOK, Session, NoSession, Dropped
<1> QED
  BY <1>0, <1>1, <1>2, <1>3, <1>4, <1>5, <1>6, <1>7, <1>8, <1>9, <1>10, <1>11, <1>12,
      <1>13, <1>14, <1>15, SessionSteps

\* What a device does on hearing of the row keeps her lineage, or drops her.
LEMMA HeardOfHer ==
  ASSUME TypeOK, Row, Born, NEW d \in Devices, dev[d].at # "none"
  PROVE  /\ Heard(d).lineage \in {dev[d].lineage, 0}
         /\ Heard(d).at # "none" => Heard(d).lineage >= 1
         /\ Heard(d).at \in {"living", "still"} => Heard(d).epoch >= 1
<1>1. dev[d] \in Her /\ dev[d].lineage >= 1
  BY DEF TypeOK, Born
<1>2. CASE dev[d].at = "apart" /\ lease.done = dev[d].move /\ lease.holder = d /\ lease.state # "none"
  <2>1. lease.epoch >= 1
    BY <1>2 DEF Row, RowOfState
  <2>2. Heard(d) = [dev[d] EXCEPT !.at = "living", !.epoch = lease.epoch, !.move = 0]
    BY <1>2 DEF Heard
  <2> QED
    BY <1>1, <2>1, <2>2 DEF Her
<1>3. CASE dev[d].at = "apart" /\ ~(lease.done = dev[d].move /\ lease.holder = d /\ lease.state # "none")
  <2>1. Heard(d) = dev[d] \/ Heard(d) = NoHer
    BY <1>3 DEF Heard
  <2> QED
    BY <1>1, <1>3, <2>1 DEF NoHer
<1>4. CASE dev[d].at # "apart"
  <2>1. dev[d].epoch >= 1
    BY <1>1, <1>4 DEF Born, Her
  <2>2. \/ Heard(d) = NoHer
        \/ Heard(d) = [dev[d] EXCEPT !.at = "still"]
        \/ Heard(d) = [dev[d] EXCEPT !.at = "living"]
    BY <1>4 DEF Heard
  <2> QED
    BY <1>1, <2>1, <2>2 DEF Her, NoHer
<1> QED
  BY <1>2, <1>3, <1>4

\* And what the devices hold.
LEMMA DevicesBorn ==
  ASSUME TypeOK, Row, Ids, Together, Born, Next \/ UNCHANGED vars
  PROVE  /\ births' \in {births, births + 1}
         /\ \A d \in Devices :
              /\ dev'[d].lineage <= births'
              /\ dev'[d].at # "none" => dev'[d].lineage >= 1
              /\ dev'[d].at \in {"living", "still"} => dev'[d].epoch >= 1
<1>0. dev' = dev /\ births' = births =>
         /\ births' \in {births, births + 1}
         /\ \A d \in Devices :
              /\ dev'[d].lineage <= births'
              /\ dev'[d].at # "none" => dev'[d].lineage >= 1
              /\ dev'[d].at \in {"living", "still"} => dev'[d].epoch >= 1
  BY DEF Born
<1>1. CASE \E d \in Devices : DeviceBirth(d)
  <2> PICK d \in Devices : DeviceBirth(d)
    BY <1>1
  <2>1. /\ births' = births + 1
        /\ dev' = [dev EXCEPT ![d] = [NoHer EXCEPT !.at = "living", !.lineage = births + 1,
                                                   !.epoch = 1]]
    BY DEF DeviceBirth
  <2>2. births \in Nat /\ \A e \in Devices : dev[e].lineage \in Nat
    BY DEF TypeOK, Her
  <2>3. \A e \in Devices : dev'[e] = IF e = d THEN [NoHer EXCEPT !.at = "living",
                             !.lineage = births + 1, !.epoch = 1] ELSE dev[e]
    BY <2>1 DEF TypeOK
  <2>4. dev'[d].lineage = births + 1 /\ dev'[d].epoch = 1
    BY <2>3 DEF NoHer
  <2> QED
    BY <2>1, <2>2, <2>3, <2>4 DEF Born
<1>2. CASE \E d \in Devices : DeviceKeeps(d)
  <2> PICK d \in Devices : DeviceKeeps(d)
    BY <1>2
  <2>1. lease.lineage >= 1 /\ lease.lineage <= births
    BY DEF DeviceKeeps, ToThisDevice, Row, RowOfState, NoLease, NoMove, Born, Transferring
  <2>2. /\ dev' = [dev EXCEPT ![d] = [at |-> "apart", lineage |-> lease.lineage, epoch |-> 0,
                                      move |-> lease.move.id]]
        /\ births' = births
    BY DEF DeviceKeeps, countVars
  <2> QED
    BY <2>1, <2>2 DEF Born, TypeOK
<1>3. CASE \E d \in Devices : DeviceHears(d)
  <2> PICK d \in Devices : DeviceHears(d)
    BY <1>3
  <2>1. dev' = [dev EXCEPT ![d] = Heard(d)] /\ births' = births
    BY DEF DeviceHears, countVars
  <2>2. dev[d].lineage <= births /\ births \in Nat
    BY DEF Born, TypeOK
  <2> QED
    BY <2>1, <2>2, HeardOfHer DEF Born, DeviceHears, TypeOK
<1>4. CASE Birth
  <2>1. births' = births + 1 /\ dev' = dev
    BY <1>4 DEF Birth, deviceVars
  <2>2. births \in Nat /\ \A e \in Devices : dev[e].lineage \in Nat
    BY DEF TypeOK, Her
  <2> QED
    BY <2>1, <2>2 DEF Born
<1> QED
  BY <1>0, <1>1, <1>2, <1>3, <1>4, HeldSteps

\* Every step keeps lineages born.
LEMMA BornKept ==
  ASSUME TypeOK, Row, Ids, Together, Born, Next \/ UNCHANGED vars
  PROVE  Born'
<1>1. /\ births \in Nat /\ births' \in {births, births + 1}
      /\ lease.lineage \in Nat /\ session.lineage \in Nat
      /\ \A d \in Devices : dev[d].lineage \in Nat /\ dev[d].lineage <= births
  BY DevicesBorn DEF TypeOK, Lease, Session, Her, Born
<1>2. lease'.lineage <= births'
  BY <1>1, LeaseLineage DEF Born
<1>3. session'.lineage <= births'
  BY <1>1, SessionLineage DEF Born
<1> QED
  BY <1>2, <1>3, DevicesBorn DEF Born

(***************************************************************************)
(* Where an import lands.                                                  *)
(***************************************************************************)
\* The move that carries a session other than a merge.
LEMMA CarriedBy ==
  ASSUME TypeOK, Row, Ids, Together, Receiving, session.kind # "merge", Carries(session.id)
  PROVE  /\ lease.move.kind \in {"Back", "Arrival", "Recover"}
         /\ lease.move.kind = "Recover" => lease.move.device = session.device
<1>1. session.kind # "none" /\ session.id # 0
  BY DEF Receiving, Ids, Given, NoSession
<1> QED
  BY <1>1 DEF Carries, Together, Row, RowOfMove, TypeOK, Lease, Move, Kinds

\* A step that keeps her lineage and what is known of her home, and does not
\* thaw her, leaves every landing safe.
LEMMA SameLandsSafely ==
  ASSUME LandsSafely, session' = session, landing' \subseteq landing,
         lease'.lineage = lease.lineage,
         HomeUnknown => HomeUnknown',
         lease.state = "frozen" /\ Carries(session.id) =>
           HomeUnknown' \/ (lease'.state = "frozen" /\ Carries(session.id)')
  PROVE  LandsSafely'
BY DEF LandsSafely, Receiving

\* Neither do the sessions that are not receiving, or are gone.
LEMMA NotReceivingLandsSafely ==
  ASSUME session'.phase \notin {"confirmed", "transferring"}
  PROVE  LandsSafely'
BY DEF LandsSafely, Receiving

\* Where she is away or unknown, imports land safely.
LEMMA AwayLandsSafely ==
  ASSUME TypeOK, Ids, session' = session \/ session' = NoSession,
         HomeUnknown' \/ lease' = NoLease
  PROVE  LandsSafely'
<1>1. session.kind # "none" => session.lineage >= 1
  BY DEF Ids
<1>2. session.kind = "none" => session.phase = "none"
  BY DEF Ids, NoSession
<1> QED
  BY <1>1, <1>2 DEF LandsSafely, Receiving, NoLease, NoSession

\* The steps that touch the row, the session or the landings.
LEMMA ArrivalSteps ==
  ASSUME Next \/ UNCHANGED vars
  PROVE  \/ lease' = lease /\ session' = session /\ landing' \subseteq landing
         \/ \E d \in Devices, kind \in {"ToDevice", "MergeAsked"}, by \in {"owner", "device"} :
              StartMove(d, kind, by)
         \/ \E d \in Devices, by \in {"owner", "device"} : StartBack(d, by)
         \/ \E d \in Devices : Agree(d)
         \/ Confirm
         \/ CancelByOwner
         \/ \E d \in Devices : CancelByDevice(d)
         \/ \E id \in sealing : Sealed(id)
         \/ \E id \in sealing : SealFails(id)
         \/ \E d \in Devices : Piece(d)
         \/ \E d \in Devices : ApplyOnDevice(d)
         \/ \E d \in Devices : CommitToDevice(d)
         \/ \E d \in Devices : ProposeImport(d)
         \/ \E d \in Devices : ProposeMerge(d)
         \/ \E d \in Devices : ProposeReclaim(d)
         \/ \E d \in Devices : ReportFrozen(d)
         \/ ConfirmImport
         \/ ConfirmReclaim
         \/ ConfirmMerge
         \/ \E d \in Devices : TakePage(d)
         \/ \E d \in Devices : CheckCommit(d)
         \/ CancelImportByOwner
         \/ \E d \in Devices : CancelImportByDevice(d)
         \/ \E id \in landing : Land(id)
         \/ \E d \in Devices, request \in {1, 2} : HoldForMerge(d, request)
         \/ \E m \in merging : MergeIn(m[1], m[2])
         \/ \E m \in merging : MergeFails(m[1], m[2])
         \/ \E d \in Devices : GoneArrival(d)
         \/ \E d \in Devices : GoneSessions(d)
         \/ \E d \in Devices : GoneHolder(d)
         \/ \E d \in Devices : GoneMoves(d)
         \/ Birth
         \/ DeletePersona
         \/ MoveOut
         \/ UndoMoveOut
         \/ LetGo
         \/ ClearSealed
         \/ SettleOrphan
<1>1. CASE MoveSteps
  BY <1>1 DEF MoveSteps, TakeBackup, NothingElse, Leaves, siteVars, stepVars
<1>2. CASE ImportSteps
  BY <1>2 DEF ImportSteps, NothingElse, Leaves, siteVars, stepVars
<1>3. CASE DeviceSteps
  BY <1>3 DEF DeviceSteps, Revoke, DeviceBirth, DeviceKeeps, DeviceHears, NothingElse,
      Leaves, siteVars, stepVars
<1>4. CASE SiteSteps
  BY <1>4 DEF SiteSteps, AskToClear, NothingElse, Leaves, siteVars, stepVars
<1>5. CASE CopySteps
  BY <1>5 DEF CopySteps, Fetch, Adopt, Reread, NothingElse, Leaves, siteVars, stepVars
<1>6. CASE Crash
  BY <1>6 DEF Crash, NothingElse, Leaves, siteVars, stepVars
<1>7. CASE UNCHANGED vars
  BY <1>7 DEF vars, siteVars, stepVars
<1> QED
  BY <1>1, <1>2, <1>3, <1>4, <1>5, <1>6, <1>7 DEF Next

\* A move called off does not thaw her under an import that lands.
LEMMA CancelLandsSafely ==
  ASSUME TypeOK, Row, Ids, Together, LandsSafely, Cancel
  PROVE  LandsSafely'
<1>1. lease.move.kind # "none" /\ landing' = landing
  BY DEF Cancel, stepVars
<1>2. session' = session \/ session' = NoSession
  BY DEF Cancel, CancelledSession, Dropped
<1>3. CASE session' = NoSession
  BY <1>3, NotReceivingLandsSafely DEF NoSession
<1>4. CASE session' = session /\ ~Carries(session.id)
  <2>1. CASE lease' = NoLease
    BY <1>4, <2>1, AwayLandsSafely
  <2>2. CASE lease' = lease
    BY <1>1, <1>4, <2>2, SameLandsSafely DEF HomeUnknown, Carries
  <2>3. CASE GivenBack(lease')
    <3>1. lease'.lineage = lease.lineage
      BY <2>3 DEF GivenBack
    <3>2. HomeUnknown => HomeUnknown'
      BY <1>1, <2>3 DEF GivenBack, HomeUnknown, Row, RowOfState
    <3> QED
      BY <1>1, <1>4, <3>1, <3>2, SameLandsSafely
  <2> QED
    BY <2>1, <2>2, <2>3, CancelRow DEF MayGiveBack
<1>5. CASE session' = session /\ session # NoSession /\ Carries(session.id) /\ ~Receiving
  BY <1>5, NotReceivingLandsSafely DEF Receiving
<1>6. CASE session' = session /\ session # NoSession /\ Carries(session.id) /\ Receiving
  <2>1. CASE session.kind = "merge"
    BY <1>6, <2>1 DEF LandsSafely
  <2>2. CASE session.kind # "merge"
    <3>1. lease.move.kind \in {"Back", "Arrival", "Recover"}
      BY <1>6, <2>2, CarriedBy
    <3>2. session.id # 0
      BY <1>6 DEF Ids, Given
    <3>3. lease.move.kind \in {"Back", "Recover"} => lease.move.import = session.id
      BY <1>6, <3>1 DEF Carries, Row, RowOfMove, Together, Ids
    <3>4. lease.move.kind = "Arrival"
      BY <1>6, <3>1, <3>2, <3>3 DEF Cancel, CancelledSession, IsImport, Dropped, Receiving
    <3>5. lease.holder # Site /\ lease.move.was \in {"none", "vacant"}
      BY <1>1, <3>4, SiteAssumption DEF Row, RowOfMove
    <3>6. lease' = CalledOff(lease.move.id)
      BY <3>4 DEF Cancel, CancelledLease, IsImport
    <3>7. CASE lease.move.was = "none"
      BY <1>1, <1>6, <3>5, <3>6, <3>7, AwayLandsSafely DEF CalledOff
    <3>8. CASE lease.move.was = "vacant"
      <4>1. lease' = Restored
        BY <1>1, <3>6, <3>8 DEF CalledOff
      <4>2. HomeUnknown'
        BY <1>1, <3>8, <4>1, RestoredGivesBack DEF GivenBack, HomeUnknown
      <4> QED
        BY <1>6, <4>2, AwayLandsSafely
    <3> QED
      BY <3>5, <3>7, <3>8
  <2> QED
    BY <2>1, <2>2
<1> QED
  BY <1>2, <1>3, <1>4, <1>5, <1>6

\* Every step keeps where imports land safe.
LEMMA LandsSafelyKept ==
  ASSUME TypeOK, Row, Ids, Together, Born, Leaving, LandsSafely, Next \/ UNCHANGED vars
  PROVE  LandsSafely'
<1>0. lease' = lease /\ session' = session /\ landing' \subseteq landing => LandsSafely'
  BY SameLandsSafely DEF HomeUnknown, Carries
<1>1. CASE \E d \in Devices, kind \in {"ToDevice", "MergeAsked"}, by \in {"owner", "device"} :
         StartMove(d, kind, by)
  <2> PICK d \in Devices, kind \in {"ToDevice", "MergeAsked"}, by \in {"owner", "device"} : StartMove(d, kind, by)
    BY <1>1
  <2>1. session' = session /\ landing' = landing
    BY DEF StartMove, Leaves, NothingElse, stepVars, siteVars
  <2>2. lease'.lineage = lease.lineage /\ (HomeUnknown => HomeUnknown')
    <3>1. lease'.lineage = lease.lineage
      BY StartMoveRow DEF Becomes
    <3>2. ~HomeUnknown
      BY StartMoveRow DEF HomeUnknown, NoMove
    <3> QED
      BY <3>1, <3>2
  <2>3. lease.state = "frozen" /\ Carries(session.id) =>
          HomeUnknown' \/ (lease'.state = "frozen" /\ Carries(session.id)')
    BY <2>1, StartMoveRow DEF Carries, HomeUnknown, Row, RowOfState, RowOfMove, Becomes,
        NewMove, NoMove
  <2> QED
    BY <2>1, <2>2, <2>3, SameLandsSafely
<1>2. CASE \E d \in Devices, by \in {"owner", "device"} : StartBack(d, by)
  <2> PICK d \in Devices, by \in {"owner", "device"} : StartBack(d, by)
    BY <1>2
  <2>1. session' = session /\ landing' = landing
    BY DEF StartBack, Leaves, NothingElse, stepVars, siteVars
  <2>2. lease'.lineage = lease.lineage /\ (HomeUnknown => HomeUnknown')
    <3>1. lease'.lineage = lease.lineage
      BY StartBackRow DEF Becomes
    <3>2. ~HomeUnknown
      BY StartBackRow DEF HomeUnknown, NoMove
    <3> QED
      BY <3>1, <3>2
  <2>3. lease.state = "frozen" /\ Carries(session.id) =>
          HomeUnknown' \/ (lease'.state = "frozen" /\ Carries(session.id)')
    BY <2>1, StartBackRow DEF Carries, HomeUnknown, Row, RowOfState, RowOfMove, Becomes,
        NewMove, NoMove
  <2> QED
    BY <2>1, <2>2, <2>3, SameLandsSafely
<1>3. CASE \E d \in Devices : Agree(d)
  <2> PICK d \in Devices : Agree(d)
    BY <1>3
  <2>1. session' = session /\ landing' = landing
    BY DEF Agree, Leaves, NothingElse, stepVars, siteVars
  <2>2. lease'.lineage = lease.lineage /\ (HomeUnknown => HomeUnknown')
    BY DEF HomeUnknown, Row, RowOfState, RowOfMove, Agree, TypeOK, Lease, Move, NoMove,
        Proposed, Freezes, Frozen, Transferring, Applied
  <2>3. lease.state = "frozen" /\ Carries(session.id) =>
          HomeUnknown' \/ (lease'.state = "frozen" /\ Carries(session.id)')
    BY <2>1 DEF Carries, HomeUnknown, Row, RowOfState, RowOfMove, Agree, TypeOK, Lease,
        Move, NoMove, Proposed, Freezes, Frozen, Transferring, Applied
  <2> QED
    BY <2>1, <2>2, <2>3, SameLandsSafely
<1>4. CASE Confirm
  <2>1. session' = session /\ landing' = landing
    BY <1>4 DEF Confirm, Leaves, NothingElse, stepVars, siteVars
  <2>2. lease'.lineage = lease.lineage /\ (HomeUnknown => HomeUnknown')
    BY <1>4 DEF HomeUnknown, Row, RowOfState, RowOfMove, Confirm, TypeOK, Lease, Move,
        NoMove, Proposed, Freezes, Frozen, Transferring, Applied
  <2>3. lease.state = "frozen" /\ Carries(session.id) =>
          HomeUnknown' \/ (lease'.state = "frozen" /\ Carries(session.id)')
    BY <1>4, <2>1 DEF Carries, HomeUnknown, Row, RowOfState, RowOfMove, Confirm, TypeOK,
        Lease, Move, NoMove, Proposed, Freezes, Frozen, Transferring, Applied
  <2> QED
    BY <2>1, <2>2, <2>3, SameLandsSafely
<1>5. CASE CancelByOwner
  BY <1>5, CancelLandsSafely DEF CancelByOwner
<1>6. CASE \E d \in Devices : CancelByDevice(d)
  BY <1>6, CancelLandsSafely DEF CancelByDevice
<1>7. CASE \E id \in sealing : Sealed(id)
  <2> PICK id \in sealing : Sealed(id)
    BY <1>7
  <2>1. session' = session /\ landing' = landing
    BY DEF Sealed, Leaves, NothingElse, stepVars, siteVars
  <2>2. lease'.lineage = lease.lineage /\ (HomeUnknown => HomeUnknown')
    BY DEF HomeUnknown, Row, RowOfState, RowOfMove, Sealed, TypeOK, Lease, Move, NoMove,
        Proposed, Freezes, Frozen, Transferring, Applied
  <2>3. lease.state = "frozen" /\ Carries(session.id) =>
          HomeUnknown' \/ (lease'.state = "frozen" /\ Carries(session.id)')
    BY <2>1 DEF Carries, HomeUnknown, Row, RowOfState, RowOfMove, Sealed, TypeOK, Lease,
        Move, NoMove, Proposed, Freezes, Frozen, Transferring, Applied
  <2> QED
    BY <2>1, <2>2, <2>3, SameLandsSafely
<1>8. CASE \E id \in sealing : SealFails(id)
  <2> PICK id \in sealing : SealFails(id)
    BY <1>8
  <2>1. session' = session /\ landing' = landing
    BY DEF SealFails, NothingElse, stepVars
  <2>2. CASE lease' = lease
    BY <2>1, <2>2, SameLandsSafely DEF HomeUnknown, Carries
  <2>3. CASE lease' # lease
    <3>1. lease.move.kind = "ToDevice" /\ lease'.lineage = lease.lineage
      BY <2>3, RestoredGivesBack DEF SealFails, GivenBack, Together, Row, RowOfMove, NoMove,
          Ids, Given, TypeOK, Lease
    <3>2. ~HomeUnknown /\ (Receiving /\ session.kind # "merge" => ~Carries(session.id))
      BY <3>1, CarriedBy DEF HomeUnknown, Row, RowOfState
    <3> QED
      BY <2>1, <3>1, <3>2 DEF LandsSafely, Receiving
  <2> QED
    BY <2>2, <2>3
<1>9. CASE \E d \in Devices : Piece(d)
  <2> PICK d \in Devices : Piece(d)
    BY <1>9
  <2>1. session' = session /\ landing' = landing
    BY DEF Piece, Leaves, NothingElse, stepVars, siteVars
  <2>2. lease'.lineage = lease.lineage /\ (HomeUnknown => HomeUnknown')
    BY DEF HomeUnknown, Row, RowOfState, RowOfMove, Piece, TypeOK, Lease, Move, NoMove,
        Proposed, Freezes, Frozen, Transferring, Applied
  <2>3. lease.state = "frozen" /\ Carries(session.id) =>
          HomeUnknown' \/ (lease'.state = "frozen" /\ Carries(session.id)')
    BY <2>1 DEF Carries, HomeUnknown, Row, RowOfState, RowOfMove, Piece, TypeOK, Lease,
        Move, NoMove, Proposed, Freezes, Frozen, Transferring, Applied
  <2> QED
    BY <2>1, <2>2, <2>3, SameLandsSafely
<1>10. CASE \E d \in Devices : ApplyOnDevice(d)
  <2> PICK d \in Devices : ApplyOnDevice(d)
    BY <1>10
  <2>1. session' = session /\ landing' = landing
    BY DEF ApplyOnDevice, Leaves, NothingElse, stepVars, siteVars
  <2>2. lease'.lineage = lease.lineage /\ (HomeUnknown => HomeUnknown')
    BY DEF HomeUnknown, Row, RowOfState, RowOfMove, ApplyOnDevice, TypeOK, Lease, Move,
        NoMove, Proposed, Freezes, Frozen, Transferring, Applied
  <2>3. lease.state = "frozen" /\ Carries(session.id) =>
          HomeUnknown' \/ (lease'.state = "frozen" /\ Carries(session.id)')
    BY <2>1 DEF Carries, HomeUnknown, Row, RowOfState, RowOfMove, ApplyOnDevice, TypeOK,
        Lease, Move, NoMove, Proposed, Freezes, Frozen, Transferring, Applied
  <2> QED
    BY <2>1, <2>2, <2>3, SameLandsSafely
<1>11. CASE \E d \in Devices : CommitToDevice(d)
  <2> PICK d \in Devices : CommitToDevice(d)
    BY <1>11
  <2>1. session' = session /\ landing' = landing
    BY DEF CommitToDevice, NothingElse, stepVars
  <2>2. CASE lease' = lease
    BY <2>1, <2>2, SameLandsSafely DEF HomeUnknown, Carries
  <2>3. CASE lease' # lease
    <3>1. lease.move.kind = "ToDevice" /\ lease'.lineage = lease.lineage
      BY <2>3 DEF CommitToDevice, ToThisDevice, TypeOK, Lease
    <3>2. ~HomeUnknown /\ (Receiving /\ session.kind # "merge" => ~Carries(session.id))
      BY <3>1, CarriedBy DEF HomeUnknown, Row, RowOfState
    <3> QED
      BY <2>1, <3>1, <3>2 DEF LandsSafely, Receiving
  <2> QED
    BY <2>2, <2>3
<1>12. CASE \E d \in Devices : ProposeImport(d)
  BY <1>12, NotReceivingLandsSafely DEF ProposeImport, NewSession
<1>13. CASE \E d \in Devices : ProposeMerge(d)
  BY <1>13, NotReceivingLandsSafely DEF ProposeMerge, NewSession
<1>14. CASE \E d \in Devices : ProposeReclaim(d)
  BY <1>14, NotReceivingLandsSafely DEF ProposeReclaim, NewSession
<1>15. CASE \E d \in Devices : ReportFrozen(d)
  <2>1. session'.kind = "return" /\ session'.id = nextId /\ landing' = landing
    BY <1>15 DEF ReportFrozen, NewSession, stepVars
  <2> QED
    BY <2>1 DEF LandsSafely, Ids, Given, TypeOK
<1>16. CASE ConfirmImport
  <2>1. lease'.state = "frozen" /\ lease'.move.id = session.id /\ lease'.move.kind = "Arrival"
    BY <1>16, ConfirmImportRow DEF Becomes, NewMove, NoMove
  <2>2. session' = [session EXCEPT !.phase = "confirmed"]
    BY <1>16 DEF ConfirmImport
  <2> QED
    BY <2>1, <2>2 DEF LandsSafely, Carries, TypeOK, Session
<1>17. CASE ConfirmReclaim
  <2>1. /\ session' = [session EXCEPT !.phase = "confirmed"] /\ landing' = landing
        /\ session.kind = "recover" /\ session.phase = "proposed"
    BY <1>17 DEF ConfirmReclaim, stepVars
  <2> QED
    BY <2>1 DEF LandsSafely, Together, TypeOK, Session
<1>18. CASE ConfirmMerge
  <2>1. session' = [session EXCEPT !.phase = "confirmed"] /\ session.kind = "merge"
    BY <1>18 DEF ConfirmMerge
  <2> QED
    BY <2>1 DEF LandsSafely, TypeOK, Session
<1>19. CASE \E d \in Devices : TakePage(d)
  <2> PICK d \in Devices : TakePage(d)
    BY <1>19
  <2>1. /\ session' = [session EXCEPT !.phase = "transferring"] /\ landing' = landing
        /\ Receiving
    BY DEF TakePage, stepVars, Receiving
  <2>2. /\ session'.kind = session.kind /\ session'.id = session.id
        /\ session'.lineage = session.lineage
    BY <2>1 DEF TypeOK, Session
  <2>3. CASE lease' = lease
    BY <2>1, <2>2, <2>3 DEF LandsSafely, HomeUnknown, Carries
  <2>4. CASE lease' # lease /\ lease.move.kind = "Merge"
    <3>1. session.kind = "merge"
      BY <2>1, <2>4, CarriedBy, TakePageRow
    <3> QED
      BY <2>2, <3>1 DEF LandsSafely
  <2>5. CASE lease' # lease /\ lease.move.kind # "Merge"
    <3>1. /\ lease'.state = "frozen" /\ lease'.move = [lease.move EXCEPT !.phase = Transferring]
          /\ Carries(session.id)
      BY <2>5, TakePageRow DEF Becomes
    <3>2. lease'.move.kind = lease.move.kind /\ lease'.move.id = lease.move.id
          /\ lease'.move.import = lease.move.import
      BY <3>1 DEF TypeOK, Lease, Move
    <3> QED
      BY <2>2, <3>1, <3>2 DEF LandsSafely, Carries
  <2> QED
    BY <2>3, <2>4, <2>5
<1>20. CASE \E d \in Devices : CheckCommit(d)
  <2> PICK d \in Devices : CheckCommit(d)
    BY <1>20
  <2>1. lease' = lease /\ session' = session /\ session.kind # "merge" /\ Receiving
    BY DEF CheckCommit, Receiving
  <2>2. session.kind \in {"import", "return", "recover"}
    BY <2>1 DEF TypeOK, Session, SessionKinds, Ids, NoSession, Receiving
  <2>3. CASE session.kind = "import"
    BY <2>1, <2>3 DEF LandsSafely, HomeUnknown, Carries, Receiving
  <2>4. CASE session.kind \in {"return", "recover"}
    <3>1. Carries(session.id) /\ Freezes(lease.move.phase)
      BY <2>4 DEF CheckCommit
    <3>2. lease.state = "frozen"
      BY <2>1, <3>1, CarriedBy DEF Row, RowOfMove
    <3> QED
      BY <2>1, <3>1, <3>2 DEF LandsSafely, Carries
  <2> QED
    BY <2>2, <2>3, <2>4
<1>21. CASE CancelImportByOwner
  BY <1>21, NotReceivingLandsSafely DEF CancelImportByOwner, CancelImport, NoSession
<1>22. CASE \E d \in Devices : CancelImportByDevice(d)
  BY <1>22, NotReceivingLandsSafely DEF CancelImportByDevice, CancelImport, NoSession
<1>23. CASE \E id \in landing : Land(id)
  <2> PICK id \in landing : Land(id)
    BY <1>23
  <2>1. landing' \subseteq landing
    BY DEF Land
  <2>2. CASE lease' = lease /\ session' = session
    BY <2>1, <2>2, SameLandsSafely DEF HomeUnknown, Carries
  <2>3. CASE session' = [session EXCEPT !.phase = "committed"]
    BY <2>3, NotReceivingLandsSafely DEF TypeOK, Session
  <2> QED
    BY <2>2, <2>3, LandRow
<1>24. CASE \E d \in Devices, request \in {1, 2} : HoldForMerge(d, request)
  <2> PICK d \in Devices, request \in {1, 2} : HoldForMerge(d, request)
    BY <1>24
  <2>1. session' = session /\ landing' = landing
    BY DEF HoldForMerge, NothingElse, stepVars
  <2>2. CASE lease' = lease
    BY <2>1, <2>2, SameLandsSafely DEF HomeUnknown, Carries
  <2>3. CASE lease' # lease
    <3>1. lease.move.kind = "Merge" /\ lease'.lineage = lease.lineage
      BY <2>3 DEF HoldForMerge, TypeOK, Lease
    <3>2. ~HomeUnknown /\ (Receiving /\ session.kind # "merge" => ~Carries(session.id))
      BY <3>1, CarriedBy DEF HomeUnknown, Row, RowOfState
    <3> QED
      BY <2>1, <3>1, <3>2 DEF LandsSafely, Receiving
  <2> QED
    BY <2>2, <2>3
<1>25. CASE \E m \in merging : MergeIn(m[1], m[2])
  <2>1. session' = [session EXCEPT !.phase = "committed"]
    BY <1>25 DEF MergeIn
  <2> QED
    BY <2>1, NotReceivingLandsSafely DEF TypeOK, Session
<1>26. CASE \E m \in merging : MergeFails(m[1], m[2])
  <2> PICK m \in merging : MergeFails(m[1], m[2])
    BY <1>26
  <2>1. session' = session /\ landing' = landing
    BY DEF MergeFails, NothingElse, stepVars
  <2>2. CASE lease' = lease
    BY <2>1, <2>2, SameLandsSafely DEF HomeUnknown, Carries
  <2>3. CASE lease' # lease
    <3>1. lease.move.kind = "Merge" /\ lease'.lineage = lease.lineage
      BY <2>3, MergeFailsRow DEF Becomes
    <3>2. ~HomeUnknown /\ (Receiving /\ session.kind # "merge" => ~Carries(session.id))
      BY <3>1, CarriedBy DEF HomeUnknown, Row, RowOfState
    <3> QED
      BY <2>1, <3>1, <3>2 DEF LandsSafely, Receiving
  <2> QED
    BY <2>2, <2>3
<1>27. CASE \E d \in Devices : GoneArrival(d)
  <2>1. session' = session /\ landing' = landing /\ (lease' = lease \/ lease' = NoLease)
    BY <1>27 DEF GoneArrival, Leaves, stepVars
  <2>2. CASE lease' = lease
    BY <2>1, <2>2, SameLandsSafely DEF HomeUnknown, Carries
  <2> QED
    BY <2>1, <2>2, AwayLandsSafely
<1>28. CASE \E d \in Devices : GoneSessions(d)
  <2>1. UNCHANGED lease /\ landing' = landing /\ (session' = session \/ session' = NoSession)
    BY <1>28 DEF GoneSessions, Leaves, stepVars
  <2>2. CASE session' = NoSession
    BY <2>2, NotReceivingLandsSafely DEF NoSession
  <2>3. CASE session' = session
    BY <2>1, <2>3 DEF LandsSafely, Receiving, HomeUnknown, Carries
  <2> QED
    BY <2>1, <2>2, <2>3
<1>29. CASE \E d \in Devices : GoneHolder(d)
  <2> PICK d \in Devices : GoneHolder(d)
    BY <1>29
  <2>1. session' = session /\ landing' = landing
    BY DEF GoneHolder, Leaves, stepVars
  <2>2. CASE lease' = lease
    BY <2>1, <2>2, SameLandsSafely DEF HomeUnknown, Carries
  <2>3. CASE lease'.state = "vacant"
    BY <2>1, <2>3, AwayLandsSafely DEF HomeUnknown
  <2> QED
    BY <2>2, <2>3, GoneHolderRow DEF Becomes
<1>30. CASE \E d \in Devices : GoneMoves(d)
  <2> PICK d \in Devices : GoneMoves(d)
    BY <1>30
  <2>1. session' = session /\ landing' = landing /\ leaving[d] = 4
    BY DEF GoneMoves, Leaves, stepVars
  <2>2. CASE lease' = lease
    BY <2>1, <2>2, SameLandsSafely DEF HomeUnknown, Carries
  <2>3. CASE lease' # lease
    <3>1. lease.holder # d /\ lease.move.kind # "none" /\ lease.move.device = d /\ GivenBack(lease')
      BY <2>3, RestoredGivesBack DEF GoneMoves
    <3>2. HomeUnknown => HomeUnknown'
      BY <3>1 DEF GivenBack, HomeUnknown, Row, RowOfState
    <3>3. ASSUME Receiving, session.kind # "merge", Carries(session.id)
          PROVE  session.kind # "import" /\ session.id \notin landing
      <4>1. lease.move.kind = "Recover" /\ session.device = d
        BY <3>1, <3>3, CarriedBy DEF Row, RowOfMove
      <4>2. session.kind # "import"
        BY <3>3, <4>1 DEF Carries, Row, RowOfMove, Together
      <4> QED
        BY <2>1, <3>3, <4>1, <4>2 DEF Leaving, Receiving
    <3> QED
      BY <2>1, <3>1, <3>2, <3>3 DEF LandsSafely, Receiving, GivenBack
  <2> QED
    BY <2>2, <2>3
<1>31. CASE Birth
  <2>1. session' = session /\ landing' = landing
    BY <1>31 DEF Birth, stepVars
  <2>2. CASE lease' = lease
    BY <2>1, <2>2, SameLandsSafely DEF HomeUnknown, Carries
  <2>3. CASE lease'.lineage = births + 1
    BY <2>1, <2>3 DEF LandsSafely, Born, TypeOK, Session
  <2> QED
    BY <1>31, <2>2, <2>3 DEF Birth, NoLease
<1>32. CASE DeletePersona
  <2>1. session' = session /\ landing' = landing /\ (lease' = lease \/ lease' = NoLease)
    BY <1>32 DEF DeletePersona, Cleared, stepVars
  <2>2. CASE lease' = lease
    BY <2>1, <2>2, SameLandsSafely DEF HomeUnknown, Carries
  <2> QED
    BY <2>1, <2>2, AwayLandsSafely
<1>33. CASE MoveOut
  <2>1. session' = session /\ landing' = landing
    BY <1>33 DEF MoveOut, Leaves, NothingElse, stepVars, siteVars
  <2>2. lease'.lineage = lease.lineage /\ (HomeUnknown => HomeUnknown')
    BY <1>33 DEF HomeUnknown, Row, RowOfState, RowOfMove, MoveOut, TypeOK, Lease, Move,
        NoMove
  <2>3. lease.state = "frozen" /\ Carries(session.id) =>
          HomeUnknown' \/ (lease'.state = "frozen" /\ Carries(session.id)')
    BY <1>33, <2>1 DEF Carries, HomeUnknown, Row, RowOfState, RowOfMove, MoveOut, TypeOK,
        Lease, Move, NoMove
  <2> QED
    BY <2>1, <2>2, <2>3, SameLandsSafely
<1>34. CASE UndoMoveOut
  <2>1. session' = session /\ landing' = landing
    BY <1>34 DEF UndoMoveOut, Leaves, NothingElse, stepVars, siteVars
  <2>2. lease'.lineage = lease.lineage /\ (HomeUnknown => HomeUnknown')
    BY <1>34 DEF HomeUnknown, Row, RowOfState, RowOfMove, UndoMoveOut, TypeOK, Lease, Move,
        NoMove
  <2>3. lease.state = "frozen" /\ Carries(session.id) =>
          HomeUnknown' \/ (lease'.state = "frozen" /\ Carries(session.id)')
    BY <1>34, <2>1 DEF Carries, HomeUnknown, Row, RowOfState, RowOfMove, UndoMoveOut,
        TypeOK, Lease, Move, NoMove
  <2> QED
    BY <2>1, <2>2, <2>3, SameLandsSafely
<1>35. CASE LetGo
  <2>1. session' = session /\ lease'.state = "vacant"
    BY <1>35 DEF LetGo, TypeOK, Lease
  <2> QED
    BY <2>1, AwayLandsSafely DEF HomeUnknown
<1>36. CASE ClearSealed
  <2>1. session' = session /\ landing' = landing /\ (lease' = lease \/ lease' = NoLease)
    BY <1>36 DEF ClearSealed, Cleared, stepVars
  <2>2. CASE lease' = lease
    BY <2>1, <2>2, SameLandsSafely DEF HomeUnknown, Carries
  <2> QED
    BY <2>1, <2>2, AwayLandsSafely
<1>37. CASE SettleOrphan
  <2>1. session' = session /\ lease'.state = "vacant"
    BY <1>37 DEF SettleOrphan, TypeOK, Lease
  <2> QED
    BY <2>1, AwayLandsSafely DEF HomeUnknown
<1> QED
  BY <1>0, <1>1, <1>2, <1>3, <1>4, <1>5, <1>6, <1>7, <1>8, <1>9, <1>10, <1>11, <1>12,
      <1>13, <1>14, <1>15, <1>16, <1>17, <1>18, <1>19, <1>20, <1>21, <1>22, <1>23,
      <1>24, <1>25, <1>26, <1>27, <1>28, <1>29, <1>30, <1>31, <1>32, <1>33, <1>34,
      <1>35, <1>36, <1>37, ArrivalSteps

(***************************************************************************)
(* A device being removed.                                                 *)
(***************************************************************************)
\* What a step does to the devices that are being removed, when it removes
\* none and starts nothing that lands.
OthersAsk ==
  /\ leaving' = leaving /\ linked' = linked /\ late' \subseteq late /\ landing' \subseteq landing

\* The session stays, ends, or goes on as it was.
LEMMA OldSessionKeepsLeaving ==
  ASSUME TypeOK, Leaving, OthersAsk,
         \/ session' = session
         \/ session'.phase = "committed"
         \/ session'.device \notin Devices
         \/ session'.device = session.device /\ session'.id = session.id /\ session.phase # "committed"
  PROVE  Leaving'
BY DEF Leaving, OthersAsk

\* A new session has no landing yet, and used up a late request.
LEMMA NewSessionKeepsLeaving ==
  ASSUME TypeOK, Ids, Leaving, NEW d \in Devices, Asks(d),
         leaving' = leaving, linked' = linked, landing' = landing,
         session'.device = d, session'.id = nextId
  PROVE  Leaving'
<1>1. nextId \notin landing
  BY DEF Ids, Given, TypeOK
<1> QED
  BY <1>1 DEF Leaving, Asks

\* The steps that touch the session, the landings or who is being removed.
LEMMA LeavingSteps ==
  ASSUME Next \/ UNCHANGED vars
  PROVE  \/ session' = session /\ OthersAsk
         \/ CancelByOwner
         \/ \E d \in Devices : CancelByDevice(d)
         \/ \E d \in Devices : ProposeImport(d)
         \/ \E d \in Devices : ProposeMerge(d)
         \/ \E d \in Devices : ProposeReclaim(d)
         \/ \E d \in Devices : ReportFrozen(d)
         \/ ConfirmImport
         \/ ConfirmReclaim
         \/ ConfirmMerge
         \/ \E d \in Devices : TakePage(d)
         \/ \E d \in Devices : CheckCommit(d)
         \/ CancelImportByOwner
         \/ \E d \in Devices : CancelImportByDevice(d)
         \/ \E id \in landing : Land(id)
         \/ \E m \in merging : MergeIn(m[1], m[2])
         \/ \E d \in Devices : Revoke(d)
         \/ \E d \in Devices : GoneArrival(d)
         \/ \E d \in Devices : GoneSessions(d)
         \/ \E d \in Devices : GoneHolder(d)
         \/ \E d \in Devices : GoneMoves(d)
         \/ Crash
<1>1. CASE MoveSteps
  BY ZenonT(60), <1>1 DEF MoveSteps, StartMove, StartBack, Confirm, Agree, Sealed,
      SealFails,
      Piece, ApplyOnDevice, CommitToDevice, TakeBackup, OthersAsk, NothingElse, Asks,
      OwnerOrDevice, Leaves, siteVars, stepVars, deviceVars
<1>2. CASE ImportSteps
  BY <1>2 DEF ImportSteps, HoldForMerge, MergeFails, OthersAsk, NothingElse, Asks,
      OwnerOrDevice, Leaves, siteVars, stepVars, deviceVars
<1>3. CASE DeviceSteps
  BY <1>3 DEF DeviceSteps, DeviceBirth, DeviceKeeps, DeviceHears, OthersAsk,
      NothingElse, Asks, OwnerOrDevice, Leaves, siteVars, stepVars, deviceVars
<1>4. CASE SiteSteps
  BY <1>4 DEF SiteSteps, Birth, DeletePersona, MoveOut, UndoMoveOut, LetGo, AskToClear,
      ClearSealed, SettleOrphan, OthersAsk, NothingElse, Asks, OwnerOrDevice, Leaves,
      siteVars, stepVars, deviceVars
<1>5. CASE CopySteps
  BY <1>5 DEF CopySteps, Fetch, Adopt, Reread, OthersAsk, NothingElse, Asks,
      OwnerOrDevice, Leaves, siteVars, stepVars, deviceVars
<1>6. CASE Crash
  BY <1>6 DEF OthersAsk, NothingElse, Asks, OwnerOrDevice, Leaves, siteVars, stepVars,
      deviceVars
<1>7. CASE UNCHANGED vars
  BY <1>7 DEF vars, OthersAsk, siteVars, stepVars, deviceVars
<1> QED
  BY <1>1, <1>2, <1>3, <1>4, <1>5, <1>6, <1>7 DEF Next

\* Every step keeps what a removal relies on.
LEMMA LeavingKept ==
  ASSUME TypeOK, Ids, Leaving, Next \/ UNCHANGED vars
  PROVE  Leaving'
<1>0. session' = session /\ OthersAsk => Leaving'
  BY OldSessionKeepsLeaving
<1>1. CASE CancelByOwner
  <2>1. OthersAsk /\ (session' = session \/ session' = NoSession)
    BY <1>1 DEF CancelByOwner, Cancel, CancelledSession, Dropped, OthersAsk, NothingElse,
        stepVars
  <2> QED
    BY <2>1, OldSessionKeepsLeaving, SiteAssumption DEF NoSession
<1>2. CASE \E d \in Devices : CancelByDevice(d)
  <2>1. OthersAsk /\ (session' = session \/ session' = NoSession)
    BY <1>2 DEF CancelByDevice, Cancel, Asks, CancelledSession, Dropped, OthersAsk,
        NothingElse, stepVars
  <2> QED
    BY <2>1, OldSessionKeepsLeaving, SiteAssumption DEF NoSession
<1>3. CASE \E d \in Devices : ProposeImport(d)
  <2> PICK d \in Devices : ProposeImport(d)
    BY <1>3
  <2>1. /\ Asks(d) /\ leaving' = leaving /\ linked' = linked /\ landing' = landing
        /\ session'.device = d /\ session'.id = nextId
    BY DEF ProposeImport, NewSession, NothingElse, stepVars
  <2> QED
    BY <2>1, NewSessionKeepsLeaving
<1>4. CASE \E d \in Devices : ProposeMerge(d)
  <2> PICK d \in Devices : ProposeMerge(d)
    BY <1>4
  <2>1. /\ Asks(d) /\ leaving' = leaving /\ linked' = linked /\ landing' = landing
        /\ session'.device = d /\ session'.id = nextId
    BY DEF ProposeMerge, NewSession, NothingElse, stepVars
  <2> QED
    BY <2>1, NewSessionKeepsLeaving
<1>5. CASE \E d \in Devices : ProposeReclaim(d)
  <2> PICK d \in Devices : ProposeReclaim(d)
    BY <1>5
  <2>1. /\ Asks(d) /\ leaving' = leaving /\ linked' = linked /\ landing' = landing
        /\ session'.device = d /\ session'.id = nextId
    BY DEF ProposeReclaim, NewSession, NothingElse, stepVars
  <2> QED
    BY <2>1, NewSessionKeepsLeaving
<1>6. CASE \E d \in Devices : ReportFrozen(d)
  <2> PICK d \in Devices : ReportFrozen(d)
    BY <1>6
  <2>1. /\ Asks(d) /\ leaving' = leaving /\ linked' = linked /\ landing' = landing
        /\ session'.device = d /\ session'.id = nextId
    BY DEF ReportFrozen, NewSession, NothingElse, stepVars
  <2> QED
    BY <2>1, NewSessionKeepsLeaving
<1>7. CASE ConfirmImport
  <2>1. OthersAsk /\ session' = [session EXCEPT !.phase = "confirmed"] /\ session.phase = "proposed"
    BY <1>7 DEF ConfirmImport, OthersAsk, NothingElse, stepVars
  <2>2. session'.device = session.device /\ session'.id = session.id
    BY <2>1 DEF TypeOK, Session
  <2> QED
    BY <2>1, <2>2, OldSessionKeepsLeaving
<1>8. CASE ConfirmReclaim
  <2>1. OthersAsk /\ session' = [session EXCEPT !.phase = "confirmed"] /\ session.phase = "proposed"
    BY <1>8 DEF ConfirmReclaim, OthersAsk, NothingElse, stepVars
  <2>2. session'.device = session.device /\ session'.id = session.id
    BY <2>1 DEF TypeOK, Session
  <2> QED
    BY <2>1, <2>2, OldSessionKeepsLeaving
<1>9. CASE ConfirmMerge
  <2>1. OthersAsk /\ session' = [session EXCEPT !.phase = "confirmed"] /\ session.phase = "proposed"
    BY <1>9 DEF ConfirmMerge, OthersAsk, NothingElse, stepVars
  <2>2. session'.device = session.device /\ session'.id = session.id
    BY <2>1 DEF TypeOK, Session
  <2> QED
    BY <2>1, <2>2, OldSessionKeepsLeaving
<1>10. CASE \E d \in Devices : TakePage(d)
  <2> PICK d \in Devices : TakePage(d)
    BY <1>10
  <2>1. OthersAsk /\ session' = [session EXCEPT !.phase = "transferring"] /\ session.phase = "confirmed"
    BY DEF TakePage, Asks, OthersAsk, NothingElse, stepVars
  <2>2. session'.device = session.device /\ session'.id = session.id
    BY <2>1 DEF TypeOK, Session
  <2> QED
    BY <2>1, <2>2, OldSessionKeepsLeaving
<1>11. CASE \E d \in Devices : CheckCommit(d)
  <2> PICK d \in Devices : CheckCommit(d)
    BY <1>11
  <2>1. /\ Asks(d) /\ leaving' = leaving /\ linked' = linked /\ session' = session
        /\ landing' = landing \cup {session.id} /\ session.device = d
        /\ session.phase = "transferring"
    BY DEF CheckCommit, NothingElse
  <2>2. leaving[d] \notin {3, 4}
    BY <2>1 DEF Leaving, Asks
  <2> QED
    BY <2>1, <2>2 DEF Leaving, Asks
<1>12. CASE CancelImportByOwner
  <2>1. OthersAsk /\ (session' = session \/ session' = NoSession)
    BY <1>12 DEF CancelImportByOwner, CancelImport, CancelledSession, Dropped, OthersAsk,
        NothingElse, stepVars
  <2> QED
    BY <2>1, OldSessionKeepsLeaving, SiteAssumption DEF NoSession
<1>13. CASE \E d \in Devices : CancelImportByDevice(d)
  <2>1. OthersAsk /\ (session' = session \/ session' = NoSession)
    BY <1>13 DEF CancelImportByDevice, CancelImport, Asks, CancelledSession, Dropped,
        OthersAsk, NothingElse, stepVars
  <2> QED
    BY <2>1, OldSessionKeepsLeaving, SiteAssumption DEF NoSession
<1>14. CASE \E id \in landing : Land(id)
  <2>1. OthersAsk
    BY <1>14 DEF Land, OthersAsk, NothingElse, stepVars
  <2>2. session' = session \/ session' = [session EXCEPT !.phase = "committed"]
    BY <1>14 DEF Land
  <2> QED
    BY <2>1, <2>2, OldSessionKeepsLeaving DEF TypeOK, Session
<1>15. CASE \E m \in merging : MergeIn(m[1], m[2])
  <2>1. OthersAsk
    BY <1>15 DEF MergeIn, OthersAsk, NothingElse, stepVars
  <2>2. session' = session \/ session' = [session EXCEPT !.phase = "committed"]
    BY <1>15 DEF MergeIn
  <2> QED
    BY <2>1, <2>2, OldSessionKeepsLeaving DEF TypeOK, Session
<1>16. CASE \E d \in Devices : Revoke(d)
  <2> PICK d \in Devices : Revoke(d)
    BY <1>16
  <2>1. /\ linked' = linked \ {d} /\ late' \subseteq late \cup {d} /\ d \in linked
        /\ session' = session /\ landing' = landing
        /\ \A e \in Devices : leaving'[e] = IF e = d THEN 1 ELSE leaving[e]
    BY DEF Revoke, TypeOK, siteVars, stepVars
  <2> QED
    BY <2>1 DEF Leaving
<1>17. CASE \E d \in Devices : GoneArrival(d)
  <2> PICK d \in Devices : GoneArrival(d)
    BY <1>17
  <2>1. /\ leaving[d] = 1 /\ linked' = linked /\ late' = late /\ landing' = landing
        /\ \A e \in Devices : leaving'[e] = IF e = d THEN 2 ELSE leaving[e]
    BY DEF GoneArrival, Leaves, TypeOK, stepVars
  <2>2. session' = session
    BY DEF GoneArrival
  <2> QED
    BY <2>1, <2>2 DEF Leaving
<1>18. CASE \E d \in Devices : GoneSessions(d)
  <2> PICK d \in Devices : GoneSessions(d)
    BY <1>18
  <2>1. /\ leaving[d] = 2 /\ linked' = linked /\ late' = late /\ landing' = landing
        /\ \A e \in Devices : leaving'[e] = IF e = d THEN 3 ELSE leaving[e]
    BY DEF GoneSessions, Leaves, TypeOK, stepVars
  <2>2. CASE session' = NoSession
    BY <2>1, <2>2, SiteAssumption DEF Leaving, NoSession
  <2>3. CASE session' = session /\ (session.device = d => session.phase = "committed")
    BY <2>1, <2>3 DEF Leaving
  <2> QED
    BY <2>2, <2>3 DEF GoneSessions
<1>19. CASE \E d \in Devices : GoneHolder(d)
  <2> PICK d \in Devices : GoneHolder(d)
    BY <1>19
  <2>1. /\ leaving[d] = 3 /\ linked' = linked /\ late' = late /\ landing' = landing
        /\ \A e \in Devices : leaving'[e] = IF e = d THEN 4 ELSE leaving[e]
    BY DEF GoneHolder, Leaves, TypeOK, stepVars
  <2>2. session' = session
    BY DEF GoneHolder
  <2> QED
    BY <2>1, <2>2 DEF Leaving
<1>20. CASE \E d \in Devices : GoneMoves(d)
  <2> PICK d \in Devices : GoneMoves(d)
    BY <1>20
  <2>1. /\ leaving[d] = 4 /\ linked' = linked /\ late' = late /\ landing' = landing
        /\ \A e \in Devices : leaving'[e] = IF e = d THEN 0 ELSE leaving[e]
    BY DEF GoneMoves, Leaves, TypeOK, stepVars
  <2>2. session' = session
    BY DEF GoneMoves
  <2> QED
    BY <2>1, <2>2 DEF Leaving
<1>21. CASE Crash
  <2>1. /\ linked' = linked /\ late' = {} /\ landing' = {} /\ session' = session
        /\ \A e \in Devices : leaving'[e] = 0
    BY <1>21 DEF Crash, siteVars
  <2> QED
    BY <2>1 DEF Leaving
<1> QED
  BY <1>0, <1>1, <1>2, <1>3, <1>4, <1>5, <1>6, <1>7, <1>8, <1>9, <1>10, <1>11, <1>12,
      <1>13, <1>14, <1>15, <1>16, <1>17, <1>18, <1>19, <1>20, <1>21, LeavingSteps

(***************************************************************************)
(* The invariant.                                                          *)
(***************************************************************************)
\* It holds at first.
LEMMA RowInvInit == Init => RowInv
<1> SUFFICES ASSUME Init
             PROVE  RowInv
  OBVIOUS
<1>1. TypeOK
  <2>1. leaving \in [Devices -> 0 .. 4] /\ dev \in [Devices -> Her]
    BY NothingIsTyped DEF Init
  <2>2. lease \in Lease /\ session \in Session
    BY NothingIsTyped DEF Init
  <2> QED
    BY <2>1, <2>2 DEF Init, TypeOK, Places
<1>2. Row /\ Ids /\ Together
  BY DEF Init, Row, RowOfState, RowOfMove, Ids, Given, Together, NoLease, NoMove, NoSession
<1>3. Born
  BY DEF Init, Born, NoLease, NoSession, NoHer
<1>4. Leaving /\ LandsSafely
  BY DEF Init, Leaving, LandsSafely, Receiving, NoSession
<1> QED
  BY <1>1, <1>2, <1>3, <1>4 DEF RowInv

\* And every step keeps it.
LEMMA RowInvKept == RowInv /\ (Next \/ UNCHANGED vars) => RowInv'
BY TypesKept, RowKept, IdsKept, BornKept, LeavingKept, LandsSafelyKept DEF RowInv

\* Every behaviour keeps the invariant.
THEOREM HostLeaseInvariant == Spec => []RowInv
BY RowInvInit, RowInvKept, PTL DEF Spec

\* Frozen, she can always be given back: through every move, import, merge and
\* removal, however they interleave, there is a move to call off.
THEOREM FrozenIsGivenBack == Spec => []FrozenCanBeGivenBack
<1>1. RowInv => FrozenCanBeGivenBack
  BY DEF RowInv, Row, RowOfState, Freezes, FrozenCanBeGivenBack
<1> QED
  BY <1>1, HostLeaseInvariant, PTL

(***************************************************************************)
(* The row does what HerHome promises.                                     *)
(***************************************************************************)
\* What HerHome sees of the row.
HomeOf == IF lease.state = "none" \/ HomeUnknown THEN Nowhere ELSE lease.holder
Stopped == lease.state \in {"frozen", "moved_out"}
Registered == lease.state # "none"

Implements == Home!Next \/ UNCHANGED Home!vars

\* Nothing HerHome sees has changed.
LEMMA Stutters ==
  ASSUME HomeOf' = HomeOf, Stopped' <=> Stopped, Registered' <=> Registered,
         lease'.lineage = lease.lineage, lease'.epoch = lease.epoch
  PROVE  Implements
BY DEF Implements, Home!vars, HomeOf, Stopped, Registered

\* Stopped where she lives, or given back there.
LEMMA StopsOrGoesOn ==
  ASSUME Registered, HomeOf' = HomeOf, Registered',
         lease'.lineage = lease.lineage, lease'.epoch = lease.epoch
  PROVE  Implements
<1>1. CASE Stopped' /\ ~Stopped
  <2>1. Home!Stop
    BY <1>1 DEF Home!Stop, HomeOf, Stopped, Registered
  <2> QED
    BY <2>1 DEF Implements, Home!Next
<1>2. CASE ~Stopped' /\ Stopped
  <2>1. Home!GoOn
    BY <1>2 DEF Home!GoOn, HomeOf, Stopped, Registered
  <2> QED
    BY <2>1 DEF Implements, Home!Next
<1> QED
  BY <1>1, <1>2, Stutters

\* Her home is not known any more.
LEMMA Loses ==
  ASSUME Registered, lease'.state = "vacant",
         lease'.lineage = lease.lineage, lease'.epoch = lease.epoch
  PROVE  Implements
<1>1. Home!Lose
  BY DEF Home!Lose, Registered, HomeUnknown
<1> QED
  BY <1>1 DEF Implements, Home!Next

\* The site knows of her no more.
LEMMA IsForgotten ==
  ASSUME lease' = NoLease
  PROVE  Implements
<1>1. Home!Forget
  BY DEF Home!Forget, NoLease
<1> QED
  BY <1>1 DEF Implements, Home!Next

\* She lives on an end, one epoch on.
LEMMA Settles ==
  ASSUME TypeOK, Registered, lease'.state = "live", lease'.move = NoMove,
         lease'.holder \in Ends,
         lease'.holder # HomeOf => Stopped \/ HomeOf = Nowhere,
         lease'.lineage = lease.lineage, lease'.epoch \in Nat, lease'.epoch > lease.epoch
  PROVE  Implements
<1>1. Home!Settle
  BY DEF Home!Settle, Registered, Stopped, HomeOf, HomeUnknown, Ends, NoMove
<1> QED
  BY <1>1 DEF Implements, Home!Next

\* The site learns of her.
LEMMA Registers ==
  ASSUME lease.state \in {"none", "vacant"}, lease'.state \in {"live", "frozen"},
         lease'.move.kind # "Recover", lease'.holder \in Ends,
         lease'.holder \in Devices => lease'.state = "frozen",
         lease'.lineage \in Nat, lease'.epoch \in Nat \ {0},
         lease.state # "none" /\ lease'.lineage = lease.lineage => lease'.epoch >= lease.epoch
  PROVE  Implements
<1>1. Home!Register
  BY DEF Home!Register, HomeUnknown, Ends
<1> QED
  BY <1>1 DEF Implements, Home!Next

\* A move called off gives her back where she lived, or where she was unknown.
LEMMA GivenBackImplements ==
  ASSUME TypeOK, Row, MayGiveBack
  PROVE  Implements
<1>1. CASE lease' = lease
  BY <1>1, Stutters DEF HomeOf, HomeUnknown, Stopped, Registered
<1>2. CASE lease' = NoLease
  BY <1>2, IsForgotten
<1>3. CASE lease.move.kind # "none" /\ GivenBack(lease')
  <2>1. lease.state \in {"live", "frozen", "vacant"}
    BY <1>3 DEF Row, RowOfState, NoLease, NoMove, TypeOK, Lease, States
  <2>2. CASE lease.move.was = "vacant"
    BY <1>3, <2>1, <2>2, Loses DEF GivenBack, Registered
  <2>3. CASE lease.move.was # "vacant"
    <3>1. ~HomeUnknown /\ lease.state # "none"
      BY <1>3, <2>1, <2>3 DEF HomeUnknown, Row, RowOfState
    <3>2. lease'.state = "live" /\ lease'.holder = lease.holder /\ lease'.move = NoMove
      BY <1>3, <2>3 DEF GivenBack
    <3> QED
      BY <1>3, <3>1, <3>2, StopsOrGoesOn DEF GivenBack, HomeOf, HomeUnknown, Registered,
          NoMove
  <2> QED
    BY <2>2, <2>3
<1> QED
  BY <1>1, <1>2, <1>3 DEF MayGiveBack

\* Each step of the row is one of HerHome, or none.
LEMMA StepImplements ==
  ASSUME RowInv, Next \/ UNCHANGED vars
  PROVE  Implements
<1>0. TypeOK /\ Row /\ Ids /\ Together /\ LandsSafely
  BY DEF RowInv
<1> USE <1>0
<1>same. lease' = lease => Implements
  BY Stutters DEF HomeOf, HomeUnknown, Stopped, Registered
<1>1. CASE \E d \in Devices, kind \in {"ToDevice", "MergeAsked"}, by \in {"owner", "device"} :
         StartMove(d, kind, by)
  <2> PICK d \in Devices, kind \in {"ToDevice", "MergeAsked"}, by \in {"owner", "device"} : StartMove(d, kind, by)
    BY <1>1
  <2>1. /\ lease.state \in {"live"} /\ lease.move = NoMove
        /\ lease'.state \in {"live", "frozen"} /\ lease'.move.kind \in {"ToDevice", "MergeAsked"}
        /\ lease'.holder = lease.holder /\ lease'.lineage = lease.lineage
        /\ lease'.epoch = lease.epoch
    BY StartMoveRow DEF Becomes, NewMove, NoMove
  <2>2. HomeUnknown' <=> HomeUnknown
    BY <2>1 DEF HomeUnknown, NoMove
  <2> QED
    BY <2>1, <2>2, StopsOrGoesOn DEF HomeOf, Registered
<1>2. CASE \E d \in Devices, by \in {"owner", "device"} : StartBack(d, by)
  <2> PICK d \in Devices, by \in {"owner", "device"} : StartBack(d, by)
    BY <1>2
  <2>1. /\ lease.state \in {"live"} /\ lease.move = NoMove
        /\ lease'.state \in {"live", "frozen"} /\ lease'.move.kind \in {"Back"}
        /\ lease'.holder = lease.holder /\ lease'.lineage = lease.lineage
        /\ lease'.epoch = lease.epoch
    BY StartBackRow DEF Becomes, NewMove, NoMove
  <2>2. HomeUnknown' <=> HomeUnknown
    BY <2>1 DEF HomeUnknown, NoMove
  <2> QED
    BY <2>1, <2>2, StopsOrGoesOn DEF HomeOf, Registered
<1>3. CASE \E d \in Devices : Agree(d)
  <2> PICK d \in Devices : Agree(d)
    BY <1>3
  <2>1. /\ lease.state \notin {"none", "moved_out"} /\ lease'.state \notin {"none", "moved_out"}
        /\ lease'.holder = lease.holder /\ lease'.lineage = lease.lineage
        /\ lease'.epoch = lease.epoch /\ (HomeUnknown' <=> HomeUnknown)
    BY DEF Agree, HomeUnknown, Row, RowOfState, RowOfMove, TypeOK, Lease, Move, NoMove,
        NoLease, Proposed, Freezes, Frozen, Transferring, Applied
  <2> QED
    BY <2>1, StopsOrGoesOn DEF HomeOf, Registered
<1>4. CASE Confirm
  <2>1. /\ lease.state \notin {"none", "moved_out"} /\ lease'.state \notin {"none", "moved_out"}
        /\ lease'.holder = lease.holder /\ lease'.lineage = lease.lineage
        /\ lease'.epoch = lease.epoch /\ (HomeUnknown' <=> HomeUnknown)
    BY <1>4 DEF Confirm, HomeUnknown, Row, RowOfState, RowOfMove, TypeOK, Lease, Move,
        NoMove, NoLease, Proposed, Freezes, Frozen, Transferring, Applied
  <2> QED
    BY <2>1, StopsOrGoesOn DEF HomeOf, Registered
<1>5. CASE CancelByOwner
  BY <1>5, CancelRow, GivenBackImplements DEF CancelByOwner
<1>6. CASE \E d \in Devices : CancelByDevice(d)
  BY <1>6, CancelRow, GivenBackImplements DEF CancelByDevice
<1>7. CASE \E id \in sealing : Sealed(id)
  <2> PICK id \in sealing : Sealed(id)
    BY <1>7
  <2>1. /\ lease.state \notin {"none", "moved_out"} /\ lease'.state \notin {"none", "moved_out"}
        /\ lease'.holder = lease.holder /\ lease'.lineage = lease.lineage
        /\ lease'.epoch = lease.epoch /\ (HomeUnknown' <=> HomeUnknown)
    BY DEF Sealed, Together, Ids, Given, HomeUnknown, Row, RowOfState, RowOfMove, TypeOK,
        Lease, Move, NoMove, NoLease, Proposed, Freezes, Frozen, Transferring, Applied
  <2> QED
    BY <2>1, StopsOrGoesOn DEF HomeOf, Registered
<1>8. CASE \E id \in sealing : SealFails(id)
  BY <1>8, SealFailsRow, GivenBackImplements
<1>9. CASE \E d \in Devices : Piece(d)
  <2> PICK d \in Devices : Piece(d)
    BY <1>9
  <2>1. /\ lease.state \notin {"none", "moved_out"} /\ lease'.state \notin {"none", "moved_out"}
        /\ lease'.holder = lease.holder /\ lease'.lineage = lease.lineage
        /\ lease'.epoch = lease.epoch /\ (HomeUnknown' <=> HomeUnknown)
    BY DEF Piece, ToThisDevice, HomeUnknown, Row, RowOfState, RowOfMove, TypeOK, Lease,
        Move, NoMove, NoLease, Proposed, Freezes, Frozen, Transferring, Applied
  <2> QED
    BY <2>1, StopsOrGoesOn DEF HomeOf, Registered
<1>10. CASE \E d \in Devices : ApplyOnDevice(d)
  <2> PICK d \in Devices : ApplyOnDevice(d)
    BY <1>10
  <2>1. /\ lease.state \notin {"none", "moved_out"} /\ lease'.state \notin {"none", "moved_out"}
        /\ lease'.holder = lease.holder /\ lease'.lineage = lease.lineage
        /\ lease'.epoch = lease.epoch /\ (HomeUnknown' <=> HomeUnknown)
    BY DEF ApplyOnDevice, ToThisDevice, HomeUnknown, Row, RowOfState, RowOfMove, TypeOK,
        Lease, Move, NoMove, NoLease, Proposed, Freezes, Frozen, Transferring, Applied
  <2> QED
    BY <2>1, StopsOrGoesOn DEF HomeOf, Registered
<1>11. CASE \E d \in Devices : CommitToDevice(d)
  <2> PICK d \in Devices : CommitToDevice(d)
    BY <1>11
  <2>1. /\ lease'.state = "live" /\ lease'.move = NoMove /\ lease'.holder = d
        /\ lease'.lineage = lease.lineage /\ lease'.epoch = lease.epoch + 1
        /\ lease.epoch \in Nat
    BY DEF CommitToDevice, TypeOK, Lease
  <2>2. lease.state = "frozen"
    BY DEF CommitToDevice, ToThisDevice, Row, RowOfMove, Freezes, Frozen, Applied
  <2> QED
    BY <2>1, <2>2, Settles DEF Stopped, Registered, Ends
<1>12. CASE \E d \in Devices : ProposeMerge(d)
  <2> PICK d \in Devices : ProposeMerge(d)
    BY <1>12
  <2>1. /\ lease.state \in {"live"} /\ lease.move = NoMove
        /\ lease'.state \in {"live"} /\ lease'.move.kind \in {"Merge"}
        /\ lease'.holder = lease.holder /\ lease'.lineage = lease.lineage
        /\ lease'.epoch = lease.epoch
    BY ProposeMergeRow DEF Becomes, NewMove, NoMove
  <2>2. HomeUnknown' <=> HomeUnknown
    BY <2>1 DEF HomeUnknown, NoMove
  <2> QED
    BY <2>1, <2>2, StopsOrGoesOn DEF HomeOf, Registered
<1>13. CASE \E d \in Devices : ProposeReclaim(d)
  <2> PICK d \in Devices : ProposeReclaim(d)
    BY <1>13
  <2>1. /\ lease.state \in {"live", "vacant"} /\ lease.move = NoMove
        /\ lease'.state \in {lease.state} /\ lease'.move.kind \in {"Recover"}
        /\ lease'.move.was = lease.state
        /\ lease'.holder = lease.holder /\ lease'.lineage = lease.lineage
        /\ lease'.epoch = lease.epoch
    BY ProposeReclaimRow DEF Becomes, NewMove, NoMove
  <2>2. HomeUnknown' <=> HomeUnknown
    BY <2>1 DEF HomeUnknown, NoMove
  <2> QED
    BY <2>1, <2>2, StopsOrGoesOn DEF HomeOf, Registered
<1>14. CASE \E d \in Devices : ReportFrozen(d)
  <2> PICK d \in Devices : ReportFrozen(d)
    BY <1>14
  <2>1. /\ lease.state \notin {"none", "moved_out"} /\ lease'.state \notin {"none", "moved_out"}
        /\ lease'.holder = lease.holder /\ lease'.lineage = lease.lineage
        /\ lease'.epoch = lease.epoch /\ (HomeUnknown' <=> HomeUnknown)
    BY DEF ReportFrozen, HomeUnknown, Row, RowOfState, RowOfMove, TypeOK, Lease, Move,
        NoMove, NoLease, Proposed, Freezes, Frozen, Transferring, Applied
  <2> QED
    BY <2>1, StopsOrGoesOn DEF HomeOf, Registered
<1>15. CASE ConfirmImport
  <2>1. session.device \in Devices /\ session.epoch >= 1 /\ session.epoch \in Nat /\ session.lineage \in Nat
    BY <1>15 DEF ConfirmImport, Ids, TypeOK, Session
  <2>2. lease.epoch \in Nat /\ lease.lineage \in Nat /\ (lease.state = "vacant" => lease.epoch >= 1)
    BY DEF TypeOK, Lease, Row, RowOfState
  <2>3. /\ lease.state \in {"none", "vacant"} /\ lease'.state = "frozen"
        /\ lease'.holder = session.device /\ lease'.move.kind = "Arrival"
        /\ \/ lease.state = "vacant" /\ lease'.lineage = lease.lineage /\ lease'.epoch = lease.epoch
           \/ /\ lease'.lineage = session.lineage /\ lease'.epoch = session.epoch
              /\ lease.state = "none" \/ lease.lineage # session.lineage
    BY <1>15, ConfirmImportRow DEF Becomes, NewMove, NoMove
  <2> QED
    BY <2>1, <2>2, <2>3, Registers DEF Ends
<1>16. CASE ConfirmReclaim
  <2>1. /\ lease.state \notin {"none", "moved_out"} /\ lease'.state \notin {"none", "moved_out"}
        /\ lease'.holder = lease.holder /\ lease'.lineage = lease.lineage
        /\ lease'.epoch = lease.epoch /\ (HomeUnknown' <=> HomeUnknown)
    BY <1>16 DEF ConfirmReclaim, Together, Ids, Given, HomeUnknown, Row, RowOfState,
        RowOfMove, TypeOK, Lease, Move, NoMove, NoLease, Proposed, Freezes, Frozen,
        Transferring, Applied
  <2> QED
    BY <2>1, StopsOrGoesOn DEF HomeOf, Registered
<1>17. CASE ConfirmMerge
  <2>1. /\ lease.state \notin {"none", "moved_out"} /\ lease'.state \notin {"none", "moved_out"}
        /\ lease'.holder = lease.holder /\ lease'.lineage = lease.lineage
        /\ lease'.epoch = lease.epoch /\ (HomeUnknown' <=> HomeUnknown)
    BY <1>17 DEF ConfirmMerge, Together, Ids, Given, HomeUnknown, Row, RowOfState,
        RowOfMove, TypeOK, Lease, Move, NoMove, NoLease, Proposed, Freezes, Frozen,
        Transferring, Applied
  <2> QED
    BY <2>1, StopsOrGoesOn DEF HomeOf, Registered
<1>18. CASE \E d \in Devices : TakePage(d)
  <2> PICK d \in Devices : TakePage(d)
    BY <1>18
  <2>1. CASE lease' = lease
    BY <2>1, Stutters DEF HomeOf, HomeUnknown, Stopped, Registered
  <2>2. CASE lease' # lease
    <3>1. lease.move.kind # "none" /\ lease.move \in Move
      BY <2>2, TakePageRow DEF Carries, TypeOK, Lease
    <3>2. lease.state \notin {"none", "moved_out"}
      BY <3>1 DEF Row, RowOfState, NoLease, NoMove
    <3>3. /\ lease'.state = (IF lease.move.kind = "Merge" THEN lease.state ELSE "frozen")
          /\ lease'.holder = lease.holder /\ lease'.lineage = lease.lineage
          /\ lease'.epoch = lease.epoch
          /\ lease'.move = [lease.move EXCEPT !.phase = Transferring]
      BY <2>2, TakePageRow DEF Becomes
    <3>4. lease'.move.kind = lease.move.kind /\ lease'.move.was = lease.move.was
      BY <3>1, <3>3 DEF Move
    <3>5. HomeUnknown' <=> HomeUnknown
      BY <3>1, <3>2, <3>3, <3>4 DEF HomeUnknown, Row, RowOfState
    <3> QED
      BY <3>2, <3>3, <3>5, StopsOrGoesOn DEF HomeOf, Registered
  <2> QED
    BY <2>1, <2>2
<1>19. CASE CancelImportByOwner
  BY <1>19, CancelImportRow, GivenBackImplements DEF CancelImportByOwner
<1>20. CASE \E d \in Devices : CancelImportByDevice(d)
  BY <1>20, CancelImportRow, GivenBackImplements DEF CancelImportByDevice
<1>21. CASE \E id \in landing : Land(id)
  <2> PICK id \in landing : Land(id)
    BY <1>21
  <2>1. CASE lease' = lease
    BY <2>1, Stutters DEF HomeOf, HomeUnknown, Stopped, Registered
  <2>2. CASE lease' # lease
    <3>1. Receiving /\ session.id \in landing
      BY <2>2, LandRow
    <3>2. /\ session.kind # "merge" /\ session.epoch + 1 \in Nat \ {0} /\ session.lineage \in Nat
      BY <3>1 DEF Together, TypeOK, Session
    <3>3. CASE lease.state = "none"
      <4>1. Becomes("live", Site, session.lineage, session.epoch + 1, NoMove)
        BY <2>2, <3>3, LandRow
      <4> QED
        BY <3>2, <3>3, <4>1, Registers, SiteAssumption DEF Becomes, NoMove, Ends
    <3>4. CASE lease.state # "none"
      <4>1. /\ lease.lineage = session.lineage /\ lease'.state = "live" /\ lease'.holder = Site
            /\ lease'.lineage = lease.lineage /\ lease'.move = NoMove
            /\ lease'.epoch \in Nat /\ lease'.epoch > lease.epoch
        BY <2>2, <3>4, LandRow DEF Becomes
      <4>2. HomeUnknown \/ lease.state = "frozen"
        BY <3>1, <3>2, <4>1 DEF LandsSafely
      <4> QED
        BY <3>4, <4>1, <4>2, Settles DEF Stopped, HomeOf, Registered, Ends
    <3> QED
      BY <3>3, <3>4
  <2> QED
    BY <2>1, <2>2
<1>22. CASE \E d \in Devices, request \in {1, 2} : HoldForMerge(d, request)
  <2> PICK d \in Devices, request \in {1, 2} : HoldForMerge(d, request)
    BY <1>22
  <2>1. /\ lease.state \notin {"none", "moved_out"} /\ lease'.state \notin {"none", "moved_out"}
        /\ lease'.holder = lease.holder /\ lease'.lineage = lease.lineage
        /\ lease'.epoch = lease.epoch /\ (HomeUnknown' <=> HomeUnknown)
    BY DEF HoldForMerge, HomeUnknown, Row, RowOfState, RowOfMove, TypeOK, Lease, Move,
        NoMove, NoLease, Proposed, Freezes, Frozen, Transferring, Applied
  <2> QED
    BY <2>1, StopsOrGoesOn DEF HomeOf, Registered
<1>23. CASE \E m \in merging : MergeIn(m[1], m[2])
  <2> PICK m \in merging : MergeIn(m[1], m[2])
    BY <1>23
  <2>1. /\ lease.holder = Site /\ lease'.state = "live" /\ lease'.holder = Site
        /\ lease'.lineage = lease.lineage /\ lease'.move = NoMove
        /\ lease'.epoch = lease.epoch + 1 /\ lease.epoch \in Nat
    BY MergeInRow DEF Becomes, TypeOK, Lease
  <2>2. session.id # 0 /\ lease.move.id = session.id
    BY MergeInRow DEF Ids, Given, Receiving, NoSession, TypeOK, Session
  <2>3. lease.state # "none"
    BY <2>2 DEF Row, RowOfState, NoLease, NoMove
  <2> QED
    BY <2>1, <2>3, Settles DEF HomeOf, Registered, Ends
<1>24. CASE \E m \in merging : MergeFails(m[1], m[2])
  <2> PICK m \in merging : MergeFails(m[1], m[2])
    BY <1>24
  <2>1. CASE lease' = lease
    BY <2>1, Stutters DEF HomeOf, HomeUnknown, Stopped, Registered
  <2>2. CASE lease' # lease
    <3>1. /\ lease.move.kind = "Merge" /\ lease'.state = "live" /\ lease'.holder = lease.holder
          /\ lease'.lineage = lease.lineage /\ lease'.epoch = lease.epoch
          /\ lease'.move = [lease.move EXCEPT !.phase = Transferring]
      BY <2>2, MergeFailsRow DEF Becomes
    <3>2. lease.state \notin {"none", "moved_out", "vacant"}
      BY <3>1 DEF Row, RowOfState, NoLease, NoMove
    <3>3. lease'.move.kind = "Merge"
      BY <3>1 DEF TypeOK, Lease, Move
    <3> QED
      BY <3>1, <3>2, <3>3, StopsOrGoesOn DEF HomeOf, HomeUnknown, Registered
  <2> QED
    BY <2>1, <2>2
<1>25. CASE \E d \in Devices : GoneArrival(d)
  <2>1. lease' = lease \/ lease' = NoLease
    BY <1>25, GoneArrivalRow
  <2> QED
    BY <2>1, IsForgotten, Stutters DEF HomeOf, HomeUnknown, Stopped, Registered
<1>26. CASE \E d \in Devices : GoneHolder(d)
  <2> PICK d \in Devices : GoneHolder(d)
    BY <1>26
  <2>1. CASE lease' = lease
    BY <2>1, Stutters DEF HomeOf, HomeUnknown, Stopped, Registered
  <2>2. CASE lease' # lease
    <3>1. lease.holder = d /\ lease'.state = "vacant" /\ lease'.lineage = lease.lineage
          /\ lease'.epoch = lease.epoch
      BY <2>2, GoneHolderRow DEF Becomes
    <3>2. Registered
      BY <3>1, SiteAssumption DEF Row, RowOfState, NoLease, Registered
    <3> QED
      BY <3>1, <3>2, Loses
  <2> QED
    BY <2>1, <2>2
<1>27. CASE \E d \in Devices : GoneMoves(d)
  BY <1>27, GoneMovesRow, GivenBackImplements
<1>28. CASE Birth
  <2>1. CASE lease' = lease
    BY <2>1, Stutters DEF HomeOf, HomeUnknown, Stopped, Registered
  <2>2. CASE lease' # lease
    <3>1. /\ lease.state = "none" /\ lease'.state = "live" /\ lease'.holder = Site
          /\ lease'.lineage = births + 1 /\ lease'.epoch = 1 /\ lease'.move = NoMove
      BY <2>2, <1>28 DEF Birth, NoLease
    <3> QED
      BY <3>1, Registers, SiteAssumption DEF TypeOK, NoMove, Ends
  <2> QED
    BY <2>1, <2>2
<1>29. CASE DeletePersona
  <2>1. lease' = lease \/ lease' = NoLease
    BY <1>29 DEF DeletePersona, Cleared
  <2> QED
    BY <2>1, IsForgotten, Stutters DEF HomeOf, HomeUnknown, Stopped, Registered
<1>30. CASE MoveOut
  <2>1. /\ lease.state \in {"live", "moved_out"} /\ lease'.state \in {"live", "moved_out"}
        /\ lease'.holder = lease.holder /\ lease'.lineage = lease.lineage
        /\ lease'.epoch = lease.epoch /\ lease.move.kind = "none" /\ lease'.move.kind = "none"
    BY <1>30 DEF MoveOut, TypeOK, Lease, Row, RowOfState, NoMove
  <2> QED
    BY <2>1, StopsOrGoesOn DEF HomeOf, HomeUnknown, Registered
<1>31. CASE UndoMoveOut
  <2>1. /\ lease.state \in {"live", "moved_out"} /\ lease'.state \in {"live", "moved_out"}
        /\ lease'.holder = lease.holder /\ lease'.lineage = lease.lineage
        /\ lease'.epoch = lease.epoch /\ lease.move.kind = "none" /\ lease'.move.kind = "none"
    BY <1>31 DEF UndoMoveOut, TypeOK, Lease, Row, RowOfState, NoMove
  <2> QED
    BY <2>1, StopsOrGoesOn DEF HomeOf, HomeUnknown, Registered
<1>32. CASE LetGo
  <2>1. /\ lease'.state = "vacant" /\ lease'.lineage = lease.lineage /\ lease'.epoch = lease.epoch
        /\ lease.state # "none"
    BY <1>32 DEF LetGo, TypeOK, Lease
  <2> QED
    BY <2>1, Loses DEF Registered
<1>33. CASE ClearSealed
  <2>1. lease' = lease \/ lease' = NoLease
    BY <1>33 DEF ClearSealed, Cleared
  <2> QED
    BY <2>1, IsForgotten, Stutters DEF HomeOf, HomeUnknown, Stopped, Registered
<1>34. CASE SettleOrphan
  <2>1. /\ lease'.state = "vacant" /\ lease'.lineage = lease.lineage /\ lease'.epoch = lease.epoch
        /\ lease.state # "none"
    BY <1>34 DEF SettleOrphan, TypeOK, Lease
  <2> QED
    BY <2>1, Loses DEF Registered
<1> QED
  BY <1>0, <1>1, <1>2, <1>3, <1>4, <1>5, <1>6, <1>7, <1>8, <1>9, <1>10, <1>11, <1>12,
      <1>13, <1>14, <1>15, <1>16, <1>17, <1>18, <1>19, <1>20, <1>21, <1>22, <1>23,
      <1>24, <1>25, <1>26, <1>27, <1>28, <1>29, <1>30, <1>31, <1>32, <1>33, <1>34,
      <1>same, RowSteps

\* The row implements HerHome: she has one home, changes it only stopped or
\* once it is not known, and each time one epoch on.
THEOREM RowImplementsHome == Spec => ImplementsHome
<1>1. Init => Home!Init
  BY DEF Init, Home!Init, NoLease
<1>2. RowInv /\ [Next]_vars => [Home!Next]_(Home!vars)
  BY StepImplements DEF Implements
<1> QED
  BY <1>1, <1>2, HostLeaseInvariant, PTL DEF Spec, ImplementsHome, Home!Spec

(***************************************************************************)
(* Where she is: what the steps do to the row, the session and the devices' *)
(* copies of her, while nobody deletes her.                                *)
(***************************************************************************)
\* A move that is on stays the same one; a new one has an id not given yet.
MoveStands ==
  lease'.move.kind = "ToDevice" =>
    \/ /\ lease.move.kind = "ToDevice" /\ lease'.move.id = lease.move.id
       /\ lease'.move.device = lease.move.device
       /\ lease'.move.phase = Applied =>
            \/ lease.move.phase = Applied
            \/ /\ dev[lease.move.device].at = "apart"
               /\ dev[lease.move.device].move = lease.move.id
    \/ lease'.move.id = nextId /\ lease'.move.phase # Applied

\* The row is still of the same her, on the same end, at the same epoch.
RowStands ==
  /\ lease'.holder = lease.holder /\ lease'.lineage = lease.lineage
  /\ lease'.epoch = lease.epoch /\ lease'.done = lease.done
  /\ (lease'.state = "none") <=> (lease.state = "none")
  /\ TakenIn => TakenIn'
  /\ Lost' => Lost
  /\ Knows' => Knows
  /\ LeftFromSite'
  /\ MoveStands

\* The session is the same one, further on, or gone.
SessionStands ==
  \/ session' = NoSession
  \/ /\ session'.kind = session.kind /\ session'.id = session.id
     /\ session'.device = session.device
     /\ session'.lineage = session.lineage /\ session'.epoch = session.epoch
     /\ session'.phase = "committed" <=> session.phase = "committed"

\* A new session, from a device that has her, or one that opened a backup.
SessionBegins ==
  /\ session'.phase # "committed" /\ session'.id = nextId
  /\ session'.kind \in {"import", "return", "merge"} =>
       /\ Holds(session'.device) /\ session'.lineage = dev[session'.device].lineage
       /\ session'.epoch = dev[session'.device].epoch /\ session'.device \in Devices
  /\ session'.kind \in {"recover", "merge"} => TakenIn
  /\ session'.kind = "recover" => session'.lineage = lease.lineage

\* The step leaves her where she is.
Stands == RowStands /\ (SessionStands \/ SessionBegins) /\ (persona => persona')

\* She had not arrived, and is not on her way any more.
Forgotten == lease' = NoLease /\ ~TakenIn /\ SessionStands /\ persona' = persona

\* Her home is not known any more: it was removed, or the site, left for good.
LosesHome ==
  /\ lease.state # "none" /\ lease'.state = "vacant" /\ lease'.move = NoMove
  /\ lease'.holder = lease.holder /\ lease.holder \notin linked'
  /\ lease'.lineage = lease.lineage /\ lease'.epoch = lease.epoch
  /\ session' = session

\* An import of her is confirmed, on a site without her or one that lost her.
Arrives ==
  /\ session.kind = "import" /\ session.phase = "proposed" /\ SessionStands
  /\ session'.phase # "none"
  /\ lease'.state = "frozen" /\ lease'.holder = session.device /\ lease'.move.kind = "Arrival"
  /\ lease'.lineage = session.lineage
  /\ \/ /\ lease.state = "vacant" /\ lease.lineage = session.lineage
        /\ lease'.epoch = lease.epoch /\ lease'.move.was = "vacant"
     \/ lease.state = "none" /\ lease'.epoch = session.epoch /\ lease'.move.was = "none"

\* A device that has all of her becomes her home.
GoesTo(d) ==
  /\ lease.move.kind = "ToDevice" /\ lease.move.device = d /\ lease.move.phase = Applied
  /\ lease'.state = "live" /\ lease'.holder = d /\ lease'.move = NoMove
  /\ lease'.lineage = lease.lineage /\ lease'.epoch = lease.epoch + 1
  /\ lease'.done = lease.move.id
  /\ session' = session

\* The session is over: what it carried is in.
SessionDone ==
  /\ session.phase \notin {"none", "committed"}
  /\ session'.phase = "committed" /\ session'.kind = session.kind
  /\ session'.id = session.id
  /\ session'.device = session.device /\ session'.lineage = session.lineage
  /\ session'.epoch = session.epoch

\* An import lands, or a merge: she lives on the site.
Lands ==
  /\ SessionDone /\ session.kind # "merge" /\ persona'
  /\ lease'.state = "live" /\ lease'.holder = Site /\ lease'.move = NoMove
  /\ lease'.lineage = session.lineage /\ lease'.epoch > session.epoch
  /\ lease.state # "none" => lease.lineage = session.lineage /\ lease'.epoch > lease.epoch

Merges ==
  /\ SessionDone /\ session.kind = "merge" /\ persona' = persona
  /\ Knows /\ lease.holder = Site
  /\ lease'.state = "live" /\ lease'.holder = Site /\ lease'.move = NoMove
  /\ lease'.lineage = lease.lineage /\ lease'.epoch = lease.epoch + 1

\* She is born on the site.
BornHere ==
  /\ lease.state = "none" /\ session' = session /\ persona'
  /\ lease'.state = "live" /\ lease'.holder = Site /\ lease'.move = NoMove
  /\ lease'.lineage = births + 1

\* Merges being committed were, or are of the session.
MergesOn ==
  \A m \in merging' : m \in merging \/ (m[1] = session.id /\ session.kind = "merge")

\* The devices keep their copies, and lose links; merges being committed go on.
CopiesStay ==
  /\ dev' = dev /\ linked' \subseteq linked /\ clearing' = "none" /\ nextId' >= nextId
  /\ MergesOn

\* A step of the site, by what it does to where she is.
SiteStep ==
  /\ CopiesStay
  /\ \/ Stands \/ Forgotten \/ LosesHome \/ Arrives \/ Lands \/ Merges \/ BornHere
     \/ \E d \in Devices : GoesTo(d)

\* A step of a device on its own copy.
CopyStep(d) ==
  /\ lease' = lease /\ session' = session /\ persona' = persona /\ clearing' = clearing
  /\ linked' = linked /\ nextId' = nextId /\ merging' = merging
  /\ DeviceBirth(d) \/ DeviceKeeps(d) \/ DeviceHears(d)

\* What a step leaves alone: the copies, or the site.
LEMMA RestOfStep ==
  ASSUME TypeOK, NothingCleared, ~Forgets, Next \/ UNCHANGED vars
  PROVE  \/ \E d \in Devices : CopyStep(d)
         \/ /\ CopiesStay
            /\ (persona => persona') \/ LetGo \/ \E d \in Devices : CommitToDevice(d)
            /\ persona' = persona \/ Birth \/ LetGo \/ (\E d \in Devices : CommitToDevice(d))
                 \/ (\E id \in landing : Land(id))
<1>0. nextId \in Nat /\ nextId + 1 >= nextId /\ nextId >= nextId /\ clearing = "none"
  BY DEF TypeOK, NothingCleared
<1>m. merging' \subseteq merging => MergesOn
  BY DEF MergesOn
<1>h. \A d \in Devices, request \in {1, 2} : HoldForMerge(d, request) => MergesOn
  BY DEF MergesOn, HoldForMerge
<1>1. CASE MoveSteps
  BY <1>0, <1>m, <1>1 DEF CopiesStay, MoveSteps, StartMove, StartBack, Confirm,
      CancelByOwner, Agree,
      CancelByDevice, Cancel, Sealed, SealFails, Piece, ApplyOnDevice, CommitToDevice,
      TakeBackup, NothingElse, NewId, stepVars
<1>2. CASE ImportSteps
  BY <1>0, <1>m, <1>h, <1>2 DEF CopiesStay, ImportSteps, ProposeImport, ProposeMerge,
      ProposeReclaim, ReportFrozen,
      ConfirmImport, ConfirmReclaim, ConfirmMerge, TakePage, CheckCommit,
      CancelImportByDevice, CancelImportByOwner, CancelImport, Land, HoldForMerge, MergeIn,
      MergeFails, NothingElse, NewId, stepVars
<1>3. CASE DeviceSteps
  <2> PICK d \in Devices :
        \/ Revoke(d) \/ GoneArrival(d) \/ GoneSessions(d) \/ GoneHolder(d) \/ GoneMoves(d)
        \/ DeviceBirth(d) \/ DeviceKeeps(d) \/ DeviceHears(d)
    BY <1>3 DEF DeviceSteps
  <2>1. CASE DeviceBirth(d) \/ DeviceKeeps(d) \/ DeviceHears(d)
    BY <2>1 DEF CopyStep, DeviceBirth, DeviceKeeps, DeviceHears, siteVars, stepVars,
        countVars
  <2>2. CASE Revoke(d)
    BY <1>0, <1>m, <2>2 DEF CopiesStay, Revoke, siteVars, stepVars, countVars
  <2>3. CASE GoneArrival(d) \/ GoneSessions(d) \/ GoneHolder(d) \/ GoneMoves(d)
    BY <1>0, <1>m, <2>3 DEF CopiesStay, GoneArrival, GoneSessions, GoneHolder,
        GoneMoves, Leaves, stepVars,
        countVars
  <2> QED
    BY <2>1, <2>2, <2>3
<1>4. CASE SiteSteps
  BY <1>0, <1>m, <1>4 DEF CopiesStay, SiteSteps, Birth, DeletePersona, MoveOut,
      UndoMoveOut, LetGo, AskToClear,
      ClearSealed, SettleOrphan, NothingElse, stepVars, deviceVars
<1>5. CASE CopySteps
  BY <1>0, <1>m, <1>5 DEF CopiesStay, CopySteps, Fetch, Adopt, Reread, siteVars,
      stepVars, deviceVars, countVars
<1>6. CASE Crash
  BY <1>0, <1>m, <1>6 DEF CopiesStay, Crash, siteVars
<1>7. CASE UNCHANGED vars
  BY <1>0, <1>m, <1>7 DEF CopiesStay, vars, siteVars, stepVars, deviceVars, countVars
<1> QED
  BY <1>1, <1>2, <1>3, <1>4, <1>5, <1>6, <1>7 DEF Next

\* A row that is the same stands.
LEMMA SameRowStands ==
  ASSUME lease' = lease, LeftFromSite
  PROVE  RowStands
BY DEF RowStands, MoveStands, TakenIn, Lost, Knows, HomeUnknown, LeftFromSite

\* A move called off: she stands as before it, or had not arrived.
LEMMA GivenBackStands ==
  ASSUME TypeOK, Row, MayGiveBack, LeftFromSite
  PROVE  RowStands \/ (lease' = NoLease /\ ~TakenIn)
<1>1. CASE lease' = lease
  BY <1>1, SameRowStands
<1>2. CASE lease' = NoLease /\ OnHerWay /\ lease.move.kind # "none"
  <2>1. lease.move.kind = "Arrival" /\ lease.move.was = "none"
    BY <1>2 DEF OnHerWay, Row, RowOfMove, TypeOK, Lease, Move, Kinds
  <2> QED
    BY <1>2, <2>1 DEF TakenIn
<1>3. CASE lease.move.kind # "none" /\ GivenBack(lease')
  <2>1. lease.state # "none"
    BY <1>3 DEF Row, RowOfState, NoLease, NoMove
  <2>2. lease.state = "vacant" => lease.move.was = "vacant"
    BY <1>3 DEF Row, RowOfState
  <2>3. /\ lease'.state = (IF lease.move.was = "vacant" THEN "vacant" ELSE "live")
        /\ lease'.holder = lease.holder /\ lease'.lineage = lease.lineage
        /\ lease'.epoch = lease.epoch /\ lease'.done = lease.done
        /\ lease'.move.kind = "none" /\ lease'.move.was = "none"
    BY <1>3 DEF GivenBack, NoMove
  <2> QED
    BY <2>1, <2>2, <2>3 DEF RowStands, MoveStands, TakenIn, Lost, Knows, HomeUnknown,
        LeftFromSite
<1> QED
  BY <1>1, <1>2, <1>3 DEF MayGiveBack

\* Every step of the site stands, or is one of those that move her.
LEMMA StepsOfSite ==
  ASSUME RowInv, NothingCleared, MergesSession, LeftFromSite, ~Forgets, Next \/ UNCHANGED vars
  PROVE  SiteStep \/ \E d \in Devices : CopyStep(d)
<1>0. TypeOK /\ Row /\ Ids /\ Together /\ Leaving /\ LandsSafely
  BY DEF RowInv
<1> USE <1>0
<1> DEFINE Rest == /\ CopiesStay
                   /\ (persona => persona') \/ LetGo \/ \E d \in Devices : CommitToDevice(d)
                   /\ persona' = persona \/ Birth \/ LetGo \/ (\E d \in Devices : CommitToDevice(d))
                        \/ (\E id \in landing : Land(id))
<1>r. Rest \/ \E d \in Devices : CopyStep(d)
  BY RestOfStep
<1> SUFFICES ASSUME Rest PROVE SiteStep
  BY <1>r
<1>s. Stands => SiteStep
  BY DEF SiteStep
<1>same. session' = session => SessionStands
  BY DEF SessionStands
<1>m. lease.move.kind # "none" => lease.state \notin {"none", "moved_out"}
  BY DEF Row, RowOfState, NoLease, NoMove
<1>v. lease.state = "vacant" /\ lease.move.kind # "none" =>
        lease.move.kind = "Recover" /\ lease.move.was = "vacant" /\ lease.move.phase = Proposed
  BY DEF Row, RowOfState
<1>1. CASE lease' = lease /\ session' = session /\ landing' \subseteq landing
  <2>1. ~LetGo
    BY <1>1 DEF LetGo, TypeOK, Lease
  <2>2. ASSUME NEW d \in Devices, CommitToDevice(d)
        PROVE  FALSE
    <3>1. lease'.epoch = lease.epoch + 1 /\ lease.epoch \in Nat
      BY <2>2 DEF CommitToDevice, TypeOK, Lease
    <3> QED
      BY <1>1, <3>1
  <2> QED
    BY <2>1, <2>2, <1>1, <1>same, <1>s, SameRowStands DEF Stands
<1>2. CASE \E d \in Devices, kind \in {"ToDevice", "MergeAsked"}, by \in {"owner", "device"} :
         StartMove(d, kind, by)
  <2> PICK d \in Devices, kind \in {"ToDevice", "MergeAsked"}, by \in {"owner", "device"} : StartMove(d, kind, by)
    BY <1>2
  <2>1. /\ lease.state \in {"live"} /\ lease.move = NoMove
        /\ lease'.state \in {"live", "frozen"}
        /\ lease'.holder = lease.holder /\ lease'.lineage = lease.lineage
        /\ lease'.epoch = lease.epoch
        /\ lease'.move.kind \in {"ToDevice", "MergeAsked"} /\ lease'.move.was \in {"live"}
    BY StartMoveRow DEF Becomes, NewMove, NoMove
  <2>6. lease'.move.id = nextId
    BY StartMoveRow DEF Becomes, NewMove, NoMove
  <2>7. lease'.move.phase \in {Proposed, Frozen}
    BY StartMoveRow DEF Becomes, NewMove, NoMove
  <2>5. lease'.done = lease.done
    BY DEF StartMove, TypeOK, Lease
  <2>2. RowStands
    BY <2>1, <2>5, <2>6, <2>7 DEF RowStands, MoveStands, TakenIn, Lost, Knows,
        HomeUnknown, LeftFromSite, NoMove, Proposed,
        Frozen, Applied
  <2>3. SessionStands
    BY <1>same DEF StartMove
  <2>4. persona' = persona
    BY DEF StartMove
  <2> QED
    BY <2>2, <2>3, <2>4, <1>s DEF Stands
<1>3. CASE \E d \in Devices, by \in {"owner", "device"} : StartBack(d, by)
  <2> PICK d \in Devices, by \in {"owner", "device"} : StartBack(d, by)
    BY <1>3
  <2>1. /\ lease.state \in {"live"} /\ lease.move = NoMove
        /\ lease'.state \in {"live", "frozen"}
        /\ lease'.holder = lease.holder /\ lease'.lineage = lease.lineage
        /\ lease'.epoch = lease.epoch
        /\ lease'.move.kind \in {"Back"} /\ lease'.move.id = nextId
        /\ lease'.move.phase \in {Proposed, Frozen}
        /\ lease'.move.was \in {"live"}
    BY StartBackRow DEF Becomes, NewMove, NoMove
  <2>5. lease'.done = lease.done
    BY DEF StartBack, TypeOK, Lease
  <2>2. RowStands
    BY <2>1, <2>5 DEF RowStands, MoveStands, TakenIn, Lost, Knows, HomeUnknown,
        LeftFromSite, NoMove, Proposed,
        Frozen, Applied
  <2>3. SessionStands
    BY <1>same DEF StartBack
  <2>4. persona' = persona
    BY DEF StartBack
  <2> QED
    BY <2>2, <2>3, <2>4, <1>s DEF Stands
<1>4. CASE \E d \in Devices : Agree(d)
  <2> PICK d \in Devices : Agree(d)
    BY <1>4
  <2>1. RowStands
    BY <1>m, <1>v DEF Agree, RowStands, MoveStands, TakenIn, Lost, Knows, HomeUnknown,
        LeftFromSite, Row, RowOfState, RowOfMove, TypeOK, Lease, Move, NoMove,
        NoLease, Proposed, Freezes, Frozen, Transferring, Applied
  <2>2. SessionStands
    BY <1>same DEF Agree, SessionStands, TypeOK, Session, siteVars
  <2>3. persona' = persona
    BY DEF Agree
  <2> QED
    BY <2>1, <2>2, <2>3, <1>s DEF Stands
<1>5. CASE Confirm
  <2>1. RowStands
    BY <1>5, <1>m, <1>v DEF Confirm, RowStands, MoveStands, TakenIn, Lost, Knows,
        HomeUnknown, LeftFromSite, Row, RowOfState, RowOfMove, TypeOK, Lease, Move,
        NoMove, NoLease, Proposed, Freezes, Frozen, Transferring, Applied
  <2>2. SessionStands
    BY <1>5, <1>same DEF Confirm, SessionStands, TypeOK, Session, siteVars
  <2>3. persona' = persona
    BY <1>5 DEF Confirm
  <2> QED
    BY <2>1, <2>2, <2>3, <1>s DEF Stands
<1>6. CASE CancelByOwner
  <2>1. MayGiveBack
    BY <1>6, CancelRow DEF CancelByOwner, Cancel
  <2>2. SessionStands
    BY <1>6, <1>same DEF CancelByOwner, Cancel, CancelledSession, Dropped, SessionStands
  <2>3. persona' = persona
    BY <1>6 DEF CancelByOwner, Cancel
  <2>4. RowStands \/ (lease' = NoLease /\ ~TakenIn)
    BY <2>1, GivenBackStands
  <2> QED
    BY <2>2, <2>3, <2>4 DEF SiteStep, Stands, Forgotten
<1>7. CASE \E d \in Devices : CancelByDevice(d)
  <2>1. MayGiveBack
    BY <1>7, CancelRow DEF CancelByDevice, Cancel
  <2>2. SessionStands
    BY <1>7, <1>same DEF CancelByDevice, Cancel, CancelledSession, Dropped, SessionStands
  <2>3. persona' = persona
    BY <1>7 DEF CancelByDevice, Cancel
  <2>4. RowStands \/ (lease' = NoLease /\ ~TakenIn)
    BY <2>1, GivenBackStands
  <2> QED
    BY <2>2, <2>3, <2>4 DEF SiteStep, Stands, Forgotten
<1>8. CASE \E id \in sealing : Sealed(id)
  <2> PICK id \in sealing : Sealed(id)
    BY <1>8
  <2>1. RowStands
    BY <1>m, <1>v DEF Sealed, RowStands, MoveStands, TakenIn, Lost, Knows,
        HomeUnknown, LeftFromSite, Row, RowOfState, RowOfMove, TypeOK, Lease, Move,
        NoMove, NoLease, Proposed, Freezes, Frozen, Transferring, Applied, Together,
        Ids, Given
  <2>2. SessionStands
    BY <1>same DEF Sealed, SessionStands, TypeOK, Session, siteVars
  <2>3. persona' = persona
    BY DEF Sealed
  <2> QED
    BY <2>1, <2>2, <2>3, <1>s DEF Stands
<1>9. CASE \E id \in sealing : SealFails(id)
  <2>1. MayGiveBack
    BY <1>9, SealFailsRow DEF SealFails
  <2>2. SessionStands
    BY <1>9, <1>same DEF SealFails, CancelledSession, Dropped, SessionStands
  <2>3. persona' = persona
    BY <1>9 DEF SealFails
  <2>4. RowStands \/ (lease' = NoLease /\ ~TakenIn)
    BY <2>1, GivenBackStands
  <2> QED
    BY <2>2, <2>3, <2>4 DEF SiteStep, Stands, Forgotten
<1>10. CASE \E d \in Devices : Piece(d)
  <2> PICK d \in Devices : Piece(d)
    BY <1>10
  <2>1. RowStands
    BY <1>m, <1>v DEF Piece, RowStands, MoveStands, TakenIn, Lost, Knows, HomeUnknown,
        LeftFromSite, Row, RowOfState, RowOfMove, TypeOK, Lease, Move, NoMove,
        NoLease, Proposed, Freezes, Frozen, Transferring, Applied, ToThisDevice
  <2>2. SessionStands
    BY <1>same DEF Piece, SessionStands, TypeOK, Session, siteVars
  <2>3. persona' = persona
    BY DEF Piece
  <2> QED
    BY <2>1, <2>2, <2>3, <1>s DEF Stands
<1>11. CASE \E d \in Devices : ApplyOnDevice(d)
  <2> PICK d \in Devices : ApplyOnDevice(d)
    BY <1>11
  <2>1. RowStands
    BY <1>m, <1>v DEF ApplyOnDevice, RowStands, MoveStands, TakenIn, Lost, Knows,
        HomeUnknown, LeftFromSite, Row, RowOfState, RowOfMove, TypeOK, Lease, Move,
        NoMove, NoLease, Proposed, Freezes, Frozen, Transferring, Applied,
        ToThisDevice
  <2>2. SessionStands
    BY <1>same DEF ApplyOnDevice, SessionStands, TypeOK, Session, siteVars
  <2>3. persona' = persona
    BY DEF ApplyOnDevice
  <2> QED
    BY <2>1, <2>2, <2>3, <1>s DEF Stands
<1>12. CASE \E d \in Devices : CommitToDevice(d)
  <2> PICK d \in Devices : CommitToDevice(d)
    BY <1>12
  <2>1. GoesTo(d)
    BY DEF CommitToDevice, ToThisDevice, GoesTo, TypeOK, Lease
  <2> QED
    BY <2>1 DEF SiteStep
<1>13. CASE \E d \in Devices : ProposeImport(d)
  <2> PICK d \in Devices : ProposeImport(d)
    BY <1>13
  <2>1. RowStands
    BY SameRowStands DEF ProposeImport
  <2>2. SessionBegins
    BY DEF ProposeImport, SessionBegins, NewSession
  <2>3. persona' = persona
    BY DEF ProposeImport
  <2> QED
    BY <2>1, <2>2, <2>3, <1>s DEF Stands
<1>14. CASE \E d \in Devices : ProposeMerge(d)
  <2> PICK d \in Devices : ProposeMerge(d)
    BY <1>14
  <2>1. /\ lease.state \in {"live"} /\ lease.move = NoMove
        /\ lease'.state \in {"live"}
        /\ lease'.holder = lease.holder /\ lease'.lineage = lease.lineage
        /\ lease'.epoch = lease.epoch
        /\ lease'.move.kind \in {"Merge"} /\ lease'.move.id = nextId
        /\ lease'.move.phase \in {Proposed}
        /\ lease'.move.was \in {"none"}
    BY ProposeMergeRow DEF Becomes, NewMove, NoMove
  <2>5. lease'.done = lease.done
    BY DEF ProposeMerge, TypeOK, Lease
  <2>2. RowStands
    BY <2>1, <2>5 DEF RowStands, MoveStands, TakenIn, Lost, Knows, HomeUnknown,
        LeftFromSite, NoMove, Proposed,
        Frozen, Applied
  <2>3. SessionBegins
    BY <2>1 DEF ProposeMerge, SessionBegins, NewSession, TakenIn, NoMove
  <2>4. persona' = persona
    BY DEF ProposeMerge
  <2> QED
    BY <2>2, <2>3, <2>4, <1>s DEF Stands
<1>15. CASE \E d \in Devices : ProposeReclaim(d)
  <2> PICK d \in Devices : ProposeReclaim(d)
    BY <1>15
  <2>1. /\ lease.state \in {"live", "vacant"} /\ lease.move = NoMove
        /\ lease'.state \in {lease.state}
        /\ lease'.holder = lease.holder /\ lease'.lineage = lease.lineage
        /\ lease'.epoch = lease.epoch
        /\ lease'.move.kind \in {"Recover"} /\ lease'.move.id = nextId
        /\ lease'.move.phase \in {Proposed}
        /\ lease'.move.was \in {lease.state}
    BY ProposeReclaimRow DEF Becomes, NewMove, NoMove
  <2>5. lease'.done = lease.done
    BY DEF ProposeReclaim, TypeOK, Lease
  <2>2. RowStands
    BY <2>1, <2>5 DEF RowStands, MoveStands, TakenIn, Lost, Knows, HomeUnknown,
        LeftFromSite, NoMove, Proposed,
        Frozen, Applied
  <2>3. SessionBegins
    BY <2>1 DEF ProposeReclaim, SessionBegins, NewSession, TakenIn, NoMove
  <2>4. persona' = persona
    BY DEF ProposeReclaim
  <2> QED
    BY <2>2, <2>3, <2>4, <1>s DEF Stands
<1>16. CASE \E d \in Devices : ReportFrozen(d)
  <2> PICK d \in Devices : ReportFrozen(d)
    BY <1>16
  <2>1. RowStands
    BY <1>m, <1>v DEF ReportFrozen, RowStands, MoveStands, TakenIn, Lost, Knows,
        HomeUnknown, LeftFromSite, Row, RowOfState, RowOfMove, TypeOK, Lease, Move,
        NoMove, NoLease, Proposed, Freezes, Frozen, Transferring, Applied, NewMove
  <2>2. SessionBegins
    BY <1>m DEF ReportFrozen, SessionBegins, NewSession, TakenIn, Holds, TypeOK,
        Lease, NoMove, Session
  <2>3. persona' = persona
    BY DEF ReportFrozen
  <2> QED
    BY <2>1, <2>2, <2>3, <1>s DEF Stands
<1>17. CASE ConfirmImport
  <2>1. session.kind = "import" /\ session.phase = "proposed" /\ persona' = persona
        /\ session' = [session EXCEPT !.phase = "confirmed"]
    BY <1>17 DEF ConfirmImport
  <2>2. SessionStands /\ session'.phase # "none"
    BY <2>1 DEF SessionStands, TypeOK, Session
  <2>3. lease.state = "vacant" => lease.lineage = session.lineage
    BY <1>17 DEF ConfirmImport, ReplacesSealed
  <2>4. Arrives
    BY <1>17, <2>1, <2>2, <2>3, ConfirmImportRow DEF Arrives, Becomes, NewMove, NoMove
  <2> QED
    BY <2>4 DEF SiteStep
<1>18. CASE ConfirmReclaim
  <2>1. RowStands
    BY <1>18, <1>m, <1>v DEF ConfirmReclaim, RowStands, MoveStands, TakenIn, Lost,
        Knows, HomeUnknown, LeftFromSite, Row, RowOfState, RowOfMove, TypeOK, Lease,
        Move, NoMove, NoLease, Proposed, Freezes, Frozen, Transferring, Applied,
        Together, Ids, Given
  <2>2. SessionStands
    BY <1>18, <1>same DEF ConfirmReclaim, SessionStands, TypeOK, Session, siteVars
  <2>3. persona' = persona
    BY <1>18 DEF ConfirmReclaim
  <2> QED
    BY <2>1, <2>2, <2>3, <1>s DEF Stands
<1>19. CASE ConfirmMerge
  <2>1. RowStands
    BY <1>19, <1>m, <1>v DEF ConfirmMerge, RowStands, MoveStands, TakenIn, Lost,
        Knows, HomeUnknown, LeftFromSite, Row, RowOfState, RowOfMove, TypeOK, Lease,
        Move, NoMove, NoLease, Proposed, Freezes, Frozen, Transferring, Applied,
        Together, Ids, Given
  <2>2. SessionStands
    BY <1>19, <1>same DEF ConfirmMerge, SessionStands, TypeOK, Session, siteVars
  <2>3. persona' = persona
    BY <1>19 DEF ConfirmMerge
  <2> QED
    BY <2>1, <2>2, <2>3, <1>s DEF Stands
<1>20. CASE \E d \in Devices : TakePage(d)
  <2> PICK d \in Devices : TakePage(d)
    BY <1>20
  <2>1. RowStands
    <3>1. CASE lease' = lease
      BY <3>1, SameRowStands
    <3>2. CASE lease' # lease
      <4>1. lease.move.kind # "none" /\ lease.move.phase < Transferring
        BY <3>2, TakePageRow DEF Carries
      <4>2. lease' = [lease EXCEPT !.move.phase = Transferring,
                      !.state = IF lease.move.kind = "Merge" THEN @ ELSE "frozen"]
        BY <3>2 DEF TakePage
      <4> QED
        BY <4>1, <4>2, <1>m, <1>v DEF RowStands, MoveStands, TakenIn, Lost, Knows,
            HomeUnknown, LeftFromSite, Row, RowOfState, RowOfMove, TypeOK, Lease,
            Move, NoMove, NoLease, Proposed, Freezes, Frozen, Transferring, Applied
    <3> QED
      BY <3>1, <3>2
  <2>2. SessionStands
    BY DEF TakePage, SessionStands, TypeOK, Session
  <2>3. persona' = persona
    BY DEF TakePage
  <2> QED
    BY <2>1, <2>2, <2>3, <1>s DEF Stands
<1>21. CASE \E d \in Devices : CheckCommit(d)
  BY <1>21, <1>same, <1>s, SameRowStands DEF Stands, CheckCommit
<1>22. CASE CancelImportByOwner
  <2>1. MayGiveBack
    BY <1>22, CancelImportRow DEF CancelImportByOwner, CancelImport
  <2>2. SessionStands
    BY <1>22, <1>same DEF CancelImportByOwner, CancelImport, CancelledSession, Dropped,
        SessionStands
  <2>3. persona' = persona
    BY <1>22 DEF CancelImportByOwner, CancelImport
  <2>4. RowStands \/ (lease' = NoLease /\ ~TakenIn)
    BY <2>1, GivenBackStands
  <2> QED
    BY <2>2, <2>3, <2>4 DEF SiteStep, Stands, Forgotten
<1>23. CASE \E d \in Devices : CancelImportByDevice(d)
  <2>1. MayGiveBack
    BY <1>23, CancelImportRow DEF CancelImportByDevice, CancelImport
  <2>2. SessionStands
    BY <1>23, <1>same DEF CancelImportByDevice, CancelImport, CancelledSession, Dropped,
        SessionStands
  <2>3. persona' = persona
    BY <1>23 DEF CancelImportByDevice, CancelImport
  <2>4. RowStands \/ (lease' = NoLease /\ ~TakenIn)
    BY <2>1, GivenBackStands
  <2> QED
    BY <2>2, <2>3, <2>4 DEF SiteStep, Stands, Forgotten
<1>24. CASE \E id \in landing : Land(id)
  <2> PICK id \in landing : Land(id)
    BY <1>24
  <2>1. CASE lease' = lease /\ session' = session
    <3>1. RowStands /\ SessionStands
      BY <2>1, <1>same, SameRowStands
    <3>2. persona => persona'
      BY DEF Land
    <3> QED
      BY <3>1, <3>2, <1>s DEF Stands
  <2>2. CASE ~(lease' = lease /\ session' = session)
    <3>1. session.id = id /\ Receiving /\ session' = [session EXCEPT !.phase = "committed"]
      BY <2>2, LandRow
    <3>2. SessionDone
      BY <3>1 DEF SessionDone, Receiving, TypeOK, Session
    <3>3. session.kind # "merge"
      BY <3>1 DEF Together
    <3>4. persona'
      BY <2>2 DEF Land
    <3>5. Lands
      BY <2>2, <3>2, <3>3, <3>4, LandRow DEF Lands, Becomes, TypeOK, Session
    <3> QED
      BY <3>5 DEF SiteStep
  <2> QED
    BY <2>1, <2>2
<1>25. CASE \E d \in Devices, request \in {1, 2} : HoldForMerge(d, request)
  <2> PICK d \in Devices, request \in {1, 2} : HoldForMerge(d, request)
    BY <1>25
  <2>1. RowStands
    BY <1>m, <1>v DEF HoldForMerge, RowStands, MoveStands, TakenIn, Lost, Knows,
        HomeUnknown, LeftFromSite, Row, RowOfState, RowOfMove, TypeOK, Lease, Move,
        NoMove, NoLease, Proposed, Freezes, Frozen, Transferring, Applied
  <2>2. SessionStands
    BY <1>same DEF HoldForMerge, SessionStands, TypeOK, Session, siteVars
  <2>3. persona' = persona
    BY DEF HoldForMerge
  <2> QED
    BY <2>1, <2>2, <2>3, <1>s DEF Stands
<1>26. CASE \E m \in merging : MergeIn(m[1], m[2])
  <2> PICK m \in merging : MergeIn(m[1], m[2])
    BY <1>26
  <2>1. /\ session.id = m[1] /\ lease.holder = Site /\ lease.move.id = m[1] /\ Receiving
        /\ session' = [session EXCEPT !.phase = "committed"]
        /\ Becomes("live", Site, lease.lineage, lease.epoch + 1, NoMove)
    BY MergeInRow
  <2>2. SessionDone /\ session.kind # "none"
    BY <2>1 DEF SessionDone, Receiving, TypeOK, Session, Ids, NoSession
  <2>3. lease.move.kind # "none"
    BY <2>1, <2>2 DEF Ids, Given, Row, RowOfMove, NoMove
  <2>4. session.kind = "merge" /\ lease.move.kind = "Merge"
    BY <2>1, <2>2, <2>3 DEF Together, MergesSession
  <2>5. Knows
    BY <2>3, <2>4, <1>m, <1>v DEF Knows, HomeUnknown
  <2>6. persona' = persona
    BY DEF MergeIn
  <2>7. Merges
    BY <2>1, <2>2, <2>4, <2>5, <2>6 DEF Merges, Becomes
  <2> QED
    BY <2>7 DEF SiteStep
<1>27. CASE \E m \in merging : MergeFails(m[1], m[2])
  <2> PICK m \in merging : MergeFails(m[1], m[2])
    BY <1>27
  <2>1. RowStands
    <3>1. CASE lease' = lease
      BY <3>1, SameRowStands
    <3>2. CASE lease' # lease
      <4>1. lease.move.kind = "Merge"
            /\ lease' = [lease EXCEPT !.state = "live", !.move.phase = Transferring]
        BY <3>2 DEF MergeFails
      <4> QED
        BY <4>1, <1>m, <1>v DEF RowStands, MoveStands, TakenIn, Lost, Knows,
            HomeUnknown, LeftFromSite, Row, RowOfState, RowOfMove, TypeOK, Lease,
            Move, NoMove, NoLease, Proposed, Freezes, Frozen, Transferring, Applied
    <3> QED
      BY <3>1, <3>2
  <2>2. SessionStands /\ persona' = persona
    BY <1>same DEF MergeFails
  <2> QED
    BY <2>1, <2>2, <1>s DEF Stands
<1>28. CASE \E d \in Devices : GoneArrival(d)
  <2>1. session' = session /\ persona' = persona
    BY <1>28 DEF GoneArrival, Leaves
  <2>2. lease' = lease \/ (lease' = NoLease /\ ~TakenIn)
    BY <1>28 DEF GoneArrival, TakenIn
  <2> QED
    BY <2>1, <2>2, <1>same, SameRowStands DEF SiteStep, Stands, Forgotten
<1>29. CASE \E d \in Devices : GoneSessions(d)
  <2>1. SessionStands /\ lease' = lease /\ persona' = persona
    BY <1>29, <1>same DEF GoneSessions, Leaves, SessionStands
  <2> QED
    BY <2>1, <1>s, SameRowStands DEF Stands
<1>30. CASE \E d \in Devices : GoneHolder(d)
  <2> PICK d \in Devices : GoneHolder(d)
    BY <1>30
  <2>1. session' = session /\ persona' = persona /\ d \notin linked
    BY DEF GoneHolder, Leaves, Leaving
  <2>2. lease' = lease \/ LosesHome
    <3>1. lease.holder = d => lease.state # "none"
      BY SiteAssumption DEF Row, RowOfState, NoLease
    <3> QED
      BY <2>1, <3>1 DEF GoneHolder, CopiesStay, LosesHome, TypeOK, Lease
  <2> QED
    BY <2>1, <2>2, <1>same, SameRowStands DEF SiteStep, Stands
<1>31. CASE \E d \in Devices : GoneMoves(d)
  <2>1. MayGiveBack
    BY <1>31, GoneMovesRow DEF GoneMoves, Leaves
  <2>2. SessionStands
    BY <1>31, <1>same DEF GoneMoves, Leaves, CancelledSession, Dropped, SessionStands
  <2>3. persona' = persona
    BY <1>31 DEF GoneMoves, Leaves
  <2>4. RowStands \/ (lease' = NoLease /\ ~TakenIn)
    BY <2>1, GivenBackStands
  <2> QED
    BY <2>2, <2>3, <2>4 DEF SiteStep, Stands, Forgotten
<1>32. CASE Birth
  <2>1. session' = session /\ persona'
    BY <1>32 DEF Birth
  <2>2. CASE lease.state = "none"
    <3>1. BornHere
      BY <1>32, <2>1, <2>2 DEF BornHere, Birth, NoLease
    <3> QED
      BY <3>1 DEF SiteStep
  <2>3. CASE lease.state # "none"
    BY <1>32, <2>1, <2>3, <1>same, <1>s, SameRowStands DEF Birth, Stands
  <2> QED
    BY <2>2, <2>3
<1>33. CASE DeletePersona
  BY <1>33 DEF DeletePersona
<1>34. CASE MoveOut
  <2>1. RowStands
    BY <1>34, <1>m, <1>v DEF MoveOut, RowStands, MoveStands, TakenIn, Lost, Knows,
        HomeUnknown, LeftFromSite, Row, RowOfState, RowOfMove, TypeOK, Lease, Move,
        NoMove, NoLease, Proposed, Freezes, Frozen, Transferring, Applied
  <2>2. SessionStands
    BY <1>34, <1>same DEF MoveOut, SessionStands, TypeOK, Session, siteVars
  <2>3. persona' = persona
    BY <1>34 DEF MoveOut
  <2> QED
    BY <2>1, <2>2, <2>3, <1>s DEF Stands
<1>35. CASE UndoMoveOut
  <2>1. RowStands
    BY <1>35, <1>m, <1>v DEF UndoMoveOut, RowStands, MoveStands, TakenIn, Lost, Knows,
        HomeUnknown, LeftFromSite, Row, RowOfState, RowOfMove, TypeOK, Lease, Move,
        NoMove, NoLease, Proposed, Freezes, Frozen, Transferring, Applied
  <2>2. SessionStands
    BY <1>35, <1>same DEF UndoMoveOut, SessionStands, TypeOK, Session, siteVars
  <2>3. persona' = persona
    BY <1>35 DEF UndoMoveOut
  <2> QED
    BY <2>1, <2>2, <2>3, <1>s DEF Stands
<1>36. CASE LetGo
  <2>1. LosesHome
    BY <1>36, SiteAssumption DEF LetGo, CopiesStay, LosesHome, LeftFromSite, TypeOK, Lease
  <2> QED
    BY <2>1 DEF SiteStep
<1>37. CASE ClearSealed
  BY <1>37 DEF ClearSealed, NothingCleared
<1>38. CASE SettleOrphan
  <2>1. LosesHome
    BY <1>38 DEF SettleOrphan, CopiesStay, LosesHome, TypeOK, Lease
  <2> QED
    BY <2>1 DEF SiteStep
<1> QED
  BY <1>1, <1>2, <1>3, <1>4, <1>5, <1>6, <1>7, <1>8, <1>9, <1>10, <1>11, <1>12, <1>13,
      <1>14, <1>15, <1>16, <1>17, <1>18, <1>19, <1>20, <1>21, <1>22, <1>23, <1>24,
      <1>25, <1>26, <1>27, <1>28, <1>29, <1>30, <1>31, <1>32, <1>33, <1>34, <1>35,
      <1>36, <1>37, <1>38, ArrivalSteps

\* A longer range of ids has those of a shorter one.
LEMMA RangeGrows ==
  ASSUME NEW m \in Nat, NEW n \in Nat, m <= n
  PROVE  1 .. m - 1 \subseteq 1 .. n - 1
OBVIOUS

\* A step gives out ids, and takes none back.
LEMMA GivenGrows ==
  ASSUME TypeOK, TypeOK', CopiesStay
  PROVE  Given \subseteq Given' /\ 0 \notin Given /\ nextId \notin Given
<1>1. nextId \in Nat /\ nextId' \in Nat /\ nextId <= nextId'
  BY DEF CopiesStay, TypeOK
<1>2. Given \subseteq Given'
  BY <1>1, RangeGrows DEF Given
<1>3. 0 \notin Given /\ nextId \notin Given
  BY <1>1 DEF Given
<1> QED
  BY <1>2, <1>3

\* A merge goes on to be of the session it holds her for.
LEMMA CopiesKeepMerges ==
  ASSUME TypeOK, Ids, TypeOK', MergesSession, CopiesStay,
         \/ session' = NoSession
         \/ session'.id = session.id /\ session'.kind = session.kind
         \/ session'.id = nextId
  PROVE  MergesSession'
<1>1. ASSUME NEW m \in merging'
      PROVE  m[1] \in Given /\ (session.id = m[1] => session.kind = "merge")
  BY <1>1 DEF CopiesStay, MergesOn, MergesSession, Ids, TypeOK, Session
<1>2. Given \subseteq Given' /\ 0 \notin Given /\ nextId \notin Given
  BY GivenGrows
<1> QED
  BY <1>1, <1>2 DEF MergesSession, NoSession

\* A row that stands keeps where she is.
LEMMA StandsKeepsHome ==
  ASSUME RowInv, TypeOK', HomeInv, CopiesStay, Stands
  PROVE  HomeInv'
<1>0. TypeOK /\ Row /\ Ids /\ Born
  BY DEF RowInv
<1>i. /\ NothingCleared /\ MergesSession /\ LeftFromSite /\ SessionHeld /\ SessionOfRow
      /\ OnlyThroughSite /\ CopiesBehind /\ EpochsApart /\ ApartOfMove /\ AppliedHasHer
      /\ CommittedIsPast /\ SiteHasHer /\ DeviceHasHer
  BY DEF HomeInv
<1> USE <1>0, <1>i
<1>c. NothingCleared'
  BY DEF CopiesStay, NothingCleared
<1>m. MergesSession'
  BY CopiesKeepMerges DEF Ids, Stands, SessionStands, SessionBegins
<1>g. Given \subseteq Given' /\ 0 \notin Given /\ nextId \notin Given
  BY GivenGrows
<1>l. Site \notin linked'
  BY SiteAssumption DEF CopiesStay, TypeOK
<1>t. /\ lease.epoch \in Nat /\ lease'.epoch \in Nat /\ session.epoch \in Nat
      /\ \A d \in Devices : dev[d].epoch \in Nat /\ dev[d].at \in {"none", "apart", "living", "still"}
  BY DEF TypeOK, Lease, Session, Her
<1>1. LeftFromSite'
  BY SiteAssumption DEF CopiesStay, Stands, SessionStands, SessionBegins,
      LeftFromSite, NoLease, RowStands
<1>2. SessionHeld'
  BY SiteAssumption DEF CopiesStay, Stands, SessionStands, SessionBegins, SessionHeld,
      Holds, NoSession, Ids, RowStands
<1>3. SessionOfRow'
  <2>1. CASE SessionBegins /\ session'.kind = "merge"
    <3>1. session'.lineage = lease'.lineage => session'.epoch <= lease'.epoch
      BY <2>1 DEF Stands, RowStands, SessionBegins, CopiesBehind, Holds, TakenIn
    <3> QED
      BY <2>1, <3>1 DEF Stands, RowStands, SessionBegins, SessionOfRow
  <2>2. CASE SessionBegins /\ session'.kind # "merge"
    BY <2>2 DEF Stands, RowStands, SessionBegins, SessionOfRow
  <2>3. CASE SessionStands
    BY <2>3 DEF Stands, RowStands, SessionStands, SessionOfRow, NoSession
  <2> QED
    BY <2>1, <2>2, <2>3 DEF Stands
<1>4. OnlyThroughSite'
  BY SiteAssumption DEF CopiesStay, Stands, SessionStands, SessionBegins,
      OnlyThroughSite, TakenIn, RowStands
<1>5. CopiesBehind'
  BY SiteAssumption DEF CopiesStay, Stands, SessionStands, SessionBegins,
      CopiesBehind, Lost, TypeOK, Lease, Her, NoLease, NoMove, RowStands
<1>6. EpochsApart'
  BY SiteAssumption DEF CopiesStay, Stands, SessionStands, SessionBegins, EpochsApart,
      RowStands
<1>7. ApartOfMove'
  <2> SUFFICES ASSUME NEW d \in Devices, dev[d].at = "apart"
               PROVE  /\ dev[d].epoch = 0 /\ dev[d].move \in Given'
                      /\ lease'.move.kind = "ToDevice" /\ lease'.move.id = dev[d].move =>
                           dev[d].lineage = lease'.lineage
                      /\ d \in linked' /\ lease'.holder = d =>
                           /\ lease'.state # "none" /\ ~Lost'
                           /\ lease'.done = dev[d].move /\ dev[d].lineage = lease'.lineage
    BY DEF ApartOfMove, CopiesStay
  <2>1. dev[d].epoch = 0 /\ dev[d].move \in Given /\ dev[d].move \in Given'
    BY <1>g DEF ApartOfMove
  <2>2. lease'.move.kind = "ToDevice" /\ lease'.move.id = dev[d].move =>
          lease.move.kind = "ToDevice" /\ lease.move.id = dev[d].move
    BY <2>1, <1>g DEF Stands, RowStands, MoveStands
  <2> QED
    BY <2>1, <2>2 DEF ApartOfMove, CopiesStay, Stands, RowStands
<1>8. AppliedHasHer'
  BY SiteAssumption DEF CopiesStay, Stands, SessionStands, SessionBegins,
      AppliedHasHer, MoveStands, NoLease, NoMove, RowStands
<1>9. CommittedIsPast'
  BY SiteAssumption DEF CopiesStay, Stands, SessionStands, SessionBegins,
      CommittedIsPast, NoSession, NoLease, TypeOK, Lease, Session, RowStands
<1>10. SiteHasHer'
  BY SiteAssumption DEF CopiesStay, Stands, SessionStands, SessionBegins, SiteHasHer,
      Knows, HomeUnknown, NoLease, NoMove, RowStands
<1>11. DeviceHasHer'
  BY SiteAssumption DEF CopiesStay, Stands, SessionStands, SessionBegins,
      DeviceHasHer, Knows, HomeUnknown, NoLease, NoMove, RowStands
<1> QED
  BY <1>c, <1>m, <1>1, <1>2, <1>3, <1>4, <1>5, <1>6, <1>7, <1>8, <1>9, <1>10,
     <1>11 DEF HomeInv

\* So does forgetting her who had not arrived.
LEMMA ForgottenKeepsHome ==
  ASSUME RowInv, TypeOK', HomeInv, CopiesStay, Forgotten
  PROVE  HomeInv'
<1>0. TypeOK /\ Row /\ Ids /\ Born
  BY DEF RowInv
<1>i. /\ NothingCleared /\ MergesSession /\ LeftFromSite /\ SessionHeld /\ SessionOfRow
      /\ OnlyThroughSite /\ CopiesBehind /\ EpochsApart /\ ApartOfMove /\ AppliedHasHer
      /\ CommittedIsPast /\ SiteHasHer /\ DeviceHasHer
  BY DEF HomeInv
<1> USE <1>0, <1>i
<1>c. NothingCleared'
  BY DEF CopiesStay, NothingCleared
<1>m. MergesSession'
  BY CopiesKeepMerges DEF Ids, Forgotten, SessionStands
<1>g. Given \subseteq Given' /\ 0 \notin Given /\ nextId \notin Given
  BY GivenGrows
<1>l. Site \notin linked'
  BY SiteAssumption DEF CopiesStay, TypeOK
<1>t. /\ lease.epoch \in Nat /\ lease'.epoch \in Nat /\ session.epoch \in Nat
      /\ \A d \in Devices : dev[d].epoch \in Nat /\ dev[d].at \in {"none", "apart", "living", "still"}
  BY DEF TypeOK, Lease, Session, Her
<1>1. LeftFromSite'
  BY SiteAssumption DEF CopiesStay, Forgotten, SessionStands, LeftFromSite, NoLease
<1>2. SessionHeld'
  BY SiteAssumption DEF CopiesStay, Forgotten, SessionStands, SessionHeld, Holds,
      NoSession, Ids
<1>3. SessionOfRow'
  BY SiteAssumption DEF CopiesStay, Forgotten, SessionStands, SessionOfRow, TakenIn,
      Ids, NoSession, TypeOK, Lease, Session, NoLease
<1>4. OnlyThroughSite'
  BY SiteAssumption DEF CopiesStay, Forgotten, SessionStands, OnlyThroughSite, TakenIn
<1>5. CopiesBehind'
  BY SiteAssumption DEF CopiesStay, Forgotten, SessionStands, CopiesBehind, Lost,
      TypeOK, Lease, Her, NoLease, NoMove
<1>6. EpochsApart'
  BY SiteAssumption DEF CopiesStay, Forgotten, SessionStands, EpochsApart
<1>7. ApartOfMove'
  <2> SUFFICES ASSUME NEW d \in Devices, dev[d].at = "apart"
               PROVE  /\ dev[d].epoch = 0 /\ dev[d].move \in Given'
                      /\ lease'.move.kind = "ToDevice" /\ lease'.move.id = dev[d].move =>
                           dev[d].lineage = lease'.lineage
                      /\ d \in linked' /\ lease'.holder = d =>
                           /\ lease'.state # "none" /\ ~Lost'
                           /\ lease'.done = dev[d].move /\ dev[d].lineage = lease'.lineage
    BY DEF ApartOfMove, CopiesStay
  <2>1. dev[d].epoch = 0 /\ dev[d].move \in Given /\ dev[d].move \in Given'
    BY <1>g DEF ApartOfMove
  <2> QED
    BY <2>1, <1>g, SiteAssumption DEF ApartOfMove, CopiesStay, Forgotten, Lost,
        NoLease, NoMove
<1>8. AppliedHasHer'
  BY SiteAssumption DEF CopiesStay, Forgotten, SessionStands, AppliedHasHer,
      MoveStands, NoLease, NoMove
<1>9. CommittedIsPast'
  BY SiteAssumption DEF CopiesStay, Forgotten, SessionStands, CommittedIsPast,
      NoSession, NoLease, TypeOK, Lease, Session
<1>10. SiteHasHer'
  BY SiteAssumption DEF CopiesStay, Forgotten, SessionStands, SiteHasHer, Knows,
      HomeUnknown, NoLease, NoMove
<1>11. DeviceHasHer'
  BY SiteAssumption DEF CopiesStay, Forgotten, SessionStands, DeviceHasHer, Knows,
      HomeUnknown, NoLease, NoMove
<1> QED
  BY <1>c, <1>m, <1>1, <1>2, <1>3, <1>4, <1>5, <1>6, <1>7, <1>8, <1>9, <1>10,
     <1>11 DEF HomeInv

\* So does losing her home.
LEMMA LosesHomeKeepsHome ==
  ASSUME RowInv, TypeOK', HomeInv, CopiesStay, LosesHome
  PROVE  HomeInv'
<1>0. TypeOK /\ Row /\ Ids /\ Born
  BY DEF RowInv
<1>i. /\ NothingCleared /\ MergesSession /\ LeftFromSite /\ SessionHeld /\ SessionOfRow
      /\ OnlyThroughSite /\ CopiesBehind /\ EpochsApart /\ ApartOfMove /\ AppliedHasHer
      /\ CommittedIsPast /\ SiteHasHer /\ DeviceHasHer
  BY DEF HomeInv
<1> USE <1>0, <1>i
<1>c. NothingCleared'
  BY DEF CopiesStay, NothingCleared
<1>m. MergesSession'
  BY CopiesKeepMerges DEF Ids, LosesHome
<1>g. Given \subseteq Given' /\ 0 \notin Given /\ nextId \notin Given
  BY GivenGrows
<1>l. Site \notin linked'
  BY SiteAssumption DEF CopiesStay, TypeOK
<1>t. /\ lease.epoch \in Nat /\ lease'.epoch \in Nat /\ session.epoch \in Nat
      /\ \A d \in Devices : dev[d].epoch \in Nat /\ dev[d].at \in {"none", "apart", "living", "still"}
  BY DEF TypeOK, Lease, Session, Her
<1>a. TakenIn' /\ Lost'
  BY DEF LosesHome, TakenIn, Lost, NoMove
<1>1. LeftFromSite'
  BY SiteAssumption DEF CopiesStay, LosesHome, LeftFromSite, NoLease
<1>2. SessionHeld'
  BY SiteAssumption DEF CopiesStay, LosesHome, SessionHeld, Holds, NoSession, Ids
<1>3. SessionOfRow'
  BY <1>a DEF SessionOfRow, LosesHome
<1>4. OnlyThroughSite'
  BY <1>a DEF OnlyThroughSite, LosesHome, CopiesStay
<1>5. CopiesBehind'
  BY SiteAssumption DEF CopiesStay, LosesHome, CopiesBehind, Lost, TypeOK, Lease, Her,
      NoLease, NoMove
<1>6. EpochsApart'
  BY SiteAssumption DEF CopiesStay, LosesHome, EpochsApart
<1>7. ApartOfMove'
  <2> SUFFICES ASSUME NEW d \in Devices, dev[d].at = "apart"
               PROVE  /\ dev[d].epoch = 0 /\ dev[d].move \in Given'
                      /\ lease'.move.kind = "ToDevice" /\ lease'.move.id = dev[d].move =>
                           dev[d].lineage = lease'.lineage
                      /\ d \in linked' /\ lease'.holder = d =>
                           /\ lease'.state # "none" /\ ~Lost'
                           /\ lease'.done = dev[d].move /\ dev[d].lineage = lease'.lineage
    BY DEF ApartOfMove, CopiesStay
  <2>1. dev[d].epoch = 0 /\ dev[d].move \in Given /\ dev[d].move \in Given'
    BY <1>g DEF ApartOfMove
  <2> QED
    BY <2>1, <1>g, SiteAssumption DEF ApartOfMove, CopiesStay, LosesHome, Lost,
        NoLease, NoMove
<1>8. AppliedHasHer'
  BY SiteAssumption DEF CopiesStay, LosesHome, AppliedHasHer, MoveStands, NoLease,
      NoMove
<1>9. CommittedIsPast'
  BY SiteAssumption DEF CopiesStay, LosesHome, CommittedIsPast, NoSession, NoLease,
      TypeOK, Lease, Session
<1>10. SiteHasHer'
  BY SiteAssumption DEF CopiesStay, LosesHome, SiteHasHer, Knows, HomeUnknown,
      NoLease, NoMove
<1>11. DeviceHasHer'
  BY SiteAssumption DEF CopiesStay, LosesHome, DeviceHasHer, Knows, HomeUnknown,
      NoLease, NoMove
<1> QED
  BY <1>c, <1>m, <1>1, <1>2, <1>3, <1>4, <1>5, <1>6, <1>7, <1>8, <1>9, <1>10,
     <1>11 DEF HomeInv

\* So does an import that is confirmed.
LEMMA ArrivesKeepsHome ==
  ASSUME RowInv, TypeOK', HomeInv, CopiesStay, Arrives
  PROVE  HomeInv'
<1>0. TypeOK /\ Row /\ Ids /\ Born
  BY DEF RowInv
<1>i. /\ NothingCleared /\ MergesSession /\ LeftFromSite /\ SessionHeld /\ SessionOfRow
      /\ OnlyThroughSite /\ CopiesBehind /\ EpochsApart /\ ApartOfMove /\ AppliedHasHer
      /\ CommittedIsPast /\ SiteHasHer /\ DeviceHasHer
  BY DEF HomeInv
<1> USE <1>0, <1>i
<1>c. NothingCleared'
  BY DEF CopiesStay, NothingCleared
<1>m. MergesSession'
  BY CopiesKeepMerges DEF Ids, Arrives, SessionStands
<1>g. Given \subseteq Given' /\ 0 \notin Given /\ nextId \notin Given
  BY GivenGrows
<1>l. Site \notin linked'
  BY SiteAssumption DEF CopiesStay, TypeOK
<1>t. /\ lease.epoch \in Nat /\ lease'.epoch \in Nat /\ session.epoch \in Nat
      /\ \A d \in Devices : dev[d].epoch \in Nat /\ dev[d].at \in {"none", "apart", "living", "still"}
  BY DEF TypeOK, Lease, Session, Her
<1>1. LeftFromSite'
  BY SiteAssumption DEF CopiesStay, Arrives, SessionStands, LeftFromSite, NoLease
<1>2. SessionHeld'
  BY SiteAssumption DEF CopiesStay, Arrives, SessionStands, SessionHeld, Holds,
      NoSession, Ids
<1>3. SessionOfRow'
  BY SiteAssumption DEF CopiesStay, Arrives, SessionStands, SessionOfRow, TakenIn,
      Ids, NoSession, TypeOK, Lease, Session, NoLease
<1>4. OnlyThroughSite'
  BY SiteAssumption DEF CopiesStay, Arrives, SessionStands, OnlyThroughSite, TakenIn
<1>5. CopiesBehind'
  <2>1. CASE lease.state = "vacant"
    BY <2>1 DEF CopiesStay, Arrives, CopiesBehind, Lost
  <2>2. CASE lease.state = "none"
    <3>1. ASSUME NEW d \in Devices, dev[d].at # "none", dev[d].lineage = session.lineage
          PROVE  d = session.device
      BY <2>2, <3>1 DEF OnlyThroughSite, TakenIn, SessionHeld, Arrives, Ids
    <3>2. session.epoch = dev[session.device].epoch /\ lease'.epoch = session.epoch /\ ~Lost'
      BY <2>2 DEF SessionHeld, Arrives, Lost
    <3> QED
      BY <3>1, <3>2, <1>t DEF CopiesStay, Arrives, CopiesBehind
  <2> QED
    BY <2>1, <2>2 DEF Arrives
<1>6. EpochsApart'
  BY SiteAssumption DEF CopiesStay, Arrives, SessionStands, EpochsApart
<1>7. ApartOfMove'
  <2> SUFFICES ASSUME NEW d \in Devices, dev[d].at = "apart"
               PROVE  /\ dev[d].epoch = 0 /\ dev[d].move \in Given'
                      /\ lease'.move.kind = "ToDevice" /\ lease'.move.id = dev[d].move =>
                           dev[d].lineage = lease'.lineage
                      /\ d \in linked' /\ lease'.holder = d =>
                           /\ lease'.state # "none" /\ ~Lost'
                           /\ lease'.done = dev[d].move /\ dev[d].lineage = lease'.lineage
    BY DEF ApartOfMove, CopiesStay
  <2>1. dev[d].epoch = 0 /\ dev[d].move \in Given /\ dev[d].move \in Given'
    BY <1>g DEF ApartOfMove
  <2>2. d # session.device
    BY DEF Arrives, SessionHeld
  <2> QED
    BY <2>1, <2>2 DEF Arrives
<1>8. AppliedHasHer'
  BY SiteAssumption DEF CopiesStay, Arrives, SessionStands, AppliedHasHer, MoveStands,
      NoLease, NoMove
<1>9. CommittedIsPast'
  BY SiteAssumption DEF CopiesStay, Arrives, SessionStands, CommittedIsPast,
      NoSession, NoLease, TypeOK, Lease, Session
<1>10. SiteHasHer'
  BY SiteAssumption DEF SiteHasHer, Arrives, Ids
<1>11. DeviceHasHer'
  BY DEF DeviceHasHer, Arrives, SessionHeld, CopiesStay
<1> QED
  BY <1>c, <1>m, <1>1, <1>2, <1>3, <1>4, <1>5, <1>6, <1>7, <1>8, <1>9, <1>10,
     <1>11 DEF HomeInv

\* So does her going to a device.
LEMMA GoesToKeepsHome ==
  ASSUME RowInv, TypeOK', HomeInv, CopiesStay, NEW d \in Devices, GoesTo(d)
  PROVE  HomeInv'
<1>0. TypeOK /\ Row /\ Ids /\ Born
  BY DEF RowInv
<1>i. /\ NothingCleared /\ MergesSession /\ LeftFromSite /\ SessionHeld /\ SessionOfRow
      /\ OnlyThroughSite /\ CopiesBehind /\ EpochsApart /\ ApartOfMove /\ AppliedHasHer
      /\ CommittedIsPast /\ SiteHasHer /\ DeviceHasHer
  BY DEF HomeInv
<1> USE <1>0, <1>i
<1>c. NothingCleared'
  BY DEF CopiesStay, NothingCleared
<1>m. MergesSession'
  BY CopiesKeepMerges DEF Ids, GoesTo
<1>g. Given \subseteq Given' /\ 0 \notin Given /\ nextId \notin Given
  BY GivenGrows
<1>l. Site \notin linked'
  BY SiteAssumption DEF CopiesStay, TypeOK
<1>t. /\ lease.epoch \in Nat /\ lease'.epoch \in Nat /\ session.epoch \in Nat
      /\ \A e \in Devices : dev[e].epoch \in Nat /\ dev[e].at \in {"none", "apart", "living", "still"}
  BY DEF TypeOK, Lease, Session, Her
<1>r. lease.state # "none" /\ lease.move.kind # "none" /\ ~(lease.move.kind = "Arrival")
  BY DEF GoesTo, Row, RowOfState, NoLease, NoMove
<1>a. TakenIn /\ TakenIn' /\ ~Lost' /\ lease'.lineage = lease.lineage /\ lease'.epoch = lease.epoch + 1
  BY <1>r DEF GoesTo, TakenIn, Lost, NoMove
<1>h. /\ dev[d].at = "apart" /\ dev[d].move = lease.move.id /\ dev[d].lineage = lease.lineage
      /\ lease'.holder = d /\ lease'.done = dev[d].move
  BY DEF GoesTo, AppliedHasHer, ApartOfMove
<1>1. LeftFromSite'
  BY SiteAssumption DEF CopiesStay, GoesTo, LeftFromSite, NoLease
<1>2. SessionHeld'
  BY SiteAssumption DEF CopiesStay, GoesTo, SessionHeld, Holds, NoSession, Ids
<1>3. SessionOfRow'
  BY <1>a, <1>t DEF SessionOfRow, GoesTo
<1>4. OnlyThroughSite'
  BY <1>a DEF OnlyThroughSite, CopiesStay
<1>5. CopiesBehind'
  BY <1>a, <1>r, <1>t DEF CopiesBehind, CopiesStay
<1>6. EpochsApart'
  BY SiteAssumption DEF CopiesStay, GoesTo, EpochsApart
<1>7. ApartOfMove'
  <2> SUFFICES ASSUME NEW e \in Devices, dev[e].at = "apart"
               PROVE  /\ dev[e].epoch = 0 /\ dev[e].move \in Given'
                      /\ lease'.move.kind = "ToDevice" /\ lease'.move.id = dev[e].move =>
                           dev[e].lineage = lease'.lineage
                      /\ e \in linked' /\ lease'.holder = e =>
                           /\ lease'.state # "none" /\ ~Lost'
                           /\ lease'.done = dev[e].move /\ dev[e].lineage = lease'.lineage
    BY DEF ApartOfMove, CopiesStay
  <2>1. dev[e].epoch = 0 /\ dev[e].move \in Given /\ dev[e].move \in Given'
    BY <1>g DEF ApartOfMove
  <2> QED
    BY <2>1, <1>a, <1>h DEF GoesTo, NoMove
<1>8. AppliedHasHer'
  BY SiteAssumption DEF CopiesStay, GoesTo, AppliedHasHer, MoveStands, NoLease, NoMove
<1>9. CommittedIsPast'
  BY <1>a, <1>h, <1>r, <1>t DEF CommittedIsPast, GoesTo, CopiesStay
<1>10. SiteHasHer'
  BY SiteAssumption DEF CopiesStay, GoesTo, SiteHasHer, Knows, HomeUnknown, NoLease,
      NoMove
<1>11. DeviceHasHer'
  BY <1>h, <1>a DEF DeviceHasHer, CopiesStay
<1> QED
  BY <1>c, <1>m, <1>1, <1>2, <1>3, <1>4, <1>5, <1>6, <1>7, <1>8, <1>9, <1>10,
     <1>11 DEF HomeInv

\* So does an import that lands.
LEMMA LandsKeepsHome ==
  ASSUME RowInv, TypeOK', HomeInv, CopiesStay, Lands
  PROVE  HomeInv'
<1>0. TypeOK /\ Row /\ Ids /\ Born
  BY DEF RowInv
<1>i. /\ NothingCleared /\ MergesSession /\ LeftFromSite /\ SessionHeld /\ SessionOfRow
      /\ OnlyThroughSite /\ CopiesBehind /\ EpochsApart /\ ApartOfMove /\ AppliedHasHer
      /\ CommittedIsPast /\ SiteHasHer /\ DeviceHasHer
  BY DEF HomeInv
<1> USE <1>0, <1>i
<1>c. NothingCleared'
  BY DEF CopiesStay, NothingCleared
<1>m. MergesSession'
  BY CopiesKeepMerges DEF Ids, Lands, SessionDone
<1>g. Given \subseteq Given' /\ 0 \notin Given /\ nextId \notin Given
  BY GivenGrows
<1>l. Site \notin linked'
  BY SiteAssumption DEF CopiesStay, TypeOK
<1>t. /\ lease.epoch \in Nat /\ lease'.epoch \in Nat /\ session.epoch \in Nat
      /\ \A d \in Devices : dev[d].epoch \in Nat /\ dev[d].at \in {"none", "apart", "living", "still"}
  BY DEF TypeOK, Lease, Session, Her
<1>a. TakenIn' /\ lease'.holder = Site
  BY DEF Lands, TakenIn, NoMove
<1>1. LeftFromSite'
  BY SiteAssumption DEF CopiesStay, Lands, SessionDone, LeftFromSite, NoLease
<1>2. SessionHeld'
  BY SiteAssumption DEF CopiesStay, Lands, SessionDone, SessionHeld, Holds, NoSession,
      Ids
<1>3. SessionOfRow'
  BY SiteAssumption DEF CopiesStay, Lands, SessionDone, SessionOfRow, TakenIn, Ids,
      NoSession, TypeOK, Lease, Session, NoLease
<1>4. OnlyThroughSite'
  BY <1>a DEF OnlyThroughSite, TakenIn, Lands, CopiesStay
<1>5. CopiesBehind'
  <2>1. CASE lease.state = "none"
    <3>1. session.kind \in {"import", "return"}
      BY <2>1 DEF Lands, SessionDone, SessionOfRow, TakenIn, Ids, TypeOK, Session,
          SessionKinds, NoSession
    <3>2. dev[session.device].lineage = session.lineage /\ dev[session.device].epoch = session.epoch
          /\ dev[session.device].at # "none" /\ session.device \in Devices
      BY <3>1 DEF SessionHeld, Lands, SessionDone, Ids
    <3>3. ASSUME NEW e \in Devices, dev[e].at # "none", dev[e].lineage = session.lineage
          PROVE  e = session.device
      BY <2>1, <3>2, <3>3 DEF OnlyThroughSite, TakenIn
    <3> QED
      BY <3>2, <3>3, <1>t DEF Lands, CopiesStay, CopiesBehind
  <2>2. CASE lease.state # "none"
    <3>1. \A e \in Devices : dev[e].at # "none" /\ dev[e].lineage = lease.lineage => dev[e].epoch < lease'.epoch
      BY <2>2, <1>t DEF CopiesBehind, Lands
    <3> QED
      BY <2>2, <3>1, <1>t DEF Lands, CopiesStay, CopiesBehind
  <2> QED
    BY <2>1, <2>2
<1>6. EpochsApart'
  BY SiteAssumption DEF CopiesStay, Lands, SessionDone, EpochsApart
<1>7. ApartOfMove'
  <2> SUFFICES ASSUME NEW d \in Devices, dev[d].at = "apart"
               PROVE  /\ dev[d].epoch = 0 /\ dev[d].move \in Given'
                      /\ lease'.move.kind = "ToDevice" /\ lease'.move.id = dev[d].move =>
                           dev[d].lineage = lease'.lineage
                      /\ d \in linked' /\ lease'.holder = d =>
                           /\ lease'.state # "none" /\ ~Lost'
                           /\ lease'.done = dev[d].move /\ dev[d].lineage = lease'.lineage
    BY DEF ApartOfMove, CopiesStay
  <2>1. dev[d].epoch = 0 /\ dev[d].move \in Given /\ dev[d].move \in Given'
    BY <1>g DEF ApartOfMove
  <2> QED
    BY <2>1, <1>g, SiteAssumption DEF ApartOfMove, CopiesStay, Lands, Lost, NoLease,
        NoMove
<1>8. AppliedHasHer'
  BY SiteAssumption DEF CopiesStay, Lands, SessionDone, AppliedHasHer, MoveStands,
      NoLease, NoMove
<1>9. CommittedIsPast'
  BY SiteAssumption DEF CopiesStay, Lands, SessionDone, CommittedIsPast, NoSession,
      NoLease, TypeOK, Lease, Session
<1>10. SiteHasHer'
  BY SiteAssumption DEF CopiesStay, Lands, SessionDone, SiteHasHer, Knows,
      HomeUnknown, NoLease, NoMove
<1>11. DeviceHasHer'
  BY <1>a, <1>l DEF DeviceHasHer
<1> QED
  BY <1>c, <1>m, <1>1, <1>2, <1>3, <1>4, <1>5, <1>6, <1>7, <1>8, <1>9, <1>10,
     <1>11 DEF HomeInv

\* So does a merge.
LEMMA MergesKeepsHome ==
  ASSUME RowInv, TypeOK', HomeInv, CopiesStay, Merges
  PROVE  HomeInv'
<1>0. TypeOK /\ Row /\ Ids /\ Born
  BY DEF RowInv
<1>i. /\ NothingCleared /\ MergesSession /\ LeftFromSite /\ SessionHeld /\ SessionOfRow
      /\ OnlyThroughSite /\ CopiesBehind /\ EpochsApart /\ ApartOfMove /\ AppliedHasHer
      /\ CommittedIsPast /\ SiteHasHer /\ DeviceHasHer
  BY DEF HomeInv
<1> USE <1>0, <1>i
<1>c. NothingCleared'
  BY DEF CopiesStay, NothingCleared
<1>m. MergesSession'
  BY CopiesKeepMerges DEF Ids, Merges, SessionDone
<1>g. Given \subseteq Given' /\ 0 \notin Given /\ nextId \notin Given
  BY GivenGrows
<1>l. Site \notin linked'
  BY SiteAssumption DEF CopiesStay, TypeOK
<1>t. /\ lease.epoch \in Nat /\ lease'.epoch \in Nat /\ session.epoch \in Nat
      /\ \A d \in Devices : dev[d].epoch \in Nat /\ dev[d].at \in {"none", "apart", "living", "still"}
  BY DEF TypeOK, Lease, Session, Her
<1>r. lease.state # "none" /\ TakenIn
  BY DEF Merges, SessionDone, SessionOfRow, TakenIn
<1>a. /\ TakenIn' /\ lease'.holder = Site /\ lease'.lineage = lease.lineage
      /\ lease'.epoch = lease.epoch + 1
  BY DEF Merges, TakenIn, NoMove
<1>1. LeftFromSite'
  BY SiteAssumption DEF CopiesStay, Merges, SessionDone, LeftFromSite, NoLease
<1>2. SessionHeld'
  BY SiteAssumption DEF CopiesStay, Merges, SessionDone, SessionHeld, Holds,
      NoSession, Ids
<1>3. SessionOfRow'
  BY SiteAssumption DEF CopiesStay, Merges, SessionDone, SessionOfRow, TakenIn, Ids,
      NoSession, TypeOK, Lease, Session, NoLease
<1>4. OnlyThroughSite'
  BY <1>a DEF OnlyThroughSite, CopiesStay
<1>5. CopiesBehind'
  BY <1>a, <1>r, <1>t DEF CopiesBehind, CopiesStay
<1>6. EpochsApart'
  BY SiteAssumption DEF CopiesStay, Merges, SessionDone, EpochsApart
<1>7. ApartOfMove'
  <2> SUFFICES ASSUME NEW d \in Devices, dev[d].at = "apart"
               PROVE  /\ dev[d].epoch = 0 /\ dev[d].move \in Given'
                      /\ lease'.move.kind = "ToDevice" /\ lease'.move.id = dev[d].move =>
                           dev[d].lineage = lease'.lineage
                      /\ d \in linked' /\ lease'.holder = d =>
                           /\ lease'.state # "none" /\ ~Lost'
                           /\ lease'.done = dev[d].move /\ dev[d].lineage = lease'.lineage
    BY DEF ApartOfMove, CopiesStay
  <2>1. dev[d].epoch = 0 /\ dev[d].move \in Given /\ dev[d].move \in Given'
    BY <1>g DEF ApartOfMove
  <2> QED
    BY <2>1, <1>g, SiteAssumption DEF ApartOfMove, CopiesStay, Merges, Lost, NoLease,
        NoMove
<1>8. AppliedHasHer'
  BY SiteAssumption DEF CopiesStay, Merges, SessionDone, AppliedHasHer, MoveStands,
      NoLease, NoMove
<1>9. CommittedIsPast'
  BY <1>a, <1>r, <1>t, SiteAssumption DEF CommittedIsPast, Merges, SessionDone,
      SessionOfRow, CopiesStay, TypeOK
<1>10. SiteHasHer'
  BY DEF SiteHasHer, Merges
<1>11. DeviceHasHer'
  BY <1>a, <1>l DEF DeviceHasHer
<1> QED
  BY <1>c, <1>m, <1>1, <1>2, <1>3, <1>4, <1>5, <1>6, <1>7, <1>8, <1>9, <1>10,
     <1>11 DEF HomeInv

\* So does her birth on the site.
LEMMA BornHereKeepsHome ==
  ASSUME RowInv, TypeOK', HomeInv, CopiesStay, BornHere
  PROVE  HomeInv'
<1>0. TypeOK /\ Row /\ Ids /\ Born
  BY DEF RowInv
<1>i. /\ NothingCleared /\ MergesSession /\ LeftFromSite /\ SessionHeld /\ SessionOfRow
      /\ OnlyThroughSite /\ CopiesBehind /\ EpochsApart /\ ApartOfMove /\ AppliedHasHer
      /\ CommittedIsPast /\ SiteHasHer /\ DeviceHasHer
  BY DEF HomeInv
<1> USE <1>0, <1>i
<1>c. NothingCleared'
  BY DEF CopiesStay, NothingCleared
<1>m. MergesSession'
  BY CopiesKeepMerges DEF Ids, BornHere
<1>g. Given \subseteq Given' /\ 0 \notin Given /\ nextId \notin Given
  BY GivenGrows
<1>l. Site \notin linked'
  BY SiteAssumption DEF CopiesStay, TypeOK
<1>t. /\ lease.epoch \in Nat /\ lease'.epoch \in Nat /\ session.epoch \in Nat
      /\ \A d \in Devices : dev[d].epoch \in Nat /\ dev[d].at \in {"none", "apart", "living", "still"}
  BY DEF TypeOK, Lease, Session, Her
<1>a. TakenIn' /\ lease'.holder = Site /\ ~TakenIn
  BY DEF BornHere, TakenIn, NoMove
<1>n. lease'.lineage # session.lineage /\ \A d \in Devices : dev[d].lineage # lease'.lineage
  BY DEF BornHere, Born, TypeOK, Session, Her
<1>1. LeftFromSite'
  BY SiteAssumption DEF CopiesStay, BornHere, LeftFromSite, NoLease
<1>2. SessionHeld'
  BY SiteAssumption DEF CopiesStay, BornHere, SessionHeld, Holds, NoSession, Ids
<1>3. SessionOfRow'
  BY SiteAssumption DEF CopiesStay, BornHere, SessionOfRow, TakenIn, Ids, NoSession,
      TypeOK, Lease, Session, NoLease
<1>4. OnlyThroughSite'
  BY SiteAssumption DEF CopiesStay, BornHere, OnlyThroughSite, TakenIn
<1>5. CopiesBehind'
  BY <1>n DEF CopiesBehind, CopiesStay
<1>6. EpochsApart'
  BY SiteAssumption DEF CopiesStay, BornHere, EpochsApart
<1>7. ApartOfMove'
  <2> SUFFICES ASSUME NEW d \in Devices, dev[d].at = "apart"
               PROVE  /\ dev[d].epoch = 0 /\ dev[d].move \in Given'
                      /\ lease'.move.kind = "ToDevice" /\ lease'.move.id = dev[d].move =>
                           dev[d].lineage = lease'.lineage
                      /\ d \in linked' /\ lease'.holder = d =>
                           /\ lease'.state # "none" /\ ~Lost'
                           /\ lease'.done = dev[d].move /\ dev[d].lineage = lease'.lineage
    BY DEF ApartOfMove, CopiesStay
  <2>1. dev[d].epoch = 0 /\ dev[d].move \in Given /\ dev[d].move \in Given'
    BY <1>g DEF ApartOfMove
  <2> QED
    BY <2>1, <1>g, SiteAssumption DEF ApartOfMove, CopiesStay, BornHere, Lost,
        NoLease, NoMove
<1>8. AppliedHasHer'
  BY SiteAssumption DEF CopiesStay, BornHere, AppliedHasHer, MoveStands, NoLease,
      NoMove
<1>9. CommittedIsPast'
  BY <1>n DEF CommittedIsPast, BornHere
<1>10. SiteHasHer'
  BY SiteAssumption DEF CopiesStay, BornHere, SiteHasHer, Knows, HomeUnknown, NoLease,
      NoMove
<1>11. DeviceHasHer'
  BY <1>a, <1>l DEF DeviceHasHer
<1> QED
  BY <1>c, <1>m, <1>1, <1>2, <1>3, <1>4, <1>5, <1>6, <1>7, <1>8, <1>9, <1>10,
     <1>11 DEF HomeInv

\* A birth on a device keeps where she is: no one else has her.
LEMMA DeviceBirthKeepsHome ==
  ASSUME RowInv, HomeInv, NEW d \in Devices, CopyStep(d), DeviceBirth(d)
  PROVE  HomeInv'
<1>0. TypeOK /\ Row /\ Ids /\ Born
  BY DEF RowInv
<1>i. /\ NothingCleared /\ MergesSession /\ LeftFromSite /\ SessionHeld /\ SessionOfRow
      /\ OnlyThroughSite /\ CopiesBehind /\ EpochsApart /\ ApartOfMove /\ AppliedHasHer
      /\ CommittedIsPast /\ SiteHasHer /\ DeviceHasHer
  BY DEF HomeInv
<1> USE <1>0, <1>i
<1>t. /\ lease.epoch \in Nat /\ session.epoch \in Nat /\ lease.holder \in Ends
      /\ \A e \in Devices : dev[e].epoch \in Nat /\ dev[e].at \in {"none", "apart", "living", "still"}
      /\ linked \subseteq Devices
  BY DEF TypeOK, Lease, Session, Her
<1>s. /\ lease' = lease /\ session' = session /\ persona' = persona /\ clearing' = clearing
      /\ linked' = linked /\ nextId' = nextId /\ merging' = merging
  BY DEF CopyStep
<1>d. /\ dev[d].at = "none"
      /\ dev'[d].at = "living" /\ dev'[d].lineage = births + 1 /\ dev'[d].epoch = 1
      /\ \A e \in Devices \ {d} : dev'[e] = dev[e]
  BY DEF DeviceBirth, NoHer, TypeOK
<1>n. /\ lease.lineage # births + 1 /\ session.lineage # births + 1
      /\ \A e \in Devices : dev[e].lineage # births + 1
  BY DEF Born, TypeOK, Lease, Session, Her
<1>c. NothingCleared' /\ MergesSession' /\ LeftFromSite' /\ SessionOfRow' /\ SiteHasHer'
  BY <1>s DEF NothingCleared, MergesSession, Given, LeftFromSite, SessionOfRow, TakenIn,
      SiteHasHer, Knows, HomeUnknown
<1>1. SessionHeld'
  BY <1>d, <1>n, <1>s, <1>t DEF SessionHeld, Ids
<1>2. OnlyThroughSite'
  BY <1>d, <1>n, <1>s, <1>t DEF OnlyThroughSite, TakenIn
<1>3. CopiesBehind'
  BY <1>d, <1>n, <1>s, <1>t DEF CopiesBehind, Lost
<1>4. EpochsApart'
  BY <1>d, <1>n, <1>s, <1>t DEF EpochsApart
<1>5. ApartOfMove'
  BY <1>d, <1>n, <1>s, <1>t DEF ApartOfMove, Lost, Given
<1>6. AppliedHasHer'
  BY <1>d, <1>n, <1>s, <1>t DEF AppliedHasHer, Row, RowOfMove
<1>7. CommittedIsPast'
  BY <1>d, <1>n, <1>s, <1>t DEF CommittedIsPast
<1>8. DeviceHasHer'
  BY <1>d, <1>n, <1>s, <1>t DEF DeviceHasHer, Knows, HomeUnknown
<1> QED
  BY <1>c, <1>1, <1>2, <1>3, <1>4, <1>5, <1>6, <1>7, <1>8 DEF HomeInv

\* So does a copy kept apart for the move that carries her.
LEMMA DeviceKeepsKeepsHome ==
  ASSUME RowInv, HomeInv, NEW d \in Devices, CopyStep(d), DeviceKeeps(d)
  PROVE  HomeInv'
<1>0. TypeOK /\ Row /\ Ids /\ Born
  BY DEF RowInv
<1>i. /\ NothingCleared /\ MergesSession /\ LeftFromSite /\ SessionHeld /\ SessionOfRow
      /\ OnlyThroughSite /\ CopiesBehind /\ EpochsApart /\ ApartOfMove /\ AppliedHasHer
      /\ CommittedIsPast /\ SiteHasHer /\ DeviceHasHer
  BY DEF HomeInv
<1> USE <1>0, <1>i
<1>t. /\ lease.epoch \in Nat /\ session.epoch \in Nat /\ lease.holder \in Ends
      /\ \A e \in Devices : dev[e].epoch \in Nat /\ dev[e].at \in {"none", "apart", "living", "still"}
      /\ linked \subseteq Devices
  BY DEF TypeOK, Lease, Session, Her
<1>s. /\ lease' = lease /\ session' = session /\ persona' = persona /\ clearing' = clearing
      /\ linked' = linked /\ nextId' = nextId /\ merging' = merging
  BY DEF CopyStep
<1>d. /\ dev[d].at = "none"
      /\ dev'[d].at = "apart" /\ dev'[d].lineage = lease.lineage /\ dev'[d].epoch = 0
      /\ dev'[d].move = lease.move.id /\ lease.move.kind = "ToDevice"
      /\ lease.move.phase = Transferring
      /\ \A e \in Devices \ {d} : dev'[e] = dev[e]
  BY DEF DeviceKeeps, ToThisDevice, TypeOK
<1>n. /\ lease.holder = Site /\ lease.epoch >= 1 /\ TakenIn /\ Site \notin linked
      /\ lease.move.id \in Given
  BY <1>d, <1>t, SiteAssumption DEF Row, RowOfState, RowOfMove, TakenIn, NoLease,
      NoMove, Ids
<1>c. NothingCleared' /\ MergesSession' /\ LeftFromSite' /\ SessionOfRow' /\ SiteHasHer'
  BY <1>s DEF NothingCleared, MergesSession, Given, LeftFromSite, SessionOfRow, TakenIn,
      SiteHasHer, Knows, HomeUnknown
<1>1. SessionHeld'
  BY <1>d, <1>n, <1>s, <1>t DEF SessionHeld, Ids
<1>2. OnlyThroughSite'
  BY <1>d, <1>n, <1>s, <1>t DEF OnlyThroughSite, TakenIn
<1>3. CopiesBehind'
  BY <1>d, <1>n, <1>s, <1>t DEF CopiesBehind, Lost
<1>4. EpochsApart'
  BY <1>d, <1>n, <1>s, <1>t DEF EpochsApart
<1>5. ApartOfMove'
  BY <1>d, <1>n, <1>s, <1>t DEF ApartOfMove, Lost, Given
<1>6. AppliedHasHer'
  BY <1>d, <1>s DEF AppliedHasHer, Transferring, Applied
<1>7. CommittedIsPast'
  BY <1>d, <1>n, <1>s, <1>t DEF CommittedIsPast
<1>8. DeviceHasHer'
  BY <1>d, <1>n, <1>s, <1>t DEF DeviceHasHer, Knows, HomeUnknown
<1> QED
  BY <1>c, <1>1, <1>2, <1>3, <1>4, <1>5, <1>6, <1>7, <1>8 DEF HomeInv

\* On reading the row a device starts the copy it kept apart.
Starts(d) ==
  /\ dev[d].at = "apart"
  /\ lease.done = dev[d].move /\ lease.holder = d /\ lease.state # "none"
  /\ dev'[d].at = "living" /\ dev'[d].epoch = lease.epoch /\ dev'[d].lineage = dev[d].lineage

\* It lets go of what it holds: given away, or never hers.
LetsGo(d) ==
  /\ dev'[d] = NoHer
  /\ \/ /\ dev[d].at = "apart" /\ lease.move.id # dev[d].move
        /\ ~(lease.done = dev[d].move /\ lease.holder = d /\ lease.state # "none")
     \/ /\ dev[d].at \in {"living", "still"}
        /\ \/ /\ session.phase = "committed" /\ session.device = d
              /\ session.lineage = dev[d].lineage /\ session.epoch >= dev[d].epoch
           \/ lease.holder # d /\ (session.device = d => session.phase = "committed")

\* It goes on living her, or stops.
LivesOrStops(d) ==
  /\ dev[d].at \in {"living", "still"} /\ dev'[d].at \in {"living", "still"}
  /\ dev'[d].epoch = dev[d].epoch /\ dev'[d].lineage = dev[d].lineage

\* A device that hears starts her, lets go of her, or goes on or stops.
LEMMA HeardIs ==
  ASSUME TypeOK, NEW d \in Devices, DeviceHears(d)
  PROVE  /\ d \in linked
         /\ Starts(d) \/ LetsGo(d) \/ LivesOrStops(d)
         /\ \A e \in Devices \ {d} : dev'[e] = dev[e]
<1>1. /\ dev' = [dev EXCEPT ![d] = Heard(d)] /\ Heard(d) # dev[d] /\ dev[d].at # "none"
      /\ d \in linked
  BY DEF DeviceHears
<1>2. dev[d] \in Her /\ dev'[d] = Heard(d) /\ \A e \in Devices \ {d} : dev'[e] = dev[e]
  BY <1>1 DEF TypeOK
<1>3. CASE dev[d].at = "apart"
  BY <1>1, <1>2, <1>3 DEF Heard, Starts, LetsGo, Her
<1>4. CASE dev[d].at # "apart"
  <2>1. dev[d].at \in {"living", "still"}
    BY <1>1, <1>2, <1>4 DEF Her
  <2>2. CASE Heard(d) = NoHer
    BY <1>1, <1>2, <1>4, <2>1, <2>2 DEF Heard, LetsGo, NoHer
  <2>3. CASE Heard(d) # NoHer
    BY <1>1, <1>2, <1>4, <2>1, <2>3 DEF Heard, LivesOrStops, Her
  <2> QED
    BY <2>2, <2>3
<1> QED
  BY <1>1, <1>2, <1>3, <1>4

\* A device that starts her as her home keeps where she is.
LEMMA StartsKeepsHome ==
  ASSUME RowInv, HomeInv, NEW d \in Devices, CopyStep(d), DeviceHears(d), Starts(d)
  PROVE  HomeInv'
<1>0. TypeOK /\ Row /\ Ids /\ Born
  BY DEF RowInv
<1>i. /\ NothingCleared /\ MergesSession /\ LeftFromSite /\ SessionHeld /\ SessionOfRow
      /\ OnlyThroughSite /\ CopiesBehind /\ EpochsApart /\ ApartOfMove /\ AppliedHasHer
      /\ CommittedIsPast /\ SiteHasHer /\ DeviceHasHer
  BY DEF HomeInv
<1> USE <1>0, <1>i
<1>t. /\ lease.epoch \in Nat /\ session.epoch \in Nat /\ lease.holder \in Ends
      /\ \A e \in Devices : dev[e].epoch \in Nat /\ dev[e].at \in {"none", "apart", "living", "still"}
      /\ linked \subseteq Devices
  BY DEF TypeOK, Lease, Session, Her
<1>s. /\ lease' = lease /\ session' = session /\ persona' = persona /\ clearing' = clearing
      /\ linked' = linked /\ nextId' = nextId /\ merging' = merging
  BY DEF CopyStep
<1>d. d \in linked /\ \A e \in Devices \ {d} : dev'[e] = dev[e]
  BY HeardIs
<1>n. /\ dev[d].lineage = lease.lineage /\ ~Lost /\ lease.state # "none" /\ lease.holder = d
      /\ dev'[d].at = "living" /\ dev'[d].epoch = lease.epoch /\ dev'[d].lineage = lease.lineage
      /\ dev[d].at = "apart" /\ lease.move.kind # "ToDevice"
  BY <1>d, SiteAssumption DEF Starts, ApartOfMove, Row, RowOfMove
<1>b. \A e \in linked \ {d} : dev[e].at # "none" /\ dev[e].lineage = lease.lineage => dev[e].epoch < lease.epoch
  BY <1>n, <1>t DEF CopiesBehind
<1>c. NothingCleared' /\ MergesSession' /\ LeftFromSite' /\ SessionOfRow' /\ SiteHasHer'
  BY <1>s DEF NothingCleared, MergesSession, Given, LeftFromSite, SessionOfRow, TakenIn,
      SiteHasHer, Knows, HomeUnknown
<1>1. SessionHeld'
  BY <1>d, <1>n, <1>b, <1>s, <1>t DEF SessionHeld, Ids
<1>2. OnlyThroughSite'
  BY <1>d, <1>n, <1>b, <1>s, <1>t DEF OnlyThroughSite, TakenIn
<1>3. CopiesBehind'
  BY <1>d, <1>n, <1>b, <1>s, <1>t DEF CopiesBehind, Lost
<1>4. EpochsApart'
  BY <1>d, <1>n, <1>b, <1>s, <1>t DEF EpochsApart
<1>5. ApartOfMove'
  BY <1>d, <1>n, <1>b, <1>s, <1>t DEF ApartOfMove, Lost, Given
<1>6. AppliedHasHer'
  BY <1>d, <1>n, <1>b, <1>s, <1>t DEF AppliedHasHer, Row, RowOfMove
<1>7. CommittedIsPast'
  BY <1>d, <1>n, <1>b, <1>s, <1>t DEF CommittedIsPast
<1>8. DeviceHasHer'
  BY <1>d, <1>n, <1>b, <1>s, <1>t DEF DeviceHasHer, Knows, HomeUnknown
<1> QED
  BY <1>c, <1>1, <1>2, <1>3, <1>4, <1>5, <1>6, <1>7, <1>8 DEF HomeInv

\* So does one that lets her go.
LEMMA LetsGoKeepsHome ==
  ASSUME RowInv, HomeInv, NEW d \in Devices, CopyStep(d), DeviceHears(d), LetsGo(d)
  PROVE  HomeInv'
<1>0. TypeOK /\ Row /\ Ids /\ Born
  BY DEF RowInv
<1>i. /\ NothingCleared /\ MergesSession /\ LeftFromSite /\ SessionHeld /\ SessionOfRow
      /\ OnlyThroughSite /\ CopiesBehind /\ EpochsApart /\ ApartOfMove /\ AppliedHasHer
      /\ CommittedIsPast /\ SiteHasHer /\ DeviceHasHer
  BY DEF HomeInv
<1> USE <1>0, <1>i
<1>t. /\ lease.epoch \in Nat /\ session.epoch \in Nat /\ lease.holder \in Ends
      /\ \A e \in Devices : dev[e].epoch \in Nat /\ dev[e].at \in {"none", "apart", "living", "still"}
      /\ linked \subseteq Devices
  BY DEF TypeOK, Lease, Session, Her
<1>s. /\ lease' = lease /\ session' = session /\ persona' = persona /\ clearing' = clearing
      /\ linked' = linked /\ nextId' = nextId /\ merging' = merging
  BY DEF CopyStep
<1>d. d \in linked /\ \A e \in Devices \ {d} : dev'[e] = dev[e]
  BY HeardIs
<1>n. dev'[d].at = "none"
  BY DEF LetsGo, NoHer
<1>c. NothingCleared' /\ MergesSession' /\ LeftFromSite' /\ SessionOfRow' /\ SiteHasHer'
  BY <1>s DEF NothingCleared, MergesSession, Given, LeftFromSite, SessionOfRow, TakenIn,
      SiteHasHer, Knows, HomeUnknown
<1>1. SessionHeld'
  BY <1>d, <1>n, <1>s DEF SessionHeld, LetsGo, Ids
<1>2. OnlyThroughSite'
  BY <1>d, <1>n, <1>s, <1>t DEF OnlyThroughSite, TakenIn
<1>3. CopiesBehind'
  BY <1>d, <1>n, <1>s, <1>t DEF CopiesBehind, Lost
<1>4. EpochsApart'
  BY <1>d, <1>n, <1>s, <1>t DEF EpochsApart
<1>5. ApartOfMove'
  BY <1>d, <1>n, <1>s, <1>t DEF ApartOfMove, Lost, Given
<1>6. AppliedHasHer'
  <2>1. lease.move.kind = "ToDevice" /\ lease.move.phase = Applied => lease.move.device # d
    BY DEF AppliedHasHer, LetsGo
  <2> QED
    BY <1>d, <1>s, <2>1 DEF AppliedHasHer, Row, RowOfMove
<1>7. CommittedIsPast'
  BY <1>d, <1>n, <1>s, <1>t DEF CommittedIsPast
<1>8. DeviceHasHer'
  <2>1. Knows /\ lease.holder \in linked => lease.holder # d
    BY <1>d, <1>t DEF DeviceHasHer, LetsGo, Knows, CommittedIsPast, ApartOfMove
  <2> QED
    BY <1>d, <1>s, <1>t, <2>1 DEF DeviceHasHer, Knows, HomeUnknown
<1> QED
  BY <1>c, <1>1, <1>2, <1>3, <1>4, <1>5, <1>6, <1>7, <1>8 DEF HomeInv

\* And one that goes on living her, or stops.
LEMMA LivesOrStopsKeepsHome ==
  ASSUME RowInv, HomeInv, NEW d \in Devices, CopyStep(d), DeviceHears(d), LivesOrStops(d)
  PROVE  HomeInv'
<1>0. TypeOK /\ Row /\ Ids /\ Born
  BY DEF RowInv
<1>i. /\ NothingCleared /\ MergesSession /\ LeftFromSite /\ SessionHeld /\ SessionOfRow
      /\ OnlyThroughSite /\ CopiesBehind /\ EpochsApart /\ ApartOfMove /\ AppliedHasHer
      /\ CommittedIsPast /\ SiteHasHer /\ DeviceHasHer
  BY DEF HomeInv
<1> USE <1>0, <1>i
<1>t. /\ lease.epoch \in Nat /\ session.epoch \in Nat /\ lease.holder \in Ends
      /\ \A e \in Devices : dev[e].epoch \in Nat /\ dev[e].at \in {"none", "apart", "living", "still"}
      /\ linked \subseteq Devices
  BY DEF TypeOK, Lease, Session, Her
<1>s. /\ lease' = lease /\ session' = session /\ persona' = persona /\ clearing' = clearing
      /\ linked' = linked /\ nextId' = nextId /\ merging' = merging
  BY DEF CopyStep
<1>d. d \in linked /\ \A e \in Devices \ {d} : dev'[e] = dev[e]
  BY HeardIs
<1>n. /\ dev[d].at \in {"living", "still"} /\ dev'[d].at \in {"living", "still"}
      /\ dev'[d].epoch = dev[d].epoch /\ dev'[d].lineage = dev[d].lineage
  BY DEF LivesOrStops
<1>c. NothingCleared' /\ MergesSession' /\ LeftFromSite' /\ SessionOfRow' /\ SiteHasHer'
  BY <1>s DEF NothingCleared, MergesSession, Given, LeftFromSite, SessionOfRow, TakenIn,
      SiteHasHer, Knows, HomeUnknown
<1>1. SessionHeld'
  BY <1>d, <1>n, <1>s, <1>t DEF SessionHeld, Ids
<1>2. OnlyThroughSite'
  BY <1>d, <1>n, <1>s, <1>t DEF OnlyThroughSite, TakenIn
<1>3. CopiesBehind'
  BY <1>d, <1>n, <1>s, <1>t DEF CopiesBehind, Lost
<1>4. EpochsApart'
  BY <1>d, <1>n, <1>s, <1>t DEF EpochsApart
<1>5. ApartOfMove'
  BY <1>d, <1>n, <1>s, <1>t DEF ApartOfMove, Lost, Given
<1>6. AppliedHasHer'
  BY <1>d, <1>n, <1>s, <1>t DEF AppliedHasHer, Row, RowOfMove
<1>7. CommittedIsPast'
  BY <1>d, <1>n, <1>s, <1>t DEF CommittedIsPast
<1>8. DeviceHasHer'
  BY <1>d, <1>n, <1>s, <1>t DEF DeviceHasHer, Knows, HomeUnknown
<1> QED
  BY <1>c, <1>1, <1>2, <1>3, <1>4, <1>5, <1>6, <1>7, <1>8 DEF HomeInv

\* Nobody has her at first.
LEMMA HomeInvInit == Init => HomeInv
<1> SUFFICES ASSUME Init PROVE HomeInv
  OBVIOUS
<1>1. NothingCleared /\ MergesSession /\ LeftFromSite /\ SessionHeld /\ SessionOfRow
  BY DEF Init, NoLease, NoSession, NothingCleared, MergesSession, LeftFromSite, SessionHeld,
      SessionOfRow
<1>2. OnlyThroughSite /\ CopiesBehind /\ EpochsApart /\ ApartOfMove /\ AppliedHasHer
  BY DEF Init, NoLease, NoHer, NoMove, OnlyThroughSite, CopiesBehind, EpochsApart,
      ApartOfMove,
      AppliedHasHer
<1>3. CommittedIsPast /\ SiteHasHer /\ DeviceHasHer
  BY DEF Init, NoLease, NoSession, CommittedIsPast, SiteHasHer, DeviceHasHer, Knows
<1> QED
  BY <1>1, <1>2, <1>3 DEF HomeInv

\* Every step keeps where she is.
LEMMA HomeInvKept ==
  ASSUME ~Forgets, RowInv, HomeInv, Next \/ UNCHANGED vars
  PROVE  HomeInv'
<1>1. RowInv' /\ TypeOK'
  BY RowInvKept DEF RowInv
<1>2. CASE \E d \in Devices : CopyStep(d)
  <2> PICK d \in Devices : CopyStep(d)
    BY <1>2
  <2>1. CASE DeviceHears(d)
    <3>1. Starts(d) \/ LetsGo(d) \/ LivesOrStops(d)
      BY <2>1, HeardIs DEF RowInv
    <3> QED
      BY <2>1, <3>1, StartsKeepsHome, LetsGoKeepsHome, LivesOrStopsKeepsHome
  <2> QED
    BY <2>1, DeviceBirthKeepsHome, DeviceKeepsKeepsHome DEF CopyStep
<1>3. CASE SiteStep
  BY <1>1, <1>3, StandsKeepsHome, ForgottenKeepsHome, LosesHomeKeepsHome, ArrivesKeepsHome,
      GoesToKeepsHome, LandsKeepsHome, MergesKeepsHome, BornHereKeepsHome DEF SiteStep
<1> QED
  BY <1>2, <1>3, StepsOfSite DEF HomeInv

\* While nobody deletes her, what is said of her home is always so.
THEOREM HomeInvariant == ASSUME ~Forgets PROVE Spec => []HomeInv
<1>1. RowInv /\ HomeInv /\ [Next]_vars => HomeInv'
  BY HomeInvKept
<1> QED
  BY <1>1, HomeInvInit, HostLeaseInvariant, PTL DEF Spec

\* Two ends never live her at the same epoch, on the site or on linked
\* devices, whatever is moved, imported, merged, removed or crashes.
THEOREM OneHomeAlways == ASSUME ~Forgets PROVE Spec => []OneHome
<1>1. RowInv /\ HomeInv => OneHome
  <2> SUFFICES ASSUME RowInv, HomeInv, NEW d \in Devices, LivesOn(d)
               PROVE  /\ SiteLives /\ dev[d].lineage = lease.lineage => dev[d].epoch < lease.epoch
                      /\ \A e \in Devices \ {d} :
                           LivesOn(e) /\ dev[e].lineage = dev[d].lineage => dev[e].epoch # dev[d].epoch
    BY DEF OneHome
  <2>1. lease.epoch \in Nat /\ dev[d].epoch \in Nat
    BY DEF RowInv, TypeOK, Lease, Her
  <2> QED
    BY <2>1, SiteAssumption DEF HomeInv, CopiesBehind, EpochsApart, LivesOn, SiteLives
<1> QED
  BY <1>1, HomeInvariant, HostLeaseInvariant, PTL

\* The end the row names as her home has her: nothing that lets go of her
\* elsewhere comes before she arrived.
THEOREM HomeHasHerAlways == ASSUME ~Forgets PROVE Spec => []HomeHasHer
<1>1. HomeInv => HomeHasHer
  BY DEF HomeInv, SiteHasHer, DeviceHasHer, Knows, HomeHasHer
<1> QED
  BY <1>1, HomeInvariant, PTL

=============================================================================
