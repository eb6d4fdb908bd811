------------------------------ MODULE HerHome ------------------------------
(***************************************************************************)
(* What the host lease promises (the opening comment of lease.rs): she has *)
(* one home; she changes it only after having been stopped there, or once  *)
(* it is no longer known, and each time her epoch goes up; stopping her is *)
(* given back as it was.                                                   *)
(*                                                                         *)
(* home is the end she lives on, or Nowhere; stopped says that no end has  *)
(* her; registered says that the site knows of her at all.                 *)
(***************************************************************************)
EXTENDS Naturals

CONSTANTS Devices, Site, Nowhere

VARIABLES home, stopped, registered, lineage, epoch

vars == <<home, stopped, registered, lineage, epoch>>

Init ==
  /\ home = Nowhere /\ stopped = FALSE /\ registered = FALSE
  /\ lineage = 0 /\ epoch = 0

\* A her the site did not know: born here, or on her way from a device.
Register ==
  /\ ~registered \/ home = Nowhere
  /\ registered' = TRUE
  /\ home' \in Devices \cup {Site}
  /\ home' \in Devices => stopped'
  /\ stopped' \in BOOLEAN
  /\ lineage' \in Nat /\ epoch' \in Nat \ {0}
  /\ registered /\ lineage' = lineage => epoch' >= epoch

Stop == registered /\ ~stopped /\ stopped' = TRUE /\ UNCHANGED <<home, registered, lineage, epoch>>

GoOn == stopped /\ stopped' = FALSE /\ UNCHANGED <<home, registered, lineage, epoch>>

\* She lives on another end, or is taken back on the same one: one epoch on.
Settle ==
  /\ registered
  /\ home' \in Devices \cup {Site}
  /\ home' # home => stopped \/ home = Nowhere
  /\ stopped' = FALSE
  /\ epoch' \in Nat /\ epoch' > epoch
  /\ UNCHANGED <<registered, lineage>>

\* Her home is not known any more.
Lose ==
  /\ registered /\ home' = Nowhere /\ stopped' = FALSE
  /\ UNCHANGED <<registered, lineage, epoch>>

Forget ==
  /\ registered' = FALSE /\ home' = Nowhere /\ stopped' = FALSE
  /\ lineage' = 0 /\ epoch' = 0

Next == Register \/ Stop \/ GoOn \/ Settle \/ Lose \/ Forget

Spec == Init /\ [][Next]_vars

=============================================================================
