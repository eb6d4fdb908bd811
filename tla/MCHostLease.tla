----------------------------- MODULE MCHostLease -----------------------------
(* Values for model checking the host lease. *)
EXTENDS HostLeaseProperties, TLC

DeviceSymmetry == Permutations(Devices)

=============================================================================
