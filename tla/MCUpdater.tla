------------------------------ MODULE MCUpdater ------------------------------
(* Values for model checking: job identifiers are interchangeable. *)
EXTENDS UpdaterProperties, TLC

JobSymmetry == Permutations(Jobs)

=============================================================================
