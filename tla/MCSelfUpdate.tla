---------------------------- MODULE MCSelfUpdate ----------------------------
(* Values for model checking the self-update. *)
EXTENDS SelfUpdateProperties

CONSTANTS v1, v2

\* A stack that is not of one version at first.
MCInstalled == [s \in Services |-> IF s = "gateway" THEN v2 ELSE v1]

Scenario(residue, late, howMany, failing, dying) ==
  [residue |-> residue, late |-> late, requests |-> howMany, jobs |-> 1, faults |-> failing,
   crashes |-> dying]

\* Four failures exhaust the recoveries, a fifth keeps the last one from being
\* stopped; the others show what is left of a handoff in the next one, and
\* requests that arrive twice.
MCScenarios ==
  {Scenario(FALSE, FALSE, 2, 3, 1), Scenario(FALSE, FALSE, 1, 4, 1),
   Scenario(TRUE, FALSE, 2, 1, 1), Scenario(FALSE, TRUE, 2, 1, 1),
   Scenario(TRUE, TRUE, 1, 1, 1)}
=============================================================================
