----------------------------- MODULE MCDelivery -----------------------------
(* Values for model checking the delivery queue: one domain. *)
EXTENDS DeliveryProperties

CONSTANTS peer, r1, r2

MCDomainOf == [r \in Rows |-> peer]

Scenario(rows, failing, asking, late) ==
  [rows |-> rows, faults |-> failing, retries |-> asking, strays |-> late]

\* A follow in process beside workers that die; a row that is cancelled and
\* retried in flight; a domain that is revoked with a row in flight.
MCScenarios ==
  {Scenario({r1}, 2, 0, 1), Scenario({r1}, 0, 1, 0), Scenario({r2}, 1, 1, 1),
   Scenario({r1, r2}, 0, 0, 0)}

=============================================================================
