------------------------------ MODULE MCAiTasks ------------------------------
(* Values for model checking AI tasks: a key that is used twice, on two
   processes, and a task of the host; two guests who share the site's budget. *)
EXTENDS AiTasksProperties, TLC

CONSTANTS r1, r2, r3, i1, i3, p1, p2, own, site

MCIdOf == (r1 :> i1) @@ (r2 :> i1) @@ (r3 :> i3)
MCSubjectOf == [i \in Ids |-> "subject"]
MCReplicaOf == (r1 :> p1) @@ (r2 :> p2) @@ (r3 :> p1)
MCBucketsOf == (r1 :> {own, site}) @@ (r2 :> {own, site}) @@ (r3 :> {site})
MCCallLimit == (own :> 1) @@ (site :> 2)
MCTokenLimit == (own :> 2) @@ (site :> 4)
MCEstimate == (r1 :> 2) @@ (r2 :> 2) @@ (r3 :> 1)

Scenario(asking, until, failing, leaving, dying) ==
  [requests |-> asking, days |-> until, faults |-> failing, drops |-> leaving,
   crashes |-> dying]

MCScenarios ==
  {Scenario({r1, r2}, 1, 1, 1, 1), Scenario({r1, r2}, 2, 1, 0, 0),
   Scenario({r1}, 2, 2, 0, 1), Scenario({r3}, 2, 1, 1, 1),
   Scenario({r1, r3}, 2, 1, 0, 0), Scenario({r1, r3}, 1, 0, 1, 1),
   Scenario({r1, r2, r3}, 1, 0, 0, 0)}

=============================================================================
