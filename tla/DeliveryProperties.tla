------------------------- MODULE DeliveryProperties -------------------------
(* What the delivery queue has to guarantee. *)
EXTENDS Delivery

\* Every part has its type, a waiting row has an attempt left, and only the
\* worker that holds a lease can have one.
TypeOK ==
  /\ queue \in [Rows -> Items]
  /\ worker \in [Workers -> Tasks]
  /\ health \in [Domains -> [failures : 0 .. Threshold, week : BOOLEAN]]
  /\ asked \subseteq Rows
  /\ inProcess \in [Rows -> {"none", "todo", "mark"}]
  /\ receipt \in [Rows -> {"none", "accepted", "rejected"}]
  /\ effects \in [Rows -> Nat]
  /\ strays \in [Rows -> 0 .. scenario.strays]
  /\ sends \in [Rows -> Nat]
  /\ granted \in [Rows -> Nat]
  /\ scenario \in Scenarios
  /\ faults \in 0 .. scenario.faults
  /\ retries \in 0 .. scenario.retries
  /\ \A r \in Rows : queue[r].status = "pending" => queue[r].attempts < MaxAttempts

\* However leases expire, workers die and owners cancel and retry, an inbox never
\* gets more requests for a row than the attempts its owner asked for
\* (queue.rs: attempts counts the deliveries a dead worker began).
SendsBounded == \A r \in Rows : sends[r] <= granted[r]

\* A cancelled row comes back only because its owner asked for that very row: no
\* outcome that was under way, no sweep and no bulk retry revives it.  The
\* exception is a follow the local inbox already accepted.
CancelSticks ==
  [][\A r \in Rows :
       queue[r].status = "dead" /\ queue[r].cancelled /\ queue'[r] # queue[r]
         => \/ queue'[r].status = "gone"
            \/ r \in asked \ asked'
            \/ inProcess[r] = "mark"]_vars

CourierState(r) == IF Live(r) THEN "open" ELSE queue[r].status

Promise == INSTANCE Courier WITH state <- [r \in Rows |-> CourierState(r)]

\* The queue, its workers and the receipts keep what Courier promises.
ImplementsCourier == Promise!Spec

\* What is to be delivered is delivered or given up, also when the worker that
\* took it died.
DeliverySettles == \A r \in Rows : Live(r) ~> ~Live(r)

=============================================================================
