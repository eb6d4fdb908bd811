------------------------------ MODULE Courier ------------------------------
(***************************************************************************)
(* What the delivery queue promises about an activity and one inbox: it    *)
(* takes effect there at most once, it is delivered only when it did, and  *)
(* what was delivered stays so.                                            *)
(***************************************************************************)
EXTENDS Naturals

CONSTANT Rows

VARIABLES
  state,    \* new, open, dead, delivered or gone
  effects   \* times the activity took effect at its inbox

vars == <<state, effects>>

Init ==
  /\ state = [r \in Rows |-> "new"]
  /\ effects = [r \in Rows |-> 0]

Turn(S, before, after) ==
  /\ \A r \in S : state[r] = before
  /\ state' = [r \in Rows |-> IF r \in S THEN after ELSE state[r]]
  /\ UNCHANGED effects

Post(r) == Turn({r}, "new", "open")

Apply(r) ==
  /\ state[r] # "new" /\ effects[r] = 0
  /\ effects' = [effects EXCEPT ![r] = 1]
  /\ UNCHANGED state

Deliver(r) ==
  /\ state[r] \in {"open", "dead"} /\ effects[r] = 1
  /\ state' = [state EXCEPT ![r] = "delivered"]
  /\ UNCHANGED effects

GiveUp(S) == Turn(S, "open", "dead")

Revive(S) == Turn(S, "dead", "open")

Remove(S) == Turn(S, "dead", "gone")

Next ==
  \/ \E r \in Rows : Post(r) \/ Apply(r) \/ Deliver(r)
  \/ \E S \in SUBSET Rows : GiveUp(S) \/ Revive(S) \/ Remove(S)

Spec == Init /\ [][Next]_vars

=============================================================================
