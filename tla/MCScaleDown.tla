---------------------------- MODULE MCScaleDown -----------------------------
(* Instances of ScaleDown: the fleets and the faults they meet. *)
EXTENDS ScaleDown
CONSTANTS a, b

MCOne == {a}
MCTwo == {a, b}

\* Two instances that lose commands and leaders, and one under every fault or under those
\* after which a kept worker is resumed.
MCScenarios ==
  {[fleet |-> {a, b}, faults |-> {"loss", "leader", "grow"}],
   [fleet |-> {a}, faults |-> FaultKind],
   [fleet |-> {a}, faults |-> {"restart", "lag", "silent"}]}
MCNewLeader == {[fleet |-> {a}, faults |-> {"leader"}]}
=============================================================================
