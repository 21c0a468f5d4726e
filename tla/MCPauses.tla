------------------------------ MODULE MCPauses ------------------------------
(* Instances of Pauses. *)
EXTENDS Pauses
CONSTANTS s1, s2, m1

MCServer == {s1, s2}
MCForever == {s1}
MCMachine == {m1}
MCBase == [k \in Kind |-> 1]
MCLongest == [k \in Kind |-> IF k = "boot" THEN 2 ELSE 1]
MCFaultSets == {{"redis", "refusal", "failed", "hostfault"}, {"redis", "stall", "save", "load", "refusal"}}
=============================================================================
