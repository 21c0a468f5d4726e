------------------------------ MODULE MCAlerts ------------------------------
(* Instances of Alerts: which faults each run injects together. *)
EXTENDS Alerts
CONSTANTS c1, e1

MCCondition == {c1}
MCEventKey == {e1}
MCFor == [k \in MCCondition |-> 1]

\* Sends that fail, everything after which the recipient knows more than the state, and
\* everything that loses an event.
MCFaultSets == {{"send", "drain"}, {"quit", "save"}, FaultKind}
MCOnlySend == {{"send"}}
=============================================================================
