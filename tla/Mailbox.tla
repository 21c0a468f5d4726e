------------------------------ MODULE Mailbox -------------------------------
(***************************************************************************)
(* What the recipient of the alerts is promised, as long as no mail goes   *)
(* out unrecorded: an alert is announced when it is not open, repeated     *)
(* only while it is open and no sooner than Repeat after the last mail     *)
(* about it, closed only when it is open; and the mails about an event are *)
(* Throttle apart.                                                         *)
(***************************************************************************)
EXTENDS Naturals

CONSTANTS Condition, EventKey, Repeat, Throttle, SendResolved, MaxAge

VARIABLES
  told,     \* what the recipient last heard of a condition
  quiet,    \* age of the last mail about a key
  recorded  \* no mail goes out unrecorded in this behaviour

vars == <<told, quiet, recorded>>
Key == Condition \cup EventKey

Init ==
  /\ told = [k \in Condition |-> "closed"]
  /\ quiet = [k \in Key |-> MaxAge]
  /\ recorded \in BOOLEAN

\* Without mails about the end of alerts, one may be announced again.
MayAnnounce(k) == SendResolved => told[k] = "closed"
MayRepeat(k) == Repeat > 0 /\ told[k] = "open" /\ quiet[k] >= Repeat
MayClose(k) == SendResolved /\ told[k] = "open"
MayReport(k) == quiet[k] >= Throttle

\* One mail announces, repeats and closes alerts and reports events.
Mail(announced, repeated, closed, reported) ==
  /\ announced \cap closed = {} /\ repeated \cap (announced \cup closed) = {}
  /\ recorded => /\ \A k \in announced : MayAnnounce(k)
                 /\ \A k \in repeated  : MayRepeat(k)
                 /\ \A k \in closed    : MayClose(k)
                 /\ \A k \in reported  : MayReport(k)
  /\ told' = [k \in Condition |-> IF k \in announced \cup repeated THEN "open"
                                  ELSE IF k \in closed THEN "closed" ELSE told[k]]
  /\ quiet' = [k \in Key |-> IF k \in announced \cup repeated \cup closed \cup reported
                             THEN 0 ELSE quiet[k]]
  /\ UNCHANGED recorded

Pass ==
  /\ quiet' = [k \in Key |-> IF quiet[k] < MaxAge THEN quiet[k] + 1 ELSE quiet[k]]
  /\ UNCHANGED <<told, recorded>>

Next ==
  \/ Pass
  \/ \E announced, repeated, closed \in SUBSET Condition, reported \in SUBSET EventKey :
       Mail(announced, repeated, closed, reported)

Spec == Init /\ [][Next]_vars
=============================================================================
