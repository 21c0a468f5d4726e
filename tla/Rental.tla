------------------------------- MODULE Rental -------------------------------
(***************************************************************************)
(* What the autoscaler promises of the machines it rents for a queue: one  *)
(* machine in hand at a time, entered in the books or given back; an entry *)
(* is opened, set to closing, and closed, in this order; a machine entered *)
(* and out of hand goes back only while its entry is closing; and          *)
(*   - an entry is closed only after its machine went back (OneProvider),  *)
(*   - no machine in hand is let go of unentered (NoAccident),             *)
(*   - at most Max entries are open (BooksAnswer),                         *)
(* each where the behaviour is given the condition named.                  *)
(***************************************************************************)
EXTENDS Naturals, FiniteSets

CONSTANTS Id, NoId, Max

VARIABLES
  entry,   \* the books: what is written of a machine
  rented,  \* the machines paid for
  hand,    \* the machine rented last, its fate undecided; or NoId
  given    \* the conditions this behaviour is given

vars == <<entry, rented, hand, given>>

Condition == {"OneProvider", "NoAccident", "BooksAnswer"}

Init ==
  /\ entry = [i \in Id |-> "none"]
  /\ rented = {} /\ hand = NoId
  /\ given \subseteq Condition

Open == {i \in Id : entry[i] = "open"}

\* A machine is rented, into the hand or, by accident, unnoticed.
Rent(i) ==
  /\ hand = NoId /\ entry[i] = "none" /\ i \notin rented
  /\ rented' = rented \cup {i}
  /\ hand' = i \/ (hand' = NoId /\ "NoAccident" \notin given)
  /\ UNCHANGED <<entry, given>>

\* The machine in hand is entered; when the writer cannot tell, it stays in hand.
Enter(i) ==
  /\ hand = i /\ entry[i] = "none"
  /\ "BooksAnswer" \in given => Cardinality(Open) < Max
  /\ entry' = [entry EXCEPT ![i] = "open"]
  /\ hand' \in {i, NoId}
  /\ UNCHANGED <<rented, given>>

GiveBack(i) ==
  /\ hand = i
  /\ rented' = rented \ {i} /\ hand' = NoId
  /\ UNCHANGED <<entry, given>>

LetGo(i) ==
  /\ hand = i
  /\ entry[i] = "none" => "NoAccident" \notin given
  /\ hand' = NoId
  /\ UNCHANGED <<entry, rented, given>>

Close(i) ==
  /\ entry[i] = "open"
  /\ entry' = [entry EXCEPT ![i] = "closing"]
  /\ UNCHANGED <<rented, hand, given>>

Return(i) ==
  /\ entry[i] = "closing"
  /\ rented' = rented \ {i}
  /\ UNCHANGED <<entry, hand, given>>

End(i) ==
  /\ entry[i] = "closing"
  /\ "OneProvider" \in given => i \notin rented
  /\ entry' = [entry EXCEPT ![i] = "closed"]
  /\ UNCHANGED <<rented, hand, given>>

Next == \E i \in Id : Rent(i) \/ Enter(i) \/ GiveBack(i) \/ LetGo(i)
                        \/ Close(i) \/ Return(i) \/ End(i)

Spec == Init /\ [][Next]_vars
=============================================================================
