----------------------------- MODULE MCTaskList -----------------------------
(* The list of tasks, and the session behind every page: the steps of one   *)
(* or the other are followed.                                               *)
EXTENDS TaskList, TLC

VARIABLES admin, cookie, auth, route, requests

Guarded == INSTANCE Session WITH request <- requests

ASSUME TaskListAssumption

guardedVars == <<admin, cookie, auth, route, requests>>

MCTabs == {"active", "pending"}
\* The second version of the list is shorter in one tab and longer in the other.
MCPagesOf ==
  (0 :> [t \in MCTabs |-> IF t = "pending" THEN 2 ELSE 1]) @@ (1 :> [t \in MCTabs |-> IF t = "active" THEN 2 ELSE 1])

\* A list that is not opened: no poll, nothing in flight.
ListClosed ==
  /\ version = 0 /\ view = [tab |-> "active", page |-> 1] /\ pages = 1 /\ rows = NoRows
  /\ loading = FALSE /\ error = FALSE /\ current = NoSlot /\ request = [s \in Slot |-> Idle]
  /\ pendingDelete = NoDelete /\ pollTimer = FALSE /\ moves = 0

\* A session nothing happens to.
GuardedClosed ==
  /\ admin = TRUE /\ cookie = TRUE /\ auth = Guarded!DefaultState /\ route = "login"
  /\ requests = [s \in Slot |-> Guarded!Idle]

BothInit ==
  \/ Init /\ GuardedClosed
  \/ ListClosed /\ Guarded!Init

BothNext ==
  \/ ~ListClosed /\ Next /\ UNCHANGED guardedVars
  \/ ~GuardedClosed /\ Guarded!Next /\ UNCHANGED vars

BothSpec == BothInit /\ [][BothNext]_<<vars, guardedVars>> /\ Fairness /\ Guarded!Fairness

(* A page without a session is left (Session). *)
UnauthorizedLeaves == Guarded!UnauthorizedLeaves
(* A session ends only for cause (Session). *)
DroppedForCause == Guarded!DroppedForCause
=============================================================================
