---------------------------- MODULE SingleLeader ----------------------------
(***************************************************************************)
(* What the leader lease promises.  Units of work of different servers     *)
(* never overlap, and a server that has begun one leads on between them:   *)
(* nobody else begins for Hold ticks, unless it gives the lead up.         *)
(***************************************************************************)
EXTENDS Naturals

CONSTANTS Server, Hold, None, Ghost

VARIABLES
  acting,  \* the servers inside a unit of work
  leader,  \* the server everyone else waits for; Ghost once its process is gone
  since    \* ticks since it last began a unit of work

sl == <<acting, leader, since>>

Init == acting = {} /\ leader = None /\ since = 0

Begin(s) ==
  /\ acting = {} /\ leader \in {None, s}
  /\ acting' = {s} /\ leader' = s /\ since' = 0

End(s) == acting = {s} /\ acting' = {} /\ UNCHANGED <<leader, since>>

GiveUp(s) == leader = s /\ s \notin acting /\ leader' = None /\ since' = 0 /\ UNCHANGED acting

\* The process is gone: the one that takes its place is a stranger to the lease.
Vanish(s) == leader = s /\ s \notin acting /\ leader' = Ghost /\ UNCHANGED <<acting, since>>

Pass ==
  /\ leader # None
  /\ IF since + 1 < Hold
       THEN since' = since + 1 /\ leader' = leader
       ELSE since' = 0 /\ leader' = None
  /\ UNCHANGED acting

Next == Pass \/ \E s \in Server : Begin(s) \/ End(s) \/ GiveUp(s) \/ Vanish(s)
Spec == Init /\ [][Next]_sl
=============================================================================
