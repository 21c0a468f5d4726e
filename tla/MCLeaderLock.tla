---------------------------- MODULE MCLeaderLock ----------------------------
(* Instances of LeaderLock. *)
EXTENDS LeaderLock
CONSTANTS s1, s2, s3

MCTwo == {s1, s2}
MCThree == {s1, s2, s3}
MCForever == {s1}
NoServer == {}

\* The autoscaler's own numbers in units of 20 s: leaderTTL is 3 min, queueEvalTimeout is
\* 2 min, but reportFailure (5 s), persistBackoff (5 s) and UpdateStatusWithMeta (10 s) run
\* on contexts of their own, once per instance that is torn down.
LeaderTTL == 9
QueueEvalTimeout == 6
TeardownBudget == 1
Teardowns == 4
LongestEvaluation == QueueEvalTimeout + Teardowns * TeardownBudget
=============================================================================
