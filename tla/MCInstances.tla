---------------------------- MODULE MCInstances -----------------------------
(* Instances of Instances: which faults each run injects together. *)
EXTENDS Instances, TLC
CONSTANTS i1, i2, i3, p1, p2

MCTwoIds == {i1, i2}
MCThreeIds == {i1, i2, i3}
MCOneProvider == {p1}
MCTwoProviders == {p1, p2}

\* The ids are interchangeable (used by the run without liveness).
Interchangeable == Permutations(MCThreeIds)

\* Three instances: whatever the provider does, a failing database as well, and each of
\* the two alone.
SafetySets ==
  {{"provider", "reply", "crash", "deadline"}, {"db", "provider", "reply", "crash"},
   {"db", "crash", "deadline"}, {"db"}, {"provider"}}

\* Two instances: also an operator who changes the provider or protects instances.
LiveSets == {{"db", "provider", "crash"}, {"crash", "switch"}, {"protect"}}
=============================================================================
