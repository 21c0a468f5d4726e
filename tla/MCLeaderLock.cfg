\* Three servers of which one never stops, two faults: safety, the refinement and takeover.
CONSTANTS
  s1 = s1
  s2 = s2
  s3 = s3
  None = None
  Ghost = Ghost
  Server <- MCThree
  Forever <- MCForever
  TTL = 3
  CallMax = 1
  WorkMax = 1
  MaxFaults = 2
SPECIFICATION FairSpec
INVARIANTS
  MutualExclusion
PROPERTIES
  ImplementsSingleLeader
  AlwaysReplaced
