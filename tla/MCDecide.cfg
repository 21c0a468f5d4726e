\* Polls of a queue at rest, on every small policy and snapshot.
CONSTANTS
  i1 = i1
  i2 = i2
  i3 = i3
  qa = qa
  qb = qb
  Instance <- MCInstance
  SubQueue <- MCSubQueue
  BusyGrace <- MCBusyGrace
  Policies <- MCPolicies
  Snapshots <- MCSnapshots
SPECIFICATION Spec
INVARIANTS
  PlanWithinBounds
  Settles
  NoStacking
  LoadIsAnswered
