\* The queue moves to another provider while it has machines.
CONSTANTS
  i1 = i1
  i2 = i2
  i3 = i3
  p1 = p1
  p2 = p2
  NoId = NoId
  Id <- MCTwoIds
  Provider <- MCTwoProviders
  MaxWorkers = 1
  FaultSets = {{"switch"}}
SPECIFICATION Spec
INVARIANTS
  RecordedEnds
