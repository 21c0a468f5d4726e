\* Two instances: teardown is one-way and ends.
CONSTANTS
  i1 = i1
  i2 = i2
  i3 = i3
  p1 = p1
  p2 = p2
  NoId = NoId
  Id <- MCTwoIds
  Provider <- MCTwoProviders
  MaxWorkers = 1
  FaultSets <- LiveSets
SPECIFICATION FairSpec
PROPERTIES
  NoResurrection
  TeardownFinishes
