\* Three instances under four families of faults.
CONSTANTS
  i1 = i1
  i2 = i2
  i3 = i3
  p1 = p1
  p2 = p2
  NoId = NoId
  Id <- MCThreeIds
  Provider <- MCOneProvider
  MaxWorkers = 2
  FaultSets <- SafetySets
SPECIFICATION Spec
SYMMETRY Interchangeable
INVARIANTS
  FinalMeansGone
  NoUntrackedMachine
  WithinMaxWorkers
PROPERTIES
  ImplementsRental
