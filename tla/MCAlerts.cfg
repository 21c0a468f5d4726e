\* One condition and one event key under four families of faults.
CONSTANTS
  c1 = c1
  e1 = e1
  NoState = NoState
  Condition <- MCCondition
  EventKey <- MCEventKey
  For <- MCFor
  Repeat = 2
  MinEventInterval = 1
  SendResolved = TRUE
  MaxAge = 2
  FaultSets <- MCFaultSets
SPECIFICATION FairSpec
INVARIANTS
  InboxAgrees
PROPERTIES
  ImplementsMailbox
  ActiveIsTold
  EveryFiringCloses
  EventsReported
