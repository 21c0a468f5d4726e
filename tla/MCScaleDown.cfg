\* Three scenarios: no task is killed, a removed instance goes away, a kept one takes tasks.
CONSTANTS
  a = a
  b = b
  None = None
  Inst <- MCTwo
  Drainable <- MCOne
  Scenarios <- MCScenarios
  MaxQueue = 2
  MaxLeaders = 1
  MaxRestarts = 2
SPECIFICATION FairSpec
PROPERTIES
  NoTaskKilled
  DrainCompletes
  
