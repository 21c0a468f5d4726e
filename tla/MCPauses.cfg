\* Two servers of which one never stops, one machine, short pauses.
CONSTANTS
  s1 = s1
  s2 = s2
  m1 = m1
  NoPause = NoPause
  None = None
  Ghost = Ghost
  Server <- MCServer
  Forever <- MCForever
  Machine <- MCMachine
  Base <- MCBase
  Longest <- MCLongest
  Retention = 0
  MaxFailures = 2
  FaultSets <- MCFaultSets
SPECIFICATION FairSpec
PROPERTIES
  PauseHeld
  Escalates
  PausesEnd
