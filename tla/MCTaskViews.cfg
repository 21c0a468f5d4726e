\* Two tasks, two loads in flight; a vault of one key, one load at a time.
\* The pages that are not opened get the smallest constants.
CONSTANTS
  Opened = {"task", "vault"}
  Task = {"t1", "t2"}
  OpenedIn = {"retry"}
  MaxChanges = 1
  MaxClicks = 2
  Slot = {"s1", "s2"}
  Key = {"k1"}
  Asking = {"s1"}
  MaxEntryForms = 2
  Queue = {"q1"}
  Tab = {"active", "pending"}
  PagesOf <- MCPagesOf
  MaxVersion = 1
  MaxMoves = 0
  MaxBatches = 0
  Parent = {}
  Sub = {"default"}
  MaxOpens = 0
  MaxForms = 0
  MaxEdits = 0
  Worker = {"w1"}
  Nobody = "none"
  MaxBreaks = 0
  MaxSends = 0
SPECIFICATION TaskSpec
INVARIANTS
  ShownIsNamed
  SavesWhatWasTyped
PROPERTIES
  FollowsToTheEnd
CHECK_DEADLOCK FALSE
