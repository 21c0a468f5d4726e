\* Two of everything that can overlap, and one batch of a queue.
\* The pages that are not opened get the smallest constants.
CONSTANTS
  Opened = {"queue", "forms", "scaling", "alerts", "worker", "playground"}
  Task = {"t1"}
  OpenedIn = {"retry"}
  MaxChanges = 0
  MaxClicks = 0
  Slot = {"s1", "s2"}
  Key = {}
  Asking = {}
  MaxEntryForms = 0
  Queue = {"q1", "q2"}
  Tab = {"active", "pending"}
  PagesOf <- MCPagesOf
  MaxVersion = 1
  MaxMoves = 3
  MaxBatches = 1
  Parent = {"a"}
  Sub = {"default", "high"}
  MaxOpens = 2
  MaxForms = 1
  MaxEdits = 2
  Worker = {"w1", "w2"}
  Nobody = "none"
  MaxBreaks = 2
  MaxSends = 2
SPECIFICATION QueueSpec
INVARIANTS
  PagesTypeOK
  OneSavePerPage
  EmptyMeansNone
  SavesWhatWasLoaded
  OneStream
  FollowsLastSend
PROPERTIES
  EditKept
  DeletesWhatWasAsked
  PageCatchesUp
CHECK_DEADLOCK FALSE
