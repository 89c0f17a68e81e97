\* Writing may fail and the user may cancel; the scan and the deletion work.
SPECIFICATION FairSpec
CONSTANTS
  dir = dir
  inner = inner
  sub = sub
  deep = deep
  beside = beside
  Here = Here
  Away = Away
  Nil = Nil
  Entry <- MCEntry
  Folder <- MCFolder
  Up <- MCUp
  Size <- MCSize
  Hidden = {}
  Taken = {beside}
  Room = 8
  Heap = 10
  MaxJobs = 2
  Faults = {"io", "stop"}
INVARIANTS NoLeak WorkDone
PROPERTIES TasksEnd
CHECK_DEADLOCK FALSE
