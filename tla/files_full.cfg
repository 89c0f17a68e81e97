\* A cut to a volume with room for one block; nothing else goes wrong.
SPECIFICATION Spec
CONSTANTS
  dir = dir
  inner = inner
  sub = sub
  deep = deep
  beside = beside
  Here = Here
  Away = Away
  Nil = Nil
  Entry <- MCEntry
  Folder <- MCFolder
  Up <- MCUp
  Size <- MCSize
  Hidden = {}
  Taken = {}
  Room = 1
  Heap = 10
  MaxJobs = 1
  Faults = {}
INVARIANT NothingLost
CHECK_DEADLOCK FALSE
