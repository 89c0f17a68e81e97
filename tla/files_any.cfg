\* Everything that may go wrong, but a cancel in the middle of a deletion; there is room.
SPECIFICATION Spec
CONSTANTS
  dir = dir
  inner = inner
  sub = sub
  deep = deep
  beside = beside
  Here = Here
  Away = Away
  Nil = Nil
  Entry <- MCEntry
  Folder <- MCFolder
  Up <- MCUp
  Size <- MCSize
  Hidden = {inner}
  Taken = {}
  Room = 8
  Heap = 10
  MaxJobs = 2
  Faults = {"io", "scan", "unlink", "quit", "stop"}
INVARIANTS TypeOK NothingLost NoStrayPointer
PROPERTIES KeepsPromise
CHECK_DEADLOCK FALSE
