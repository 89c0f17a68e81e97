\* Two songs, a few clicks, reads that fail; no seek while the ring is being filled.
SPECIFICATION FairSpec
CONSTANTS
  Ring = 8
  Half = 3
  Chunk = 4
  FileSize = 22
  ByteRate = 19
  MaxSongs = 2
  MaxClicks = 1
  Faults = {"io"}
INVARIANTS TypeOK NothingSkipped
PROPERTIES ReadsInside NoDmaFromFreed InOrder CopiesBehindDma Ends
CHECK_DEADLOCK FALSE
