\* Any bank to start with; everything may fail but a read while the bank is compared.
SPECIFICATION FairSpec
CONSTANTS
  long = long
  short = short
  empty = empty
  large = large
  blank = blank
  None = None
  File <- MCFile
  Word = {0, 1, 2, 3}
  Erased = 0
  NoEntry = {3}
  Length <- MCLength
  Whole <- MCWhole
  Image <- MCImage
  Mem = 5
  Chunk = 2
  Faults = {"read", "erase", "program", "cancel", "cut"}
INVARIANTS TypeOK StartsTheFile LockedAtRest
PROPERTY CopyEnds
