\* One job after another, everything that may go wrong.
SPECIFICATION Spec
CONSTANTS
  Ctl = {c1, c2}
  Dat = {d1, d2}
  None = None
  Jobs = {"MKD", "RMD", "DELE", "RNFR", "CWD", "RETR", "STOR", "MEDIA", "REST"}
  MaxSize = 2
  Want = 1
  Patient = TRUE
  Faults = {"refuse", "reset", "lowmem", "disk", "cancel", "merge", "wild"}
SYMMETRY Blocks
INVARIANTS TypeOK NoLeakedPcb NoBogusPcb WorkDone
