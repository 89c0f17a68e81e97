\* Termination.
SPECIFICATION FairSpec
CONSTANTS
  Ctl = {c1}
  Dat = {d1}
  None = None
  Jobs = {"MKD", "RMD", "DELE", "RNFR", "CWD", "RETR", "STOR", "MEDIA", "REST"}
  MaxSize = 2
  Want = 1
  Patient = TRUE
  Faults = {"refuse", "reset", "disk", "cancel"}
PROPERTIES SessionEnds
