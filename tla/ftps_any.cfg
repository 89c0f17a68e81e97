\* One session at a time, any client, memory and disk that fail.
SPECIFICATION Spec
CONSTANTS
  Sess = {s1}
  Data = {d1, d2}
  Conn = {p1}
  None = None
  MaxPoll = 0
  MaxLeft = 1
  LowMem = TRUE
  DiskErr = TRUE
  Orderly = FALSE
  Cmds = {"PASV", "PORT", "RETR"}
  Silent = FALSE
SYMMETRY Blocks
INVARIANTS CountsExact SessionPointsHome
PROPERTY LeftBehindOnlyIfReplaced
