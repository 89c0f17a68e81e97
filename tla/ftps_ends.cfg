\* Termination and completeness, with a client that may vanish (no symmetry: liveness).
SPECIFICATION FairSpec
CONSTANTS
  Sess = {s1}
  Data = {d1, d2}
  Conn = {p1, p2}
  None = None
  MaxPoll = 2
  MaxLeft = 2
  LowMem = FALSE
  DiskErr = FALSE
  Orderly = TRUE
  Cmds = {"PASV", "LIST", "RETR", "STOR", "ABOR", "QUIT", "RNFR", "REST"}
  Silent = TRUE
PROPERTIES TransferEnds SilentSessionReaped WholeTransfer
