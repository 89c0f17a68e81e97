\* One orderly client that uses active transfers.
SPECIFICATION Spec
CONSTANTS
  Sess = {s1}
  Data = {d1}
  Conn = {p1}
  None = None
  MaxPoll = 1
  MaxLeft = 1
  LowMem = FALSE
  DiskErr = FALSE
  Orderly = TRUE
  Cmds = {"PORT", "LIST", "RETR", "ABOR"}
  Silent = FALSE
INVARIANT NoFault
