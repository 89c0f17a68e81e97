\* Two sessions of clients that run one passive transfer at a time.
SPECIFICATION Spec
CONSTANTS
  Sess = {s1, s2}
  Data = {d1, d2}
  Conn = {p1, p2}
  None = None
  MaxPoll = 0
  MaxLeft = 1
  LowMem = FALSE
  DiskErr = FALSE
  Orderly = TRUE
  Cmds = {"PASV", "LIST", "RETR", "STOR", "ABOR", "QUIT", "USER", "PASS",
          "RNFR", "RNTO", "REST", "NOOP", "CWD", "DELE", "MKD"}
  Silent = FALSE
SYMMETRY Blocks
INVARIANTS TypeOK NoFault NoOrphan CallbackArgLive TransferHasData
PROPERTY DroppedOnlyOnReset
