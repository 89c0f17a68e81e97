---------------------------------- MODULE Lwftp ----------------------------------
(*****************************************************************************)
(* The FTP client (Common/Src/lwftp.c) with the callbacks its users hand it   *)
(* (Common/Src/lv_file_manager.c, audiolib/lwftp_ff.c).                       *)
(*                                                                           *)
(* There is one session structure.  A user starts a job in it, which opens a  *)
(* control connection, and takes the job as finished when control_pcb is      *)
(* NULL; nothing else tells it.  One lwIP callback is one atomic action; the  *)
(* callbacks of the control and of the data connection come in any order.     *)
(* done_fn is called from within the state machine and calls back into it, so *)
(* a callback is written as a function on a record W: the session, and what   *)
(* the callback has done to the connections so far.                           *)
(*                                                                           *)
(* The server is the environment.  It obeys FTP, unless Faults says more.     *)
(*                                                                           *)
(* Operators whose comment starts with "Variant" are used by no action.       *)
(*****************************************************************************)
EXTENDS Integers, Sequences, FiniteSets

CONSTANTS
  Ctl,        (* tcp_pcb blocks for control connections                        *)
  Dat,        (* tcp_pcb blocks for data connections                           *)
  None,       (* the NULL pointer                                              *)
  Jobs,       (* the kinds of job the users start                              *)
  MaxSize,    (* blocks in the longest file                                    *)
  Want,       (* blocks the media player asks for (btr)                        *)
  Patient,    (* whether users wait for control_pcb to be NULL before a job    *)
  Faults      (* what may go wrong, of FaultKinds                              *)

FaultKinds == {"refuse", "reset", "lowmem", "disk", "cancel", "merge", "wild"}
Simple == {"MKD", "RMD", "DELE", "RNFR"}
Downloads == {"LIST", "RETR", "REST", "MEDIA"}
AllJobs == Simple \cup {"CWD", "RETR", "STOR", "MEDIA", "REST"}

ASSUME LwftpAssumption ==
  /\ Jobs \subseteq AllJobs /\ Faults \subseteq FaultKinds
  /\ MaxSize \in Nat /\ Want \in Nat /\ Patient \in BOOLEAN
  /\ Ctl \cap Dat = {} /\ None \notin Ctl \cup Dat

VARIABLES
  s,          (* the lwftp_session_t                                           *)
  conn,       (* control connections: the pcb and the server's end             *)
  dat,        (* data connections: the pcb and what is on the wire             *)
  job,        (* the user's job, with its history                              *)
  leftover    (* cancelled transfers that left bytes in the user's buffer      *)

vars == <<s, conn, dat, job, leftover>>

-----------------------------------------------------------------------------
States == {"CLOSED", "CONNECTED", "USER_SENT", "PASS_SENT", "LOGGED", "TYPE_SENT",
           "PASV_SENT", "LIST_SENT", "REST_SENT", "RETR_SENT", "STOR_SENT", "RNFR_SENT",
           "RNTO_SENT", "MKD_SENT", "RMD_SENT", "CWD_SENT", "DELE_SENT", "ABOR_SENT",
           "XFERING", "DATAEND", "QUIT", "QUIT_SENT", "CLOSING"}
Commands == {"USER", "PASS", "TYPE", "PASV", "LIST", "REST", "RETR", "STOR", "RNFR",
             "RNTO", "MKD", "RMD", "CWD", "DELE", "ABOR", "QUIT"}
Codes == {"150", "200", "220", "221", "226", "227", "230", "250", "257", "331", "350",
          "426", "550"}

\* memset(s, 0): control state CLOSED, no pcb, no callback.  "io" is the data source
\* or sink the user has installed.
NewSession == [cs |-> "CLOSED", target |-> "CLOSED", cpcb |-> None, dpcb |-> None,
               done |-> "none", io |-> "none"]
FreeConn == [st |-> "free", cmds |-> <<>>, reps |-> <<>>, xf |-> "no", fin |-> FALSE,
             bye |-> FALSE]
FreeDat == [st |-> "free", ctl |-> None, left |-> 0, eof |-> FALSE, fly |-> FALSE]
NoJob == [op |-> "none", waiting |-> FALSE, src |-> 0, size |-> 0, got |-> 0, did |-> 0,
          bad |-> FALSE]

TypeOK ==
  /\ s \in [cs: States, target: States, cpcb: Ctl \cup {None}, dpcb: Dat \cup {None},
            done: {"none", "op", "LIST_cb", "QUIT_cb"},
            io: {"none", "dir", "write", "media", "read"}]
  /\ conn \in [Ctl -> [st: {"free", "syn", "open"}, cmds: Seq(Commands),
                       reps: Seq(Codes), xf: {"no", "down", "up"}, fin: BOOLEAN,
                       bye: BOOLEAN]]
  /\ dat \in [Dat -> [st: {"free", "new", "syn", "open"}, ctl: Ctl \cup {None},
                      left: 0..MaxSize, eof: BOOLEAN, fly: BOOLEAN]]
  /\ job \in [op: AllJobs \cup {"none"}, waiting: BOOLEAN, src: 0..MaxSize,
              size: 0..MaxSize, got: 0..MaxSize, did: 0..2, bad: BOOLEAN]
  /\ leftover \subseteq {"RETR", "STOR"}

Init ==
  /\ s = NewSession
  /\ conn = [c \in Ctl |-> FreeConn]
  /\ dat = [d \in Dat |-> FreeDat]
  /\ job = NoJob
  /\ leftover = {}

-----------------------------------------------------------------------------
(* The working record of a callback.  "out" are the commands written to        *)
(* control_pcb, "shut" the pcbs closed, "syn" whether data_pcb was told to      *)
(* connect, "put" whether a block was written to it, "src" the blocks left in   *)
(* the user's source file.  What lwIP and the disk answer is chosen beforehand: *)
(* "fresh" is what tcp_new returns, "ok" whether tcp_write, tcp_connect and       *)
(* f_write succeed; "bad" notes that one of them failed.                         *)

Enter(fresh, ok) ==
  [s |-> s, out |-> <<>>, shut |-> {}, syn |-> FALSE, put |-> FALSE, src |-> job.src,
   fresh |-> fresh, ok |-> ok, bad |-> FALSE]

Goto(W, state) == [W EXCEPT !.s.cs = state]

\* lwftp_send_msg.  No caller looks at what it returns: the state moves on also when
\* tcp_write fails (Unsent).
Say(W, cmd, state) == [W EXCEPT !.out = Append(@, cmd), !.s.cs = state]

\* lwftp_close and lwftp_send_QUIT.
Close(W) == IF W.s.cs = "CLOSED" \/ W.s.cpcb = None THEN W ELSE Say(W, "QUIT", "QUIT_SENT")

\* Variant: the pointer is cleared and the pcb is not closed.
ShutDataForgets(W) == [W EXCEPT !.s.dpcb = None]

\* lwftp_pcb_close(s->data_pcb): the callbacks are removed and the pcb is closed.
ShutData(W) ==
  IF W.s.dpcb = None THEN W
  ELSE [W EXCEPT !.shut = @ \cup {W.s.dpcb}, !.s.dpcb = None]

SimpleState == [MKD |-> "MKD_SENT", RMD |-> "RMD_SENT", DELE |-> "DELE_SENT",
                RNFR |-> "RNFR_SENT", CWD |-> "CWD_SENT"]

\* lwftp_list, lwftp_retrieve, lwftp_store after LOGGED.  done_fn is lv_lwftp_QUIT_cb
\* by now: it closes the session if there is no pcb, and ignores INPROGRESS.
StartTransfer(W, target, io) ==
  LET V == [W EXCEPT !.s.done = "QUIT_cb", !.s.io = io] IN
  IF V.s.dpcb # None \/ V.fresh = None THEN Close([V EXCEPT !.bad = TRUE])
  ELSE [Say(V, "TYPE", "TYPE_SENT") EXCEPT !.s.target = target, !.s.dpcb = V.fresh]

\* The user's done_fn of a job, called with LOGGED.
StartOp(W) ==
  CASE job.op \in Simple -> [Say(W, job.op, SimpleState[job.op]) EXCEPT !.s.done = "QUIT_cb"]
    [] job.op = "CWD" -> [Say(W, "CWD", "CWD_SENT") EXCEPT !.s.done = "LIST_cb"]
    [] job.op = "RETR" -> StartTransfer(W, "RETR_SENT", "write")
    [] job.op = "MEDIA" -> StartTransfer(W, "RETR_SENT", "media")
    [] job.op = "REST" -> StartTransfer(W, "REST_SENT", "media")
    [] job.op = "STOR" -> StartTransfer(W, "STOR_SENT", "read")

\* s->done_fn(s->handle, result).
Done(W, result) ==
  CASE W.s.done = "op" -> IF result = "LOGGED" THEN StartOp(W) ELSE Close(W)
    [] W.s.done = "LIST_cb" ->
         IF W.s.cs = "CWD_SENT" /\ result = "OK"
         THEN StartTransfer(Goto(W, "LOGGED"), "LIST_SENT", "dir") ELSE W
    [] W.s.done = "QUIT_cb" -> IF result = "INPROGRESS" THEN W ELSE Close(W)
    [] W.s.done = "none" -> W

\* Variant: the user is not told.
DataCloseSilent(W, result) == ShutData(W)
\* lwftp_data_close.
DataClose(W, result) == Done(ShutData(W), result)

\* Variant: the data connection is left open.
ControlCloseKeepsData(W, result) ==
  LET U == IF W.s.cpcb = None THEN W
           ELSE [W EXCEPT !.shut = @ \cup {W.s.cpcb}, !.s.cpcb = None]
  IN Done(Goto(U, "CLOSED"), result)

\* lwftp_control_close.
ControlClose(W, result) ==
  LET V == ShutData(W)
      U == IF V.s.cpcb = None THEN V
           ELSE [V EXCEPT !.shut = @ \cup {V.s.cpcb}, !.s.cpcb = None]
  IN Done(Goto(U, "CLOSED"), result)

\* Variant: the source does not advance.
SendNextAgain(W) ==
  LET taken == W.ok /\ W.s.dpcb # None IN
  IF W.src > 0 /\ W.s.io = "read" THEN [W EXCEPT !.put = taken, !.bad = @ \/ ~taken]
  ELSE ShutData(W)

\* lwftp_send_next_data: the next block, or the end of the file.  A block tcp_write
\* does not take is lost.  With data_pcb NULL (150 after lwftp_data_err) the code asks
\* for the space left in a pcb at address 0, takes a block of the source and has
\* tcp_write refuse it: how much is lost is left open by the code, that the job has
\* failed is not.
SendNext(W) ==
  LET taken == W.ok /\ W.s.dpcb # None IN
  IF W.src > 0 /\ W.s.io = "read"
  THEN [W EXCEPT !.src = @ - 1, !.put = taken, !.bad = @ \/ ~taken]
  ELSE ShutData(W)

\* lwftp_abort.
Abort(W) ==
  IF W.s.cs # "XFERING" THEN Done(W, "ERR")
  ELSE Done(Say(W, "ABOR", "ABOR_SENT"), "INPROGRESS")

-----------------------------------------------------------------------------
(* lwftp_control_process.                                                     *)

\* A reply that is expected leads to the next command; any other one to QUIT.
NextCommand ==
  [CONNECTED |-> <<"220", "USER", "USER_SENT">>,
   USER_SENT |-> <<"331", "PASS", "PASS_SENT">>,
   RNFR_SENT |-> <<"350", "RNTO", "RNTO_SENT">>,
   TYPE_SENT |-> <<"200", "PASV", "PASV_SENT">>]

\* States whose expected reply ends the command.
Completes == [PASS_SENT |-> "230", RNTO_SENT |-> "250", MKD_SENT |-> "257",
              RMD_SENT |-> "250", DELE_SENT |-> "250", CWD_SENT |-> "250",
              ABOR_SENT |-> "426"]

Verb == [LIST_SENT |-> "LIST", STOR_SENT |-> "STOR", RETR_SENT |-> "RETR",
         REST_SENT |-> "REST"]

\* Variant: the reply that ends a download does not wait for the data.
TransferReplyHasty(W, r) ==
  IF r \in {"226", "250"} THEN <<Goto(W, "DATAEND"), "OK">>
  ELSE <<Goto(W, "DATAEND"), "ERR">>

\* XFERING: the last reply ends the transfer, unless data is still to come.
TransferReply(W, r) ==
  IF r \in {"226", "250"}
  THEN <<IF W.s.dpcb = None THEN Goto(W, "DATAEND") ELSE W, "OK">>
  ELSE <<Goto(W, "DATAEND"), "ERR">>

\* The first switch: the state after reply r, and the result.
OnReply(W, r) ==
  LET cs == W.s.cs IN
  CASE cs \in DOMAIN NextCommand ->
         <<IF r = NextCommand[cs][1] THEN Say(W, NextCommand[cs][2], NextCommand[cs][3])
           ELSE Goto(W, "QUIT"), "ERR">>
    [] cs \in DOMAIN Completes ->
         <<IF r # Completes[cs] THEN Goto(W, "QUIT")
           ELSE IF cs = "PASS_SENT" THEN Done(Goto(W, "LOGGED"), "LOGGED")
           ELSE Done(W, "OK"), "ERR">>
    [] cs = "PASV_SENT" ->
         <<IF r = "227" THEN [Say(W, Verb[W.s.target], W.s.target) EXCEPT
                                !.syn = W.s.dpcb # None /\ W.ok, !.bad = @ \/ ~W.ok]
           ELSE Goto(W, "QUIT"), "ERR">>
    [] cs = "REST_SENT" ->
         <<IF r = "350" THEN Say(W, "RETR", "RETR_SENT") ELSE Goto(W, "DATAEND"), "ERR">>
    [] cs \in {"LIST_SENT", "RETR_SENT"} ->
         <<IF r = "150" THEN Goto(W, "XFERING") ELSE Goto(W, "DATAEND"), "ERR">>
    [] cs = "STOR_SENT" ->
         <<IF r = "150" THEN SendNext(Goto(W, "XFERING")) ELSE Goto(W, "DATAEND"), "ERR">>
    [] cs = "XFERING" -> TransferReply(W, r)
    [] cs = "QUIT_SENT" -> <<Goto(W, "CLOSING"), IF r = "221" THEN "OK" ELSE "ERR">>
    [] OTHER -> <<W, "ERR">>

\* The second switch.
Settle(W, result) ==
  CASE W.s.cs = "DATAEND" -> Goto(DataClose(W, result), "LOGGED")
    [] W.s.cs = "QUIT" -> Say(W, "QUIT", "QUIT_SENT")
    [] W.s.cs = "CLOSING" -> ControlClose(W, result)
    [] OTHER -> W

Process(W, r) == LET X == OnReply(W, r) IN Settle(X[1], X[2])

-----------------------------------------------------------------------------
(* Leaving a callback: W against the connections C and D and the job J as the  *)
(* event has left them.                                                        *)

FreshPcbs == {d \in Dat : dat[d].st = "free"}
Fresh == IF FreshPcbs = {} THEN {None}
         ELSE FreshPcbs \cup (IF "lowmem" \in Faults THEN {None} ELSE {})
Luck(fault) == IF fault \in Faults THEN BOOLEAN ELSE {TRUE}

Leave(W, C, D, J) ==
  LET to == s.cpcb
      Served(c) ==
        IF c \in W.shut THEN FreeConn
        ELSE [C[c] EXCEPT !.cmds = IF c = to THEN @ \o W.out ELSE @,
                          !.fin = @ \/ \E d \in W.shut \cap Dat : D[d].ctl = c]
      Wired(d) ==
        IF d \in W.shut THEN FreeDat
        ELSE IF d = W.s.dpcb
        THEN [D[d] EXCEPT !.st = IF W.syn THEN "syn" ELSE IF @ = "free" THEN "new" ELSE @,
                          !.ctl = IF W.syn THEN to ELSE @,
                          !.fly = @ \/ W.put]
        ELSE [D[d] EXCEPT !.ctl = IF @ \in W.shut THEN None ELSE @]
  IN /\ s' = W.s
     /\ conn' = [c \in Ctl |-> Served(c)]
     /\ dat' = [d \in Dat |-> Wired(d)]
     /\ job' = [J EXCEPT !.src = W.src,
                         !.got = IF W.put THEN @ + 1 ELSE @,
                         !.bad = @ \/ W.bad]

-----------------------------------------------------------------------------
(* The users.                                                                 *)

\* lv_lwftp_connect, LWFTP_FileRead: memset of the session, then lwftp_connect.  A
\* listing can be asked for again while the first one has not begun to arrive:
\* nothing blocks the buttons until then.
Start(op) ==
  /\ op \in Jobs
  /\ job.waiting => job.op = "CWD" /\ s.io = "none"
  /\ Patient => s.cpcb = None /\ ~job.waiting
  /\ \E n \in IF op = "STOR" THEN 0..MaxSize ELSE {0} :
       LET J == [NoJob EXCEPT !.op = op, !.waiting = TRUE, !.src = n, !.size = n,
                              !.bad = op \in leftover] IN
       \/ \E c \in Ctl :
            /\ conn[c].st = "free"
            /\ s' = [NewSession EXCEPT !.cpcb = c, !.done = "op"]
            /\ conn' = [conn EXCEPT ![c].st = "syn"]
            /\ job' = J
       \/ /\ "lowmem" \in Faults
          /\ s' = [NewSession EXCEPT !.done = "op"]
          /\ job' = [J EXCEPT !.bad = TRUE]
          /\ UNCHANGED conn
  /\ UNCHANGED <<dat, leftover>>

\* A task finds control_pcb NULL: the buffer is flushed, the file closed, the next
\* job may start.
Collect ==
  /\ job.waiting /\ s.cpcb = None
  /\ job' = [job EXCEPT !.waiting = FALSE]
  /\ leftover' = leftover \ {job.op}
  /\ UNCHANGED <<s, conn, dat>>

\* The Cancel button: the file task aborts, closes the file and ends.  The source file
\* has no more than the buffer to give, and what a transfer had put in the buffer
\* stays there (leftover, from the moment the transfer is set up).
CancelJob ==
  /\ "cancel" \in Faults /\ job.waiting /\ job.op \in Simple \cup {"RETR", "STOR"}
  /\ \E n \in 0..job.src :
       Leave(Abort([Enter(None, TRUE) EXCEPT !.src = n]), conn, dat,
             [job EXCEPT !.waiting = FALSE, !.bad = TRUE])
  /\ leftover' = IF s.io \in {"read", "write"} THEN leftover \cup {job.op} ELSE leftover

\* A click on the spinner of a listing.  ClickBound: the user stops clicking while
\* two commands are unanswered.
CancelListing ==
  /\ "cancel" \in Faults /\ job.waiting /\ job.op = "CWD" /\ s.cpcb # None
  /\ Len(conn[s.cpcb].cmds) < 2
  /\ Leave(Abort(Enter(None, TRUE)), conn, dat, [job EXCEPT !.bad = TRUE])
  /\ UNCHANGED leftover

\* lv_fm_player_delete: the player goes away.
CancelMedia ==
  /\ "cancel" \in Faults /\ job.waiting /\ job.op \in {"MEDIA", "REST"}
  /\ LET W == Enter(None, TRUE) IN
     Leave(IF s.cs = "XFERING" THEN Abort(W) ELSE W, conn, dat,
           [job EXCEPT !.waiting = FALSE, !.bad = TRUE])
  /\ UNCHANGED leftover

-----------------------------------------------------------------------------
(* Callbacks of the control connection.  They act on the session whose address *)
(* is in the pcb, which is always this one: not on control_pcb.                 *)

\* lwftp_control_connected; the server greets.
CtlConnected(c) ==
  /\ conn[c].st = "syn"
  /\ s' = [s EXCEPT !.cs = "CONNECTED"]
  /\ conn' = [conn EXCEPT ![c].st = "open", ![c].reps = <<"220">>]
  /\ UNCHANGED <<dat, job, leftover>>

\* lwftp_control_recv.  Several replies may come in one segment; only the first is
\* looked at.
CtlRecv(c) ==
  /\ conn[c].st = "open"
  /\ conn[c].reps # <<>>
  /\ \E k \in IF "merge" \in Faults THEN 1..Len(conn[c].reps) ELSE {1},
        n \in Fresh, ok \in Luck("lowmem") :
       Leave(Process(Enter(n, ok), Head(conn[c].reps)),
             [conn EXCEPT ![c].reps = SubSeq(@, k + 1, Len(@))], dat, job)
  /\ UNCHANGED leftover

\* lwftp_control_recv with no pbuf: the server has closed.
CtlEof(c) ==
  /\ conn[c].st = "open" /\ conn[c].bye /\ conn[c].reps = <<>>
  /\ Leave(ControlClose(Enter(None, TRUE), "ERR"), conn, dat, job)
  /\ UNCHANGED leftover

\* lwftp_control_err: no connection, or a reset; lwIP has freed the pcb.
CtlErr(c) ==
  /\ "reset" \in Faults /\ conn[c].st # "free"
  /\ LET W == Enter(None, TRUE) IN
     Leave(ControlClose([W EXCEPT !.s.cpcb = None], "ERR"),
           [conn EXCEPT ![c] = FreeConn],
           [d \in Dat |-> IF dat[d].ctl = c THEN [dat[d] EXCEPT !.ctl = None] ELSE dat[d]],
           [job EXCEPT !.bad = TRUE])
  /\ UNCHANGED leftover

-----------------------------------------------------------------------------
(* Callbacks of the data connection.                                          *)

\* lwftp_data_connected: only data_state changes, which nothing reads.
DataConnected(d) ==
  /\ dat[d].st = "syn"
  /\ dat' = [dat EXCEPT ![d].st = "open"]
  /\ UNCHANGED <<s, conn, job, leftover>>

\* lv_lwftp_file_write_cb, lv_lwftp_dir_read_cb, LWFTP_BufferWrite_cb: one block
\* handed to the sink, as the working record and whether it was kept.
Sink(W) ==
  CASE W.s.io = "write" ->
         IF W.s.cs \in {"XFERING", "RETR_SENT", "REST_SENT"}
         THEN IF W.ok THEN <<W, TRUE>> ELSE <<Close([W EXCEPT !.bad = TRUE]), TRUE>>
         ELSE <<W, FALSE>>
    [] W.s.io = "dir" -> <<W, TRUE>>
    [] W.s.io = "media" /\ job.waiting ->
         IF job.got < Want THEN <<W, TRUE>>
         ELSE <<IF W.s.cs = "XFERING" THEN Abort(W) ELSE W, FALSE>>
    [] OTHER -> <<W, FALSE>>

\* lwftp_data_recv.
DataRecv(d) ==
  /\ dat[d].st = "open" /\ dat[d].left > 0
  /\ \E ok \in Luck("disk") :
       LET X == Sink(Enter(None, ok)) IN
       Leave(X[1], conn, [dat EXCEPT ![d].left = @ - 1],
             IF X[2] THEN [job EXCEPT !.got = @ + 1] ELSE job)
  /\ UNCHANGED leftover

\* lwftp_data_recv with no pbuf: the connection is closed, done_fn is called, which
\* sends QUIT, and then the state is LOGGED.
DataEof(d) ==
  /\ dat[d].st = "open" /\ dat[d].left = 0 /\ dat[d].eof
  /\ Leave(Goto(DataClose(Enter(None, TRUE), "OK"), "LOGGED"), conn, dat, job)
  /\ UNCHANGED leftover

\* lwftp_data_sent: the server has acknowledged all that was written, or a part.
DataSent(d) ==
  /\ dat[d].st = "open" /\ dat[d].fly
  /\ \E fly \in BOOLEAN, ok \in Luck("lowmem") :
       Leave(SendNext(Enter(None, ok)), conn, [dat EXCEPT ![d].fly = fly], job)
  /\ UNCHANGED leftover

\* lwftp_data_err: no connection, or a reset; lwIP has freed the pcb.
DataErr(d) ==
  /\ "reset" \in Faults /\ dat[d].st \in {"syn", "open"}
  /\ LET W == [Enter(None, TRUE) EXCEPT !.s.dpcb = None] IN
     Leave(IF s.cs = "XFERING" THEN Settle(Goto(W, "DATAEND"), "ERR") ELSE W,
           conn, [dat EXCEPT ![d] = FreeDat], [job EXCEPT !.bad = TRUE])
  /\ UNCHANGED leftover

-----------------------------------------------------------------------------
(* The server of control connection c.                                        *)

Agrees == [USER |-> "331", PASS |-> "230", TYPE |-> "200", PASV |-> "227", CWD |-> "250",
           REST |-> "350", RNFR |-> "350", RNTO |-> "250", MKD |-> "257", RMD |-> "250",
           DELE |-> "250", LIST |-> "150", RETR |-> "150", STOR |-> "150"]
Performs == {"RNTO", "MKD", "RMD", "DELE", "LIST", "RETR"}

DataOf(c) == {d \in Dat : dat[d].ctl = c}
Replies(c, rs) == [conn[c] EXCEPT !.reps = @ \o rs]

\* The server reads the next command and agrees.  It reads nothing but ABOR during
\* a transfer.
Agree(c) ==
  /\ conn[c].st = "open" /\ ~conn[c].bye /\ conn[c].cmds # <<>>
  /\ LET cmd == Head(conn[c].cmds)
         Read(C) == [conn EXCEPT ![c] = [C EXCEPT !.cmds = Tail(@)]]
         J == [job EXCEPT !.did = IF cmd \in Performs THEN @ + 1 ELSE @]
     IN \/ /\ cmd \in DOMAIN Agrees \ {"LIST", "RETR"} /\ conn[c].xf = "no"
           /\ conn' = Read([Replies(c, <<Agrees[cmd]>>) EXCEPT
                              !.xf = IF cmd = "STOR" THEN "up" ELSE @])
           /\ job' = J
           /\ UNCHANGED dat
        \/ /\ cmd \in {"LIST", "RETR"} /\ conn[c].xf = "no"
           /\ conn' = Read([Replies(c, <<"150">>) EXCEPT !.xf = "down"])
           /\ \E n \in 0..MaxSize :
                /\ dat' = [d \in Dat |-> IF d \in DataOf(c) THEN [dat[d] EXCEPT !.left = n]
                                                           ELSE dat[d]]
                /\ job' = [J EXCEPT !.size = n]
        \/ /\ cmd = "ABOR"
           /\ conn' = Read([Replies(c, IF conn[c].xf = "no" THEN <<"226">>
                                       ELSE <<"426", "226">>) EXCEPT !.xf = "no"])
           /\ dat' = [d \in Dat |-> IF d \in DataOf(c) THEN [dat[d] EXCEPT !.eof = TRUE]
                                                      ELSE dat[d]]
           /\ job' = J
        \/ /\ cmd = "QUIT" /\ conn[c].xf = "no"
           /\ conn' = Read([Replies(c, <<"221">>) EXCEPT !.bye = TRUE])
           /\ UNCHANGED <<dat, job>>
  /\ UNCHANGED <<s, leftover>>

\* The server refuses a command.
Refuse(c) ==
  /\ "refuse" \in Faults
  /\ conn[c].st = "open" /\ ~conn[c].bye /\ conn[c].cmds # <<>> /\ conn[c].xf = "no"
  /\ Head(conn[c].cmds) # "QUIT"
  /\ conn' = [conn EXCEPT ![c] = [Replies(c, <<"550">>) EXCEPT !.cmds = Tail(@)]]
  /\ job' = [job EXCEPT !.bad = TRUE]
  /\ UNCHANGED <<s, dat, leftover>>

\* All of the file is sent: the data connection is closed behind it and the reply is
\* on its way, and either may arrive first.
FinishDown(c) ==
  /\ conn[c].xf = "down" /\ \E d \in DataOf(c) : dat[d].st = "open"
  /\ conn' = [conn EXCEPT ![c] = [Replies(c, <<"226">>) EXCEPT !.xf = "no"]]
  /\ dat' = [d \in Dat |-> IF d \in DataOf(c) THEN [dat[d] EXCEPT !.eof = TRUE] ELSE dat[d]]
  /\ UNCHANGED <<s, job, leftover>>

\* The client has closed the data connection of an upload.
FinishUp(c) ==
  /\ conn[c].xf = "up" /\ conn[c].fin
  /\ conn' = [conn EXCEPT ![c] = [Replies(c, <<"226">>) EXCEPT !.xf = "no"]]
  /\ job' = [job EXCEPT !.did = @ + 1]
  /\ UNCHANGED <<s, dat, leftover>>

\* The data connection is gone, or never came.
FailXfer(c) ==
  /\ conn[c].xf # "no" /\ DataOf(c) = {} /\ ~(conn[c].xf = "up" /\ conn[c].fin)
  /\ conn' = [conn EXCEPT ![c] = [Replies(c, <<"426">>) EXCEPT !.xf = "no"]]
  /\ job' = [job EXCEPT !.bad = TRUE]
  /\ UNCHANGED <<s, dat, leftover>>

\* A server that does not obey: any reply to the next command, or to none, or it
\* hangs up.
Wild(c) ==
  /\ "wild" \in Faults /\ conn[c].st = "open" /\ ~conn[c].bye /\ conn[c].reps = <<>>
  /\ \/ \E r \in Codes :
          conn' = [conn EXCEPT ![c].reps = <<r>>,
                               ![c].cmds = IF @ = <<>> THEN @ ELSE Tail(@)]
     \/ conn' = [conn EXCEPT ![c].bye = TRUE]
  /\ job' = [job EXCEPT !.bad = TRUE]
  /\ UNCHANGED <<s, dat, leftover>>

\* lwftp_send_msg without memory: the command never leaves, and the client waits for
\* the answer all the same.  To the server it is as if it had been lost on the way.
Unsent(c) ==
  /\ "lowmem" \in Faults /\ conn[c].st = "open" /\ conn[c].cmds # <<>>
  /\ conn' = [conn EXCEPT ![c].cmds = Tail(@)]
  /\ job' = [job EXCEPT !.bad = TRUE]
  /\ UNCHANGED <<s, dat, leftover>>

-----------------------------------------------------------------------------
CtlStep(c) == CtlConnected(c) \/ CtlRecv(c) \/ CtlEof(c)
ServerStep(c) == Agree(c) \/ FinishDown(c) \/ FinishUp(c) \/ FailXfer(c)
DataStep(d) == DataConnected(d) \/ DataRecv(d) \/ DataEof(d) \/ DataSent(d)

Next ==
  \/ \E op \in AllJobs : Start(op)
  \/ Collect \/ CancelJob \/ CancelListing \/ CancelMedia
  \/ \E c \in Ctl : \/ CtlStep(c) \/ CtlErr(c) \/ Unsent(c)
                   \/ ServerStep(c) \/ Refuse(c) \/ Wild(c)
  \/ \E d \in Dat : DataStep(d) \/ DataErr(d)

Spec == Init /\ [][Next]_vars

\* The network delivers, the server answers and hangs up after QUIT.
FairSpec ==
  /\ Spec
  /\ \A c \in Ctl : WF_vars(CtlStep(c)) /\ WF_vars(ServerStep(c))
  /\ \A d \in Dat : WF_vars(DataStep(d))

-----------------------------------------------------------------------------
(* Properties.                                                                *)

\* Every pcb that has callbacks into the session, or will get them, is the session's
\* control_pcb or data_pcb: whenever a session ends, all its connections have ended.
NoLeakedPcb ==
  /\ \A c \in Ctl : conn[c].st # "free" => c = s.cpcb
  /\ \A d \in Dat : dat[d].st # "free" => d = s.dpcb

\* The reverse: the session never holds a pcb that lwIP has freed, and has none left
\* when it is closed.
NoBogusPcb ==
  /\ s.cpcb # None => conn[s.cpcb].st # "free"
  /\ s.dpcb # None => dat[s.dpcb].st # "free" /\ s.cpcb # None

Asked == IF job.op \in {"MEDIA", "REST"} /\ Want < job.size THEN Want ELSE job.size

\* The users look at nothing but control_pcb = NULL: when it comes, and nothing
\* outside has gone wrong, the server has done what was asked, once, and every block
\* of the file has been moved.
WorkDone ==
  job.waiting /\ s.cpcb = None /\ ~job.bad => job.did = 1 /\ job.got = Asked

\* Every session comes to an end, refused, cancelled or not, if the server answers.
SessionEnds == (s.cpcb # None) ~> (s.cpcb = None)
=============================================================================
