---------------------------------- MODULE Ftps ----------------------------------
(*****************************************************************************)
(* The FTP server (Common/Src/ftps.c): control sessions, data connections    *)
(* and the lwIP raw-API callbacks that drive them.                           *)
(*                                                                           *)
(* lwIP runs in the super-loop, so one callback is one atomic action; what   *)
(* interleaves is the order in which the callbacks of the control and data   *)
(* connections of all the sessions arrive.  Pointers are identifiers: Sess   *)
(* and Data are the heap blocks of ftps_ctrl_t and ftps_data_t, Conn the     *)
(* tcp_pcb blocks of data connections, and an identifier may be allocated    *)
(* again once it is freed, exactly as an address may.  A callback that       *)
(* follows a pointer which an earlier one has left to a freed block sets     *)
(* "fault", after which nothing more is said.  What a callback does to the   *)
(* session it has itself just freed reaches only that block, which nobody    *)
(* owns yet, and is kept in "ctrl": a free block is NewCtrl until written.   *)
(*                                                                           *)
(* Operators whose comment starts with "Variant" are used by no action: each *)
(* is the operator after it with a slip the code could have had, and some    *)
(* property must notice when it takes that operator's place.                 *)
(*****************************************************************************)
EXTENDS Integers, FiniteSets

CONSTANTS
  Sess,      (* ftps_ctrl_t blocks, each with its control connection          *)
  Data,      (* ftps_data_t blocks                                            *)
  Conn,      (* tcp_pcb blocks used for data connections                      *)
  None,      (* the NULL pointer                                              *)
  MaxPoll,   (* FTPS_CTRL_TIMEOUT, in polls                                   *)
  MaxLeft,   (* directory entries or file blocks in the longest transfer      *)
  LowMem,    (* whether malloc, tcp_write and tcp_listen may fail             *)
  DiskErr,   (* whether f_read and f_readdir may fail                         *)
  Orderly,   (* whether clients run one transfer at a time, as Orderliness says *)
  Cmds,      (* the commands clients use; PORT asks for active transfers      *)
  Silent     (* whether a client may vanish without closing                   *)

ASSUME FtpsAssumption ==
  /\ MaxPoll \in Nat /\ MaxLeft \in Nat
  /\ {LowMem, DiskErr, Orderly, Silent} \subseteq BOOLEAN
  /\ None \notin Sess \cup Data \cup Conn
  /\ IsFiniteSet(Sess) /\ IsFiniteSet(Data)

States == {"IDLE", "PASS", "LIST", "RNFR", "RETR", "STOR", "QUIT"}
Transfer == {"LIST", "RETR", "STOR"}

VARIABLES
  ctrl,       (* the ftps_ctrl_t blocks, those of no session included         *)
  ctrlConns,  (* the list ctrl_conns                                          *)
  ctrlCnt,    (* ctrl_cnt                                                     *)
  data,       (* the ftps_data_t blocks                                       *)
  dataConns,  (* the list data_conns                                          *)
  dataCnt,    (* data_cnt                                                     *)
  leaked,     (* ftps_data_t blocks that are allocated but in no list         *)
  pcb,        (* the data tcp_pcb blocks                                      *)
  out,        (* reply buffer and unacknowledged bytes of control connections *)
  fault,      (* a pointer left to a freed block has been followed            *)
  said,       (* history: what the client last learnt of a transfer           *)
  mute        (* clients that vanished                                        *)

vars == <<ctrl, ctrlConns, ctrlCnt, data, dataConns, dataCnt, leaked, pcb, out,
          fault, said, mute>>
lists == <<ctrlConns, ctrlCnt>>
dataVars == <<data, dataConns, dataCnt, leaked, pcb>>

-----------------------------------------------------------------------------
(* Records.  "sending" abstracts wptr > rptr; "inFlight" bytes that lwIP     *)
(* holds and the client has not acknowledged.                                *)

NewCtrl == [state |-> "IDLE", pasv |-> FALSE, offset |-> FALSE, timeout |-> 0,
            data |-> None, data_pcb |-> None]

NewData == [conn |-> FALSE, fp |-> "none", fleft |-> 0, dp |-> FALSE, dleft |-> 0,
            sending |-> FALSE, listen |-> FALSE, ctrl |-> None, stale |-> FALSE]

FreePcb == [st |-> "free", arg |-> None, inFlight |-> FALSE]
Quiet == [held |-> FALSE, inFlight |-> FALSE]

CtrlRec == [state: States, pasv: BOOLEAN, offset: BOOLEAN, timeout: 0..MaxPoll + 1,
            data: Data \cup {None}, data_pcb: Conn \cup {None}]
DataRec == [conn: BOOLEAN, fp: {"none", "rd", "wr"}, fleft: 0..MaxLeft, dp: BOOLEAN,
            dleft: 0..MaxLeft, sending: BOOLEAN, listen: BOOLEAN,
            ctrl: Sess \cup {None}, stale: BOOLEAN]
PcbRec == [st: {"free", "syn", "open"}, arg: Data \cup {None}, inFlight: BOOLEAN]
OutRec == [held: BOOLEAN, inFlight: BOOLEAN]

TypeOK ==
  /\ ctrl \in [Sess -> CtrlRec] /\ ctrlConns \subseteq Sess /\ ctrlCnt \in Int
  /\ data \in [Data -> DataRec] /\ dataConns \subseteq Data /\ dataCnt \in Int
  /\ leaked \subseteq Data
  /\ pcb \in [Conn -> PcbRec]
  /\ out \in [Sess -> OutRec]
  /\ fault \in BOOLEAN
  /\ said \in [Sess -> {"none", "150", "226", "failed", "lost"}]
  /\ mute \subseteq Sess

Init ==
  /\ ctrl = [s \in Sess |-> NewCtrl] /\ ctrlConns = {} /\ ctrlCnt = 0
  /\ data = [d \in Data |-> NewData] /\ dataConns = {} /\ dataCnt = 0
  /\ leaked = {}
  /\ pcb = [p \in Conn |-> FreePcb]
  /\ out = [s \in Sess |-> Quiet]
  /\ fault = FALSE
  /\ said = [s \in Sess |-> "none"]
  /\ mute = {}

-----------------------------------------------------------------------------
(* Helpers shared by the handlers.                                           *)

\* ftps_write on a control reply of b: lwIP takes all of it, or has no memory
\* and it waits in the buffer for the next sent callback.
Written(b) == {[held |-> FALSE, inFlight |-> TRUE]} \cup
              (IF LowMem THEN {[b EXCEPT !.held = TRUE]} ELSE {})

\* ftps_ctrl_send: the buffer is overwritten, whatever it still held.
Reply(s) == \E b \in Written(out[s]) : out' = [out EXCEPT ![s] = b]

\* Two replies from one command: the second one may find the first in flight.
Reply2(s) == \E b1 \in Written(out[s]) : \E b2 \in Written(b1) :
               out' = [out EXCEPT ![s] = b2]

Says(s, what) == said' = [said EXCEPT ![s] = what]

\* The transfer the client was told about, if there is one, has been answered.
SaysEnd(s, what) == Says(s, IF said[s] = "150" THEN what ELSE said[s])

Crash == fault' = TRUE /\ UNCHANGED <<ctrl, lists, dataVars, out, said, mute>>

Bogus(p) == p # None /\ pcb[p].st = "free"     \* a handle lwIP has freed
\* Variant: the pcb of the data connection keeps its callbacks.
ShutForgotten(p) == pcb
Shut(p) == IF p = None THEN pcb ELSE [pcb EXCEPT ![p] = FreePcb]

\* Variants: one of the four assignments is missing.
DetachedKeepsData(c) == [c EXCEPT !.data_pcb = None, !.state = "IDLE", !.offset = FALSE]
DetachedKeepsPcb(c) == [c EXCEPT !.data = None, !.state = "IDLE", !.offset = FALSE]
DetachedKeepsState(c) == [c EXCEPT !.data = None, !.data_pcb = None, !.offset = FALSE]

\* What ftps_data_close leaves in the session that owns the data connection.
Detached(c) == [c EXCEPT !.data = None, !.data_pcb = None, !.state = "IDLE",
                         !.offset = FALSE]

\* ftps_data_close(d, p), with C the sessions when it is entered.
DataClose(d, p, C) ==
  /\ pcb' = Shut(p)
  /\ IF d \in dataConns
     THEN /\ dataConns' = dataConns \ {d} /\ dataCnt' = dataCnt - 1
          /\ data' = [data EXCEPT ![d] = NewData]
          /\ ctrl' = [C EXCEPT ![data[d].ctrl] = Detached(@)]
     ELSE /\ UNCHANGED <<dataConns, dataCnt, data>>
          /\ ctrl' = C
  /\ UNCHANGED leaked

\* The end of a transfer: close the data connection, then "226" to the client.
Complete(d, p, C) ==
  LET s == data[d].ctrl IN
  /\ DataClose(d, p, [C EXCEPT ![s].state = "IDLE", ![s].offset = FALSE])
  /\ Reply(s) /\ SaysEnd(s, "226")

Usable(s) == s \in ctrlConns /\ ~fault
Hears(s) == Usable(s) /\ s \notin mute          \* the client still talks
Asks(s, c) == Hears(s) /\ c \in Cmds            \* and sends this command

-----------------------------------------------------------------------------
(* Sending over a data connection.  C, D and P are the sessions, the data     *)
(* block d and the pcb p as the calling handler has left them so far.        *)

Keep(d, p, C, D, P) ==
  /\ ctrl' = C
  /\ data' = [data EXCEPT ![d] = D]
  /\ pcb' = [pcb EXCEPT ![p] = P]
  /\ UNCHANGED <<dataConns, dataCnt, leaked, out, said>>

\* ftps_write of the data buffer.  The send buffer may lack room for all of it
\* while earlier bytes are in flight, and tcp_write may fail for lack of memory.
Send(d, p, C, D, P) ==
  \/ Keep(d, p, C, [D EXCEPT !.sending = FALSE], [P EXCEPT !.inFlight = TRUE])
  \/ (P.inFlight \/ LowMem) /\ Keep(d, p, C, [D EXCEPT !.sending = TRUE], P)

\* ftps_dir_read: one entry is formatted over whatever the buffer still held; an
\* entry that f_stat does not find, or that starts with a dot, is passed over.
DirRead(d, p, C, D, P) ==
  \/ /\ D.dp /\ D.dleft > 0
     /\ LET D1 == [D EXCEPT !.dleft = @ - 1] IN
        Send(d, p, C, D1, P) \/ Keep(d, p, C, D1, P)
  \/ /\ ~D.dp \/ D.dleft = 0 \/ DiskErr
     /\ IF D.sending THEN Send(d, p, C, D, P) ELSE Complete(d, p, C)

\* Variant: what the send buffer refused is forgotten.
FileSendDropsTail(d, p, C, D, P) ==
  CASE D.fp = "none" -> Complete(d, p, C)
    [] OTHER ->
       \/ D.fp = "rd" /\ D.fleft > 0 /\ Send(d, p, C, [D EXCEPT !.fleft = @ - 1], P)
       \/ /\ D.fp = "wr" \/ D.fleft = 0 \/ DiskErr
          /\ Keep(d, p, [C EXCEPT ![D.ctrl].offset = FALSE], [D EXCEPT !.fp = "none"], P)

\* ftps_file_send: a block is read when the last one is out; at the end of the
\* file (or when f_read fails) the file is closed and nothing is written.
FileSend(d, p, C, D, P) ==
  CASE D.sending -> Send(d, p, C, D, P)
    [] ~D.sending /\ D.fp = "none" -> Complete(d, p, C)
    [] OTHER ->
       \/ D.fp = "rd" /\ D.fleft > 0 /\ Send(d, p, C, [D EXCEPT !.fleft = @ - 1], P)
       \/ /\ D.fp = "wr" \/ D.fleft = 0 \/ DiskErr
          /\ Keep(d, p, [C EXCEPT ![D.ctrl].offset = FALSE], [D EXCEPT !.fp = "none"], P)

\* The switch on the session's state in the connected, sent and poll callbacks.
Progress(d, p, C, D, P) ==
  CASE C[D.ctrl].state = "LIST" -> DirRead(d, p, C, D, P)
    [] C[D.ctrl].state = "RETR" -> FileSend(d, p, C, D, P)
    [] OTHER -> Keep(d, p, C, D, P)

-----------------------------------------------------------------------------
(* Control connection.                                                       *)

\* ftps_ctrl_accept_cb.  When malloc fails the connection is closed at once and no
\* session comes to be; if it was the buffer's malloc, the ftps_ctrl_t block, which
\* is not listed yet, is never freed (the heap is not counted here).
Accept(s) ==
  /\ ~fault /\ s \notin ctrlConns
  /\ \/ /\ ctrlConns' = ctrlConns \cup {s} /\ ctrlCnt' = ctrlCnt + 1
        /\ ctrl' = [ctrl EXCEPT ![s] = NewCtrl]
        /\ Reply(s)
     \/ LowMem /\ UNCHANGED <<ctrl, lists, out>>
  /\ UNCHANGED <<dataVars, fault, said, mute>>

\* Variant: the session is freed and its data connection is not.
EndSessionKeepsData(s, block) ==
  /\ ctrlConns' = ctrlConns \ {s} /\ ctrlCnt' = ctrlCnt - 1
  /\ ctrl' = [ctrl EXCEPT ![s] = block]
  /\ data' = [x \in Data |-> IF data[x].ctrl = s THEN [data[x] EXCEPT !.stale = TRUE]
                                               ELSE data[x]]
  /\ out' = [out EXCEPT ![s] = Quiet] /\ said' = [said EXCEPT ![s] = "none"]
  /\ mute' = mute \ {s}
  /\ UNCHANGED <<dataConns, dataCnt, leaked, pcb, fault>>

\* The part common to ftps_ctrl_close and ftps_ctrl_err_cb: unlink the session,
\* close the data connection it points to, free it.  Other data connections of
\* the session are not looked for: their "ctrl" now points to freed memory.  "block"
\* is what the calling callback leaves in the freed ftps_ctrl_t.
EndSession(s, block) ==
  LET d == ctrl[s].data
      p == ctrl[s].data_pcb
      closed == [ctrl EXCEPT ![s] = block]
      Orphaned(D) == [x \in Data |-> IF D[x].ctrl = s THEN [D[x] EXCEPT !.stale = TRUE]
                                                      ELSE D[x]]
  IN IF d # None /\ Bogus(p) THEN Crash
     ELSE /\ ctrlConns' = ctrlConns \ {s} /\ ctrlCnt' = ctrlCnt - 1
          /\ ctrl' = closed
          /\ pcb' = IF d = None THEN pcb ELSE Shut(p)
          /\ IF d \in dataConns
             THEN /\ dataConns' = dataConns \ {d} /\ dataCnt' = dataCnt - 1
                  /\ data' = Orphaned([data EXCEPT ![d] = NewData])
             ELSE /\ UNCHANGED <<dataConns, dataCnt>>
                  /\ data' = Orphaned(data)
          /\ out' = [out EXCEPT ![s] = Quiet]
          /\ said' = [said EXCEPT ![s] = "none"]
          /\ mute' = mute \ {s}
          /\ UNCHANGED <<leaked, fault>>

\* ftps_ctrl_recv_cb with no pbuf: the client has closed.
CtrlEof(s) == Hears(s) /\ EndSession(s, NewCtrl)

\* ftps_ctrl_err_cb: reset by the client, or retransmissions given up.
CtrlErr(s) == Usable(s) /\ (s \in mute => out[s].inFlight) /\ EndSession(s, NewCtrl)

\* ftps_ctrl_sent_cb: a quitting session closes once its reply is out, another
\* one writes what its buffer still holds.  After the close the callback goes on to
\* look at the pcb, and if lwIP had no memory for the FIN it calls ftps_write with
\* the buffer of the freed session: wptr and rptr were set equal before the free, so
\* nothing is sent and nothing written.
CtrlSent(s) ==
  /\ Hears(s) /\ out[s].inFlight
  /\ IF ~out[s].held /\ ctrl[s].state = "QUIT"
     THEN EndSession(s, NewCtrl)
     ELSE /\ \E more \in BOOLEAN :
               LET b == [out[s] EXCEPT !.inFlight = more]
               IN \E w \in (IF b.held THEN Written(b) ELSE {b}) :
                     out' = [out EXCEPT ![s] = w]
          /\ UNCHANGED <<ctrl, lists, dataVars, fault, said, mute>>

\* One more poll without a data connection.
Count(s) == /\ ctrl' = [ctrl EXCEPT ![s].timeout = @ + 1]
            /\ UNCHANGED <<lists, dataVars, out, fault, said, mute>>

\* h->timeout++ on the session that ftps_ctrl_close has just freed.
Reaped == [NewCtrl EXCEPT !.timeout = @ + 1]

\* Variants: the limit is passed by one; a session with a pending state is spared;
\* a stalled transfer is not pushed on.
PollLate(s) ==
  /\ Usable(s) /\ ctrl[s].data = None
  /\ IF ctrl[s].timeout > MaxPoll + 1 THEN EndSession(s, Reaped) ELSE Count(s)
PollSparesQuit(s) ==
  /\ Usable(s) /\ ctrl[s].data = None /\ ctrl[s].state # "QUIT"
  /\ IF ctrl[s].timeout >= MaxPoll THEN EndSession(s, Reaped) ELSE Count(s)
PollOnlyCounts(s) ==
  /\ Usable(s)
  /\ IF ctrl[s].data # None
     THEN /\ ctrl' = [ctrl EXCEPT ![s].timeout = 1]
          /\ UNCHANGED <<lists, dataVars, out, fault, said, mute>>
     ELSE IF ctrl[s].timeout >= MaxPoll THEN EndSession(s, Reaped) ELSE Count(s)

\* ftps_ctrl_poll_cb: with a data connection the session's timer restarts and a
\* stalled transfer is pushed on, without one an idle session is closed, and its
\* timer counted on all the same.
Poll(s) ==
  LET d == ctrl[s].data
      p == ctrl[s].data_pcb
      C == [ctrl EXCEPT ![s].timeout = 1]
  IN /\ Usable(s)
     /\ CASE d = None /\ ctrl[s].timeout >= MaxPoll -> EndSession(s, Reaped)
          [] d = None /\ ctrl[s].timeout < MaxPoll -> Count(s)
          [] d # None /\ ~(data[d].conn /\ ctrl[s].state \in {"LIST", "RETR"}) ->
               /\ ctrl' = C
               /\ UNCHANGED <<lists, dataVars, out, fault, said, mute>>
          [] OTHER ->
               IF p = None \/ Bogus(p) THEN Crash
               ELSE /\ Progress(d, p, C, data[d], pcb[p])
                    /\ UNCHANGED <<lists, fault, mute>>

\* The client disappears: nothing more comes from it on any connection.
Vanish(s) ==
  /\ Silent /\ Hears(s)
  /\ mute' = mute \cup {s}
  /\ UNCHANGED <<ctrl, lists, dataVars, out, fault, said>>

-----------------------------------------------------------------------------
(* Commands: ftps_ctrl_recv_cb and the function it finds in ftps_cmd.        *)

\* What an orderly client does not do while a transfer it started is unfinished.
BetweenTransfers(s) == Orderly => said[s] # "150"

OnlyCtrl == UNCHANGED <<lists, dataVars, fault, mute>>
SetState(s, st) == ctrl' = [ctrl EXCEPT ![s].state = st]

\* USER and PASS: a wrong name or password makes the session quit.
CmdUser(s) == /\ Asks(s, "USER") /\ BetweenTransfers(s)
              /\ \E st \in {"PASS", "QUIT"} : SetState(s, st)
              /\ Reply(s) /\ OnlyCtrl /\ UNCHANGED said
CmdPass(s) == /\ Asks(s, "PASS") /\ BetweenTransfers(s)
              /\ \E st \in {"IDLE", "QUIT"} : SetState(s, st)
              /\ Reply(s) /\ OnlyCtrl /\ UNCHANGED said
CmdQuit(s) == /\ Asks(s, "QUIT") /\ SetState(s, "QUIT")
              /\ Reply(s) /\ OnlyCtrl /\ UNCHANGED said

\* Variant: a connected transfer is dropped and the client not told.
CmdAbrtSilent(s) ==
  /\ Asks(s, "ABOR") /\ ctrl[s].data_pcb # None /\ ~Bogus(ctrl[s].data_pcb)
  /\ DataClose(ctrl[s].data, ctrl[s].data_pcb, ctrl)
  /\ UNCHANGED <<lists, fault, mute, said, out>>

\* ABOR: "426" after closing the data connection, "550" when there is none.
CmdAbrt(s) ==
  LET d == ctrl[s].data
      p == ctrl[s].data_pcb
  IN /\ Asks(s, "ABOR")
     /\ IF d = None
        THEN Reply(s) /\ OnlyCtrl /\ UNCHANGED <<ctrl, said>>
        ELSE IF Bogus(p) THEN Crash
        ELSE DataClose(d, p, ctrl) /\ Reply(s) /\ SaysEnd(s, "failed") /\ UNCHANGED <<lists, fault, mute>>

\* TYPE, SYST, MODE, PWD, NOOP and PORT only answer (the port is abstracted).
CmdInfo(s) == Asks(s, "NOOP") /\ Reply(s) /\ OnlyCtrl /\ UNCHANGED <<ctrl, said>>
\* CDUP and CWD answer, and answer again when f_getcwd fails.
CmdChdir(s) == /\ Asks(s, "CWD") /\ (Reply(s) \/ (DiskErr /\ Reply2(s)))
               /\ OnlyCtrl /\ UNCHANGED <<ctrl, said>>
\* DELE, RMD and MKD change the volume and answer.
CmdDele(s) == Asks(s, "DELE") /\ Reply(s) /\ OnlyCtrl /\ UNCHANGED <<ctrl, said>>
CmdMkd(s) == Asks(s, "MKD") /\ Reply(s) /\ OnlyCtrl /\ UNCHANGED <<ctrl, said>>

\* RNFR remembers the name in the session's state, RNTO wants to find it there.
CmdRnfr(s) == /\ Asks(s, "RNFR") /\ BetweenTransfers(s)
              /\ SetState(s, "RNFR") \/ UNCHANGED ctrl     \* 350 or 501
              /\ Reply(s) /\ OnlyCtrl /\ UNCHANGED said
CmdRnto(s) == /\ Asks(s, "RNTO")
              /\ IF ctrl[s].state = "RNFR" THEN SetState(s, "IDLE") ELSE UNCHANGED ctrl
              /\ Reply(s) /\ OnlyCtrl /\ UNCHANGED said

\* REST: an offset to start the next RETR from, kept until a transfer ends.
CmdRest(s) == /\ Asks(s, "REST") /\ BetweenTransfers(s)
              /\ \E b \in BOOLEAN : ctrl' = [ctrl EXCEPT ![s].offset = b]
              /\ Reply(s) /\ OnlyCtrl /\ UNCHANGED said

\* PASV: the new block takes the place of the old one in the session, whatever
\* the old one was doing.  When tcp_listen fails it is in no list and stays.
CmdPasv(s) ==
  /\ Asks(s, "PASV") /\ BetweenTransfers(s) /\ (Orderly => ctrl[s].data = None)
  /\ \/ \E d \in Data \ (dataConns \cup leaked) :
          /\ data' = [data EXCEPT ![d] = [NewData EXCEPT !.ctrl = s, !.listen = TRUE]]
          /\ ctrl' = [ctrl EXCEPT ![s].data = d, ![s].pasv = TRUE]
          /\ dataConns' = dataConns \cup {d} /\ dataCnt' = dataCnt + 1
          /\ Reply(s)
          /\ UNCHANGED <<leaked, pcb>>
     \/ /\ LowMem
        /\ \E d \in Data \ (dataConns \cup leaked) :
             /\ data' = [data EXCEPT ![d] = [NewData EXCEPT !.ctrl = s]]
             /\ ctrl' = [ctrl EXCEPT ![s].data = d]
             /\ leaked' = leaked \cup {d}
        /\ UNCHANGED <<dataConns, dataCnt, pcb, out>>
     \/ /\ LowMem \/ Data \subseteq dataConns \cup leaked
        /\ ctrl' = [ctrl EXCEPT ![s].data = None]
        /\ Reply(s)
        /\ UNCHANGED dataVars
  /\ UNCHANGED <<lists, fault, said, mute>>

\* What a transfer opens: an entry list, a file to read, a file to write.
Opened(D, k, n) ==
  CASE k = "LIST" -> [D EXCEPT !.dp = TRUE, !.dleft = n]
    [] k = "RETR" -> [D EXCEPT !.fp = "rd", !.fleft = n]
    [] k = "STOR" -> [D EXCEPT !.fp = "wr"]

\* A transfer command whose file or directory is open: ftps_data_open, then the
\* handle goes to h->data and the session enters the transfer state.  Once a
\* session has used PASV nothing is allocated any more; with no data connection
\* the handle is then stored through a NULL pointer (tightly coupled memory at
\* address 0: the store is lost and execution goes on).
Begin(s, k) ==
  LET d0 == ctrl[s].data IN
  \/ /\ ctrl[s].pasv
     /\ SetState(s, k)
     /\ IF d0 = None THEN UNCHANGED data
        ELSE \E n \in 0..MaxLeft : data' = [data EXCEPT ![d0] = Opened(@, k, n)]
     /\ Reply(s) /\ Says(s, "150")
     /\ UNCHANGED <<dataConns, dataCnt, leaked, pcb>>
  \/ /\ ~ctrl[s].pasv
     /\ \E d \in Data \ (dataConns \cup leaked), n \in 0..MaxLeft,
           p \in {q \in Conn : pcb[q].st = "free"} :
          /\ data' = [data EXCEPT ![d] = Opened([NewData EXCEPT !.ctrl = s], k, n)]
          /\ pcb' = [pcb EXCEPT ![p] = [FreePcb EXCEPT !.st = "syn", !.arg = d]]
          /\ ctrl' = [ctrl EXCEPT ![s].data = d, ![s].data_pcb = p, ![s].state = k]
          /\ dataConns' = dataConns \cup {d} /\ dataCnt' = dataCnt + 1
     /\ Reply(s) /\ Says(s, "150") /\ UNCHANGED leaked
  \/ /\ ~ctrl[s].pasv
     /\ \/ LowMem \/ Data \subseteq dataConns \cup leaked
        \/ \A q \in Conn : pcb[q].st # "free"
     /\ \E q \in {None, ctrl[s].data_pcb} :
          ctrl' = [ctrl EXCEPT ![s].data = None, ![s].data_pcb = q,
                               ![s].offset = IF k = "LIST" THEN @ ELSE FALSE]
     /\ (k = "LIST" /\ Reply(s)) \/ (k # "LIST" /\ Reply2(s))
     /\ SaysEnd(s, "failed") /\ UNCHANGED dataVars

\* An orderly client has a fresh PASV or has never used it, and no other transfer.
MayBegin(s, c) ==
  /\ Asks(s, c) /\ BetweenTransfers(s)
  /\ Orderly => ctrl[s].pasv = (ctrl[s].data # None)
  /\ "PORT" \in Cmds \/ ctrl[s].pasv

NoTransfer(s) == Reply(s) /\ SaysEnd(s, "failed") /\ UNCHANGED <<ctrl, dataVars>>

\* LIST, RETR, STOR and APPE.  The file or directory may be missing ("550",
\* "451"), and REST may have left an offset beyond the file ("150" then "550").
CmdList(s) == /\ MayBegin(s, "LIST") /\ (Begin(s, "LIST") \/ NoTransfer(s))
              /\ UNCHANGED <<lists, fault, mute>>
CmdRetr(s) == /\ MayBegin(s, "RETR")
              /\ \/ Begin(s, "RETR") \/ NoTransfer(s)
                 \/ /\ ctrl[s].offset /\ Reply2(s) /\ SaysEnd(s, "failed")
                    /\ UNCHANGED <<ctrl, dataVars>>
              /\ UNCHANGED <<lists, fault, mute>>
CmdStor(s) == /\ MayBegin(s, "STOR") /\ (Begin(s, "STOR") \/ NoTransfer(s))
              /\ UNCHANGED <<lists, fault, mute>>

-----------------------------------------------------------------------------
(* Data connections.                                                         *)

\* The client of a data connection is the client of the session.
Talks(d) == d = None \/ data[d].ctrl \notin mute

\* ftps_data_connected_cb, with C the sessions before it.
Connected(d, p, P) ==
  LET s == data[d].ctrl IN
  IF data[d].stale THEN Crash
  ELSE /\ Progress(d, p, [ctrl EXCEPT ![s].data_pcb = p],
                   [data[d] EXCEPT !.conn = TRUE], P)
       /\ UNCHANGED <<lists, fault, mute>>

\* A client connects to the listening pcb of d (a second one may follow).
PassiveConnect(d, p) ==
  /\ ~fault /\ d \in dataConns /\ data[d].listen /\ Talks(d) /\ pcb[p].st = "free"
  /\ Orderly => ~data[d].conn
  /\ Connected(d, p, [FreePcb EXCEPT !.st = "open", !.arg = d])

\* lwIP has no pcb for it: the callback gets a NULL pcb and closes d for good.
PassiveNoMem(d) ==
  /\ ~fault /\ LowMem /\ d \in dataConns /\ data[d].listen /\ Talks(d)
  /\ Orderly => ~data[d].conn
  /\ IF data[d].stale THEN Crash
     ELSE DataClose(d, None, ctrl) /\ UNCHANGED <<lists, out, fault, said, mute>>

\* The client accepts the connection that tcp_connect asked for.
ActiveConnect(p) ==
  LET d == pcb[p].arg IN
  /\ ~fault /\ pcb[p].st = "syn" /\ Talks(d)
  /\ IF d \in dataConns THEN Connected(d, p, [pcb[p] EXCEPT !.st = "open"])
     ELSE pcb' = Shut(p) /\ UNCHANGED <<ctrl, lists, data, dataConns, dataCnt, leaked,
                                        out, fault, said, mute>>

\* It refuses, or never answers: lwIP frees the pcb, and no error callback is set
\* until the connection is established.
ActiveRefused(p) ==
  /\ ~fault /\ pcb[p].st = "syn"
  /\ pcb' = Shut(p)
  /\ UNCHANGED <<ctrl, lists, data, dataConns, dataCnt, leaked, out, fault, said, mute>>

\* A callback that does not find its block in data_conns aborts the connection.
Abort(p) ==
  /\ pcb' = Shut(p)
  /\ UNCHANGED <<ctrl, lists, data, dataConns, dataCnt, leaked, out, fault, said, mute>>

\* ftps_data_sent_cb.
DataSent(p) ==
  LET d == pcb[p].arg IN
  /\ ~fault /\ pcb[p].st = "open" /\ pcb[p].inFlight /\ Talks(d)
  /\ IF d \notin dataConns THEN Abort(p)
     ELSE IF data[d].stale THEN Crash
     ELSE /\ \E more \in BOOLEAN :
               Progress(d, p, ctrl, data[d], [pcb[p] EXCEPT !.inFlight = more])
          /\ UNCHANGED <<lists, fault, mute>>

\* ftps_data_recv_cb with data: put in the block's buffer, which is written to the
\* file when it is full, in whatever state the session is.
DataRecv(p) ==
  LET d == pcb[p].arg IN
  /\ ~fault /\ pcb[p].st = "open" /\ Talks(d)
  /\ IF d \notin dataConns THEN Abort(p)
     ELSE /\ Orderly => data[d].fp = "wr"
          /\ \E b \in BOOLEAN : data' = [data EXCEPT ![d].sending = b]
          /\ UNCHANGED <<ctrl, lists, dataConns, dataCnt, leaked, pcb, out, fault, said, mute>>

\* ftps_data_recv_cb at the end of the stream, in whatever state the session is.
DataEof(p) ==
  LET d == pcb[p].arg IN
  /\ ~fault /\ pcb[p].st = "open" /\ Talks(d)
  /\ IF d \notin dataConns THEN Abort(p)
     ELSE /\ Orderly => data[d].fp = "wr"
          /\ IF data[d].stale THEN Crash
             ELSE Complete(d, p, ctrl) /\ UNCHANGED <<lists, fault, mute>>

\* Variant: data_cnt-- is missing.
DataErrMiscounts(p) ==
  LET d == pcb[p].arg IN
  /\ ~fault /\ pcb[p].st = "open" /\ d \in dataConns /\ ~data[d].stale
  /\ pcb' = Shut(p) /\ dataConns' = dataConns \ {d}
  /\ data' = [data EXCEPT ![d] = NewData]
  /\ ctrl' = [ctrl EXCEPT ![data[d].ctrl] = Detached(@)]
  /\ SaysEnd(data[d].ctrl, "lost")
  /\ UNCHANGED <<lists, dataCnt, leaked, out, fault, mute>>

\* ftps_data_err_cb: the connection was reset or given up and lwIP has freed the
\* pcb; the client gets no reply.
DataErr(p) ==
  LET d == pcb[p].arg IN
  /\ ~fault /\ pcb[p].st = "open"
  /\ d # None /\ ~Talks(d) => pcb[p].inFlight
  /\ IF d \notin dataConns THEN Abort(p)
     ELSE IF data[d].stale THEN Crash
     ELSE /\ DataClose(d, p, ctrl) /\ SaysEnd(data[d].ctrl, "lost")
          /\ UNCHANGED <<lists, out, fault, mute>>

-----------------------------------------------------------------------------
Command(s) ==
  \/ CmdUser(s) \/ CmdPass(s) \/ CmdQuit(s) \/ CmdAbrt(s) \/ CmdInfo(s)
  \/ CmdChdir(s) \/ CmdDele(s) \/ CmdMkd(s) \/ CmdRnfr(s) \/ CmdRnto(s)
  \/ CmdRest(s) \/ CmdPasv(s) \/ CmdList(s) \/ CmdRetr(s) \/ CmdStor(s)

Control(s) ==
  Accept(s) \/ CtrlEof(s) \/ CtrlErr(s) \/ CtrlSent(s) \/ Poll(s) \/ Vanish(s)

DataCallback(p) ==
  \/ \E d \in Data : PassiveConnect(d, p)
  \/ ActiveConnect(p) \/ ActiveRefused(p)
  \/ DataSent(p) \/ DataRecv(p) \/ DataEof(p) \/ DataErr(p)

\* What follows the use of a freed block is not described.
Faulted == fault /\ UNCHANGED vars

Next ==
  \/ \E s \in Sess : Control(s) \/ Command(s)
  \/ \E p \in Conn : DataCallback(p)
  \/ \E d \in Data : PassiveNoMem(d)
  \/ Faulted

Spec == Init /\ [][Next]_vars

\* lwIP polls every control connection twice a second (an acknowledgment only
\* postpones the poll) and reports what the peer acknowledges; the client takes up
\* the connection it was offered and ends the stream it uploads.
Fairness ==
  /\ \A s \in Sess : WF_vars(Poll(s)) /\ WF_vars(CtrlSent(s))
  /\ \A p \in Conn : WF_vars(DataSent(p)) /\ WF_vars(DataEof(p))
  /\ \A d \in Data : WF_vars(\E p \in Conn : PassiveConnect(d, p))

FairSpec == Spec /\ Fairness

-----------------------------------------------------------------------------
(* What holds for any client.                                                *)

\* Every path that links or unlinks a session or a data connection (command,
\* reset, end of stream, timeout) keeps ctrl_cnt and data_cnt in step with the
\* lists they count, so the four copies of the unlink code agree.
CountsExact == ctrlCnt = Cardinality(ctrlConns) /\ dataCnt = Cardinality(dataConns)

\* A listed session never points to a freed data block or to the block of another
\* session, although data blocks are freed by callbacks that do not go through
\* the session and their addresses are reused.
SessionPointsHome ==
  \A s \in ctrlConns : ctrl[s].data # None =>
     LET d == ctrl[s].data IN
     d \in dataConns \cup leaked /\ data[d].ctrl = s /\ ~data[d].stale

\* However a session ends, the data connection it points to ends with it: a listed
\* block is left behind with a dangling "ctrl" only when PASV or a second active
\* transfer had taken its place in the session.
LeftBehindOnlyIfReplaced ==
  [][\A d \in dataConns : ~data[d].stale /\ data'[d].stale
                          => ctrl[data[d].ctrl].data # d]_vars

-----------------------------------------------------------------------------
(* What holds for clients that run one transfer at a time (Orderly).         *)

\* No callback follows a pointer that an earlier callback has left to a freed block
\* (for clients that never use PORT).  It does not speak of what a callback does with
\* the session that it has itself just freed: on every timeout ftps_ctrl_poll_cb goes
\* on to count the timer in the freed block (ftps.c:867, Reaped).
NoFault == ~fault

\* Every data connection belongs to a live session that knows it; none is lost
\* while its session goes on or ends.
NoOrphan == \A d \in dataConns : ~data[d].stale /\ ctrl[data[d].ctrl].data = d

\* The block a data connection hands to its callbacks is the block of a transfer
\* in progress, and the session's data_pcb is that connection: the address is never
\* one that was freed and given to another session's transfer.
CallbackArgLive ==
  \A p \in Conn : pcb[p].st # "free" =>
     /\ pcb[p].arg \in dataConns
     /\ ctrl[data[pcb[p].arg].ctrl].data_pcb = p

\* A session in a transfer state has the data connection the transfer needs, and
\* that connection has the directory or the file which the state calls for, or has
\* finished with it.
TransferHasData ==
  \A s \in ctrlConns : ctrl[s].state \in Transfer =>
     /\ ctrl[s].data # None
     /\ LET D == data[ctrl[s].data] IN
        CASE ctrl[s].state = "LIST" -> D.dp /\ D.fp = "none"
          [] ctrl[s].state = "RETR" -> ~D.dp /\ D.fp \in {"rd", "none"}
          [] ctrl[s].state = "STOR" -> ~D.dp /\ D.fp = "wr"

\* "226" ends a download only when every block of the file has been read and handed
\* to lwIP, and a listing only when the directory has been read to its end and the
\* last entry handed over: the steps are spread over connected, sent and poll
\* callbacks with writes that lwIP takes only in part.  (An earlier entry may be lost:
\* ftps_dir_read formats the next one over what lwIP had no room for.)
WholeTransfer ==
  [][\A s \in Sess : said[s] = "150" /\ said'[s] = "226" =>
       LET D == data[ctrl[s].data] IN
       D.fp = "wr" \/ (~D.sending /\ D.dleft = 0 /\ D.fp = "none" /\ D.fleft = 0)]_vars

\* While its session goes on, a transfer announced with "150" never loses its data
\* connection in silence: the client is sent a closing reply, or has seen the
\* connection reset (ftps_data_err_cb), or never had one because lwIP was out of
\* memory when it connected.
DroppedOnlyOnReset ==
  [][\A s \in ctrlConns \cap ctrlConns' :
       said[s] = "150" /\ said'[s] = "150" /\ ctrl[s].data # None /\ ctrl'[s].data = None
       => LowMem /\ ~data[ctrl[s].data].conn]_vars

\* An announced passive transfer comes to an end: it is answered, its connection is
\* reset, the session closes, or the client vanishes.
TransferEnds ==
  \A s \in Sess : (said[s] = "150" /\ ctrl[s].data # None)
                   ~> (said[s] # "150" \/ ctrl[s].data = None \/ s \in mute)

\* A session whose client vanished while no data connection was open is closed by
\* the poll timer, whatever state or half-sent reply it was left with.
SilentSessionReaped ==
  \A s \in Sess : (s \in mute /\ ctrl[s].data = None) ~> (s \notin mute)
=============================================================================
