------------------------------ MODULE Lwftp_proofs ------------------------------
(* Proofs about Lwftp: when users wait for control_pcb to be NULL before the     *)
(* next job, no connection outlives its session, the session never holds a pcb   *)
(* that lwIP has freed, and no counter leaves its range - for any number of      *)
(* pcbs, files of any length, any faults, and a server that replies anything.    *)
(*                                                                               *)
(* A callback is a function on a working record W.  The first part follows the   *)
(* pcbs through it: Owns says that W still holds exactly those it has not        *)
(* closed.  The second part follows the commands and the blocks: Thrifty says    *)
(* that W has not sent more than one command that makes the server do something, *)
(* and has not written more blocks than the source had.                          *)
EXTENDS Lwftp, TLAPS

Dones == {"none", "op", "LIST_cb", "QUIT_cb"}

IsSession(x) == {"cs", "cpcb", "dpcb", "done"} \subseteq DOMAIN x /\ x.done \in Dones
IsWork(W) == {"s", "shut", "fresh"} \subseteq DOMAIN W /\ IsSession(W.s)

Shaped ==
  /\ IsSession(s) /\ s.cpcb \in Ctl \cup {None} /\ s.dpcb \in Dat \cup {None}
  /\ DOMAIN conn = Ctl /\ \A c \in Ctl : "st" \in DOMAIN conn[c]
  /\ DOMAIN dat = Dat /\ \A d \in Dat : "st" \in DOMAIN dat[d]
  /\ "op" \in DOMAIN job /\ (s.cpcb # None => job.op \in AllJobs)

IInv == Shaped /\ NoLeakedPcb /\ NoBogusPcb

\* Of the pcbs c and d that lwIP has not freed, W has closed those in shut and holds
\* the others; data_pcb may also be the fresh one.
Owns(W, c, d) ==
  /\ IsWork(W) /\ c \in Ctl \cup {None} /\ d \in Dat \cup {None} /\ W.fresh \in Dat \cup {None}
  /\ W.shut \subseteq {c, d, W.fresh} \ {None}
  /\ W.s.cpcb = IF c \in W.shut THEN None ELSE c
  /\ W.s.dpcb \in {None, d, W.fresh} \ W.shut
  /\ d # None /\ d \notin W.shut => W.s.dpcb = d

\* tcp_new has not been called in this callback yet.
Unspent(W) == W.fresh # None => W.s.dpcb # W.fresh /\ W.fresh \notin W.shut

\* A data connection only beside a control connection.
Fit(W) == W.s.dpcb # None => W.s.cpcb # None

\* V has the same pcbs as W.
Same(V, W) ==
  /\ IsWork(V)
  /\ V.shut = W.shut /\ V.fresh = W.fresh
  /\ V.s.cpcb = W.s.cpcb /\ V.s.dpcb = W.s.dpcb

--------------------------------------------------------------------------------
(* The operators that leave the pcbs alone.                                     *)

LEMMA SameFacts ==
  ASSUME NEW W, NEW V, NEW c, NEW d, Same(V, W)
  PROVE  /\ Owns(W, c, d) => Owns(V, c, d)
         /\ Unspent(W) => Unspent(V)
         /\ Fit(W) => Fit(V)
  BY DEF Same, Owns, Unspent, Fit

LEMMA SameTransitive ==
  ASSUME NEW U, NEW V, NEW W, Same(U, V), Same(V, W)
  PROVE  Same(U, W)
  BY DEF Same

LEMMA GotoSame ==
  ASSUME NEW W, NEW state, IsWork(W)
  PROVE  Same(Goto(W, state), W) /\ Goto(W, state).s.cs = state
         /\ Goto(W, state).s.done = W.s.done
  BY DEF Goto, Same, IsWork, IsSession

LEMMA SaySame ==
  ASSUME NEW W, NEW cmd, NEW state, IsWork(W)
  PROVE  Same(Say(W, cmd, state), W)
<1> DEFINE U == [W EXCEPT !.out = Append(@, cmd)]
<1>1. IsWork(U) /\ U.s = W.s /\ U.shut = W.shut /\ U.fresh = W.fresh
  BY DEF IsWork
<1>2. Say(W, cmd, state) = [U EXCEPT !.s.cs = state]
  BY DEF Say
<1> HIDE DEF U
<1> QED
  BY <1>1, <1>2 DEF Same, IsWork, IsSession

LEMMA CloseSame ==
  ASSUME NEW W, IsWork(W)
  PROVE  Same(Close(W), W)
  BY SaySame DEF Close, Same

LEMMA CloseBad ==
  ASSUME NEW W, IsWork(W)
  PROVE  Same(Close([W EXCEPT !.bad = TRUE]), W)
<1> DEFINE U == [W EXCEPT !.bad = TRUE]
<1>1. Same(U, W)
  BY DEF Same, IsWork
<1> HIDE DEF U
<1>2. Same(Close(U), W)
  BY <1>1, CloseSame, SameTransitive DEF Same
<1> QED
  BY <1>2 DEF U

LEMMA DoneTo ==
  ASSUME NEW W, NEW done \in Dones, IsWork(W)
  PROVE  Same([W EXCEPT !.s.done = done], W)
  BY DEF Same, IsWork, IsSession

--------------------------------------------------------------------------------
(* The operators that open a pcb.                                               *)

\* X has the pcbs of W, and the fresh one as data_pcb if W had none.
Grown(X, W) ==
  /\ IsWork(X)
  /\ X.shut = W.shut /\ X.fresh = W.fresh /\ X.s.cpcb = W.s.cpcb
  /\ \/ X.s.dpcb = W.s.dpcb
     \/ W.s.dpcb = None /\ W.fresh # None /\ X.s.dpcb = W.fresh

LEMMA SameGrown ==
  ASSUME NEW X, NEW W
  PROVE  /\ Same(X, W) => Grown(X, W)
         /\ Grown(X, W) /\ W.fresh = None => Same(X, W)
         /\ \A V : Grown(X, V) /\ Same(V, W) => Grown(X, W)
  BY DEF Same, Grown

LEMMA GrownOwns ==
  ASSUME NEW X, NEW W, NEW c, NEW d, Grown(X, W), Owns(W, c, d), Unspent(W)
  PROVE  Owns(X, c, d)
  BY DEF Grown, Owns, Unspent

LEMMA TransferGrown ==
  ASSUME NEW W, NEW target, NEW io, IsWork(W)
  PROVE  Grown(StartTransfer(W, target, io), W)
<1> DEFINE V == [W EXCEPT !.s.done = "QUIT_cb", !.s.io = io]
           X == Say(V, "TYPE", "TYPE_SENT")
<1>1. Same(V, W)
  BY DEF Same, IsWork, IsSession, Dones
<1>2. Same(Close([V EXCEPT !.bad = TRUE]), W)
  <2> HIDE DEF V
  <2> QED
    BY <1>1, CloseBad, SameTransitive DEF Same
<1>3. Same(X, W)
  <2> HIDE DEF V
  <2> QED
    BY <1>1, SaySame, SameTransitive DEF Same
<1>4. ASSUME V.s.dpcb = None, V.fresh # None
      PROVE  Grown([X EXCEPT !.s.target = target, !.s.dpcb = V.fresh], W)
  <2> HIDE DEF V, X
  <2> QED
    BY <1>1, <1>3, <1>4 DEF Same, Grown, IsWork, IsSession
<1> QED
  BY <1>2, <1>4, SameGrown DEF StartTransfer

LEMMA StartGrown ==
  ASSUME NEW W, IsWork(W), job.op \in AllJobs
  PROVE  Grown(StartOp(W), W)
<1>1. CASE job.op \in Simple
  <2> DEFINE X == Say(W, job.op, SimpleState[job.op])
  <2>1. Same(X, W)
    BY SaySame
  <2>2. Same([X EXCEPT !.s.done = "QUIT_cb"], W)
    BY <2>1, DoneTo, SameTransitive DEF Same, Dones
  <2> QED
    BY <1>1, <2>2, SameGrown DEF StartOp, Simple
<1>2. CASE job.op = "CWD"
  <2> DEFINE X == Say(W, "CWD", "CWD_SENT")
  <2>1. Same(X, W)
    BY SaySame
  <2>2. Same([X EXCEPT !.s.done = "LIST_cb"], W)
    BY <2>1, DoneTo, SameTransitive DEF Same, Dones
  <2> QED
    BY <1>2, <2>2, SameGrown DEF StartOp, Simple
<1>3. CASE job.op \in {"RETR", "MEDIA", "REST", "STOR"}
  BY <1>3, TransferGrown DEF StartOp, Simple
<1> QED
  BY <1>1, <1>2, <1>3 DEF AllJobs

LEMMA DoneGrown ==
  ASSUME NEW W, NEW result, IsWork(W), job.op \in AllJobs
  PROVE  Grown(Done(W, result), W)
<1>1. W.s.done \in Dones
  BY DEF IsWork, IsSession
<1>2. Grown(W, W) /\ Grown(Close(W), W)
  BY CloseSame, SameGrown DEF Grown
<1>3. Grown(StartTransfer(Goto(W, "LOGGED"), "LIST_SENT", "dir"), W)
  BY GotoSame, TransferGrown, SameGrown DEF Same
<1> QED
  BY <1>1, <1>2, <1>3, StartGrown DEF Done, Dones

\* With any other result, or in any other state, done_fn opens no pcb.
LEMMA DoneSame ==
  ASSUME NEW W, NEW result, IsWork(W), result # "LOGGED",
         W.s.cs # "CWD_SENT" \/ result # "OK"
  PROVE  Same(Done(W, result), W)
<1>1. W.s.done \in Dones
  BY DEF IsWork, IsSession
<1> QED
  BY <1>1, CloseSame DEF Done, Dones, Same

--------------------------------------------------------------------------------
(* The operators that close one.                                                *)

Good(W, c, d) == Owns(W, c, d) /\ Fit(W)

LEMMA SameGood ==
  ASSUME NEW V, NEW W, NEW c, NEW d, Same(V, W), Good(W, c, d)
  PROVE  Good(V, c, d)
  BY SameFacts DEF Good

LEMMA ShutDataGood ==
  ASSUME NEW W, NEW c, NEW d, Owns(W, c, d)
  PROVE  LET V == ShutData(W)
         IN  Good(V, c, d) /\ V.s.dpcb = None /\ V.s.cs = W.s.cs /\ V.s.cpcb = W.s.cpcb
<1>1. CASE W.s.dpcb = None
  BY <1>1 DEF ShutData, Good, Fit
<1>2. CASE W.s.dpcb # None
  <2> DEFINE U == [W EXCEPT !.shut = @ \cup {W.s.dpcb}]
             V == [U EXCEPT !.s.dpcb = None]
  <2>1. IsWork(W)
    BY DEF Owns
  <2>2. IsWork(U) /\ U.s = W.s /\ U.fresh = W.fresh /\ U.shut = W.shut \cup {W.s.dpcb}
    BY <2>1 DEF IsWork
  <2>3. /\ IsWork(V) /\ V.fresh = W.fresh /\ V.shut = W.shut \cup {W.s.dpcb}
        /\ V.s.dpcb = None /\ V.s.cpcb = W.s.cpcb /\ V.s.cs = W.s.cs
    <3> HIDE DEF U
    <3> QED
      BY <2>2 DEF IsWork, IsSession
  <2>4. ShutData(W) = V
    BY <1>2 DEF ShutData
  <2> HIDE DEF V
  <2> QED
    BY <1>2, <2>3, <2>4, LwftpAssumption DEF Good, Owns, Fit
<1> QED
  BY <1>1, <1>2

LEMMA ControlCloseGood ==
  ASSUME NEW W, NEW c, NEW d, NEW result \in {"OK", "ERR"}, Owns(W, c, d)
  PROVE  Good(ControlClose(W, result), c, d)
<1> DEFINE V == ShutData(W)
           U == IF V.s.cpcb = None THEN V
                ELSE [V EXCEPT !.shut = @ \cup {V.s.cpcb}, !.s.cpcb = None]
<1>1. Good(V, c, d) /\ V.s.dpcb = None
  BY ShutDataGood
<1>2. IsWork(V)
  BY <1>1 DEF Good, Owns
<1>3. Good(U, c, d)
  <2> HIDE DEF V
  <2>1. CASE V.s.cpcb = None
    BY <1>1, <2>1
  <2>2. CASE V.s.cpcb # None
    <3> DEFINE T == [V EXCEPT !.shut = @ \cup {V.s.cpcb}]
    <3>1. IsWork(T) /\ T.s = V.s /\ T.fresh = V.fresh /\ T.shut = V.shut \cup {V.s.cpcb}
      BY <1>2 DEF IsWork
    <3>2. /\ IsWork(U) /\ U.fresh = V.fresh /\ U.shut = V.shut \cup {V.s.cpcb}
          /\ U.s.dpcb = V.s.dpcb /\ U.s.cpcb = None
      <4>1. U = [T EXCEPT !.s.cpcb = None]
        BY <2>2
      <4> HIDE DEF T, U
      <4> QED
        BY <3>1, <4>1 DEF IsWork, IsSession
    <3> HIDE DEF U
    <3> QED
      BY <1>1, <2>2, <3>2, LwftpAssumption DEF Good, Owns, Fit
  <2> QED
    BY <2>1, <2>2
<1>4. ControlClose(W, result) = Done(Goto(U, "CLOSED"), result)
  BY DEF ControlClose
<1> HIDE DEF U
<1>5. IsWork(U)
  BY <1>3 DEF Good, Owns
<1>6. Same(Done(Goto(U, "CLOSED"), result), U)
  BY <1>5, GotoSame, DoneSame, SameTransitive DEF Same
<1> QED
  BY <1>3, <1>4, <1>6, SameGood

LEMMA SendNextGood ==
  ASSUME NEW W, NEW c, NEW d, Good(W, c, d)
  PROVE  Good(SendNext(W), c, d) /\ SendNext(W).s.cpcb = W.s.cpcb
<1> DEFINE taken == W.ok /\ W.s.dpcb # None
           V == [W EXCEPT !.src = @ - 1, !.put = taken, !.bad = @ \/ ~taken]
<1>1. IsWork(W) /\ Same(W, W)
  BY DEF Good, Owns, Same
<1>2. Same(V, W)
  BY <1>1 DEF Same, IsWork
<1> HIDE DEF V
<1>3. Good(V, c, d) /\ V.s.cpcb = W.s.cpcb
  BY <1>2, SameGood DEF Same
<1>4. SendNext(W) = V \/ SendNext(W) = ShutData(W)
  BY DEF SendNext, V
<1> QED
  BY <1>3, <1>4, ShutDataGood DEF Good

LEMMA AbortSame ==
  ASSUME NEW W, IsWork(W)
  PROVE  Same(Abort(W), W)
<1>1. Same(Say(W, "ABOR", "ABOR_SENT"), W)
  BY SaySame
<1>2. Same(Done(Say(W, "ABOR", "ABOR_SENT"), "INPROGRESS"), W)
  BY <1>1, DoneSame, SameTransitive DEF Same
<1> QED
  BY <1>2, DoneSame DEF Abort

--------------------------------------------------------------------------------
(* lwftp_control_process.                                                       *)

\* What a reply may do to the working record, and the result it gives.
Replied(X, W, c, d) ==
  /\ Owns(X[1], c, d) /\ X[1].s.cpcb = W.s.cpcb /\ X[2] \in {"OK", "ERR"}

LEMMA SameReplied ==
  ASSUME NEW V, NEW W, NEW c, NEW d, NEW result \in {"OK", "ERR"},
         Same(V, W), Owns(W, c, d)
  PROVE  Replied(<<V, result>>, W, c, d)
  BY SameFacts DEF Replied, Same

LEMMA GrownReplied ==
  ASSUME NEW V, NEW W, NEW c, NEW d, NEW result \in {"OK", "ERR"},
         Grown(V, W), Owns(W, c, d), Unspent(W)
  PROVE  Replied(<<V, result>>, W, c, d)
  BY GrownOwns DEF Replied, Grown

LEMMA OnReplyReplied ==
  ASSUME NEW W, NEW c, NEW d, NEW r, Good(W, c, d), Unspent(W), job.op \in AllJobs
  PROVE  Replied(OnReply(W, r), W, c, d)
<1> DEFINE cs == W.s.cs
<1>1. IsWork(W) /\ Owns(W, c, d) /\ Same(W, W)
  BY DEF Good, Owns, Same
<1>2. \A state : Replied(<<Goto(W, state), "ERR">>, W, c, d)
  BY <1>1, GotoSame, SameReplied
<1>3. \A cmd, state : Replied(<<Say(W, cmd, state), "ERR">>, W, c, d)
  BY <1>1, SaySame, SameReplied
<1>4. CASE cs \in DOMAIN NextCommand
  BY <1>2, <1>3, <1>4 DEF OnReply, NextCommand, Completes
<1>5. CASE cs \in DOMAIN Completes
  <2>1. Replied(<<Done(Goto(W, "LOGGED"), "LOGGED"), "ERR">>, W, c, d)
    <3>1. Same(Goto(W, "LOGGED"), W) /\ IsWork(Goto(W, "LOGGED"))
      BY <1>1, GotoSame DEF Same
    <3>2. Grown(Done(Goto(W, "LOGGED"), "LOGGED"), Goto(W, "LOGGED"))
      BY <3>1, DoneGrown
    <3>3. Grown(Done(Goto(W, "LOGGED"), "LOGGED"), W)
      BY <3>1, <3>2, SameGrown
    <3> QED
      BY <1>1, <3>3, GrownReplied
  <2>2. Replied(<<Done(W, "OK"), "ERR">>, W, c, d)
    BY <1>1, DoneGrown, GrownReplied
  <2> QED
    BY <1>2, <1>5, <2>1, <2>2 DEF OnReply, Completes, NextCommand
<1>6. CASE cs = "PASV_SENT"
  <2> DEFINE V == Say(W, Verb[W.s.target], W.s.target)
             U == [V EXCEPT !.syn = W.s.dpcb # None /\ W.ok, !.bad = @ \/ ~W.ok]
  <2>1. Same(V, W)
    BY <1>1, SaySame
  <2>2. Same(U, W)
    <3> HIDE DEF V
    <3> QED
      BY <2>1 DEF Same, IsWork
  <2>3. OnReply(W, r) = <<IF r = "227" THEN U ELSE Goto(W, "QUIT"), "ERR">>
    BY <1>6 DEF OnReply, Completes, NextCommand
  <2> HIDE DEF U
  <2> QED
    BY <1>1, <1>2, <2>2, <2>3, SameReplied
<1>7. CASE cs = "REST_SENT"
  BY <1>2, <1>3, <1>7 DEF OnReply, Completes, NextCommand
<1>8. CASE cs \in {"LIST_SENT", "RETR_SENT"}
  BY <1>2, <1>8 DEF OnReply, Completes, NextCommand
<1>9. CASE cs = "STOR_SENT"
  <2>1. Good(Goto(W, "XFERING"), c, d) /\ Goto(W, "XFERING").s.cpcb = W.s.cpcb
    BY <1>1, GotoSame, SameGood DEF Same
  <2>2. Replied(<<SendNext(Goto(W, "XFERING")), "ERR">>, W, c, d)
    BY <2>1, SendNextGood DEF Replied, Good
  <2> QED
    BY <1>2, <1>9, <2>2 DEF OnReply, Completes, NextCommand
<1>10. CASE cs = "XFERING"
  <2>1. \A result \in {"OK", "ERR"} :
          Replied(<<Goto(W, "DATAEND"), result>>, W, c, d) /\ Replied(<<W, result>>, W, c, d)
    BY <1>1, GotoSame, SameReplied
  <2>2. OnReply(W, r) = TransferReply(W, r)
    BY <1>10 DEF OnReply, Completes, NextCommand
  <2> QED
    BY <2>1, <2>2 DEF TransferReply
<1>11. CASE cs = "QUIT_SENT"
  <2>1. \A result \in {"OK", "ERR"} : Replied(<<Goto(W, "CLOSING"), result>>, W, c, d)
    BY <1>1, GotoSame, SameReplied
  <2> QED
    BY <1>11, <2>1 DEF OnReply, Completes, NextCommand
<1>12. CASE cs \notin DOMAIN NextCommand \cup DOMAIN Completes \cup
                   {"PASV_SENT", "REST_SENT", "LIST_SENT", "RETR_SENT", "STOR_SENT",
                    "XFERING", "QUIT_SENT"}
  <2>1. Replied(<<W, "ERR">>, W, c, d)
    BY <1>1, SameReplied
  <2>2. OnReply(W, r) = <<W, "ERR">>
    BY <1>12 DEF OnReply
  <2> QED
    BY <2>1, <2>2
<1> QED
  BY <1>4, <1>5, <1>6, <1>7, <1>8, <1>9, <1>10, <1>11, <1>12

LEMMA DataCloseGood ==
  ASSUME NEW W, NEW c, NEW d, NEW result \in {"OK", "ERR"}, Good(W, c, d),
         W.s.cs # "CWD_SENT" \/ W.fresh = None, job.op \in AllJobs
  PROVE  Good(DataClose(W, result), c, d)
<1>1. Good(ShutData(W), c, d) /\ ShutData(W).s.cs = W.s.cs
  BY ShutDataGood DEF Good
<1>2. IsWork(ShutData(W)) /\ ShutData(W).fresh = W.fresh
  BY <1>1 DEF Good, Owns, ShutData
<1>3. Same(Done(ShutData(W), result), ShutData(W))
  BY <1>1, <1>2, DoneSame, DoneGrown, SameGrown
<1> QED
  BY <1>1, <1>3, SameGood DEF DataClose

LEMMA SettleGood ==
  ASSUME NEW W, NEW c, NEW d, NEW result \in {"OK", "ERR"}, Good(W, c, d), job.op \in AllJobs
  PROVE  Good(Settle(W, result), c, d)
<1>1. IsWork(W)
  BY DEF Good, Owns
<1>2. CASE W.s.cs = "DATAEND"
  <2>1. Good(DataClose(W, result), c, d)
    BY <1>2, DataCloseGood
  <2>2. IsWork(DataClose(W, result))
    BY <2>1 DEF Good, Owns
  <2> QED
    BY <1>2, <2>1, <2>2, GotoSame, SameGood DEF Settle
<1>3. CASE W.s.cs = "QUIT"
  BY <1>1, <1>3, SaySame, SameGood DEF Settle
<1>4. CASE W.s.cs = "CLOSING"
  BY <1>4, ControlCloseGood DEF Settle, Good
<1> QED
  BY <1>2, <1>3, <1>4 DEF Settle

LEMMA ProcessGood ==
  ASSUME NEW W, NEW c, NEW d, NEW r, Good(W, c, d), Unspent(W), job.op \in AllJobs,
         W.s.cpcb # None
  PROVE  Good(Process(W, r), c, d)
<1> DEFINE X == OnReply(W, r)
<1>1. Replied(X, W, c, d)
  BY OnReplyReplied
<1>2. Good(X[1], c, d) /\ X[2] \in {"OK", "ERR"}
  BY <1>1 DEF Replied, Good, Fit
<1>3. Process(W, r) = Settle(X[1], X[2])
  BY DEF Process
<1> HIDE DEF X
<1> QED
  BY <1>2, <1>3, SettleGood

LEMMA SinkSame ==
  ASSUME NEW W, IsWork(W)
  PROVE  Same(Sink(W)[1], W)
<1>1. Same(W, W) /\ Same(Abort(W), W)
  BY AbortSame DEF Same
<1>2. Same(Close([W EXCEPT !.bad = TRUE]), W)
  BY CloseBad
<1>3. CASE W.s.io = "write"
  BY <1>1, <1>2, <1>3 DEF Sink
<1>4. CASE W.s.io # "write"
  BY <1>1, <1>4 DEF Sink
<1> QED
  BY <1>3, <1>4

--------------------------------------------------------------------------------
(* Leaving a callback.                                                          *)

\* The non-free pcbs of P are exactly p, or none if p is NULL.
Holds(P, Blocks, p) ==
  /\ DOMAIN P = Blocks /\ p \in Blocks \cup {None}
  /\ \A x \in Blocks : "st" \in DOMAIN P[x] /\ (P[x].st # "free" <=> x = p)

LEMMA Held ==
  IInv <=> /\ IsSession(s) /\ (s.dpcb # None => s.cpcb # None)
           /\ Holds(conn, Ctl, s.cpcb) /\ Holds(dat, Dat, s.dpcb)
           /\ "op" \in DOMAIN job /\ (s.cpcb # None => job.op \in AllJobs)
  BY LwftpAssumption DEF IInv, Shaped, NoLeakedPcb, NoBogusPcb, Holds

LEMMA HeldNext ==
  ASSUME IsSession(s'), (s.dpcb # None => s.cpcb # None)',
         Holds(conn', Ctl, s'.cpcb), Holds(dat', Dat, s'.dpcb),
         "op" \in DOMAIN job', s'.cpcb # None => job'.op \in AllJobs
  PROVE  IInv'
  BY LwftpAssumption DEF IInv, Shaped, NoLeakedPcb, NoBogusPcb, Holds

LEMMA EnterGood ==
  ASSUME IInv, NEW n \in Fresh \cup {None}, NEW ok
  PROVE  LET W == Enter(n, ok)
         IN  /\ Good(W, s.cpcb, s.dpcb) /\ Unspent(W) /\ IsWork(W)
             /\ W.s = s /\ W.fresh = n /\ W.shut = {}
  BY Held, LwftpAssumption DEF Enter, Good, Owns, Fit, Unspent, IsWork, Fresh, FreshPcbs, Holds

LEMMA LeaveIInv ==
  ASSUME IInv, NEW W, NEW c \in {s.cpcb, None}, NEW d, NEW C, NEW D, NEW J,
         Good(W, c, d), Holds(C, Ctl, c), Holds(D, Dat, d),
         "op" \in DOMAIN J, J.op = job.op, Leave(W, C, D, J)
  PROVE  IInv'
<1> DEFINE to == s.cpcb
           Served(x) ==
             IF x \in W.shut THEN FreeConn
             ELSE [C[x] EXCEPT !.cmds = IF x = to THEN @ \o W.out ELSE @,
                               !.fin = @ \/ \E y \in W.shut \cap Dat : D[y].ctl = x]
           Wired(x) ==
             IF x \in W.shut THEN FreeDat
             ELSE IF x = W.s.dpcb
             THEN [D[x] EXCEPT !.st = IF W.syn THEN "syn" ELSE IF @ = "free" THEN "new" ELSE @,
                               !.ctl = IF W.syn THEN to ELSE @,
                               !.fly = @ \/ W.put]
             ELSE [D[x] EXCEPT !.ctl = IF @ \in W.shut THEN None ELSE @]
<1>1. /\ s' = W.s
      /\ conn' = [x \in Ctl |-> Served(x)]
      /\ dat' = [x \in Dat |-> Wired(x)]
      /\ job' = [J EXCEPT !.src = W.src, !.got = IF W.put THEN @ + 1 ELSE @,
                          !.bad = @ \/ W.bad]
  BY DEF Leave
<1>2. Holds(conn', Ctl, s'.cpcb)
  <2>1. \A x \in Ctl : /\ "st" \in DOMAIN Served(x)
                        /\ Served(x).st = IF x \in W.shut THEN "free" ELSE C[x].st
    <3>1. \A x \in Ctl : "st" \in DOMAIN C[x]
      BY DEF Holds
    <3> QED
      BY <3>1 DEF FreeConn
  <2>2. W.s.cpcb = (IF c \in W.shut THEN None ELSE c) /\ c \in Ctl \cup {None}
    BY DEF Good, Owns
  <2> HIDE DEF Served
  <2>3. \A x \in Ctl : conn'[x] = Served(x)
    BY <1>1
  <2>4. \A x \in Ctl : conn'[x].st # "free" <=> x \notin W.shut /\ x = c
    <3>1. \A x \in Ctl : C[x].st # "free" <=> x = c
      BY DEF Holds
    <3>2. \A x \in Ctl : conn'[x].st = IF x \in W.shut THEN "free" ELSE C[x].st
      BY <2>1, <2>3
    <3> QED
      BY <3>1, <3>2
  <2>5. DOMAIN conn' = Ctl /\ \A x \in Ctl : "st" \in DOMAIN conn'[x]
    BY <1>1, <2>1, <2>3
  <2>6. s'.cpcb = W.s.cpcb /\ s'.dpcb = W.s.dpcb
    BY <1>1
  <2> QED
    BY <2>2, <2>4, <2>5, <2>6, LwftpAssumption DEF Holds
<1>3. Holds(dat', Dat, s'.dpcb)
  <2>1. \A x \in Dat :
          /\ "st" \in DOMAIN Wired(x)
          /\ Wired(x).st # "free" <=> x \notin W.shut /\ (x = W.s.dpcb \/ D[x].st # "free")
    <3>1. \A x \in Dat : "st" \in DOMAIN D[x]
      BY DEF Holds
    <3> QED
      BY <3>1 DEF FreeDat
  <2>2. /\ W.s.dpcb \in Dat \cup {None} /\ (W.s.dpcb \notin W.shut \/ W.s.dpcb = None)
        /\ d # None /\ d \notin W.shut => W.s.dpcb = d
    BY DEF Good, Owns
  <2> HIDE DEF Wired
  <2>3. \A x \in Dat : dat'[x] = Wired(x)
    BY <1>1
  <2>4. \A x \in Dat : dat'[x].st # "free" <=> x = W.s.dpcb
    BY <2>1, <2>2, <2>3, LwftpAssumption DEF Holds
  <2>5. DOMAIN dat' = Dat /\ \A x \in Dat : "st" \in DOMAIN dat'[x]
    BY <1>1, <2>1, <2>3
  <2>6. s'.cpcb = W.s.cpcb /\ s'.dpcb = W.s.dpcb
    BY <1>1
  <2> QED
    BY <2>2, <2>4, <2>5, <2>6, LwftpAssumption DEF Holds
<1>4. "op" \in DOMAIN job' /\ job'.op = J.op
  <2> HIDE DEF Served, Wired
  <2> QED
    BY <1>1
<1>5. s'.cpcb # None => s.cpcb # None
  BY <1>1 DEF Good, Owns
<1>6. IsSession(s') /\ (s'.dpcb # None => s'.cpcb # None)
  BY <1>1 DEF Good, Owns, Fit, IsWork
<1> HIDE DEF Served, Wired
<1> QED
  BY <1>2, <1>3, <1>4, <1>5, <1>6, Held, HeldNext

--------------------------------------------------------------------------------
(* The actions.                                                                 *)

\* A step of the server or of the network frees no pcb and makes none.
LEMMA OutsideIInv ==
  ASSUME IInv, s' = s,
         DOMAIN conn' = Ctl,
         \A c \in Ctl : "st" \in DOMAIN conn'[c] /\ conn'[c].st = conn[c].st,
         DOMAIN dat' = Dat,
         \A d \in Dat : "st" \in DOMAIN dat'[d] /\ dat'[d].st = dat[d].st,
         "op" \in DOMAIN job', job'.op = job.op
  PROVE  IInv'
  BY Held, HeldNext DEF Holds

LEMMA InitIInv == Init => IInv
  BY LwftpAssumption
  DEF Init, IInv, Shaped, NoLeakedPcb, NoBogusPcb, IsSession, NewSession, FreeConn, FreeDat,
      NoJob, Dones

LEMMA StartStep ==
  ASSUME IInv, Patient, NEW op \in AllJobs, Start(op)
  PROVE  IInv'
<1>1. s.cpcb = None /\ s.dpcb = None /\ Holds(conn, Ctl, None) /\ Holds(dat, Dat, None)
  BY Held DEF Start
<1>2. PICK n \in IF op = "STOR" THEN 0..MaxSize ELSE {0} :
        LET J == [NoJob EXCEPT !.op = op, !.waiting = TRUE, !.src = n, !.size = n,
                               !.bad = op \in leftover] IN
        \/ \E c \in Ctl :
             /\ conn[c].st = "free"
             /\ s' = [NewSession EXCEPT !.cpcb = c, !.done = "op"]
             /\ conn' = [conn EXCEPT ![c].st = "syn"]
             /\ job' = J
        \/ /\ "lowmem" \in Faults
           /\ s' = [NewSession EXCEPT !.done = "op"]
           /\ job' = [J EXCEPT !.bad = TRUE]
           /\ UNCHANGED conn
  BY DEF Start
<1>3. dat' = dat
  BY DEF Start
<1>4. "op" \in DOMAIN job' /\ job'.op = op
  BY <1>2 DEF NoJob
<1>5. IsSession(s') /\ s'.dpcb = None
  BY <1>2 DEF NewSession, IsSession, Dones
<1>6. Holds(conn', Ctl, s'.cpcb)
  <2>1. CASE s' = [NewSession EXCEPT !.done = "op"] /\ UNCHANGED conn
    BY <1>1, <2>1 DEF NewSession
  <2>2. ASSUME NEW c \in Ctl, conn' = [conn EXCEPT ![c].st = "syn"],
               s' = [NewSession EXCEPT !.cpcb = c, !.done = "op"]
        PROVE  Holds(conn', Ctl, s'.cpcb)
    BY <1>1, <2>2, LwftpAssumption DEF NewSession, Holds
  <2> QED
    BY <1>2, <2>1, <2>2
<1> QED
  BY <1>1, <1>3, <1>4, <1>5, <1>6, HeldNext

LEMMA CollectStep ==
  ASSUME IInv, Collect
  PROVE  IInv'
  BY OutsideIInv, Held DEF Collect, Holds

LEMMA CancelJobStep ==
  ASSUME IInv, CancelJob
  PROVE  IInv'
<1>1. PICK n \in 0..job.src :
        Leave(Abort([Enter(None, TRUE) EXCEPT !.src = n]), conn, dat,
              [job EXCEPT !.waiting = FALSE, !.bad = TRUE])
  BY DEF CancelJob
<1> DEFINE E == Enter(None, TRUE)
           U == [E EXCEPT !.src = n]
<1>2. Good(E, s.cpcb, s.dpcb) /\ IsWork(E) /\ E.fresh = None
  BY EnterGood
<1> HIDE DEF E
<1>3. Same(U, E)
  BY <1>2 DEF Same, IsWork
<1>4. Same(Abort(U), E)
  BY <1>3, AbortSame, SameTransitive DEF Same
<1>5. Good(Abort(U), s.cpcb, s.dpcb) /\ Abort(U).fresh = None
  BY <1>2, <1>4, SameGood DEF Same
<1> DEFINE J == [job EXCEPT !.waiting = FALSE, !.bad = TRUE]
<1>6. "op" \in DOMAIN J /\ J.op = job.op
  BY Held
<1>7. Leave(Abort(U), conn, dat, J)
  BY <1>1 DEF E
<1> HIDE DEF J, U
<1> QED
  BY <1>5, <1>6, <1>7, Held, LeaveIInv

LEMMA CancelListingStep ==
  ASSUME IInv, CancelListing
  PROVE  IInv'
<1> DEFINE W == Enter(None, TRUE)
           J == [job EXCEPT !.bad = TRUE]
<1>1. Good(W, s.cpcb, s.dpcb) /\ IsWork(W) /\ W.fresh = None
  BY EnterGood
<1>2. Good(Abort(W), s.cpcb, s.dpcb) /\ Abort(W).fresh = None
  BY <1>1, AbortSame, SameGood DEF Same
<1>3. "op" \in DOMAIN J /\ J.op = job.op
  BY Held
<1>4. Leave(Abort(W), conn, dat, J)
  BY DEF CancelListing
<1> HIDE DEF J, W
<1> QED
  BY <1>2, <1>3, <1>4, Held, LeaveIInv

LEMMA CancelMediaStep ==
  ASSUME IInv, CancelMedia
  PROVE  IInv'
<1> DEFINE W == Enter(None, TRUE)
           V == IF s.cs = "XFERING" THEN Abort(W) ELSE W
           J == [job EXCEPT !.waiting = FALSE, !.bad = TRUE]
<1>1. Good(W, s.cpcb, s.dpcb) /\ IsWork(W) /\ W.fresh = None
  BY EnterGood
<1>2. Good(V, s.cpcb, s.dpcb) /\ V.fresh = None
  BY <1>1, AbortSame, SameGood DEF Same
<1>3. "op" \in DOMAIN J /\ J.op = job.op
  BY Held
<1>4. Leave(V, conn, dat, J)
  BY DEF CancelMedia
<1> HIDE DEF J, V
<1> QED
  BY <1>2, <1>3, <1>4, Held, LeaveIInv

LEMMA CtlConnectedStep ==
  ASSUME IInv, NEW c \in Ctl, CtlConnected(c)
  PROVE  IInv'
<1>1. IsSession(s') /\ s'.cpcb = s.cpcb /\ s'.dpcb = s.dpcb
  BY Held DEF CtlConnected, IsSession
<1>2. conn' = [conn EXCEPT ![c].st = "open", ![c].reps = <<"220">>] /\ conn[c].st = "syn"
  BY DEF CtlConnected
<1>3. \A x \in Ctl : "st" \in DOMAIN conn'[x] /\
                     conn'[x].st = IF x = c THEN "open" ELSE conn[x].st
  BY <1>2, Held DEF Holds
<1>4. DOMAIN conn' = Ctl
  BY <1>2, Held DEF Holds
<1>5. Holds(conn', Ctl, s'.cpcb)
  BY <1>1, <1>2, <1>3, <1>4, Held DEF Holds
<1> QED
  BY <1>1, <1>5, Held, HeldNext DEF CtlConnected

LEMMA CtlRecvStep ==
  ASSUME IInv, NEW c \in Ctl, CtlRecv(c)
  PROVE  IInv'
<1>1. PICK k \in IF "merge" \in Faults THEN 1..Len(conn[c].reps) ELSE {1},
           n \in Fresh, ok \in Luck("lowmem") :
        Leave(Process(Enter(n, ok), Head(conn[c].reps)),
              [conn EXCEPT ![c].reps = SubSeq(@, k + 1, Len(@))], dat, job)
  BY DEF CtlRecv
<1> DEFINE W == Enter(n, ok)
           V == Process(W, Head(conn[c].reps))
           C == [conn EXCEPT ![c].reps = SubSeq(@, k + 1, Len(@))]
<1>2. /\ Good(W, s.cpcb, s.dpcb) /\ Unspent(W) /\ IsWork(W)
      /\ W.s = s /\ W.fresh = n
  BY EnterGood
<1>3. s.cpcb = c /\ s.cpcb # None /\ job.op \in AllJobs
  BY Held, LwftpAssumption DEF CtlRecv, Holds
<1>4. Good(V, s.cpcb, s.dpcb)
  BY <1>2, <1>3, ProcessGood
<1>5. Holds(C, Ctl, s.cpcb)
  BY Held DEF Holds
<1>6. Leave(V, C, dat, job)
  BY <1>1
<1> HIDE DEF V, C
<1> QED
  BY <1>4, <1>5, <1>6, Held, LeaveIInv

LEMMA CtlEofStep ==
  ASSUME IInv, NEW c \in Ctl, CtlEof(c)
  PROVE  IInv'
<1> DEFINE W == Enter(None, TRUE)
           V == ControlClose(W, "ERR")
<1>1. Good(W, s.cpcb, s.dpcb)
  BY EnterGood
<1>2. Good(V, s.cpcb, s.dpcb)
  BY <1>1, ControlCloseGood DEF Good
<1>3. Leave(V, conn, dat, job)
  BY DEF CtlEof
<1> HIDE DEF V
<1> QED
  BY <1>2, <1>3, Held, LeaveIInv

\* lwIP has freed the pcb: the callback is left with no control connection.
LEMMA CtlErrStep ==
  ASSUME IInv, NEW c \in Ctl, CtlErr(c)
  PROVE  IInv'
<1> DEFINE E == Enter(None, TRUE)
           W == [E EXCEPT !.s.cpcb = None]
           V == ControlClose(W, "ERR")
           C == [conn EXCEPT ![c] = FreeConn]
           D == [d \in Dat |-> IF dat[d].ctl = c THEN [dat[d] EXCEPT !.ctl = None] ELSE dat[d]]
           J == [job EXCEPT !.bad = TRUE]
<1>1. Good(E, s.cpcb, s.dpcb) /\ E.shut = {} /\ E.s = s /\ E.fresh = None
  BY EnterGood
<1>2. s.cpcb = c
  BY Held DEF CtlErr, Holds
<1>3. Owns(W, None, s.dpcb)
  <2>1. /\ IsWork(W) /\ W.shut = {} /\ W.fresh = None
        /\ W.s.cpcb = None /\ W.s.dpcb = s.dpcb
    <3> HIDE DEF E
    <3> QED
      BY <1>1 DEF Good, Owns, IsWork, IsSession
  <2> QED
    BY <1>1, <2>1 DEF Good, Owns
<1>4. Good(V, None, s.dpcb)
  BY <1>3, ControlCloseGood
<1>5. Holds(C, Ctl, None)
  BY <1>2, Held, LwftpAssumption DEF Holds, FreeConn
<1>6. Holds(D, Dat, s.dpcb)
  BY Held DEF Holds
<1>7. "op" \in DOMAIN J /\ J.op = job.op
  BY Held
<1>8. Leave(V, C, D, J)
  BY DEF CtlErr
<1> HIDE DEF V, C, D, J
<1> QED
  BY <1>4, <1>5, <1>6, <1>7, <1>8, LeaveIInv

LEMMA DataConnectedStep ==
  ASSUME IInv, NEW d \in Dat, DataConnected(d)
  PROVE  IInv'
<1>1. dat' = [dat EXCEPT ![d].st = "open"] /\ dat[d].st = "syn"
  BY DEF DataConnected
<1>2. \A x \in Dat : /\ "st" \in DOMAIN dat'[x]
                     /\ dat'[x].st = IF x = d THEN "open" ELSE dat[x].st
  BY <1>1, Held DEF Holds
<1>3. DOMAIN dat' = Dat
  BY <1>1, Held DEF Holds
<1>4. Holds(dat', Dat, s.dpcb)
  BY <1>1, <1>2, <1>3, Held DEF Holds
<1> QED
  BY <1>4, Held, HeldNext DEF DataConnected

LEMMA DataRecvStep ==
  ASSUME IInv, NEW d \in Dat, DataRecv(d)
  PROVE  IInv'
<1>1. PICK ok \in Luck("disk") :
        LET X == Sink(Enter(None, ok)) IN
        Leave(X[1], conn, [dat EXCEPT ![d].left = @ - 1],
              IF X[2] THEN [job EXCEPT !.got = @ + 1] ELSE job)
  BY DEF DataRecv
<1> DEFINE W == Enter(None, ok)
           X == Sink(W)
           D == [dat EXCEPT ![d].left = @ - 1]
           J == IF X[2] THEN [job EXCEPT !.got = @ + 1] ELSE job
<1>2. Good(W, s.cpcb, s.dpcb) /\ IsWork(W)
  BY EnterGood
<1>3. Good(X[1], s.cpcb, s.dpcb)
  BY <1>2, SinkSame, SameGood
<1>4. Holds(D, Dat, s.dpcb)
  BY Held DEF Holds
<1>5. "op" \in DOMAIN J /\ J.op = job.op
  BY Held
<1>6. Leave(X[1], conn, D, J)
  BY <1>1
<1> HIDE DEF X, D, J
<1> QED
  BY <1>3, <1>4, <1>5, <1>6, Held, LeaveIInv

LEMMA DataEofStep ==
  ASSUME IInv, NEW d \in Dat, DataEof(d)
  PROVE  IInv'
<1> DEFINE W == Enter(None, TRUE)
           V == DataClose(W, "OK")
           U == Goto(V, "LOGGED")
<1>1. Good(W, s.cpcb, s.dpcb) /\ W.fresh = None
  BY EnterGood
<1>2. s.cpcb # None /\ job.op \in AllJobs
  BY Held, LwftpAssumption DEF DataEof, Holds
<1>3. Good(V, s.cpcb, s.dpcb)
  BY <1>1, <1>2, DataCloseGood
<1>4. IsWork(V)
  BY <1>3 DEF Good, Owns
<1>5. Good(U, s.cpcb, s.dpcb)
  BY <1>3, <1>4, GotoSame, SameGood
<1>6. Leave(U, conn, dat, job)
  BY DEF DataEof
<1> HIDE DEF U
<1> QED
  BY <1>5, <1>6, Held, LeaveIInv

LEMMA DataSentStep ==
  ASSUME IInv, NEW d \in Dat, DataSent(d)
  PROVE  IInv'
<1>1. PICK fly \in BOOLEAN, ok \in Luck("lowmem") :
        Leave(SendNext(Enter(None, ok)), conn, [dat EXCEPT ![d].fly = fly], job)
  BY DEF DataSent
<1> DEFINE W == Enter(None, ok)
           V == SendNext(W)
           D == [dat EXCEPT ![d].fly = fly]
<1>2. Good(W, s.cpcb, s.dpcb)
  BY EnterGood
<1>3. Good(V, s.cpcb, s.dpcb)
  BY <1>2, SendNextGood
<1>4. Holds(D, Dat, s.dpcb)
  BY Held DEF Holds
<1>5. Leave(V, conn, D, job)
  BY <1>1
<1> HIDE DEF V, D
<1> QED
  BY <1>3, <1>4, <1>5, Held, LeaveIInv

LEMMA DataErrStep ==
  ASSUME IInv, NEW d \in Dat, DataErr(d)
  PROVE  IInv'
<1> DEFINE E == Enter(None, TRUE)
           W == [E EXCEPT !.s.dpcb = None]
           V == IF s.cs = "XFERING" THEN Settle(Goto(W, "DATAEND"), "ERR") ELSE W
           D == [dat EXCEPT ![d] = FreeDat]
           J == [job EXCEPT !.bad = TRUE]
<1>1. Good(E, s.cpcb, s.dpcb) /\ E.shut = {} /\ E.s = s /\ E.fresh = None
  BY EnterGood
<1>2. s.dpcb = d /\ s.cpcb # None /\ job.op \in AllJobs
  BY Held, LwftpAssumption DEF DataErr, Holds
<1>3. Good(W, s.cpcb, None)
  <2>1. /\ IsWork(W) /\ W.shut = {} /\ W.fresh = None
        /\ W.s.cpcb = s.cpcb /\ W.s.dpcb = None
    <3> HIDE DEF E
    <3> QED
      BY <1>1 DEF Good, Owns, IsWork, IsSession
  <2> QED
    BY <1>1, <2>1 DEF Good, Owns, Fit
<1>4. IsWork(W)
  BY <1>3 DEF Good, Owns
<1> HIDE DEF W
<1>5. Good(V, s.cpcb, None)
  BY <1>2, <1>3, <1>4, GotoSame, SameGood, SettleGood
<1>6. Holds(D, Dat, None)
  BY <1>2, Held, LwftpAssumption DEF Holds, FreeDat
<1>7. "op" \in DOMAIN J /\ J.op = job.op
  BY Held
<1>8. Leave(V, conn, D, J)
  BY DEF DataErr, W
<1> HIDE DEF V, D, J
<1> QED
  BY <1>5, <1>6, <1>7, <1>8, Held, LeaveIInv

\* dat with other data on the wire.
LEMMA WireSame ==
  ASSUME IInv, NEW c,
         \/ dat' = dat
         \/ \E n : dat' = [d \in Dat |-> IF d \in DataOf(c) THEN [dat[d] EXCEPT !.left = n]
                                                        ELSE dat[d]]
         \/ dat' = [d \in Dat |-> IF d \in DataOf(c) THEN [dat[d] EXCEPT !.eof = TRUE]
                                                  ELSE dat[d]]
  PROVE  DOMAIN dat' = Dat /\ \A d \in Dat : "st" \in DOMAIN dat'[d] /\ dat'[d].st = dat[d].st
<1>1. DOMAIN dat = Dat /\ \A d \in Dat : "st" \in DOMAIN dat[d]
  BY Held DEF Holds
<1>2. ASSUME NEW n, dat' = [d \in Dat |-> IF d \in DataOf(c) THEN [dat[d] EXCEPT !.left = n]
                                                        ELSE dat[d]]
      PROVE  DOMAIN dat' = Dat /\ \A d \in Dat : "st" \in DOMAIN dat'[d] /\ dat'[d].st = dat[d].st
  BY <1>1, <1>2
<1>3. CASE dat' = [d \in Dat |-> IF d \in DataOf(c) THEN [dat[d] EXCEPT !.eof = TRUE]
                                                  ELSE dat[d]]
  BY <1>1, <1>3
<1> QED
  BY <1>1, <1>2, <1>3

\* conn with another server's end of c.
LEMMA ServerSame ==
  ASSUME IInv, NEW c \in Ctl, NEW R, conn' = [conn EXCEPT ![c] = R],
         "st" \in DOMAIN R, R.st = conn[c].st
  PROVE  DOMAIN conn' = Ctl /\ \A x \in Ctl : "st" \in DOMAIN conn'[x] /\ conn'[x].st = conn[x].st
  BY Held DEF Holds

\* conn with replies rs more from c's server, which has changed xf, and read a command.
LEMMA RepliesSame ==
  ASSUME IInv, NEW c \in Ctl, NEW rs, NEW xf,
         \/ conn' = [conn EXCEPT ![c] = [Replies(c, rs) EXCEPT !.xf = xf]]
         \/ conn' = [conn EXCEPT ![c] = [Replies(c, rs) EXCEPT !.cmds = Tail(@)]]
         \/ conn' = [conn EXCEPT ![c] = [[Replies(c, rs) EXCEPT !.xf = xf]
                                          EXCEPT !.cmds = Tail(@)]]
         \/ conn' = [conn EXCEPT ![c] = [[Replies(c, rs) EXCEPT !.bye = TRUE]
                                          EXCEPT !.cmds = Tail(@)]]
  PROVE  DOMAIN conn' = Ctl /\ \A x \in Ctl : "st" \in DOMAIN conn'[x] /\ conn'[x].st = conn[x].st
<1> DEFINE R == Replies(c, rs)
           X == [R EXCEPT !.xf = xf]
           B == [R EXCEPT !.bye = TRUE]
<1>1. "st" \in DOMAIN R /\ R.st = conn[c].st
  BY Held DEF Replies, Holds
<1> HIDE DEF R
<1>2. /\ "st" \in DOMAIN X /\ X.st = conn[c].st
      /\ "st" \in DOMAIN B /\ B.st = conn[c].st
  BY <1>1
<1>3. PICK Q \in {R, X, B} : \/ conn' = [conn EXCEPT ![c] = Q]
                            \/ conn' = [conn EXCEPT ![c] = [Q EXCEPT !.cmds = Tail(@)]]
  BY DEF R
<1> HIDE DEF X, B
<1>4. "st" \in DOMAIN Q /\ Q.st = conn[c].st
  BY <1>1, <1>2
<1>5. "st" \in DOMAIN [Q EXCEPT !.cmds = Tail(@)] /\ [Q EXCEPT !.cmds = Tail(@)].st = conn[c].st
  BY <1>4
<1> QED
  BY <1>3, <1>4, <1>5, ServerSame

LEMMA AgreeStep ==
  ASSUME IInv, NEW c \in Ctl, Agree(c)
  PROVE  IInv'
<1> DEFINE cmd == Head(conn[c].cmds)
           J == [job EXCEPT !.did = IF cmd \in Performs THEN @ + 1 ELSE @]
           Read(C) == [conn EXCEPT ![c] = [C EXCEPT !.cmds = Tail(@)]]
<1>1. \A n : /\ "op" \in DOMAIN J /\ J.op = job.op
             /\ "op" \in DOMAIN [J EXCEPT !.size = n] /\ [J EXCEPT !.size = n].op = job.op
  BY Held
<1>2. \/ \E rs, xf : conn' = Read([Replies(c, rs) EXCEPT !.xf = xf])
      \/ \E rs : conn' = Read([Replies(c, rs) EXCEPT !.bye = TRUE])
  <2>1. \/ conn' = Read([Replies(c, <<Agrees[cmd]>>) EXCEPT
                           !.xf = IF cmd = "STOR" THEN "up" ELSE Replies(c, <<Agrees[cmd]>>).xf])
        \/ conn' = Read([Replies(c, <<"150">>) EXCEPT !.xf = "down"])
        \/ conn' = Read([Replies(c, IF conn[c].xf = "no" THEN <<"226">> ELSE <<"426", "226">>)
                          EXCEPT !.xf = "no"])
        \/ conn' = Read([Replies(c, <<"221">>) EXCEPT !.bye = TRUE])
    BY DEF Agree
  <2> HIDE DEF Read
  <2> QED
    BY <2>1
<1>3. DOMAIN conn' = Ctl /\ \A x \in Ctl : "st" \in DOMAIN conn'[x] /\ conn'[x].st = conn[x].st
  <2>1. ASSUME NEW rs, NEW xf, conn' = Read([Replies(c, rs) EXCEPT !.xf = xf])
        PROVE  <1>3!:
    BY <2>1, RepliesSame
  <2>2. ASSUME NEW rs, conn' = Read([Replies(c, rs) EXCEPT !.bye = TRUE])
        PROVE  <1>3!:
    BY <2>2, RepliesSame
  <2> QED
    BY <1>2, <2>1, <2>2
<1>4. \/ dat' = dat
      \/ \E n : dat' = [d \in Dat |-> IF d \in DataOf(c) THEN [dat[d] EXCEPT !.left = n]
                                                        ELSE dat[d]]
      \/ dat' = [d \in Dat |-> IF d \in DataOf(c) THEN [dat[d] EXCEPT !.eof = TRUE]
                                                  ELSE dat[d]]
  BY DEF Agree
<1>5. job' = J \/ job' = job \/ \E n : job' = [J EXCEPT !.size = n]
  BY DEF Agree
<1> HIDE DEF J
<1>6. "op" \in DOMAIN job' /\ job'.op = job.op
  BY <1>1, <1>5, Held
<1> QED
  BY <1>3, <1>4, <1>6, WireSame, OutsideIInv DEF Agree

LEMMA FinishDownStep ==
  ASSUME IInv, NEW c \in Ctl, FinishDown(c)
  PROVE  IInv'
<1>1. DOMAIN conn' = Ctl /\ \A x \in Ctl : "st" \in DOMAIN conn'[x] /\ conn'[x].st = conn[x].st
  BY RepliesSame DEF FinishDown
<1>2. DOMAIN dat' = Dat /\ \A d \in Dat : "st" \in DOMAIN dat'[d] /\ dat'[d].st = dat[d].st
  BY WireSame DEF FinishDown
<1> QED
  BY <1>1, <1>2, OutsideIInv, Held DEF FinishDown

\* FinishUp, FailXfer, Refuse, Wild and Unsent leave dat as it is.
LEMMA ServerStepIInv ==
  ASSUME IInv, NEW c \in Ctl,
         FinishUp(c) \/ FailXfer(c) \/ Refuse(c) \/ Wild(c) \/ Unsent(c)
  PROVE  IInv'
<1>1. dat' = dat /\ s' = s
  BY DEF FinishUp, FailXfer, Refuse, Wild, Unsent
<1>2. "op" \in DOMAIN job' /\ job'.op = job.op
  BY Held DEF FinishUp, FailXfer, Refuse, Wild, Unsent
<1>3. DOMAIN conn' = Ctl /\ \A x \in Ctl : "st" \in DOMAIN conn'[x] /\ conn'[x].st = conn[x].st
  <2>1. CASE FinishUp(c) \/ FailXfer(c)
    <3>1. \/ conn' = [conn EXCEPT ![c] = [Replies(c, <<"226">>) EXCEPT !.xf = "no"]]
          \/ conn' = [conn EXCEPT ![c] = [Replies(c, <<"426">>) EXCEPT !.xf = "no"]]
      BY <2>1 DEF FinishUp, FailXfer
    <3> QED
      BY <3>1, RepliesSame
  <2>2. CASE Refuse(c)
    BY <2>2, RepliesSame DEF Refuse
  <2>3. CASE Wild(c)
    <3> DEFINE A(r) == [conn EXCEPT ![c].reps = <<r>>,
                                    ![c].cmds = IF @ = <<>> THEN @ ELSE Tail(@)]
    <3>1. DOMAIN conn = Ctl /\ \A x \in Ctl : "st" \in DOMAIN conn[x]
      BY Held DEF Holds
    <3>2. \A r : /\ DOMAIN A(r) = Ctl
                 /\ \A x \in Ctl : "st" \in DOMAIN A(r)[x] /\ A(r)[x].st = conn[x].st
      BY <3>1
    <3>3. (\E r : conn' = A(r)) \/ conn' = [conn EXCEPT ![c].bye = TRUE]
      BY <2>3 DEF Wild
    <3> HIDE DEF A
    <3>4. CASE conn' = [conn EXCEPT ![c].bye = TRUE]
      BY <3>1, <3>4
    <3> QED
      BY <3>2, <3>3, <3>4
  <2>4. CASE Unsent(c)
    <3>1. DOMAIN conn = Ctl /\ \A x \in Ctl : "st" \in DOMAIN conn[x]
      BY Held DEF Holds
    <3>2. conn' = [conn EXCEPT ![c].cmds = Tail(@)]
      BY <2>4 DEF Unsent
    <3> QED
      BY <3>1, <3>2
  <2> QED
    BY <2>1, <2>2, <2>3, <2>4
<1> QED
  BY <1>1, <1>2, <1>3, OutsideIInv, Held DEF Holds

LEMMA NextIInv ==
  ASSUME IInv, Patient, [Next]_vars
  PROVE  IInv'
<1>1. CASE UNCHANGED vars
  BY <1>1 DEF vars, IInv, Shaped, NoLeakedPcb, NoBogusPcb
<1>2. CASE \E op \in AllJobs : Start(op)
  BY <1>2, StartStep
<1>3. CASE Collect \/ CancelJob \/ CancelListing \/ CancelMedia
  BY <1>3, CollectStep, CancelJobStep, CancelListingStep, CancelMediaStep
<1>4. ASSUME NEW c \in Ctl,
             CtlStep(c) \/ CtlErr(c) \/ Unsent(c) \/ ServerStep(c) \/ Refuse(c) \/ Wild(c)
      PROVE  IInv'
  BY <1>4, CtlConnectedStep, CtlRecvStep, CtlEofStep, CtlErrStep, AgreeStep, FinishDownStep,
     ServerStepIInv DEF CtlStep, ServerStep
<1>5. ASSUME NEW d \in Dat, DataStep(d) \/ DataErr(d)
      PROVE  IInv'
  BY <1>5, DataConnectedStep, DataRecvStep, DataEofStep, DataSentStep, DataErrStep DEF DataStep
<1> QED
  BY <1>1, <1>2, <1>3, <1>4, <1>5 DEF Next

LEMMA Inductive == ASSUME Patient PROVE Spec => []IInv
<1>1. IInv /\ [Next]_vars => IInv'
  BY NextIInv
<1> QED
  BY <1>1, InitIInv, PTL DEF Spec

--------------------------------------------------------------------------------
(* What follows from it.                                                        *)

\* If users wait for the session to end, then whatever the server replies and however
\* the callbacks of the two connections are ordered, no connection is left with
\* callbacks into a session that no longer knows it (lwftp_control_close,
\* lwftp_data_close, lwftp_data_open).
THEOREM AllClosed == ASSUME Patient PROVE Spec => []NoLeakedPcb
<1>1. IInv => NoLeakedPcb
  BY DEF IInv
<1> QED
  BY <1>1, Inductive, PTL

\* Nor does the session hold a pcb lwIP has freed, when it comes to close it.
THEOREM NoneDangles == ASSUME Patient PROVE Spec => []NoBogusPcb
<1>1. IInv => NoBogusPcb
  BY DEF IInv
<1> QED
  BY <1>1, Inductive, PTL

--------------------------------------------------------------------------------
(* The types, and what a session can be set up for.                             *)

Session == [cs: States, target: States, cpcb: Ctl \cup {None}, dpcb: Dat \cup {None},
            done: Dones, io: {"none", "dir", "write", "media", "read"}]
Link == [st: {"free", "syn", "open"}, cmds: Seq(Commands), reps: Seq(Codes),
         xf: {"no", "down", "up"}, fin: BOOLEAN, bye: BOOLEAN]
Wire == [st: {"free", "new", "syn", "open"}, ctl: Ctl \cup {None}, left: Nat,
         eof: BOOLEAN, fly: BOOLEAN]
Task == [op: AllJobs \cup {"none"}, waiting: BOOLEAN, src: Nat, size: Nat, got: Nat,
         did: Nat, bad: BOOLEAN]
Working == [s: Session, out: Seq(Commands), shut: SUBSET (Ctl \cup Dat), syn: BOOLEAN,
            put: BOOLEAN, src: Nat, fresh: Dat \cup {None}, ok: BOOLEAN, bad: BOOLEAN]

\* TypeOK without the bounds.
Typed ==
  /\ s \in Session /\ conn \in [Ctl -> Link] /\ dat \in [Dat -> Wire] /\ job \in Task
  /\ leftover \subseteq {"RETR", "STOR"}

\* Uploads and the other jobs take separate ways.
Role(x) ==
  /\ x.cs \in {"TYPE_SENT", "PASV_SENT"} => x.target \in DOMAIN Verb
  /\ x.target = "STOR_SENT" \/ x.io = "read" \/ x.cs = "STOR_SENT" => job.op = "STOR"
  /\ x.target \in {"LIST_SENT", "RETR_SENT", "REST_SENT"} => job.op # "STOR"
  /\ x.cs \in {"LIST_SENT", "RETR_SENT", "REST_SENT"} => job.op # "STOR"
  /\ x.done = "LIST_cb" => job.op = "CWD"
  /\ x.io = "write" => job.op = "RETR"

--------------------------------------------------------------------------------
(* Commands.  A session sends one command that makes the server do something.   *)

Work == Performs \cup {"STOR"}
Works(q) == {i \in 1..Len(q) : q[i] \in Work}
Unique(q) == \A i, j \in Works(q) : i = j
Fitting(q) ==
  \A i \in 1..Len(q) : /\ q[i] = "STOR" => job.op = "STOR"
                       /\ q[i] \in {"LIST", "RETR"} => job.op # "STOR"

LEMMA Appended ==
  ASSUME NEW q \in Seq(Commands), NEW cmd \in Commands
  PROVE  /\ Append(q, cmd) \in Seq(Commands)
         /\ cmd \notin Work => Works(Append(q, cmd)) = Works(q)
         /\ Works(q) = {} => Unique(Append(q, cmd))
         /\ /\ Fitting(q)
            /\ cmd = "STOR" => job.op = "STOR"
            /\ cmd \in {"LIST", "RETR"} => job.op # "STOR"
            => Fitting(Append(q, cmd))
<1> DEFINE p == Append(q, cmd)
<1>1. /\ p \in Seq(Commands) /\ Len(p) = Len(q) + 1 /\ p[Len(q) + 1] = cmd
      /\ \A i \in 1..Len(q) : p[i] = q[i]
  OBVIOUS
<1>2. Len(q) \in Nat /\ \A i : i \in 1..(Len(q) + 1) <=> i \in 1..Len(q) \/ i = Len(q) + 1
  OBVIOUS
<1> HIDE DEF p
<1>3. \A i : i \in Works(p) <=> i \in Works(q) \/ (i = Len(q) + 1 /\ cmd \in Work)
  BY <1>1, <1>2 DEF Works
<1>4. Fitting(q) /\ (cmd = "STOR" => job.op = "STOR")
      /\ (cmd \in {"LIST", "RETR"} => job.op # "STOR") => Fitting(p)
  BY <1>1, <1>2 DEF Fitting
<1>5. cmd \notin Work => Works(p) = Works(q)
  BY <1>3
<1>6. Works(q) = {} => Unique(p)
  BY <1>3 DEF Unique
<1> QED
  BY <1>1, <1>4, <1>5, <1>6 DEF p

LEMMA Joined ==
  ASSUME NEW p \in Seq(Commands), NEW q \in Seq(Commands)
  PROVE  /\ p \o q \in Seq(Commands)
         /\ Works(p \o q) = {} <=> Works(p) = {} /\ Works(q) = {}
         /\ Unique(p) /\ Works(q) = {} => Unique(p \o q)
         /\ Unique(q) /\ Works(p) = {} => Unique(p \o q)
         /\ Fitting(p) /\ Fitting(q) => Fitting(p \o q)
<1> DEFINE r == p \o q
<1>1. /\ r \in Seq(Commands) /\ Len(r) = Len(p) + Len(q)
      /\ \A i \in 1..Len(p) : r[i] = p[i]
      /\ \A i \in 1..Len(q) : r[Len(p) + i] = q[i]
  OBVIOUS
<1>2. /\ Len(p) \in Nat /\ Len(q) \in Nat
      /\ \A i \in 1..Len(p) : i \in 1..(Len(p) + Len(q))
      /\ \A i \in 1..Len(q) : Len(p) + i \in 1..(Len(p) + Len(q))
      /\ \A i \in 1..(Len(p) + Len(q)) : i \in 1..Len(p) \/ \E j \in 1..Len(q) : i = Len(p) + j
  <2>1. \A i \in 1..(Len(p) + Len(q)) : i \notin 1..Len(p) =>
          i - Len(p) \in 1..Len(q) /\ i = Len(p) + (i - Len(p))
    OBVIOUS
  <2>2. ASSUME NEW i \in 1..(Len(p) + Len(q)), i \notin 1..Len(p)
        PROVE  \E j \in 1..Len(q) : i = Len(p) + j
    <3>1. i - Len(p) \in 1..Len(q) /\ i = Len(p) + (i - Len(p))
      BY <2>1, <2>2
    <3>2. PICK j \in 1..Len(q) : j = i - Len(p)
      BY <3>1
    <3> QED
      BY <3>1, <3>2
  <2> QED
    BY <2>2
<1> HIDE DEF r
<1>3. \A i \in 1..Len(p) : i \in Works(r) <=> i \in Works(p)
  BY <1>1, <1>2 DEF Works
<1>4. \A i \in 1..Len(q) : Len(p) + i \in Works(r) <=> i \in Works(q)
  BY <1>1, <1>2 DEF Works
<1>5. \A i \in Works(r) : i \in Works(p) \/ \E j \in Works(q) : i = Len(p) + j
  BY <1>1, <1>2, <1>3, <1>4 DEF Works
<1>6. Works(r) = {} <=> Works(p) = {} /\ Works(q) = {}
  BY <1>3, <1>4, <1>5 DEF Works
<1>7. Unique(p) /\ Works(q) = {} => Unique(r)
  BY <1>5 DEF Unique
<1>8. Unique(q) /\ Works(p) = {} => Unique(r)
  BY <1>5 DEF Unique
<1>9. Fitting(p) /\ Fitting(q) => Fitting(r)
  <2>1. \A i \in 1..Len(r) : (i \in 1..Len(p) /\ r[i] = p[i])
                            \/ \E j \in 1..Len(q) : r[i] = q[j]
    <3> TAKE i \in 1..Len(r)
    <3>1. CASE i \in 1..Len(p)
      BY <1>1, <3>1
    <3>2. CASE i \notin 1..Len(p)
      <4>1. PICK j \in 1..Len(q) : i = Len(p) + j
        BY <1>1, <1>2, <3>2
      <4>2. r[i] = q[j]
        BY <1>1, <4>1
      <4> QED
        BY <4>2
    <3> QED
      BY <3>1, <3>2
  <2>2. ASSUME Fitting(p), Fitting(q), NEW i \in 1..Len(r)
        PROVE  /\ r[i] = "STOR" => job.op = "STOR"
               /\ r[i] \in {"LIST", "RETR"} => job.op # "STOR"
    <3>1. CASE r[i] = p[i] /\ i \in 1..Len(p)
      BY <2>2, <3>1 DEF Fitting
    <3>2. ASSUME NEW j \in 1..Len(q), r[i] = q[j]
          PROVE  /\ r[i] = "STOR" => job.op = "STOR"
                 /\ r[i] \in {"LIST", "RETR"} => job.op # "STOR"
      BY <2>2, <3>2 DEF Fitting
    <3> QED
      BY <2>1, <3>1, <3>2
  <2> QED
    BY <2>2 DEF Fitting
<1> QED
  BY <1>1, <1>6, <1>7, <1>8, <1>9 DEF r

LEMMA Popped ==
  ASSUME NEW q \in Seq(Commands), q # <<>>
  PROVE  /\ Head(q) \in Commands /\ Tail(q) \in Seq(Commands)
         /\ Head(q) \in Work => Works(q) # {}
         /\ Works(q) = {} => Works(Tail(q)) = {}
         /\ Unique(q) => Unique(Tail(q)) /\ (Head(q) \in Work => Works(Tail(q)) = {})
         /\ Fitting(q) => Fitting(Tail(q)) /\ (Head(q) = "STOR" => job.op = "STOR")
                          /\ (Head(q) \in {"LIST", "RETR"} => job.op # "STOR")
<1> DEFINE p == Tail(q)
<1>1. /\ Len(q) \in Nat /\ 1 \in 1..Len(q) /\ Head(q) = q[1] /\ Head(q) \in Commands
      /\ p \in Seq(Commands) /\ Len(p) = Len(q) - 1 /\ \A i \in 1..Len(p) : p[i] = q[i + 1]
  OBVIOUS
<1>2. \A i \in 1..(Len(q) - 1) : i + 1 \in 1..Len(q) /\ i + 1 # 1
  BY <1>1
<1> HIDE DEF p
<1>3. \A i \in Works(p) : i + 1 \in Works(q) /\ i + 1 # 1 /\ i \in Nat
  BY <1>1, <1>2 DEF Works
<1>4. Head(q) \in Work => 1 \in Works(q)
  BY <1>1 DEF Works
<1>5. Unique(q) => Unique(p)
  <2>1. \A i, j \in Works(p) : i + 1 = j + 1 => i = j
    BY <1>3
  <2> QED
    BY <1>3, <2>1 DEF Unique
<1>6. Unique(q) /\ Head(q) \in Work => Works(p) = {}
  BY <1>3, <1>4 DEF Unique
<1>7. Fitting(q) => Fitting(p)
  BY <1>1, <1>2 DEF Fitting
<1>8. Fitting(q) => /\ Head(q) = "STOR" => job.op = "STOR"
                    /\ Head(q) \in {"LIST", "RETR"} => job.op # "STOR"
  BY <1>1 DEF Fitting
<1> QED
  BY <1>1, <1>3, <1>4, <1>5, <1>6, <1>7, <1>8 DEF p

--------------------------------------------------------------------------------
(* What a callback sends.  "from" is the state of the session it was called in. *)

\* The states of a session that has not yet sent its command of Work.
Early == {"CLOSED", "CONNECTED", "USER_SENT", "PASS_SENT", "RNFR_SENT", "CWD_SENT",
          "TYPE_SENT", "PASV_SENT", "REST_SENT"}
Late == States \ (Early \cup {"LIST_SENT", "RETR_SENT", "STOR_SENT"})

Thrifty(V, from) ==
  /\ V \in Working /\ Role(V.s)
  /\ Unique(V.out) /\ Fitting(V.out)
  /\ Works(V.out) # {} => from \in Early /\ (V.s.cs \notin Early \/ V.s.cpcb = None)
  /\ V.s.cs \in Early /\ V.s.cpcb # None => from \in Early
  /\ IF V.put THEN job.op = "STOR" /\ V.src + 1 <= job.src ELSE V.src <= job.src

\* Nothing is sent or written yet, and the session may still send its command.
Blank(W, from) == Thrifty(W, from) /\ W.out = <<>> /\ ~W.put /\ from \in Early

LEMMA LateFacts ==
  /\ {"LOGGED", "RNTO_SENT", "MKD_SENT", "RMD_SENT", "DELE_SENT", "ABOR_SENT", "XFERING",
      "DATAEND", "QUIT", "QUIT_SENT", "CLOSING"} \subseteq Late
  /\ Late \subseteq States /\ Late \cap Early = {}
  /\ \A x \in Late : x \notin {"TYPE_SENT", "PASV_SENT", "LIST_SENT", "RETR_SENT",
                               "REST_SENT", "STOR_SENT"}
  BY DEF Late, States, Early

LEMMA CommandFacts ==
  /\ Work \subseteq Commands /\ "STOR" \in Work /\ "LIST" \in Work /\ "RETR" \in Work
  /\ {"USER", "PASS", "TYPE", "PASV", "REST", "RNFR", "CWD", "ABOR", "QUIT"}
       \subseteq Commands \ Work
  BY DEF Work, Performs, Commands

LEMMA EmptyFacts == Works(<<>>) = {} /\ Unique(<<>>) /\ Fitting(<<>>) /\ <<>> \in Seq(Commands)
  BY DEF Works, Unique, Fitting

\* V is W in state x, but for what V sends.
Turned(V, W, x) ==
  /\ V \in Working /\ V.s = [W.s EXCEPT !.cs = x] /\ V.s.cs = x
  /\ V.s.target = W.s.target /\ V.s.cpcb = W.s.cpcb /\ V.s.dpcb = W.s.dpcb
  /\ V.s.done = W.s.done /\ V.s.io = W.s.io
  /\ V.shut = W.shut /\ V.syn = W.syn /\ V.put = W.put
  /\ V.src = W.src /\ V.fresh = W.fresh /\ V.ok = W.ok /\ V.bad = W.bad

LEMMA GotoFacts ==
  ASSUME NEW W \in Working, NEW x \in States
  PROVE  Turned(Goto(W, x), W, x) /\ Goto(W, x).out = W.out
BY DEF Goto, Working, Session, Turned

LEMMA SayFacts ==
  ASSUME NEW W \in Working, NEW cmd \in Commands, NEW x \in States
  PROVE  Turned(Say(W, cmd, x), W, x) /\ Say(W, cmd, x).out = Append(W.out, cmd)
BY Appended DEF Say, Working, Session, Turned

LEMMA GotoThrifty ==
  ASSUME NEW W, NEW from, Thrifty(W, from), NEW x \in Late
  PROVE  Thrifty(Goto(W, x), from)
<1>1. W \in Working /\ x \in States /\ x \notin Early
  BY LateFacts DEF Thrifty
<1> DEFINE V == Goto(W, x)
<1>2. Turned(V, W, x) /\ V.out = W.out
  BY <1>1, GotoFacts
<1> HIDE DEF V
<1>3. Role(W.s)
  BY DEF Thrifty
<1>4. Role(V.s)
  BY <1>2, <1>3, LateFacts DEF Role, Turned
<1>5. Thrifty(V, from)
  BY <1>1, <1>2, <1>4 DEF Thrifty, Turned
<1> QED
  BY <1>5 DEF V

\* A command that asks the server for nothing.
LEMMA SayThrifty ==
  ASSUME NEW W, NEW from, Thrifty(W, from), NEW cmd \in {"ABOR", "QUIT"}, NEW x \in Late
  PROVE  Thrifty(Say(W, cmd, x), from)
<1>1. W \in Working /\ x \in States /\ x \notin Early /\ cmd \in Commands /\ cmd \notin Work
  BY LateFacts, CommandFacts DEF Thrifty
<1>2. W.out \in Seq(Commands)
  BY <1>1 DEF Working
<1> DEFINE V == Say(W, cmd, x)
<1>6. Turned(V, W, x) /\ V.out = Append(W.out, cmd)
  BY <1>1, SayFacts
<1> HIDE DEF V
<1>7. Role(W.s)
  BY DEF Thrifty
<1>3. Role(V.s)
  BY <1>6, <1>7, LateFacts DEF Role, Turned
<1>4. /\ Works(Append(W.out, cmd)) = Works(W.out)
      /\ Fitting(W.out) => Fitting(Append(W.out, cmd))
  BY <1>1, <1>2, Appended
<1>5. Unique(Append(W.out, cmd))
  BY <1>4 DEF Thrifty, Unique
<1>8. Thrifty(V, from)
  BY <1>1, <1>3, <1>4, <1>5, <1>6 DEF Thrifty, Turned
<1> QED
  BY <1>8 DEF V

\* The first command of a callback.
LEMMA SayBlank ==
  ASSUME NEW W, NEW from, Blank(W, from), NEW cmd \in Commands, NEW x \in States,
         cmd \in Work => x \notin Early, Role([W.s EXCEPT !.cs = x]),
         cmd = "STOR" => job.op = "STOR", cmd \in {"LIST", "RETR"} => job.op # "STOR"
  PROVE  Thrifty(Say(W, cmd, x), from)
<1>1. W \in Working /\ W.out \in Seq(Commands) /\ W.out = <<>>
  BY DEF Blank, Thrifty, Working
<1>2. /\ cmd \notin Work => Works(Append(W.out, cmd)) = {}
      /\ Unique(Append(W.out, cmd)) /\ Fitting(Append(W.out, cmd))
  BY <1>1, EmptyFacts, Appended
<1> DEFINE V == Say(W, cmd, x)
<1>3. Turned(V, W, x) /\ V.out = Append(W.out, cmd)
  BY <1>1, SayFacts
<1> HIDE DEF V
<1>4. Thrifty(V, from)
  BY <1>2, <1>3 DEF Thrifty, Blank, Turned
<1> QED
  BY <1>4 DEF V

LEMMA CloseThrifty ==
  ASSUME NEW W, NEW from, Thrifty(W, from)
  PROVE  Thrifty(Close(W), from)
  BY SayThrifty, LateFacts DEF Close

LEMMA CloseBadThrifty ==
  ASSUME NEW W, NEW from, Thrifty(W, from)
  PROVE  Thrifty(Close([W EXCEPT !.bad = TRUE]), from)
<1> DEFINE V == [W EXCEPT !.bad = TRUE]
<1>1. Thrifty(V, from)
  BY DEF Thrifty, Working
<1> HIDE DEF V
<1> QED
  BY <1>1, CloseThrifty DEF V

LEMMA ShutFacts ==
  ASSUME NEW W \in Working
  PROVE  LET V == ShutData(W) IN
         /\ V \in Working /\ V.s.cs = W.s.cs /\ V.s.dpcb = None
         /\ V.s.target = W.s.target /\ V.s.cpcb = W.s.cpcb
         /\ V.s.done = W.s.done /\ V.s.io = W.s.io
         /\ V.shut = W.shut \cup ({W.s.dpcb} \ {None})
         /\ V.out = W.out /\ V.syn = W.syn /\ V.put = W.put
         /\ V.src = W.src /\ V.fresh = W.fresh /\ V.ok = W.ok /\ V.bad = W.bad
<1>1. CASE W.s.dpcb = None
  BY <1>1 DEF ShutData
<1>2. CASE W.s.dpcb # None
  <2>1. W.s.dpcb \in Dat
    BY <1>2 DEF Working, Session
  <2>2. PICK S \in SUBSET (Ctl \cup Dat) : S = W.shut \cup {W.s.dpcb}
    BY <2>1 DEF Working
  <2>3. ShutData(W) = [W EXCEPT !.shut = S, !.s.dpcb = None]
    BY <1>2, <2>2, Zenon DEF ShutData
  <2>4. S = W.shut \cup ({W.s.dpcb} \ {None})
    BY <1>2, <2>2
  <2> DEFINE V == [W EXCEPT !.shut = S, !.s.dpcb = None]
  <2>5. V \in Working /\ V.shut = S /\ V.s = [W.s EXCEPT !.dpcb = None]
    BY DEF Working, Session
  <2>6. /\ V.out = W.out /\ V.syn = W.syn /\ V.put = W.put
        /\ V.src = W.src /\ V.fresh = W.fresh /\ V.ok = W.ok /\ V.bad = W.bad
    BY DEF Working
  <2> HIDE DEF V
  <2>7. /\ V.s.cs = W.s.cs /\ V.s.dpcb = None /\ V.s.target = W.s.target
        /\ V.s.cpcb = W.s.cpcb /\ V.s.done = W.s.done /\ V.s.io = W.s.io
    BY <2>5 DEF Working, Session
  <2> QED
    BY <2>3, <2>4, <2>5, <2>6, <2>7 DEF V
<1> QED
  BY <1>1, <1>2

LEMMA ShutThrifty ==
  ASSUME NEW W, NEW from, Thrifty(W, from)
  PROVE  Thrifty(ShutData(W), from)
<1> DEFINE V == ShutData(W)
<1>1. W \in Working /\ Role(W.s)
  BY DEF Thrifty
<1>2. /\ V \in Working /\ V.s.cs = W.s.cs
      /\ V.s.target = W.s.target /\ V.s.cpcb = W.s.cpcb /\ V.s.done = W.s.done
      /\ V.s.io = W.s.io /\ V.put = W.put /\ V.src = W.src /\ V.out = W.out
  BY <1>1, ShutFacts
<1> HIDE DEF V
<1>3. Role(V.s)
  BY <1>1, <1>2 DEF Role
<1>4. Thrifty(V, from)
  BY <1>2, <1>3 DEF Thrifty
<1> QED
  BY <1>4 DEF V

--------------------------------------------------------------------------------
(* done_fn.                                                                     *)

LEMMA TransferThrifty ==
  ASSUME NEW W, NEW from, Blank(W, from),
         NEW target \in {"LIST_SENT", "REST_SENT", "RETR_SENT", "STOR_SENT"},
         NEW io \in {"dir", "write", "media", "read"},
         target = "STOR_SENT" <=> job.op = "STOR", io = "read" => job.op = "STOR",
         io = "write" => job.op = "RETR"
  PROVE  Thrifty(StartTransfer(W, target, io), from)
<1> DEFINE V == [W EXCEPT !.s.done = "QUIT_cb", !.s.io = io]
           Y == Say(V, "TYPE", "TYPE_SENT")
           X == [Y EXCEPT !.s.target = target, !.s.dpcb = V.fresh]
<1>1. W \in Working /\ Thrifty(W, from) /\ Role(W.s)
  BY DEF Blank, Thrifty
<1>2. /\ V \in Working /\ V.s.cs = W.s.cs /\ V.s.target = W.s.target /\ V.s.cpcb = W.s.cpcb
      /\ V.s.done = "QUIT_cb" /\ V.s.io = io
      /\ V.out = W.out /\ V.put = W.put /\ V.src = W.src
  BY <1>1 DEF Working, Session, Dones
<1> HIDE DEF V
<1>3. Role(V.s)
  BY <1>1, <1>2 DEF Role
<1>4. Thrifty(V, from)
  BY <1>1, <1>2, <1>3 DEF Thrifty
<1>5. Turned(Y, V, "TYPE_SENT") /\ Y.out = Append(V.out, "TYPE")
  BY <1>2, SayFacts DEF States, Commands
<1> HIDE DEF Y
<1>6. Y \in Working /\ V.fresh \in Dat \cup {None} /\ target \in States
  BY <1>2, <1>5 DEF Turned, Working, States
<1>7. /\ X \in Working /\ X.s.cs = Y.s.cs /\ X.s.target = target /\ X.s.cpcb = Y.s.cpcb
      /\ X.s.done = Y.s.done /\ X.s.io = Y.s.io
      /\ X.out = Y.out /\ X.put = Y.put /\ X.src = Y.src
  BY <1>6 DEF Working, Session
<1> HIDE DEF X
<1>8. Role(X.s)
  BY <1>2, <1>5, <1>7 DEF Role, Turned, Verb
<1>9. Works(X.out) = {} /\ Unique(X.out) /\ Fitting(X.out)
  <2>1. X.out = Append(<<>>, "TYPE") /\ "TYPE" \in Commands /\ "TYPE" \notin Work
    BY <1>2, <1>5, <1>7, CommandFacts DEF Blank
  <2>2. /\ Works(Append(<<>>, "TYPE")) = {} /\ Unique(Append(<<>>, "TYPE"))
        /\ Fitting(Append(<<>>, "TYPE"))
    BY <2>1, EmptyFacts, Appended
  <2> QED
    BY <2>1, <2>2
<1>10. Thrifty(X, from)
  BY <1>1, <1>2, <1>5, <1>7, <1>8, <1>9 DEF Thrifty, Blank, Turned
<1>11. Thrifty(Close([V EXCEPT !.bad = TRUE]), from)
  BY <1>4, CloseBadThrifty
<1>12. StartTransfer(W, target, io) \in {Close([V EXCEPT !.bad = TRUE]), X}
  BY DEF StartTransfer, V, X, Y
<1> QED
  BY <1>10, <1>11, <1>12

LEMMA DoneOf ==
  ASSUME NEW W, NEW from, Thrifty(W, from), NEW done \in {"QUIT_cb", "LIST_cb"},
         done = "LIST_cb" => job.op = "CWD"
  PROVE  Thrifty([W EXCEPT !.s.done = done], from)
<1> DEFINE V == [W EXCEPT !.s.done = done]
<1>1. W \in Working /\ Role(W.s)
  BY DEF Thrifty
<1>2. /\ V \in Working /\ V.s.cs = W.s.cs /\ V.s.target = W.s.target /\ V.s.cpcb = W.s.cpcb
      /\ V.s.done = done /\ V.s.io = W.s.io
      /\ V.out = W.out /\ V.put = W.put /\ V.src = W.src
  BY <1>1 DEF Working, Session, Dones
<1> HIDE DEF V
<1>3. Role(V.s)
  BY <1>1, <1>2 DEF Role
<1>4. Thrifty(V, from)
  BY <1>2, <1>3 DEF Thrifty
<1> QED
  BY <1>4 DEF V

LEMMA StartThrifty ==
  ASSUME NEW W, NEW from, Blank(W, from), job.op \in AllJobs
  PROVE  Thrifty(StartOp(W), from)
<1>1. Role(W.s) /\ W.s \in Session
  BY DEF Blank, Thrifty, Working
<1>2. CASE job.op \in Simple
  <2>1. PICK op \in Simple : op = job.op
    BY <1>2
  <2>2. PICK x \in {"MKD_SENT", "RMD_SENT", "DELE_SENT", "RNFR_SENT"} : x = SimpleState[op]
    BY DEF Simple, SimpleState
  <2>3. op \in Commands /\ op \notin {"STOR", "LIST", "RETR"} /\ x \in States
    BY DEF Simple, Commands, States
  <2>4. op \in Work => x \notin Early
    BY <2>2 DEF Simple, SimpleState, Work, Performs, Early
  <2>5. Role([W.s EXCEPT !.cs = x])
    BY <1>1 DEF Role, Session
  <2>6. Thrifty(Say(W, op, x), from)
    BY <2>3, <2>4, <2>5, SayBlank
  <2>7. StartOp(W) = [Say(W, op, x) EXCEPT !.s.done = "QUIT_cb"]
    BY <1>2, <2>1, <2>2 DEF StartOp, Simple
  <2> DEFINE V == Say(W, op, x)
  <2> HIDE DEF V
  <2>8. Thrifty([V EXCEPT !.s.done = "QUIT_cb"], from)
    BY <2>6, DoneOf DEF V
  <2> QED
    BY <2>7, <2>8 DEF V
<1>3. CASE job.op = "CWD"
  <2>1. "CWD" \in Commands /\ "CWD" \notin Work /\ "CWD_SENT" \in States
    BY DEF Commands, Work, Performs, States
  <2>2. Role([W.s EXCEPT !.cs = "CWD_SENT"])
    BY <1>1 DEF Role, Session
  <2>3. Thrifty(Say(W, "CWD", "CWD_SENT"), from)
    BY <2>1, <2>2, SayBlank
  <2>4. StartOp(W) = [Say(W, "CWD", "CWD_SENT") EXCEPT !.s.done = "LIST_cb"]
    BY <1>3 DEF StartOp, Simple
  <2> DEFINE V == Say(W, "CWD", "CWD_SENT")
  <2> HIDE DEF V
  <2>5. Thrifty([V EXCEPT !.s.done = "LIST_cb"], from)
    BY <1>3, <2>3, DoneOf DEF V
  <2> QED
    BY <2>4, <2>5 DEF V
<1>4. CASE job.op = "RETR"
  BY <1>4, TransferThrifty DEF StartOp, Simple
<1>5. CASE job.op = "MEDIA"
  BY <1>5, TransferThrifty DEF StartOp, Simple
<1>6. CASE job.op = "REST"
  BY <1>6, TransferThrifty DEF StartOp, Simple
<1>7. CASE job.op = "STOR"
  BY <1>7, TransferThrifty DEF StartOp, Simple
<1> QED
  BY <1>2, <1>3, <1>4, <1>5, <1>6, <1>7 DEF AllJobs

\* done_fn starts nothing with any other result, or in any other state.
LEMMA DoneQuiet ==
  ASSUME NEW W, NEW from, Thrifty(W, from), NEW result, result # "LOGGED",
         W.s.cs # "CWD_SENT" \/ result # "OK"
  PROVE  Thrifty(Done(W, result), from) /\ Done(W, result) \in {W, Close(W)}
<1>1. W.s.done \in Dones
  BY DEF Thrifty, Working, Session
<1>2. Done(W, result) \in {W, Close(W)}
  BY <1>1 DEF Done, Dones
<1> QED
  BY <1>2, CloseThrifty

LEMMA DoneThrifty ==
  ASSUME NEW W, NEW from, Blank(W, from), NEW result, job.op \in AllJobs
  PROVE  Thrifty(Done(W, result), from)
<1>1. Thrifty(W, from) /\ W \in Working /\ W.s.done \in Dones /\ Role(W.s)
  BY DEF Blank, Thrifty, Working, Session
<1>2. CASE W.s.done = "op"
  BY <1>1, <1>2, StartThrifty, CloseThrifty DEF Done
<1>3. CASE W.s.done = "LIST_cb"
  <2>1. job.op = "CWD"
    BY <1>1, <1>3 DEF Role
  <2>2. Thrifty(Goto(W, "LOGGED"), from)
    BY <1>1, GotoThrifty, LateFacts
  <2>3. Goto(W, "LOGGED").out = W.out /\ Turned(Goto(W, "LOGGED"), W, "LOGGED")
    BY <1>1, GotoFacts, LateFacts
  <2>4. Blank(Goto(W, "LOGGED"), from)
    BY <2>2, <2>3 DEF Blank, Turned
  <2>5. Thrifty(StartTransfer(Goto(W, "LOGGED"), "LIST_SENT", "dir"), from)
    BY <2>1, <2>4, TransferThrifty
  <2> QED
    BY <1>1, <1>3, <2>5 DEF Done
<1>4. CASE W.s.done \in {"QUIT_cb", "none"}
  BY <1>1, <1>4, CloseThrifty DEF Done
<1> QED
  BY <1>1, <1>2, <1>3, <1>4 DEF Dones

--------------------------------------------------------------------------------
(* The rest of a callback.                                                      *)

LEMMA DataCloseQuiet ==
  ASSUME NEW W, NEW from, Thrifty(W, from), NEW result \in {"OK", "ERR"},
         W.s.cs # "CWD_SENT"
  PROVE  Thrifty(DataClose(W, result), from)
<1>1. Thrifty(ShutData(W), from) /\ ShutData(W).s.cs = W.s.cs
  BY ShutThrifty, ShutFacts DEF Thrifty
<1> QED
  BY <1>1, DoneQuiet DEF DataClose

LEMMA DataCloseThrifty ==
  ASSUME NEW W, NEW from, Thrifty(W, from), NEW result \in {"OK", "ERR"},
         W.s.cs = "CWD_SENT" => Blank(W, from), job.op \in AllJobs
  PROVE  Thrifty(DataClose(W, result), from)
<1>1. CASE W.s.cs = "CWD_SENT"
  <2>1. Thrifty(ShutData(W), from) /\ W \in Working
    BY ShutThrifty DEF Thrifty
  <2>2. ShutData(W).out = W.out /\ ShutData(W).put = W.put
    BY <2>1, ShutFacts
  <2>3. Blank(ShutData(W), from)
    BY <1>1, <2>1, <2>2 DEF Blank
  <2> QED
    BY <2>3, DoneThrifty DEF DataClose
<1>2. CASE W.s.cs # "CWD_SENT"
  BY <1>2, DataCloseQuiet
<1> QED
  BY <1>1, <1>2

LEMMA ControlCloseThrifty ==
  ASSUME NEW W, NEW from, Thrifty(W, from), NEW result \in {"OK", "ERR"}
  PROVE  /\ Thrifty(ControlClose(W, result), from)
         /\ ControlClose(W, result).s.cpcb = None
         /\ ControlClose(W, result).s.dpcb = None
         /\ ControlClose(W, result).out = W.out
         /\ ControlClose(W, result).put = W.put
         /\ ControlClose(W, result).bad = W.bad
<1> DEFINE V == ShutData(W)
           U == IF V.s.cpcb = None THEN V
                ELSE [V EXCEPT !.shut = @ \cup {V.s.cpcb}, !.s.cpcb = None]
           Y == Goto(U, "CLOSED")
<1>1. Thrifty(V, from) /\ V \in Working /\ V.s.dpcb = None /\ V.out = W.out
      /\ V.put = W.put /\ V.bad = W.bad
  BY ShutThrifty, ShutFacts DEF Thrifty
<1> HIDE DEF V
<1>2. /\ U \in Working /\ U.s.cs = V.s.cs /\ U.s.target = V.s.target /\ U.s.cpcb = None
      /\ U.s.dpcb = None /\ U.s.done = V.s.done /\ U.s.io = V.s.io
      /\ U.out = V.out /\ U.put = V.put /\ U.src = V.src /\ U.bad = V.bad
  <2>1. CASE V.s.cpcb = None
    BY <1>1, <2>1
  <2>2. CASE V.s.cpcb # None
    <3> DEFINE S == V.shut \cup {V.s.cpcb}
               T == [V EXCEPT !.shut = S, !.s.cpcb = None]
    <3>1. S \in SUBSET (Ctl \cup Dat)
      BY <1>1, <2>2 DEF Working, Session
    <3>2. U = T
      BY <2>2
    <3> HIDE DEF S
    <3>3. T \in Working /\ T.s = [V.s EXCEPT !.cpcb = None]
      BY <1>1, <3>1 DEF Working, Session
    <3>4. T.out = V.out /\ T.put = V.put /\ T.src = V.src /\ T.bad = V.bad
      BY <1>1 DEF Working
    <3> HIDE DEF T, U
    <3>5. /\ T.s.cs = V.s.cs /\ T.s.target = V.s.target /\ T.s.cpcb = None
          /\ T.s.dpcb = None /\ T.s.done = V.s.done /\ T.s.io = V.s.io
      BY <1>1, <3>3 DEF Working, Session
    <3> QED
      BY <3>2, <3>3, <3>4, <3>5
  <2> QED
    BY <2>1, <2>2
<1> HIDE DEF U
<1>3. Turned(Y, U, "CLOSED") /\ Y.out = U.out
  BY <1>2, GotoFacts DEF States
<1> HIDE DEF Y
<1>4. Role(Y.s)
  <2>1. Role(V.s)
    BY <1>1 DEF Thrifty
  <2> QED
    BY <1>2, <1>3, <2>1 DEF Role, Turned
<1>5. Thrifty(Y, from)
  BY <1>1, <1>2, <1>3, <1>4 DEF Thrifty, Turned
<1>6. Thrifty(Done(Y, result), from) /\ Done(Y, result) \in {Y, Close(Y)}
  BY <1>3, <1>5, DoneQuiet DEF Turned
<1>7. Close(Y) = Y
  BY <1>3 DEF Close, Turned
<1>8. ControlClose(W, result) = Done(Y, result)
  BY DEF ControlClose, Y, U, V
<1>9. ControlClose(W, result) = Y
  BY <1>6, <1>7, <1>8
<1>10. /\ Y.s.cpcb = None /\ Y.s.dpcb = None /\ Y.out = W.out /\ Y.put = W.put /\ Y.bad = W.bad
  BY <1>1, <1>2, <1>3 DEF Turned
<1> QED
  BY <1>5, <1>9, <1>10

LEMMA SendNextThrifty ==
  ASSUME NEW W, NEW from, Thrifty(W, from), ~W.put, job \in Task
  PROVE  Thrifty(SendNext(W), from)
<1>1. W \in Working /\ Role(W.s)
  BY DEF Thrifty
<1>3. CASE W.src > 0 /\ W.s.io = "read"
  <2>0. PICK taken \in BOOLEAN, bad \in BOOLEAN :
          taken = (W.ok /\ W.s.dpcb # None) /\ bad = (W.bad \/ ~taken)
    BY <1>1 DEF Working
  <2> DEFINE V == [W EXCEPT !.src = W.src - 1, !.put = taken, !.bad = bad]
  <2>1. W.src \in Nat /\ W.src - 1 \in Nat /\ job.src \in Nat
    BY <1>1, <1>3 DEF Working, Task
  <2>2. /\ V \in Working /\ V.s = W.s /\ V.out = W.out /\ V.src = W.src - 1 /\ V.put = taken
    BY <1>1, <2>1 DEF Working
  <2>3. SendNext(W) = V
    BY <1>3, <2>0, Zenon DEF SendNext
  <2> HIDE DEF V
  <2>4. job.op = "STOR" /\ W.src <= job.src
    BY <1>1, <1>3 DEF Role, Thrifty
  <2>5. (W.src - 1) + 1 <= job.src /\ W.src - 1 <= job.src
    BY <2>1, <2>4
  <2> QED
    BY <1>1, <2>2, <2>3, <2>4, <2>5 DEF Thrifty
<1>4. CASE ~(W.src > 0 /\ W.s.io = "read")
  BY <1>4, ShutThrifty DEF SendNext
<1> QED
  BY <1>3, <1>4

LEMMA AbortThrifty ==
  ASSUME NEW W, NEW from, Thrifty(W, from)
  PROVE  Thrifty(Abort(W), from)
<1>1. W \in Working
  BY DEF Thrifty
<1>2. Thrifty(Say(W, "ABOR", "ABOR_SENT"), from)
      /\ Say(W, "ABOR", "ABOR_SENT").s.cs = "ABOR_SENT"
  <2>1. "ABOR" \in Commands /\ "ABOR_SENT" \in States /\ "ABOR_SENT" \in Late
    BY CommandFacts, LateFacts
  <2>2. Turned(Say(W, "ABOR", "ABOR_SENT"), W, "ABOR_SENT")
    BY <1>1, <2>1, SayFacts
  <2> QED
    BY <2>1, <2>2, SayThrifty DEF Turned
<1>3. Thrifty(Done(Say(W, "ABOR", "ABOR_SENT"), "INPROGRESS"), from)
  BY <1>2, DoneQuiet
<1>4. Thrifty(Done(W, "ERR"), from)
  BY DoneQuiet
<1> QED
  BY <1>3, <1>4 DEF Abort

LEMMA SinkThrifty ==
  ASSUME NEW W, NEW from, Thrifty(W, from)
  PROVE  Thrifty(Sink(W)[1], from) /\ Sink(W)[2] \in BOOLEAN
<1>1. Thrifty(Abort(W), from) /\ Thrifty(Close([W EXCEPT !.bad = TRUE]), from)
  BY AbortThrifty, CloseBadThrifty
<1>2. CASE W.s.io = "write"
  BY <1>1, <1>2 DEF Sink
<1>3. CASE W.s.io # "write"
  BY <1>1, <1>3 DEF Sink
<1> QED
  BY <1>2, <1>3

--------------------------------------------------------------------------------
(* lwftp_control_process.                                                       *)

\* A callback that has sent nothing yet.
Entered(W) ==
  /\ Thrifty(W, W.s.cs) /\ W.out = <<>> /\ ~W.put /\ W.s.cpcb # None
  /\ job \in Task /\ job.op \in AllJobs

Answered(X, from) == Thrifty(X[1], from) /\ X[2] \in {"OK", "ERR"}

LEMMA OnReplyThrifty ==
  ASSUME NEW W, Entered(W), NEW r
  PROVE  Answered(OnReply(W, r), W.s.cs)
<1>1. PICK cs : cs = W.s.cs
  OBVIOUS
<1>2. W \in Working /\ Thrifty(W, cs) /\ Role(W.s) /\ cs \in States /\ W.s \in Session
  BY <1>1 DEF Entered, Thrifty, Working, Session
<1>3. cs \in Early => Blank(W, cs)
  BY <1>1 DEF Entered, Blank
<1>4. \A x \in Late : Answered(<<Goto(W, x), "ERR">>, cs)
  BY <1>2, GotoThrifty DEF Answered
<1>5. cs \in DOMAIN NextCommand => Answered(OnReply(W, r), cs)
  <2> SUFFICES ASSUME cs \in DOMAIN NextCommand PROVE Answered(OnReply(W, r), cs)
    OBVIOUS
  <2>1. cs \in {"CONNECTED", "USER_SENT", "RNFR_SENT", "TYPE_SENT"}
    BY DEF NextCommand
  <2>2. Blank(W, cs)
    BY <1>3, <2>1 DEF Early
  <2>3. PICK cmd, x : cmd = NextCommand[cs][2] /\ x = NextCommand[cs][3]
    OBVIOUS
  <2>4. /\ cmd \in {"USER", "PASS", "RNTO", "PASV"}
        /\ x \in {"USER_SENT", "PASS_SENT", "RNTO_SENT", "PASV_SENT"}
        /\ cmd = "RNTO" <=> x = "RNTO_SENT"
        /\ x = "PASV_SENT" <=> cs = "TYPE_SENT"
    BY <2>1, <2>3 DEF NextCommand
  <2>5. /\ cmd \in Commands /\ x \in States /\ cmd \notin {"STOR", "LIST", "RETR"}
        /\ cmd \in Work => x \notin Early
    BY <2>4 DEF Commands, States, Work, Performs, Early
  <2>6. Role([W.s EXCEPT !.cs = x])
    BY <1>1, <1>2, <2>4 DEF Role, Session
  <2>7. Thrifty(Say(W, cmd, x), cs)
    BY <2>2, <2>5, <2>6, SayBlank
  <2>8. OnReply(W, r) = <<IF r = NextCommand[cs][1] THEN Say(W, cmd, x) ELSE Goto(W, "QUIT"),
                          "ERR">>
    BY <1>1, <2>1, <2>3 DEF OnReply, NextCommand, Completes
  <2> QED
    BY <1>4, <2>7, <2>8, LateFacts DEF Answered
<1>6. cs \in DOMAIN Completes => Answered(OnReply(W, r), cs)
  <2> SUFFICES ASSUME cs \in DOMAIN Completes PROVE Answered(OnReply(W, r), cs)
    OBVIOUS
  <2>1. cs = "PASS_SENT" => Thrifty(Done(Goto(W, "LOGGED"), "LOGGED"), cs)
    <3> SUFFICES ASSUME cs = "PASS_SENT" PROVE Thrifty(Done(Goto(W, "LOGGED"), "LOGGED"), cs)
      OBVIOUS
    <3>1. Blank(W, cs)
      BY <1>3 DEF Early
    <3>2. Thrifty(Goto(W, "LOGGED"), cs)
      BY <1>2, GotoThrifty, LateFacts
    <3>3. Turned(Goto(W, "LOGGED"), W, "LOGGED") /\ Goto(W, "LOGGED").out = W.out
      BY <1>2, GotoFacts, LateFacts
    <3>4. Blank(Goto(W, "LOGGED"), cs)
      BY <3>1, <3>2, <3>3 DEF Blank, Turned
    <3> QED
      BY <3>4, DoneThrifty DEF Entered
  <2>2. Thrifty(Done(W, "OK"), cs)
    <3>1. CASE cs = "CWD_SENT"
      BY <1>3, <3>1, DoneThrifty DEF Early, Entered
    <3>2. CASE cs # "CWD_SENT"
      BY <1>1, <1>2, <3>2, DoneQuiet
    <3> QED
      BY <3>1, <3>2
  <2>3. OnReply(W, r) = <<IF r # Completes[cs] THEN Goto(W, "QUIT")
                          ELSE IF cs = "PASS_SENT" THEN Done(Goto(W, "LOGGED"), "LOGGED")
                          ELSE Done(W, "OK"), "ERR">>
    BY <1>1 DEF OnReply, NextCommand, Completes
  <2> QED
    BY <1>4, <2>1, <2>2, <2>3, LateFacts DEF Answered
<1>7. cs = "PASV_SENT" => Answered(OnReply(W, r), cs)
  <2> SUFFICES ASSUME cs = "PASV_SENT" PROVE Answered(OnReply(W, r), cs)
    OBVIOUS
  <2>1. Blank(W, cs)
    BY <1>3 DEF Early
  <2>2. PICK x \in DOMAIN Verb : x = W.s.target
    BY <1>1, <1>2 DEF Role
  <2>3. PICK cmd : cmd = Verb[x]
    OBVIOUS
  <2>4. /\ cmd \in Commands /\ x \in States /\ (cmd \in Work => x \notin Early)
        /\ cmd = "STOR" <=> x = "STOR_SENT"
        /\ cmd \in {"LIST", "RETR"} => x \in {"LIST_SENT", "RETR_SENT"}
        /\ x \notin {"TYPE_SENT", "PASV_SENT"}
    BY <2>2, <2>3 DEF Verb, Commands, States, Work, Performs, Early
  <2>5. /\ x = "STOR_SENT" => job.op = "STOR"
        /\ x \in {"LIST_SENT", "RETR_SENT", "REST_SENT"} => job.op # "STOR"
    BY <1>2, <2>2 DEF Role
  <2>6. Role([W.s EXCEPT !.cs = x])
    BY <1>2, <2>2, <2>4, <2>5 DEF Role, Session
  <2> DEFINE V == Say(W, cmd, x)
             U == [V EXCEPT !.syn = W.s.dpcb # None /\ W.ok, !.bad = @ \/ ~W.ok]
  <2>7. Thrifty(V, cs)
    BY <2>1, <2>4, <2>5, <2>6, SayBlank
  <2> HIDE DEF V
  <2>8. V \in Working /\ (W.s.dpcb # None /\ W.ok) \in BOOLEAN /\ (V.bad \/ ~W.ok) \in BOOLEAN
    BY <1>2, <2>7 DEF Thrifty, Working
  <2>9. U \in Working /\ U.s = V.s /\ U.out = V.out /\ U.put = V.put /\ U.src = V.src
    BY <2>8 DEF Working
  <2> HIDE DEF U
  <2>10. Thrifty(U, cs)
    BY <2>7, <2>9 DEF Thrifty
  <2>11. OnReply(W, r) = <<IF r = "227" THEN U ELSE Goto(W, "QUIT"), "ERR">>
    BY <1>1, <2>2, <2>3 DEF OnReply, NextCommand, Completes, U, V
  <2> QED
    BY <1>4, <2>10, <2>11, LateFacts DEF Answered
<1>8. cs = "REST_SENT" => Answered(OnReply(W, r), cs)
  <2> SUFFICES ASSUME cs = "REST_SENT" PROVE Answered(OnReply(W, r), cs)
    OBVIOUS
  <2>1. Blank(W, cs) /\ job.op # "STOR"
    BY <1>1, <1>2, <1>3 DEF Early, Role
  <2>2. "RETR" \in Commands /\ "RETR_SENT" \in States /\ "RETR_SENT" \notin Early
    BY DEF Commands, States, Early
  <2>3. Role([W.s EXCEPT !.cs = "RETR_SENT"])
    BY <1>2, <2>1 DEF Role, Session
  <2>4. Thrifty(Say(W, "RETR", "RETR_SENT"), cs)
    BY <2>1, <2>2, <2>3, SayBlank
  <2>5. OnReply(W, r) = <<IF r = "350" THEN Say(W, "RETR", "RETR_SENT") ELSE Goto(W, "DATAEND"),
                          "ERR">>
    BY <1>1 DEF OnReply, NextCommand, Completes
  <2> QED
    BY <1>4, <2>4, <2>5, LateFacts DEF Answered
<1>9. cs \in {"LIST_SENT", "RETR_SENT"} => Answered(OnReply(W, r), cs)
  BY <1>1, <1>4, LateFacts DEF OnReply, NextCommand, Completes
<1>10. cs = "STOR_SENT" => Answered(OnReply(W, r), cs)
  <2> SUFFICES ASSUME cs = "STOR_SENT" PROVE Answered(OnReply(W, r), cs)
    OBVIOUS
  <2>1. Thrifty(Goto(W, "XFERING"), cs)
    BY <1>2, GotoThrifty, LateFacts
  <2>2. Turned(Goto(W, "XFERING"), W, "XFERING")
    BY <1>2, GotoFacts, LateFacts
  <2>3. Thrifty(SendNext(Goto(W, "XFERING")), cs)
    BY <2>1, <2>2, SendNextThrifty DEF Entered, Turned
  <2>4. OnReply(W, r) = <<IF r = "150" THEN SendNext(Goto(W, "XFERING"))
                          ELSE Goto(W, "DATAEND"), "ERR">>
    BY <1>1 DEF OnReply, NextCommand, Completes
  <2> QED
    BY <1>4, <2>3, <2>4, LateFacts DEF Answered
<1>11. cs = "XFERING" => Answered(OnReply(W, r), cs)
  <2> SUFFICES ASSUME cs = "XFERING" PROVE Answered(OnReply(W, r), cs)
    OBVIOUS
  <2>1. Thrifty(Goto(W, "DATAEND"), cs)
    BY <1>2, GotoThrifty, LateFacts
  <2>2. OnReply(W, r) = TransferReply(W, r)
    BY <1>1 DEF OnReply, NextCommand, Completes
  <2> QED
    BY <1>2, <2>1, <2>2 DEF TransferReply, Answered
<1>12. cs = "QUIT_SENT" => Answered(OnReply(W, r), cs)
  <2> SUFFICES ASSUME cs = "QUIT_SENT" PROVE Answered(OnReply(W, r), cs)
    OBVIOUS
  <2>1. Thrifty(Goto(W, "CLOSING"), cs)
    BY <1>2, GotoThrifty, LateFacts
  <2>2. OnReply(W, r) = <<Goto(W, "CLOSING"), IF r = "221" THEN "OK" ELSE "ERR">>
    BY <1>1 DEF OnReply, NextCommand, Completes
  <2> QED
    BY <2>1, <2>2 DEF Answered
<1>13. cs \notin DOMAIN NextCommand \cup DOMAIN Completes \cup
               {"PASV_SENT", "REST_SENT", "LIST_SENT", "RETR_SENT", "STOR_SENT",
                "XFERING", "QUIT_SENT"} => Answered(OnReply(W, r), cs)
  BY <1>1, <1>2 DEF OnReply, Answered
<1> QED
  BY <1>1, <1>5, <1>6, <1>7, <1>8, <1>9, <1>10, <1>11, <1>12, <1>13

LEMMA SettleThrifty ==
  ASSUME NEW W, NEW from, Thrifty(W, from), NEW result \in {"OK", "ERR"}
  PROVE  Thrifty(Settle(W, result), from)
<1>1. CASE W.s.cs = "DATAEND"
  <2>1. Thrifty(DataClose(W, result), from)
    BY <1>1, DataCloseQuiet
  <2> QED
    BY <1>1, <2>1, GotoThrifty, LateFacts DEF Settle
<1>2. CASE W.s.cs = "QUIT"
  BY <1>2, SayThrifty, LateFacts DEF Settle
<1>3. CASE W.s.cs = "CLOSING"
  BY <1>3, ControlCloseThrifty DEF Settle
<1> QED
  BY <1>1, <1>2, <1>3 DEF Settle

LEMMA ProcessThrifty ==
  ASSUME NEW W, Entered(W), NEW r
  PROVE  Thrifty(Process(W, r), W.s.cs)
<1>1. Answered(OnReply(W, r), W.s.cs)
  BY OnReplyThrifty
<1> QED
  BY <1>1, SettleThrifty DEF Process, Answered

--------------------------------------------------------------------------------
(* What a session has asked for and moved, under any faults.                    *)

\* A freed pcb has nothing on it, and a data connection the session's control
\* connection beside it.
Clean ==
  /\ \A c \in Ctl : conn[c].st = "free" => conn[c] = FreeConn
  /\ \A d \in Dat : dat[d].st = "free" => dat[d] = FreeDat
  /\ \A d \in Dat : dat[d].ctl # None => dat[d].ctl = s.cpcb
  /\ s.cpcb # None /\ conn[s.cpcb].st = "syn" => s.cs = "CLOSED" /\ s.dpcb = None

\* The command of Work is sent once, and the server does one thing for it.
Asks(K) ==
  /\ Unique(K.cmds) /\ Fitting(K.cmds)
  /\ s.cs \in Early => Works(K.cmds) = {} /\ K.xf = "no" /\ job.did = 0
  /\ Works(K.cmds) # {} => job.did = 0 /\ K.xf # "up"
  /\ K.xf = "up" => job.did = 0 /\ job.op = "STOR"

Stocks ==
  /\ job.did <= 1 /\ job.size <= MaxSize /\ job.got <= job.size
  /\ job.op = "STOR" => job.got + job.src <= job.size /\ \A d \in Dat : dat[d].left = 0
  /\ job.op # "STOR" => job.src = 0 /\ \A d \in Dat : job.got + dat[d].left <= job.size
  /\ s.cpcb # None /\ job.op # "STOR" =>
       (s.cs \in Early \/ Works(conn[s.cpcb].cmds) # {} =>
          job.got = 0 /\ \A d \in Dat : dat[d].left = 0)

Ledger == Role(s) /\ Clean /\ (s.cpcb # None => Asks(conn[s.cpcb])) /\ Stocks

--------------------------------------------------------------------------------
(* Leaving a callback, field by field.                                          *)

ConnLeft(V, C, D) ==
  \A c \in Ctl :
    /\ c \in V.shut => conn'[c] = FreeConn
    /\ c \notin V.shut =>
         /\ conn'[c].st = C[c].st /\ conn'[c].reps = C[c].reps
         /\ conn'[c].xf = C[c].xf /\ conn'[c].bye = C[c].bye
         /\ conn'[c].cmds = IF c = s.cpcb THEN C[c].cmds \o V.out ELSE C[c].cmds
         /\ conn'[c].fin = (C[c].fin \/ \E d \in V.shut \cap Dat : D[d].ctl = c)

DatLeft(V, D) ==
  \A d \in Dat :
    /\ d \in V.shut => dat'[d] = FreeDat
    /\ d \notin V.shut /\ d = V.s.dpcb =>
         /\ dat'[d].left = D[d].left /\ dat'[d].eof = D[d].eof
         /\ dat'[d].st = IF V.syn THEN "syn" ELSE IF D[d].st = "free" THEN "new" ELSE D[d].st
         /\ dat'[d].ctl = IF V.syn THEN s.cpcb ELSE D[d].ctl
         /\ dat'[d].fly = (D[d].fly \/ V.put)
    /\ d \notin V.shut /\ d # V.s.dpcb =>
         /\ dat'[d].left = D[d].left /\ dat'[d].eof = D[d].eof /\ dat'[d].fly = D[d].fly
         /\ dat'[d].st = D[d].st
         /\ dat'[d].ctl = IF D[d].ctl \in V.shut THEN None ELSE D[d].ctl

JobLeft(V, J) ==
  /\ job'.op = J.op /\ job'.waiting = J.waiting /\ job'.size = J.size /\ job'.did = J.did
  /\ job'.src = V.src /\ job'.got = (IF V.put THEN J.got + 1 ELSE J.got)
  /\ job'.bad = (J.bad \/ V.bad)

LEMMA LeaveFacts ==
  ASSUME Typed, NEW V \in Working, NEW C \in [Ctl -> Link], NEW D \in [Dat -> Wire],
         NEW J \in Task, Leave(V, C, D, J), leftover' \subseteq {"RETR", "STOR"}
  PROVE  /\ Typed' /\ s' = V.s
         /\ ConnLeft(V, C, D) /\ DatLeft(V, D) /\ JobLeft(V, J)
<1> DEFINE to == s.cpcb
           Fin(c) == C[c].fin \/ \E d \in V.shut \cap Dat : D[d].ctl = c
           Cmds(c) == IF c = to THEN C[c].cmds \o V.out ELSE C[c].cmds
           Served(c) ==
             IF c \in V.shut THEN FreeConn
             ELSE [C[c] EXCEPT !.cmds = IF c = to THEN @ \o V.out ELSE @,
                               !.fin = @ \/ \E d \in V.shut \cap Dat : D[d].ctl = c]
           Wired(d) ==
             IF d \in V.shut THEN FreeDat
             ELSE IF d = V.s.dpcb
             THEN [D[d] EXCEPT !.st = IF V.syn THEN "syn" ELSE IF @ = "free" THEN "new" ELSE @,
                               !.ctl = IF V.syn THEN to ELSE @,
                               !.fly = @ \/ V.put]
             ELSE [D[d] EXCEPT !.ctl = IF @ \in V.shut THEN None ELSE @]
<1>1. /\ s' = V.s
      /\ conn' = [c \in Ctl |-> Served(c)]
      /\ dat' = [d \in Dat |-> Wired(d)]
      /\ job' = [J EXCEPT !.src = V.src, !.got = IF V.put THEN @ + 1 ELSE @,
                          !.bad = @ \/ V.bad]
  BY DEF Leave
<1>2. s' \in Session /\ s.cpcb \in Ctl \cup {None} /\ V.out \in Seq(Commands)
      /\ V.put \in BOOLEAN /\ V.src \in Nat /\ V.bad \in BOOLEAN /\ V.syn \in BOOLEAN
  BY <1>1 DEF Working, Typed, Session
<1>3. FreeConn \in Link /\ FreeDat \in Wire
  BY DEF FreeConn, FreeDat, Link, Wire
<1>4. ASSUME NEW c \in Ctl
      PROVE  /\ Served(c) \in Link
             /\ c \in V.shut => Served(c) = FreeConn
             /\ c \notin V.shut =>
                  /\ Served(c).st = C[c].st /\ Served(c).reps = C[c].reps
                  /\ Served(c).xf = C[c].xf /\ Served(c).bye = C[c].bye
                  /\ Served(c).cmds = Cmds(c) /\ Served(c).fin = Fin(c)
  <2>1. CASE c \in V.shut
    BY <1>3, <2>1
  <2>2. CASE c \notin V.shut
    <3>1. PICK f \in BOOLEAN : f = Fin(c)
      OBVIOUS
    <3>2. PICK q \in Seq(Commands) : q = Cmds(c)
      <4>1. C[c].cmds \in Seq(Commands)
        BY DEF Link
      <4>2. C[c].cmds \o V.out \in Seq(Commands)
        BY <1>2, <4>1
      <4> QED
        BY <4>1, <4>2
    <3>3. Served(c) = [C[c] EXCEPT !.cmds = q, !.fin = f]
      BY <2>2, <3>1, <3>2, Zenon
    <3>4. C[c] \in Link
      OBVIOUS
    <3> HIDE DEF Served, Fin, Cmds
    <3> QED
      BY <2>2, <3>1, <3>2, <3>3, <3>4 DEF Link
  <2> QED
    BY <2>1, <2>2
<1>5. ASSUME NEW d \in Dat
      PROVE  /\ Wired(d) \in Wire
             /\ d \in V.shut => Wired(d) = FreeDat
             /\ d \notin V.shut /\ d = V.s.dpcb =>
                  /\ Wired(d).left = D[d].left /\ Wired(d).eof = D[d].eof
                  /\ Wired(d).st = IF V.syn THEN "syn"
                                   ELSE IF D[d].st = "free" THEN "new" ELSE D[d].st
                  /\ Wired(d).ctl = IF V.syn THEN s.cpcb ELSE D[d].ctl
                  /\ Wired(d).fly = (D[d].fly \/ V.put)
             /\ d \notin V.shut /\ d # V.s.dpcb =>
                  /\ Wired(d).left = D[d].left /\ Wired(d).eof = D[d].eof
                  /\ Wired(d).fly = D[d].fly /\ Wired(d).st = D[d].st
                  /\ Wired(d).ctl = IF D[d].ctl \in V.shut THEN None ELSE D[d].ctl
  <2>1. CASE d \in V.shut
    BY <1>3, <2>1
  <2>2. CASE d \notin V.shut /\ d = V.s.dpcb
    <3>1. PICK st \in {"free", "new", "syn", "open"} :
            st = IF V.syn THEN "syn" ELSE IF D[d].st = "free" THEN "new" ELSE D[d].st
      BY DEF Wire
    <3>2. PICK ctl \in Ctl \cup {None} : ctl = IF V.syn THEN s.cpcb ELSE D[d].ctl
      BY <1>2 DEF Wire
    <3>3. PICK fly \in BOOLEAN : fly = (D[d].fly \/ V.put)
      OBVIOUS
    <3>4. Wired(d) = [D[d] EXCEPT !.st = st, !.ctl = ctl, !.fly = fly]
      BY <2>2, <3>1, <3>2, <3>3, Zenon
    <3>5. D[d] \in Wire
      OBVIOUS
    <3> HIDE DEF Wired
    <3> QED
      BY <2>2, <3>1, <3>2, <3>3, <3>4, <3>5 DEF Wire
  <2>3. CASE d \notin V.shut /\ d # V.s.dpcb
    BY <1>2, <2>3 DEF Wire
  <2> QED
    BY <2>1, <2>2, <2>3
<1> HIDE DEF Served, Wired
<1>6. conn' \in [Ctl -> Link] /\ ConnLeft(V, C, D)
  <2>1. \A c \in Ctl : conn'[c] = Served(c)
    BY <1>1
  <2>2. conn' \in [Ctl -> Link]
    BY <1>1, <1>4
  <2> QED
    BY <1>4, <2>1, <2>2 DEF ConnLeft
<1>7. dat' \in [Dat -> Wire] /\ DatLeft(V, D)
  <2>1. \A d \in Dat : dat'[d] = Wired(d)
    BY <1>1
  <2>2. dat' \in [Dat -> Wire]
    BY <1>1, <1>5
  <2> QED
    BY <1>5, <2>1, <2>2 DEF DatLeft
<1>8. job' \in Task /\ JobLeft(V, J)
  <2>1. PICK got \in Nat : got = IF V.put THEN J.got + 1 ELSE J.got
    BY DEF Task
  <2>2. PICK bad \in BOOLEAN : bad = (J.bad \/ V.bad)
    OBVIOUS
  <2>3. job' = [J EXCEPT !.src = V.src, !.got = got, !.bad = bad]
    BY <1>1, <2>1, <2>2, Zenon
  <2> QED
    BY <1>2, <2>1, <2>2, <2>3 DEF Task, JobLeft
<1> QED
  BY <1>1, <1>2, <1>6, <1>7, <1>8 DEF Typed

\* What the event that called the callback has left for it, in C, D and J.
Given(V, C, D, J) ==
  /\ \A c \in Ctl : C[c].st # "free" =>
       C[c].st = conn[c].st /\ C[c].cmds = conn[c].cmds /\ C[c].xf = conn[c].xf
  /\ \A c \in Ctl : C[c].st = "free" =>
       C[c] = FreeConn /\ (c = s.cpcb => V.out = <<>>) /\ \A d \in Dat : D[d].ctl # c
  /\ \A d \in Dat : /\ D[d].left <= dat[d].left /\ D[d].ctl \in {None, dat[d].ctl}
                    /\ D[d].st = "free" => D[d] = FreeDat
  /\ J.op = job.op /\ J.size = job.size /\ J.did = job.did
  /\ job.op = "STOR" => J.got = job.got
  /\ job.op # "STOR" => J.got <= job.size /\ \A d \in Dat : J.got + D[d].left <= job.size
  /\ s.cpcb # None /\ job.op # "STOR" =>
       (s.cs \in Early \/ Works(conn[s.cpcb].cmds) # {} => J.got = 0)
  /\ s.cpcb # None /\ conn[s.cpcb].st = "syn" /\ V.s.cpcb # None =>
       V.s.cs = "CLOSED" /\ V.s.dpcb = None

\* The same session, and its control connection with what was sent.
LEMMA LeaveSession ==
  ASSUME Typed, IInv, IInv', NEW V \in Working, NEW C \in [Ctl -> Link],
         NEW D \in [Dat -> Wire], NEW J \in Task, Given(V, C, D, J),
         s' = V.s, ConnLeft(V, C, D), s'.cpcb # None
  PROVE  /\ s'.cpcb = s.cpcb /\ s.cpcb \in Ctl /\ s.cpcb \notin V.shut
         /\ conn'[s'.cpcb].st = conn[s.cpcb].st /\ conn'[s'.cpcb].xf = conn[s.cpcb].xf
         /\ conn'[s'.cpcb].cmds = conn[s.cpcb].cmds \o V.out
         /\ conn[s.cpcb].cmds \in Seq(Commands) /\ V.out \in Seq(Commands)
<1>1. PICK c \in Ctl : c = s'.cpcb
  BY DEF Working, Session
<1>2. conn'[c].st # "free"
  BY <1>1, LwftpAssumption DEF IInv, NoBogusPcb
<1>3. c \notin V.shut
  BY <1>2 DEF ConnLeft, FreeConn
<1>4. C[c].st # "free" /\ conn'[c].st = C[c].st /\ conn'[c].xf = C[c].xf
      /\ conn'[c].cmds = IF c = s.cpcb THEN C[c].cmds \o V.out ELSE C[c].cmds
  BY <1>2, <1>3 DEF ConnLeft
<1>5. C[c].st = conn[c].st /\ C[c].cmds = conn[c].cmds /\ C[c].xf = conn[c].xf
  BY <1>4 DEF Given
<1>6. s.cpcb = c
  BY <1>4, <1>5 DEF IInv, NoLeakedPcb
<1>7. conn[c].cmds \in Seq(Commands) /\ V.out \in Seq(Commands)
  BY DEF Typed, Link, Working
<1> QED
  BY <1>1, <1>3, <1>4, <1>5, <1>6, <1>7

LEMMA LeaveClean ==
  ASSUME Typed, IInv, IInv', Clean, NEW V \in Working, NEW C \in [Ctl -> Link],
         NEW D \in [Dat -> Wire], NEW J \in Task, Given(V, C, D, J),
         s' = V.s, ConnLeft(V, C, D), DatLeft(V, D), Typed'
  PROVE  Clean'
<1>1. ASSUME NEW c \in Ctl, conn'[c].st = "free"
      PROVE  conn'[c] = FreeConn
  <2>1. CASE c \in V.shut
    BY <2>1 DEF ConnLeft
  <2>2. CASE c \notin V.shut
    <3>1. C[c].st = "free"
      BY <1>1, <2>2 DEF ConnLeft
    <3>2. C[c] = FreeConn /\ (c = s.cpcb => V.out = <<>>) /\ \A d \in Dat : D[d].ctl # c
      BY <3>1 DEF Given
    <3>3. /\ conn'[c].st = "free" /\ conn'[c].reps = <<>> /\ conn'[c].xf = "no"
          /\ conn'[c].bye = FALSE /\ conn'[c].fin = FALSE /\ conn'[c].cmds = <<>>
      <4>1. /\ conn'[c].st = C[c].st /\ conn'[c].reps = C[c].reps
            /\ conn'[c].xf = C[c].xf /\ conn'[c].bye = C[c].bye
            /\ conn'[c].cmds = IF c = s.cpcb THEN C[c].cmds \o V.out ELSE C[c].cmds
            /\ conn'[c].fin = (C[c].fin \/ \E d \in V.shut \cap Dat : D[d].ctl = c)
        BY <2>2 DEF ConnLeft
      <4>2. <<>> \o <<>> = <<>>
        OBVIOUS
      <4>3. /\ C[c].st = "free" /\ C[c].reps = <<>> /\ C[c].xf = "no"
            /\ C[c].bye = FALSE /\ C[c].fin = FALSE /\ C[c].cmds = <<>>
        BY <3>2 DEF FreeConn
      <4>4. conn'[c].cmds = <<>>
        BY <3>2, <4>1, <4>2, <4>3
      <4>5. conn'[c].fin = FALSE
        BY <3>2, <4>1, <4>3
      <4> QED
        BY <4>1, <4>3, <4>4, <4>5
    <3>4. conn'[c] \in Link
      BY DEF Typed
    <3> QED
      BY <3>3, <3>4 DEF Link, FreeConn
  <2> QED
    BY <2>1, <2>2
<1>2. \A d \in Dat : dat'[d] \in Wire /\ D[d] \in Wire
  BY DEF Typed
<1>3. ASSUME NEW d \in Dat, dat'[d].st = "free"
      PROVE  dat'[d] = FreeDat
  <2>1. CASE d \in V.shut
    BY <2>1 DEF DatLeft
  <2>2. CASE d \notin V.shut /\ d = V.s.dpcb
    <3>1. dat'[d].st = IF V.syn THEN "syn" ELSE IF D[d].st = "free" THEN "new" ELSE D[d].st
      BY <2>2 DEF DatLeft
    <3> QED
      BY <1>3, <3>1
  <2>3. CASE d \notin V.shut /\ d # V.s.dpcb
    <3>1. D[d].st = "free"
      BY <1>3, <2>3 DEF DatLeft
    <3>2. D[d] = FreeDat
      BY <3>1 DEF Given
    <3>3. dat'[d].left = 0 /\ dat'[d].eof = FALSE /\ dat'[d].fly = FALSE /\ dat'[d].ctl = None
      BY <2>3, <3>2 DEF DatLeft, FreeDat
    <3> QED
      BY <1>2, <1>3, <3>3 DEF Wire, FreeDat
  <2> QED
    BY <2>1, <2>2, <2>3
<1>4. ASSUME NEW d \in Dat, dat'[d].ctl # None
      PROVE  dat'[d].ctl = s'.cpcb
  <2>1. dat'[d].st # "free"
    BY <1>3, <1>4 DEF FreeDat
  <2>2. s'.dpcb = d /\ s'.cpcb # None
    BY <2>1, LwftpAssumption DEF IInv, NoLeakedPcb, NoBogusPcb
  <2>3. s'.cpcb = s.cpcb
    BY <2>2, LeaveSession
  <2>4. d \notin V.shut
    BY <1>4 DEF DatLeft, FreeDat
  <2>5. dat'[d].ctl = IF V.syn THEN s.cpcb ELSE D[d].ctl
    BY <2>2, <2>4 DEF DatLeft
  <2>6. D[d].ctl \in {None, dat[d].ctl} /\ (dat[d].ctl # None => dat[d].ctl = s.cpcb)
    BY DEF Given, Clean
  <2> QED
    BY <1>4, <2>3, <2>5, <2>6
<1>5. s'.cpcb # None /\ conn'[s'.cpcb].st = "syn" => s'.cs = "CLOSED" /\ s'.dpcb = None
  <2> SUFFICES ASSUME s'.cpcb # None, conn'[s'.cpcb].st = "syn"
               PROVE  s'.cs = "CLOSED" /\ s'.dpcb = None
    OBVIOUS
  <2>1. s'.cpcb = s.cpcb /\ conn'[s'.cpcb].st = conn[s.cpcb].st
    BY LeaveSession
  <2> QED
    BY <2>1 DEF Given
<1> QED
  BY <1>1, <1>3, <1>4, <1>5 DEF Clean

LEMMA LeaveAsks ==
  ASSUME Typed, IInv, IInv', Ledger, NEW V, Thrifty(V, s.cs), NEW C \in [Ctl -> Link],
         NEW D \in [Dat -> Wire], NEW J \in Task, Given(V, C, D, J),
         s' = V.s, ConnLeft(V, C, D), JobLeft(V, J), s'.cpcb # None
  PROVE  Asks(conn[s.cpcb])'
<1>1. PICK K : K = conn[s.cpcb]
  OBVIOUS
<1>2. PICK L : L = conn'[s'.cpcb]
  OBVIOUS
<1>3. /\ s'.cpcb = s.cpcb /\ L.xf = K.xf /\ L.cmds = K.cmds \o V.out
      /\ K.cmds \in Seq(Commands) /\ V.out \in Seq(Commands)
  BY <1>1, <1>2, LeaveSession DEF Thrifty
<1>4. Asks(K)
  BY <1>1, <1>3 DEF Ledger
<1>5. /\ Works(L.cmds) = {} <=> Works(K.cmds) = {} /\ Works(V.out) = {}
      /\ Unique(K.cmds) /\ Works(V.out) = {} => Unique(L.cmds)
      /\ Unique(V.out) /\ Works(K.cmds) = {} => Unique(L.cmds)
      /\ Fitting(K.cmds) /\ Fitting(V.out) => Fitting(L.cmds)
  BY <1>3, Joined
<1>6. /\ Unique(V.out) /\ Fitting(V.out)
      /\ Works(V.out) # {} => s.cs \in Early /\ V.s.cs \notin Early
      /\ V.s.cs \in Early => s.cs \in Early
  BY DEF Thrifty
<1>7. job'.op = job.op /\ job'.did = job.did
  BY DEF JobLeft, Given
<1>8. Unique(L.cmds) /\ Fitting(L.cmds)
  BY <1>4, <1>5, <1>6 DEF Asks
<1>9. Fitting(L.cmds)'
  BY <1>7, <1>8 DEF Fitting
<1>10. s'.cs \in Early => Works(L.cmds) = {} /\ L.xf = "no" /\ job'.did = 0
  BY <1>3, <1>4, <1>5, <1>6, <1>7 DEF Asks
<1>11. Works(L.cmds) # {} => job'.did = 0 /\ L.xf # "up"
  BY <1>3, <1>4, <1>5, <1>6, <1>7 DEF Asks
<1>12. L.xf = "up" => job'.did = 0 /\ job'.op = "STOR"
  BY <1>3, <1>4, <1>7 DEF Asks
<1> QED
  BY <1>2, <1>8, <1>9, <1>10, <1>11, <1>12 DEF Asks

LEMMA LeaveStocks ==
  ASSUME Typed, IInv, IInv', Ledger, NEW V, Thrifty(V, s.cs), NEW C \in [Ctl -> Link],
         NEW D \in [Dat -> Wire], NEW J \in Task, Given(V, C, D, J),
         s' = V.s, ConnLeft(V, C, D), DatLeft(V, D), JobLeft(V, J)
  PROVE  Stocks'
<1>1. V \in Working
  BY DEF Thrifty
<1>2. \A d \in Dat : /\ dat[d].left \in Nat /\ D[d].left \in Nat /\ D[d].left <= dat[d].left
                     /\ dat'[d].left = 0 \/ dat'[d].left = D[d].left
  <2> TAKE d \in Dat
  <2>1. dat[d] \in Wire /\ D[d] \in Wire
    BY DEF Typed
  <2>2. dat'[d].left = 0 \/ dat'[d].left = D[d].left
    BY <2>1 DEF DatLeft, FreeDat, Wire
  <2> QED
    BY <2>1, <2>2 DEF Given, Wire
<1>3. /\ job.src \in Nat /\ job.got \in Nat /\ job.size \in Nat /\ job.did \in Nat
      /\ J.got \in Nat /\ V.src \in Nat /\ V.put \in BOOLEAN /\ MaxSize \in Nat
  BY <1>1, LwftpAssumption DEF Typed, Task, Working
<1>4. /\ job'.op = job.op /\ job'.did = job.did /\ job'.size = job.size
      /\ job'.src = V.src /\ job'.got = (IF V.put THEN J.got + 1 ELSE J.got)
  BY DEF JobLeft, Given
<1>5. IF V.put THEN job.op = "STOR" /\ V.src + 1 <= job.src ELSE V.src <= job.src
  BY DEF Thrifty
<1>6. job'.did <= 1 /\ job'.size <= MaxSize
  BY <1>4 DEF Ledger, Stocks
<1>7. job.op = "STOR" => /\ job'.got + job'.src <= job'.size /\ job'.got <= job'.size
                         /\ \A d \in Dat : dat'[d].left = 0
  <2> SUFFICES ASSUME job.op = "STOR"
               PROVE  /\ job'.got + job'.src <= job'.size /\ job'.got <= job'.size
                      /\ \A d \in Dat : dat'[d].left = 0
    OBVIOUS
  <2>1. /\ J.got = job.got /\ job.got + job.src <= job.size
        /\ \A d \in Dat : dat[d].left = 0
    BY DEF Given, Ledger, Stocks
  <2>2. \A d \in Dat : dat'[d].left = 0
    BY <1>2, <2>1
  <2>3. job'.got + job'.src <= job'.size /\ job'.got <= job'.size
    BY <1>3, <1>4, <1>5, <2>1
  <2> QED
    BY <2>2, <2>3
<1>8. job.op # "STOR" => /\ job'.src = 0 /\ job'.got <= job'.size /\ job'.got = J.got
                         /\ \A d \in Dat : job'.got + dat'[d].left <= job'.size
  <2> SUFFICES ASSUME job.op # "STOR"
               PROVE  /\ job'.src = 0 /\ job'.got <= job'.size /\ job'.got = J.got
                      /\ \A d \in Dat : job'.got + dat'[d].left <= job'.size
    OBVIOUS
  <2>1. job.src = 0 /\ J.got <= job.size /\ \A d \in Dat : J.got + D[d].left <= job.size
    BY DEF Given, Ledger, Stocks
  <2>2. job'.src = 0 /\ job'.got = J.got
    BY <1>3, <1>4, <1>5, <2>1
  <2> QED
    BY <1>2, <1>3, <1>4, <2>1, <2>2
<1>9. s'.cpcb # None /\ job'.op # "STOR" =>
        (s'.cs \in Early \/ Works(conn'[s'.cpcb].cmds) # {} =>
           job'.got = 0 /\ \A d \in Dat : dat'[d].left = 0)
  <2> SUFFICES ASSUME s'.cpcb # None, job.op # "STOR",
                      s'.cs \in Early \/ Works(conn'[s'.cpcb].cmds) # {}
               PROVE  job'.got = 0 /\ \A d \in Dat : dat'[d].left = 0
    BY <1>4
  <2>1. /\ s'.cpcb = s.cpcb /\ conn'[s'.cpcb].cmds = conn[s.cpcb].cmds \o V.out
        /\ conn[s.cpcb].cmds \in Seq(Commands) /\ V.out \in Seq(Commands)
    BY <1>1, LeaveSession
  <2>2. Works(conn'[s'.cpcb].cmds) # {} => Works(conn[s.cpcb].cmds) # {} \/ Works(V.out) # {}
    BY <2>1, Joined
  <2>3. s.cs \in Early \/ Works(conn[s.cpcb].cmds) # {}
    BY <2>2 DEF Thrifty
  <2>4. J.got = 0 /\ \A d \in Dat : dat[d].left = 0
    BY <2>1, <2>3 DEF Given, Ledger, Stocks
  <2> QED
    BY <1>2, <1>8, <2>4
<1> QED
  BY <1>4, <1>6, <1>7, <1>8, <1>9 DEF Stocks

LEMMA LeaveLedger ==
  ASSUME Typed, IInv, IInv', Ledger, NEW V, Thrifty(V, s.cs), NEW C \in [Ctl -> Link],
         NEW D \in [Dat -> Wire], NEW J \in Task, Given(V, C, D, J), Leave(V, C, D, J),
         leftover' \subseteq {"RETR", "STOR"}
  PROVE  Typed' /\ Ledger'
<1>1. V \in Working /\ Role(V.s)
  BY DEF Thrifty
<1>2. Typed' /\ s' = V.s /\ ConnLeft(V, C, D) /\ DatLeft(V, D) /\ JobLeft(V, J)
  BY <1>1, LeaveFacts
<1>3. Clean' /\ Stocks'
  BY <1>1, <1>2, LeaveClean, LeaveStocks DEF Ledger
<1>4. s'.cpcb # None => Asks(conn[s.cpcb])'
  BY <1>2, LeaveAsks
<1>5. Role(s)'
  BY <1>1, <1>2 DEF Role, JobLeft, Given
<1> QED
  BY <1>2, <1>3, <1>4, <1>5 DEF Ledger

LInv == Typed /\ IInv /\ Ledger

\* The event has freed no control connection.
LEMMA GivenEvent ==
  ASSUME LInv, NEW V, NEW C \in [Ctl -> Link], NEW D \in [Dat -> Wire], NEW J \in Task,
         \A c \in Ctl : /\ C[c].st = conn[c].st /\ C[c].cmds = conn[c].cmds
                        /\ C[c].xf = conn[c].xf
                        /\ C[c].st = "free" => C[c] = conn[c],
         \A d \in Dat : /\ D[d].left <= dat[d].left /\ D[d].ctl \in {None, dat[d].ctl}
                        /\ D[d].st = "free" => D[d] = FreeDat,
         J.op = job.op, J.size = job.size, J.did = job.did, J.got = job.got,
         s.cpcb # None /\ conn[s.cpcb].st = "syn" => V.s.cs = "CLOSED" /\ V.s.dpcb = None
  PROVE  Given(V, C, D, J)
<1>1. Clean /\ Stocks
  BY DEF LInv, Ledger
<1>2. \A c \in Ctl : C[c].st = "free" =>
        C[c] = FreeConn /\ (c = s.cpcb => V.out = <<>>) /\ \A d \in Dat : D[d].ctl # c
  <2> SUFFICES ASSUME NEW c \in Ctl, C[c].st = "free"
               PROVE  C[c] = FreeConn /\ c # s.cpcb /\ \A d \in Dat : D[d].ctl # c
    OBVIOUS
  <2>1. conn[c].st = "free"
    OBVIOUS
  <2>2. C[c] = FreeConn
    BY <1>1, <2>1 DEF Clean
  <2>3. c # s.cpcb
    BY <2>1, LwftpAssumption DEF LInv, IInv, NoBogusPcb
  <2>4. \A d \in Dat : D[d].ctl # c
    <3> TAKE d \in Dat
    <3>1. D[d].ctl \in {None, dat[d].ctl} /\ (dat[d].ctl # None => dat[d].ctl = s.cpcb)
      BY <1>1 DEF Clean
    <3> QED
      BY <2>3, <3>1, LwftpAssumption
  <2> QED
    BY <2>2, <2>3, <2>4
<1>3. job.op # "STOR" => J.got <= job.size /\ \A d \in Dat : J.got + D[d].left <= job.size
  <2> SUFFICES ASSUME job.op # "STOR", NEW d \in Dat
               PROVE  J.got <= job.size /\ J.got + D[d].left <= job.size
    BY <1>1 DEF Stocks
  <2>1. D[d].left \in Nat /\ dat[d].left \in Nat /\ job.got \in Nat /\ job.size \in Nat
    BY DEF LInv, Typed, Wire, Task
  <2>2. job.got <= job.size /\ job.got + dat[d].left <= job.size
    BY <1>1 DEF Stocks
  <2> QED
    BY <2>1, <2>2
<1>4. s.cpcb # None /\ job.op # "STOR" =>
        (s.cs \in Early \/ Works(conn[s.cpcb].cmds) # {} => J.got = 0)
  BY <1>1 DEF Stocks
<1> QED
  BY <1>2, <1>3, <1>4 DEF Given

\* dat and conn as they are.
LEMMA SameEvent ==
  ASSUME LInv
  PROVE  /\ conn \in [Ctl -> Link] /\ dat \in [Dat -> Wire]
         /\ \A c \in Ctl : /\ conn[c].st = conn[c].st /\ conn[c].cmds = conn[c].cmds
                           /\ conn[c].xf = conn[c].xf
                           /\ conn[c].st = "free" => conn[c] = conn[c]
         /\ \A d \in Dat : /\ dat[d].left <= dat[d].left /\ dat[d].ctl \in {None, dat[d].ctl}
                           /\ dat[d].st = "free" => dat[d] = FreeDat
  BY DEF LInv, Typed, Ledger, Clean, Wire

LEMMA EnterThrifty ==
  ASSUME LInv, NEW n \in Fresh \cup {None}, NEW ok \in BOOLEAN
  PROVE  LET W == Enter(n, ok)
         IN  /\ Thrifty(W, s.cs) /\ W.out = <<>> /\ W.put = FALSE /\ W.s = s /\ W.src = job.src
             /\ W.fresh = n /\ W.shut = {} /\ W.bad = FALSE /\ W.ok = ok /\ W.syn = FALSE
<1>1. s \in Session /\ job.src \in Nat /\ n \in Dat \cup {None} /\ <<>> \in Seq(Commands)
  BY DEF LInv, Typed, Task, Fresh, FreshPcbs
<1> DEFINE W == Enter(n, ok)
<1>2. /\ W \in Working /\ W.out = <<>> /\ W.put = FALSE /\ W.s = s /\ W.src = job.src
      /\ W.fresh = n /\ W.shut = {} /\ W.bad = FALSE /\ W.ok = ok /\ W.syn = FALSE
  BY <1>1 DEF Enter, Working
<1> HIDE DEF W
<1>3. Thrifty(W, s.cs)
  BY <1>1, <1>2, EmptyFacts DEF Thrifty, LInv, Ledger
<1> QED
  BY <1>2, <1>3 DEF W

\* lwftp_abort does nothing to a session that is not open yet.
LEMMA AbortClosed ==
  ASSUME NEW W, NEW from, Thrifty(W, from), W.s.cs = "CLOSED"
  PROVE  Abort(W) = W
<1>1. Done(W, "ERR") \in {W, Close(W)}
  BY DoneQuiet
<1> QED
  BY <1>1 DEF Abort, Close

LEMMA SynClosed ==
  ASSUME LInv, s.cpcb # None, conn[s.cpcb].st = "syn"
  PROVE  s.cs = "CLOSED" /\ s.dpcb = None
  BY DEF LInv, Ledger, Clean

LEMMA CancelJobLedger ==
  ASSUME LInv, IInv', CancelJob
  PROVE  Typed' /\ Ledger'
<1>1. PICK n \in 0..job.src :
        Leave(Abort([Enter(None, TRUE) EXCEPT !.src = n]), conn, dat,
              [job EXCEPT !.waiting = FALSE, !.bad = TRUE])
  BY DEF CancelJob
<1> DEFINE E == Enter(None, TRUE)
           W == [E EXCEPT !.src = n]
           V == Abort(W)
           J == [job EXCEPT !.waiting = FALSE, !.bad = TRUE]
<1>2. Thrifty(E, s.cs) /\ E.put = FALSE /\ E.s = s
  BY EnterThrifty
<1>3. n \in Nat /\ n <= job.src /\ job.src \in Nat
  BY DEF LInv, Typed, Task
<1> HIDE DEF E
<1>4. W \in Working /\ W.s = E.s /\ W.put = E.put /\ W.out = E.out /\ W.src = n
  BY <1>2, <1>3 DEF Thrifty, Working
<1> HIDE DEF W
<1>5. Thrifty(W, s.cs)
  BY <1>2, <1>3, <1>4 DEF Thrifty
<1>6. Thrifty(V, s.cs)
  BY <1>5, AbortThrifty
<1>7. s.cpcb # None /\ conn[s.cpcb].st = "syn" => V.s.cs = "CLOSED" /\ V.s.dpcb = None
  BY <1>2, <1>4, <1>5, SynClosed, AbortClosed
<1>8. J \in Task /\ J.op = job.op /\ J.size = job.size /\ J.did = job.did /\ J.got = job.got
  BY DEF LInv, Typed, Task
<1>9. Leave(V, conn, dat, J)
  BY <1>1 DEF W, E
<1>10. leftover' \subseteq {"RETR", "STOR"}
  BY DEF LInv, Typed, Ledger, Role, CancelJob
<1> HIDE DEF V, J
<1>11. Given(V, conn, dat, J)
  BY <1>7, <1>8, SameEvent, GivenEvent
<1> QED
  BY <1>6, <1>8, <1>9, <1>10, <1>11, SameEvent, LeaveLedger DEF LInv

LEMMA CancelListingLedger ==
  ASSUME LInv, IInv', CancelListing
  PROVE  Typed' /\ Ledger'
<1> DEFINE W == Enter(None, TRUE)
           V == Abort(W)
           J == [job EXCEPT !.bad = TRUE]
<1>1. Thrifty(W, s.cs) /\ W.s = s
  BY EnterThrifty
<1> HIDE DEF W
<1>2. Thrifty(V, s.cs)
  BY <1>1, AbortThrifty
<1>3. s.cpcb # None /\ conn[s.cpcb].st = "syn" => V.s.cs = "CLOSED" /\ V.s.dpcb = None
  BY <1>1, SynClosed, AbortClosed
<1>4. J \in Task /\ J.op = job.op /\ J.size = job.size /\ J.did = job.did /\ J.got = job.got
  BY DEF LInv, Typed, Task
<1>5. Leave(V, conn, dat, J) /\ leftover' \subseteq {"RETR", "STOR"}
  BY DEF CancelListing, LInv, Typed, W
<1> HIDE DEF V, J
<1>6. Given(V, conn, dat, J)
  BY <1>3, <1>4, SameEvent, GivenEvent
<1> QED
  BY <1>2, <1>4, <1>5, <1>6, SameEvent, LeaveLedger DEF LInv

LEMMA CancelMediaLedger ==
  ASSUME LInv, IInv', CancelMedia
  PROVE  Typed' /\ Ledger'
<1> DEFINE W == Enter(None, TRUE)
           V == IF s.cs = "XFERING" THEN Abort(W) ELSE W
           J == [job EXCEPT !.waiting = FALSE, !.bad = TRUE]
<1>1. Thrifty(W, s.cs) /\ W.s = s
  BY EnterThrifty
<1> HIDE DEF W
<1>2. Thrifty(V, s.cs)
  BY <1>1, AbortThrifty
<1>3. s.cpcb # None /\ conn[s.cpcb].st = "syn" => V.s.cs = "CLOSED" /\ V.s.dpcb = None
  BY <1>1, SynClosed
<1>4. J \in Task /\ J.op = job.op /\ J.size = job.size /\ J.did = job.did /\ J.got = job.got
  BY DEF LInv, Typed, Task
<1>5. Leave(V, conn, dat, J) /\ leftover' \subseteq {"RETR", "STOR"}
  BY DEF CancelMedia, LInv, Typed, W
<1> HIDE DEF V, J
<1>6. Given(V, conn, dat, J)
  BY <1>3, <1>4, SameEvent, GivenEvent
<1> QED
  BY <1>2, <1>4, <1>5, <1>6, SameEvent, LeaveLedger DEF LInv

LEMMA CtlRecvLedger ==
  ASSUME LInv, IInv', NEW c \in Ctl, CtlRecv(c)
  PROVE  Typed' /\ Ledger'
<1>1. PICK k \in IF "merge" \in Faults THEN 1..Len(conn[c].reps) ELSE {1},
           n \in Fresh \cup {None}, ok \in BOOLEAN :
        Leave(Process(Enter(n, ok), Head(conn[c].reps)),
              [conn EXCEPT ![c].reps = SubSeq(@, k + 1, Len(@))], dat, job)
  <2>1. Luck("lowmem") \subseteq BOOLEAN
    BY DEF Luck
  <2> QED
    BY <2>1 DEF CtlRecv
<1> DEFINE W == Enter(n, ok)
           V == Process(W, Head(conn[c].reps))
           R == SubSeq(conn[c].reps, k + 1, Len(conn[c].reps))
           C == [conn EXCEPT ![c].reps = R]
<1>2. conn[c].st = "open" /\ conn[c].reps # <<>> /\ leftover' = leftover
  BY DEF CtlRecv
<1>3. s.cpcb = c /\ s.cpcb # None /\ job.op \in AllJobs
  BY <1>2, Held, LwftpAssumption DEF LInv, Holds
<1>4. conn[c] \in Link /\ job \in Task /\ leftover \subseteq {"RETR", "STOR"}
  BY DEF LInv, Typed
<1>5. R \in Seq(Codes)
  <2>1. conn[c].reps \in Seq(Codes)
    BY <1>4 DEF Link
  <2>2. k \in 1..Len(conn[c].reps)
    BY <1>2, <2>1
  <2> QED
    BY <2>1, <2>2
<1>6. Leave(V, C, dat, job)
  BY <1>1
<1> HIDE DEF R
<1>7. C \in [Ctl -> Link] /\ \A x \in Ctl : /\ C[x].st = conn[x].st /\ C[x].cmds = conn[x].cmds
                                            /\ C[x].xf = conn[x].xf
                                            /\ C[x].st = "free" => C[x] = conn[x]
  <2>1. conn \in [Ctl -> Link]
    BY DEF LInv, Typed
  <2>2. \A x \in Ctl : conn[x] \in Link
    BY <2>1
  <2>3. C[c] = [conn[c] EXCEPT !.reps = R] /\ \A x \in Ctl \ {c} : C[x] = conn[x]
    BY <2>1
  <2>4. C[c] \in Link /\ C[c].st = conn[c].st /\ C[c].cmds = conn[c].cmds /\ C[c].xf = conn[c].xf
    <3>1. PICK L : L = [conn[c] EXCEPT !.reps = R]
      OBVIOUS
    <3>2. L \in Link /\ L.st = conn[c].st /\ L.cmds = conn[c].cmds /\ L.xf = conn[c].xf
      BY <1>4, <1>5, <3>1 DEF Link
    <3> HIDE DEF C
    <3> QED
      BY <2>3, <3>1, <3>2
  <2>5. C \in [Ctl -> Link]
    BY <1>5, <2>1, <2>4
  <2> QED
    BY <1>2, <2>3, <2>4, <2>5
<1>8. Thrifty(W, s.cs) /\ W.s = s /\ W.out = <<>> /\ W.put = FALSE
  BY EnterThrifty
<1> HIDE DEF W
<1>9. Entered(W)
  BY <1>3, <1>4, <1>8 DEF Entered
<1>10. Thrifty(V, s.cs)
  BY <1>8, <1>9, ProcessThrifty
<1> HIDE DEF V, C
<1>11. Given(V, C, dat, job)
  BY <1>2, <1>3, <1>4, <1>7, SameEvent, GivenEvent
<1> QED
  BY <1>2, <1>4, <1>6, <1>7, <1>10, <1>11, SameEvent, LeaveLedger DEF LInv

LEMMA CtlEofLedger ==
  ASSUME LInv, IInv', NEW c \in Ctl, CtlEof(c)
  PROVE  Typed' /\ Ledger'
<1> DEFINE W == Enter(None, TRUE)
           V == ControlClose(W, "ERR")
<1>1. Thrifty(W, s.cs) /\ Leave(V, conn, dat, job) /\ leftover' = leftover
  BY EnterThrifty DEF CtlEof
<1>2. conn[c].st = "open" /\ s.cpcb = c
  BY Held, LwftpAssumption DEF LInv, Holds, CtlEof
<1> HIDE DEF W
<1>3. Thrifty(V, s.cs)
  BY <1>1, ControlCloseThrifty
<1> HIDE DEF V
<1>4. job \in Task /\ leftover \subseteq {"RETR", "STOR"}
  BY DEF LInv, Typed
<1>5. Given(V, conn, dat, job)
  BY <1>2, <1>4, SameEvent, GivenEvent
<1> QED
  BY <1>1, <1>3, <1>4, <1>5, SameEvent, LeaveLedger DEF LInv

LEMMA CtlErrLedger ==
  ASSUME LInv, IInv', NEW c \in Ctl, CtlErr(c)
  PROVE  Typed' /\ Ledger'
<1> DEFINE E == Enter(None, TRUE)
           W == [E EXCEPT !.s.cpcb = None]
           V == ControlClose(W, "ERR")
           C == [conn EXCEPT ![c] = FreeConn]
           D == [d \in Dat |-> IF dat[d].ctl = c THEN [dat[d] EXCEPT !.ctl = None] ELSE dat[d]]
           J == [job EXCEPT !.bad = TRUE]
<1>1. Thrifty(E, s.cs) /\ E.s = s /\ E.out = <<>> /\ E.put = FALSE
  BY EnterThrifty
<1>2. s.cpcb = c
  BY Held DEF LInv, CtlErr, Holds
<1> HIDE DEF E
<1>3. /\ W \in Working /\ W.s.cs = s.cs /\ W.s.target = s.target /\ W.s.cpcb = None
      /\ W.s.done = s.done /\ W.s.io = s.io
      /\ W.out = <<>> /\ W.put = FALSE /\ W.src = E.src
  BY <1>1 DEF Thrifty, Working, Session
<1> HIDE DEF W
<1>4. Role(s)
  BY DEF LInv, Ledger
<1>5. Role(W.s)
  BY <1>3, <1>4 DEF Role
<1>6. Thrifty(W, s.cs)
  BY <1>1, <1>3, <1>5 DEF Thrifty
<1>7. Thrifty(V, s.cs) /\ V.out = <<>> /\ V.s.cpcb = None
  BY <1>3, <1>6, ControlCloseThrifty
<1>8. Leave(V, C, D, J)
  BY DEF CtlErr, V, W, E
<1> HIDE DEF V
<1>9. Clean /\ Stocks /\ leftover' \subseteq {"RETR", "STOR"}
  BY DEF LInv, Ledger, Typed, CtlErr
<1>10. C \in [Ctl -> Link] /\ C[c] = FreeConn /\ \A x \in Ctl \ {c} : C[x] = conn[x]
  <2>1. FreeConn \in Link /\ conn \in [Ctl -> Link]
    BY DEF FreeConn, Link, LInv, Typed
  <2> QED
    BY <2>1
<1>11. D \in [Dat -> Wire] /\ \A d \in Dat : /\ D[d].left = dat[d].left
                                             /\ D[d].ctl \in {None, dat[d].ctl} /\ D[d].ctl # c
                                             /\ D[d].st = "free" => D[d] = FreeDat
  <2>1. dat \in [Dat -> Wire]
    BY DEF LInv, Typed
  <2>2. ASSUME NEW d \in Dat
        PROVE  /\ D[d] \in Wire /\ D[d].left = dat[d].left
               /\ D[d].ctl \in {None, dat[d].ctl} /\ D[d].ctl # c
               /\ D[d].st = "free" => D[d] = FreeDat
    <3>1. CASE dat[d].ctl = c
      <4>1. PICK X : X = [dat[d] EXCEPT !.ctl = None]
        OBVIOUS
      <4>2. X \in Wire /\ X.left = dat[d].left /\ X.ctl = None /\ X.st = dat[d].st
        BY <2>1, <4>1 DEF Wire
      <4>3. dat[d].st # "free"
        BY <1>9, <3>1, LwftpAssumption DEF Clean, FreeDat
      <4>4. D[d] = X
        BY <3>1, <4>1
      <4> HIDE DEF D
      <4> QED
        BY <4>2, <4>3, <4>4, LwftpAssumption
    <3>2. CASE dat[d].ctl # c
      BY <1>9, <2>1, <3>2 DEF Clean
    <3> QED
      BY <3>1, <3>2
  <2> QED
    BY <2>2
<1>12. J \in Task /\ J.op = job.op /\ J.size = job.size /\ J.did = job.did /\ J.got = job.got
  BY DEF LInv, Typed, Task
<1> HIDE DEF C, D, J
<1>13. Given(V, C, D, J)
  <2>1. \A x \in Ctl : C[x].st # "free" =>
          C[x].st = conn[x].st /\ C[x].cmds = conn[x].cmds /\ C[x].xf = conn[x].xf
    BY <1>10 DEF FreeConn
  <2>2. ASSUME NEW x \in Ctl, C[x].st = "free"
        PROVE  C[x] = FreeConn /\ (x = s.cpcb => V.out = <<>>) /\ \A d \in Dat : D[d].ctl # x
    <3>1. C[x] = FreeConn
      BY <1>9, <1>10, <2>2 DEF Clean
    <3>2. \A d \in Dat : D[d].ctl # x
      BY <1>2, <1>9, <1>11, LwftpAssumption DEF Clean
    <3> QED
      BY <1>7, <3>1, <3>2
  <2>3. job.op # "STOR" => J.got <= job.size /\ \A d \in Dat : J.got + D[d].left <= job.size
    BY <1>9, <1>11, <1>12 DEF Stocks
  <2>4. \A d \in Dat : D[d].left <= dat[d].left
    BY <1>11 DEF Wire, LInv, Typed
  <2>5. s.cpcb # None /\ job.op # "STOR" =>
          (s.cs \in Early \/ Works(conn[s.cpcb].cmds) # {} => J.got = 0)
    BY <1>9, <1>12 DEF Stocks
  <2> QED
    BY <1>7, <1>11, <1>12, <2>1, <2>2, <2>3, <2>4, <2>5 DEF Given
<1> QED
  BY <1>7, <1>8, <1>9, <1>10, <1>11, <1>12, <1>13, LeaveLedger DEF LInv

LEMMA DataRecvLedger ==
  ASSUME LInv, IInv', NEW d \in Dat, DataRecv(d)
  PROVE  Typed' /\ Ledger'
<1>1. PICK ok \in Luck("disk") :
        LET X == Sink(Enter(None, ok)) IN
        Leave(X[1], conn, [dat EXCEPT ![d].left = @ - 1],
              IF X[2] THEN [job EXCEPT !.got = @ + 1] ELSE job)
  BY DEF DataRecv
<1> DEFINE W == Enter(None, ok)
           X == Sink(W)
           V == X[1]
           D == [dat EXCEPT ![d].left = dat[d].left - 1]
           J == IF X[2] THEN [job EXCEPT !.got = @ + 1] ELSE job
<1>2. dat[d].st = "open" /\ dat[d].left > 0 /\ leftover' = leftover
  BY DEF DataRecv
<1>3. Clean /\ Stocks /\ leftover \subseteq {"RETR", "STOR"} /\ dat \in [Dat -> Wire] /\ job \in Task
  BY DEF LInv, Ledger, Typed
<1>4. s.dpcb = d /\ s.cpcb # None /\ conn[s.cpcb].st # "syn"
  BY <1>2, <1>3, LwftpAssumption DEF LInv, IInv, NoLeakedPcb, NoBogusPcb, Clean
<1>5. Thrifty(W, s.cs)
  BY EnterThrifty DEF Luck
<1> HIDE DEF W
<1>6. Thrifty(V, s.cs) /\ X[2] \in BOOLEAN
  BY <1>5, SinkThrifty
<1>7. Leave(V, conn, D, J)
  BY <1>1 DEF W
<1> HIDE DEF X
<1>8. D \in [Dat -> Wire] /\ D[d].left = dat[d].left - 1
      /\ \A x \in Dat : /\ D[x].ctl = dat[x].ctl /\ D[x].st = dat[x].st
                        /\ D[x].st = "free" => D[x] = FreeDat
                        /\ x # d => D[x].left = 0 /\ dat[x].left = 0
  <2>1. dat[d].left - 1 \in Nat
    BY <1>2, <1>3 DEF Wire
  <2>2. PICK Y : Y = [dat[d] EXCEPT !.left = dat[d].left - 1]
    OBVIOUS
  <2>3. /\ Y \in Wire /\ Y.ctl = dat[d].ctl /\ Y.st = dat[d].st /\ Y.left = dat[d].left - 1
    BY <1>3, <2>1, <2>2 DEF Wire
  <2>4. D = [dat EXCEPT ![d] = Y]
    BY <2>2
  <2> HIDE DEF D
  <2>5. \A x \in Dat \ {d} : dat[x] = FreeDat
    BY <1>3, <1>4 DEF Clean, LInv, IInv, NoLeakedPcb
  <2>6. D \in [Dat -> Wire] /\ D[d] = Y /\ \A x \in Dat \ {d} : D[x] = FreeDat
    BY <1>3, <2>3, <2>4, <2>5
  <2> QED
    BY <1>2, <2>3, <2>5, <2>6 DEF FreeDat
<1>9. job.op # "STOR" /\ job.got + dat[d].left <= job.size /\ job.got <= job.size
      /\ ~(s.cs \in Early \/ Works(conn[s.cpcb].cmds) # {})
  BY <1>2, <1>3, <1>4 DEF Stocks
<1>10. /\ J \in Task /\ J.op = job.op /\ J.size = job.size /\ J.did = job.did
       /\ J.got = job.got \/ J.got = job.got + 1
  BY <1>3, <1>6 DEF Task
<1> HIDE DEF D, J, V
<1>11. Given(V, conn, D, J)
  <2>1. conn \in [Ctl -> Link] /\ \A c \in Ctl : conn[c].st = "free" => conn[c] = FreeConn
    BY <1>3 DEF Clean, LInv, Typed
  <2>2. \A c \in Ctl : conn[c].st = "free" => c # s.cpcb /\ \A x \in Dat : D[x].ctl # c
    BY <1>3, <1>8, LwftpAssumption DEF Clean, LInv, IInv, NoBogusPcb
  <2>3. \A x \in Dat : D[x].left <= dat[x].left /\ J.got + D[x].left <= job.size
    <3>1. job.got \in Nat /\ job.size \in Nat /\ dat[d].left \in Nat
      BY <1>3 DEF Task, Wire
    <3>2. D[d].left <= dat[d].left /\ J.got + D[d].left <= job.size
      BY <1>8, <1>9, <1>10, <3>1
    <3>3. \A x \in Dat \ {d} : D[x].left <= dat[x].left /\ J.got + D[x].left <= job.size
      BY <1>2, <1>8, <1>9, <1>10, <3>1
    <3> QED
      BY <3>2, <3>3
  <2>4. J.got <= job.size
    BY <1>2, <1>3, <1>9, <1>10 DEF Task, Wire
  <2> QED
    BY <1>4, <1>8, <1>9, <1>10, <2>1, <2>2, <2>3, <2>4 DEF Given
<1>12. conn \in [Ctl -> Link]
  BY DEF LInv, Typed
<1> QED
  BY <1>2, <1>3, <1>6, <1>7, <1>8, <1>10, <1>11, <1>12, LeaveLedger DEF LInv

\* A callback of a data connection.
LEMMA WireOpen ==
  ASSUME LInv, NEW d \in Dat, dat[d].st # "free"
  PROVE  s.dpcb = d /\ s.cpcb # None /\ s.cpcb \in Ctl /\ conn[s.cpcb].st = "open" /\ job.op \in AllJobs
<1>1. s.dpcb = d /\ s.cpcb # None /\ s.cpcb \in Ctl /\ conn[s.cpcb].st # "free" /\ job.op \in AllJobs
  BY LwftpAssumption DEF LInv, IInv, NoLeakedPcb, NoBogusPcb, Shaped
<1>2. conn[s.cpcb].st # "syn"
  BY <1>1, SynClosed, LwftpAssumption
<1> QED
  BY <1>1, <1>2 DEF LInv, Typed, Link

LEMMA DataEofLedger ==
  ASSUME LInv, IInv', NEW d \in Dat, DataEof(d)
  PROVE  Typed' /\ Ledger'
<1> DEFINE W == Enter(None, TRUE)
           U == DataClose(W, "OK")
           V == Goto(U, "LOGGED")
<1>1. Thrifty(W, s.cs) /\ W.out = <<>> /\ W.put = FALSE /\ W.s = s
  BY EnterThrifty
<1>2. Leave(V, conn, dat, job) /\ leftover' = leftover /\ dat[d].st # "free"
  BY DEF DataEof
<1> HIDE DEF W
<1>3. W.s.cs = "CWD_SENT" => Blank(W, s.cs)
  BY <1>1 DEF Blank, Early
<1>4. Thrifty(U, s.cs)
  BY <1>1, <1>2, <1>3, WireOpen, DataCloseThrifty
<1> HIDE DEF U
<1>5. Thrifty(V, s.cs)
  BY <1>4, GotoThrifty, LateFacts
<1> HIDE DEF V
<1>6. job \in Task /\ leftover \subseteq {"RETR", "STOR"}
  BY DEF LInv, Typed
<1>7. Given(V, conn, dat, job)
  BY <1>2, <1>6, WireOpen, SameEvent, GivenEvent
<1> QED
  BY <1>2, <1>5, <1>6, <1>7, SameEvent, LeaveLedger DEF LInv

LEMMA DataSentLedger ==
  ASSUME LInv, IInv', NEW d \in Dat, DataSent(d)
  PROVE  Typed' /\ Ledger'
<1>1. PICK fly \in BOOLEAN, ok \in Luck("lowmem") :
        Leave(SendNext(Enter(None, ok)), conn, [dat EXCEPT ![d].fly = fly], job)
  BY DEF DataSent
<1> DEFINE W == Enter(None, ok)
           V == SendNext(W)
           D == [dat EXCEPT ![d].fly = fly]
<1>2. Thrifty(W, s.cs) /\ W.put = FALSE
  BY EnterThrifty DEF Luck
<1>3. Leave(V, conn, D, job) /\ leftover' = leftover /\ dat[d].st = "open"
  BY <1>1 DEF DataSent
<1>4. job \in Task /\ leftover \subseteq {"RETR", "STOR"} /\ dat \in [Dat -> Wire] /\ Clean
  BY DEF LInv, Typed, Ledger
<1> HIDE DEF W
<1>5. Thrifty(V, s.cs)
  BY <1>2, <1>4, SendNextThrifty
<1> HIDE DEF V
<1>6. D \in [Dat -> Wire] /\ \A x \in Dat : /\ D[x].left <= dat[x].left
                                            /\ D[x].ctl \in {None, dat[x].ctl}
                                            /\ D[x].st = "free" => D[x] = FreeDat
  <2>1. PICK Y : Y = [dat[d] EXCEPT !.fly = fly]
    OBVIOUS
  <2>2. Y \in Wire /\ Y.left = dat[d].left /\ Y.ctl = dat[d].ctl /\ Y.st = dat[d].st
    BY <1>4, <2>1 DEF Wire
  <2>3. D = [dat EXCEPT ![d] = Y]
    BY <2>1
  <2> HIDE DEF D
  <2>4. D \in [Dat -> Wire] /\ D[d] = Y /\ \A x \in Dat \ {d} : D[x] = dat[x]
    BY <1>4, <2>2, <2>3
  <2>5. \A x \in Dat : dat[x].left <= dat[x].left
    BY <1>4 DEF Wire
  <2> QED
    BY <1>3, <1>4, <2>2, <2>4, <2>5 DEF Clean
<1> HIDE DEF D
<1>7. Given(V, conn, D, job)
  BY <1>3, <1>4, <1>6, WireOpen, SameEvent, GivenEvent
<1> QED
  BY <1>3, <1>4, <1>5, <1>6, <1>7, SameEvent, LeaveLedger DEF LInv

LEMMA DataErrLedger ==
  ASSUME LInv, IInv', NEW d \in Dat, DataErr(d)
  PROVE  Typed' /\ Ledger'
<1> DEFINE E == Enter(None, TRUE)
           W == [E EXCEPT !.s.dpcb = None]
           V == IF s.cs = "XFERING" THEN Settle(Goto(W, "DATAEND"), "ERR") ELSE W
           D == [dat EXCEPT ![d] = FreeDat]
           J == [job EXCEPT !.bad = TRUE]
<1>1. Thrifty(E, s.cs) /\ E.s = s
  BY EnterThrifty
<1>2. dat[d].st # "free" /\ leftover' = leftover /\ Leave(V, conn, D, J)
  BY DEF DataErr
<1> HIDE DEF E
<1>3. /\ W \in Working /\ W.s.cs = s.cs /\ W.s.target = s.target /\ W.s.cpcb = s.cpcb
      /\ W.s.done = s.done /\ W.s.io = s.io
      /\ W.out = E.out /\ W.put = E.put /\ W.src = E.src
  BY <1>1 DEF Thrifty, Working, Session
<1> HIDE DEF W
<1>4. Role(s)
  BY DEF LInv, Ledger
<1>5. Role(W.s)
  BY <1>3, <1>4 DEF Role
<1>6. Thrifty(W, s.cs)
  BY <1>1, <1>3, <1>5 DEF Thrifty
<1>7. Thrifty(V, s.cs)
  BY <1>6, GotoThrifty, LateFacts, SettleThrifty
<1> HIDE DEF V
<1>8. leftover \subseteq {"RETR", "STOR"} /\ dat \in [Dat -> Wire] /\ Clean
  BY DEF LInv, Typed, Ledger
<1>9. D \in [Dat -> Wire] /\ \A x \in Dat : /\ D[x].left <= dat[x].left
                                            /\ D[x].ctl \in {None, dat[x].ctl}
                                            /\ D[x].st = "free" => D[x] = FreeDat
  <2>1. FreeDat \in Wire
    BY DEF FreeDat, Wire
  <2>2. D \in [Dat -> Wire] /\ D[d] = FreeDat /\ \A x \in Dat \ {d} : D[x] = dat[x]
    BY <1>8, <2>1
  <2>3. \A x \in Dat : dat[x].left <= dat[x].left /\ 0 <= dat[x].left
    BY <1>8 DEF Wire
  <2> HIDE DEF D
  <2> QED
    BY <1>8, <2>2, <2>3 DEF Clean, FreeDat
<1>10. J \in Task /\ J.op = job.op /\ J.size = job.size /\ J.did = job.did /\ J.got = job.got
  BY DEF LInv, Typed, Task
<1> HIDE DEF D, J
<1>11. Given(V, conn, D, J)
  BY <1>2, <1>9, <1>10, WireOpen, SameEvent, GivenEvent
<1> QED
  BY <1>2, <1>7, <1>8, <1>9, <1>10, <1>11, SameEvent, LeaveLedger DEF LInv

--------------------------------------------------------------------------------
(* The actions that are not callbacks of the session, and the server.           *)

LEMMA InitLedger ==
  ASSUME Init
  PROVE  Typed /\ Ledger
<1>1. s \in Session
  BY DEF Init, NewSession, Session, States, Dones
<1>2. FreeConn \in Link /\ FreeDat \in Wire /\ NoJob \in Task
  BY DEF FreeConn, FreeDat, NoJob, Link, Wire, Task
<1>3. conn \in [Ctl -> Link] /\ dat \in [Dat -> Wire] /\ job \in Task
  BY <1>2 DEF Init
<1>4. Typed
  BY <1>1, <1>3 DEF Init, Typed
<1>5. Role(s) /\ s.cpcb = None
  BY DEF Init, NewSession, Role
<1>6. Clean
  BY DEF Init, Clean, FreeConn, FreeDat, NewSession
<1>7. \A d \in Dat : dat[d].left = 0
  BY DEF Init, FreeDat
<1>8. job.op # "STOR" /\ job.src = 0 /\ job.got = 0 /\ job.size = 0 /\ job.did = 0
  BY DEF Init, NoJob
<1>9. Stocks
  BY <1>5, <1>7, <1>8, LwftpAssumption DEF Stocks
<1> QED
  BY <1>4, <1>5, <1>6, <1>9 DEF Ledger

\* With no session there is no connection either.
LEMMA NoneLeft ==
  ASSUME LInv, s.cpcb = None
  PROVE  /\ s.dpcb = None
         /\ \A c \in Ctl : conn[c] = FreeConn
         /\ \A d \in Dat : dat[d] = FreeDat
<1>1. s.dpcb = None
  BY DEF LInv, IInv, NoBogusPcb
<1>2. \A c \in Ctl : conn[c].st = "free"
  BY LwftpAssumption DEF LInv, IInv, NoLeakedPcb
<1>3. \A d \in Dat : dat[d].st = "free"
  BY <1>1, LwftpAssumption DEF LInv, IInv, NoLeakedPcb
<1> QED
  BY <1>1, <1>2, <1>3 DEF LInv, Ledger, Clean

LEMMA StartLedger ==
  ASSUME LInv, Patient, NEW op \in AllJobs, Start(op)
  PROVE  Typed' /\ Ledger'
<1>1. s.cpcb = None
  BY DEF Start
<1>2. /\ \A c \in Ctl : conn[c] = FreeConn
      /\ \A d \in Dat : dat[d] = FreeDat
  BY <1>1, NoneLeft
<1>3. PICK n \in IF op = "STOR" THEN 0..MaxSize ELSE {0} :
        LET J == [NoJob EXCEPT !.op = op, !.waiting = TRUE, !.src = n, !.size = n,
                               !.bad = op \in leftover] IN
        \/ \E c \in Ctl :
             /\ conn[c].st = "free"
             /\ s' = [NewSession EXCEPT !.cpcb = c, !.done = "op"]
             /\ conn' = [conn EXCEPT ![c].st = "syn"]
             /\ job' = J
        \/ /\ "lowmem" \in Faults
           /\ s' = [NewSession EXCEPT !.done = "op"]
           /\ job' = [J EXCEPT !.bad = TRUE]
           /\ UNCHANGED conn
  BY DEF Start
<1>4. dat' = dat /\ leftover' = leftover
  BY DEF Start
<1>5. n \in Nat /\ n <= MaxSize /\ (op # "STOR" => n = 0)
  <2>1. MaxSize \in Nat
    BY LwftpAssumption
  <2>2. CASE op = "STOR"
    BY <2>1, <2>2
  <2>3. CASE op # "STOR"
    BY <2>1, <2>3
  <2> QED
    BY <2>2, <2>3
<1>6. /\ job' \in Task /\ job'.op = op /\ job'.src = n /\ job'.size = n /\ job'.got = 0
      /\ job'.did = 0
  <2> DEFINE J == [NoJob EXCEPT !.op = op, !.waiting = TRUE, !.src = n, !.size = n,
                               !.bad = op \in leftover]
             B == [J EXCEPT !.bad = TRUE]
  <2>1. job' = J \/ job' = B
    BY <1>3
  <2>2. PICK b \in BOOLEAN : b = (op \in leftover)
    <3>1. (op \in leftover) \in BOOLEAN
      OBVIOUS
    <3> QED
      BY <3>1, Zenon
  <2>3. NoJob \in Task /\ NoJob.got = 0 /\ NoJob.did = 0
    BY DEF NoJob, Task
  <2>4. J = [NoJob EXCEPT !.op = op, !.waiting = TRUE, !.src = n, !.size = n, !.bad = b]
    BY <2>2, Zenon
  <2> HIDE DEF J
  <2>5. /\ J \in Task /\ J.op = op /\ J.src = n /\ J.size = n /\ J.got = 0 /\ J.did = 0
    BY <1>5, <2>3, <2>4 DEF Task
  <2>6. /\ B \in Task /\ B.op = op /\ B.src = n /\ B.size = n /\ B.got = 0 /\ B.did = 0
    BY <2>5 DEF Task
  <2> HIDE DEF B
  <2> QED
    BY <2>1, <2>5, <2>6
<1>7. /\ s' \in Session /\ s'.cs = "CLOSED" /\ s'.target = "CLOSED" /\ s'.io = "none"
      /\ s'.done = "op" /\ s'.dpcb = None
  BY <1>3 DEF NewSession, Session, States, Dones
<1>8. \/ \E c \in Ctl : s'.cpcb = c /\ conn' = [conn EXCEPT ![c].st = "syn"]
      \/ s'.cpcb = None /\ conn' = conn
  BY <1>3 DEF NewSession
<1>9. /\ conn' \in [Ctl -> Link]
      /\ \A c \in Ctl : /\ c # s'.cpcb => conn'[c] = FreeConn
                        /\ c = s'.cpcb => conn'[c].st = "syn" /\ conn'[c].cmds = <<>>
                                          /\ conn'[c].xf = "no"
  <2>1. conn \in [Ctl -> Link]
    BY DEF LInv, Typed
  <2>2. CASE s'.cpcb = None /\ conn' = conn
    BY <1>2, <2>1, <2>2, LwftpAssumption
  <2>3. ASSUME NEW c \in Ctl, s'.cpcb = c, conn' = [conn EXCEPT ![c].st = "syn"]
        PROVE  <1>9!1 /\ <1>9!2
    <3> DEFINE L == [conn[c] EXCEPT !.st = "syn"]
    <3>1. conn[c] = FreeConn /\ conn[c] \in Link
      BY <1>2, <2>1
    <3>2. FreeConn.cmds = <<>> /\ FreeConn.xf = "no"
      BY DEF FreeConn
    <3>3. L \in Link /\ L.st = "syn" /\ L.cmds = conn[c].cmds /\ L.xf = conn[c].xf
      BY <3>1 DEF Link
    <3>4. conn' = [conn EXCEPT ![c] = L]
      BY <2>3
    <3> HIDE DEF L
    <3> QED
      BY <1>2, <2>1, <2>3, <3>1, <3>2, <3>3, <3>4
  <2> QED
    BY <1>8, <2>2, <2>3
<1>10. Typed'
  BY <1>4, <1>6, <1>7, <1>9 DEF LInv, Typed
<1>11. Role(s)'
  BY <1>7 DEF Role
<1>12. Clean'
  <2>1. \A c \in Ctl : conn'[c].st = "free" => conn'[c] = FreeConn
    BY <1>9
  <2>2. \A d \in Dat : dat'[d] = FreeDat /\ dat'[d].ctl = None
    <3>1. FreeDat.ctl = None
      BY DEF FreeDat
    <3> QED
      BY <1>2, <1>4, <3>1
  <2>3. \A d \in Dat : dat'[d].st = "free" => dat'[d] = FreeDat
    BY <2>2
  <2>4. \A d \in Dat : dat'[d].ctl # None => dat'[d].ctl = s'.cpcb
    BY <2>2
  <2>5. s'.cpcb # None /\ conn'[s'.cpcb].st = "syn" => s'.cs = "CLOSED" /\ s'.dpcb = None
    BY <1>7
  <2> QED
    BY <2>1, <2>3, <2>4, <2>5 DEF Clean
<1>13. s'.cpcb # None => Asks(conn[s.cpcb])'
  <2> SUFFICES ASSUME s'.cpcb # None PROVE Asks(conn[s.cpcb])'
    OBVIOUS
  <2>1. PICK L : L = conn'[s'.cpcb]
    OBVIOUS
  <2>2. L.cmds = <<>> /\ L.xf = "no"
    BY <1>7, <1>9, <2>1 DEF Session
  <2>3. Works(<<>>) = {} /\ Unique(<<>>) /\ Fitting(<<>>)'
    BY EmptyFacts DEF Fitting
  <2> QED
    BY <1>6, <2>1, <2>2, <2>3 DEF Asks
<1>14. Stocks'
  <2>1. \A d \in Dat : dat'[d].left = 0
    BY <1>2, <1>4 DEF FreeDat
  <2> QED
    BY <1>5, <1>6, <2>1 DEF Stocks
<1> QED
  BY <1>10, <1>11, <1>12, <1>13, <1>14 DEF Ledger

LEMMA CollectLedger ==
  ASSUME LInv, Collect
  PROVE  Typed' /\ Ledger'
<1>1. /\ s' = s /\ conn' = conn /\ dat' = dat /\ job \in Task
      /\ job' = [job EXCEPT !.waiting = FALSE] /\ leftover' \subseteq leftover
  BY DEF Collect, LInv, Typed
<1>2. /\ job' \in Task /\ job'.op = job.op /\ job'.src = job.src /\ job'.size = job.size
      /\ job'.got = job.got /\ job'.did = job.did
  BY <1>1 DEF Task
<1>3. Typed'
  BY <1>1, <1>2 DEF LInv, Typed
<1>4. Role(s)' /\ Clean'
  BY <1>1, <1>2 DEF LInv, Ledger, Role, Clean
<1>5. s'.cpcb = None
  BY <1>1 DEF Collect
<1>6. Stocks'
  BY <1>1, <1>2, <1>5 DEF LInv, Ledger, Stocks
<1> QED
  BY <1>3, <1>4, <1>5, <1>6 DEF Ledger

LEMMA CtlConnectedLedger ==
  ASSUME LInv, NEW c \in Ctl, CtlConnected(c)
  PROVE  Typed' /\ Ledger'
<1>1. /\ dat' = dat /\ job' = job /\ leftover' = leftover /\ s' = [s EXCEPT !.cs = "CONNECTED"]
      /\ conn[c].st = "syn" /\ s \in Session /\ conn \in [Ctl -> Link]
  BY DEF CtlConnected, LInv, Typed
<1>2. s.cpcb = c /\ s.cs = "CLOSED" /\ s.dpcb = None
  BY <1>1, LwftpAssumption, SynClosed DEF LInv, IInv, NoLeakedPcb
<1>3. /\ s' \in Session /\ s'.cs = "CONNECTED" /\ s'.target = s.target /\ s'.cpcb = c
      /\ s'.dpcb = None /\ s'.done = s.done /\ s'.io = s.io
  BY <1>1, <1>2 DEF Session, States
<1>4. PICK L \in Link :
        /\ L = [conn[c] EXCEPT !.st = "open", !.reps = <<"220">>]
        /\ L.st = "open" /\ L.cmds = conn[c].cmds /\ L.xf = conn[c].xf
  <2> DEFINE L == [conn[c] EXCEPT !.st = "open", !.reps = <<"220">>]
  <2>1. <<"220">> \in Seq(Codes) /\ conn[c] \in Link
    BY <1>1 DEF Codes
  <2>2. L \in Link /\ L.st = "open" /\ L.cmds = conn[c].cmds /\ L.xf = conn[c].xf
    BY <2>1 DEF Link
  <2> HIDE DEF Link
  <2> QED
    BY <2>2
<1>5. conn' = [conn EXCEPT ![c] = L]
  BY <1>4 DEF CtlConnected
<1>6. conn' \in [Ctl -> Link] /\ conn'[c] = L /\ \A x \in Ctl \ {c} : conn'[x] = conn[x]
  BY <1>1, <1>4, <1>5
<1>7. Typed'
  BY <1>1, <1>3, <1>6 DEF LInv, Typed
<1>8. Role(s)'
  BY <1>1, <1>3 DEF LInv, Ledger, Role
<1>9. Clean'
  BY <1>1, <1>2, <1>3, <1>4, <1>6 DEF LInv, Ledger, Clean
<1>10. c # None /\ Asks(conn[c]) /\ "CONNECTED" \in Early /\ "CLOSED" \in Early
  BY <1>2, LwftpAssumption DEF LInv, Ledger, Early
<1>11. Asks(conn[s.cpcb])'
  <2>1. Fitting(L.cmds)'
    BY <1>1, <1>4, <1>10 DEF Asks, Fitting
  <2>2. conn'[s'.cpcb] = L
    BY <1>3, <1>6
  <2>3. Unique(L.cmds) /\ Works(L.cmds) = {} /\ L.xf = "no" /\ job.did = 0
    BY <1>2, <1>4, <1>10 DEF Asks
  <2> QED
    BY <1>1, <2>1, <2>2, <2>3 DEF Asks
<1>12. Stocks'
  BY <1>1, <1>2, <1>3, <1>4, <1>6, <1>10 DEF LInv, Ledger, Stocks
<1> QED
  BY <1>7, <1>8, <1>9, <1>11, <1>12 DEF Ledger

LEMMA DataConnectedLedger ==
  ASSUME LInv, NEW d \in Dat, DataConnected(d)
  PROVE  Typed' /\ Ledger'
<1>1. /\ s' = s /\ conn' = conn /\ job' = job /\ leftover' = leftover
      /\ dat \in [Dat -> Wire] /\ dat' = [dat EXCEPT ![d].st = "open"] /\ dat[d].st = "syn"
  BY DEF DataConnected, LInv, Typed
<1> DEFINE X == [dat[d] EXCEPT !.st = "open"]
<1>2. X \in Wire /\ X.st = "open" /\ X.ctl = dat[d].ctl /\ X.left = dat[d].left
  BY <1>1 DEF Wire
<1>3. dat' = [dat EXCEPT ![d] = X]
  BY <1>1
<1> HIDE DEF X
<1>4. dat' \in [Dat -> Wire] /\ dat'[d] = X /\ \A x \in Dat \ {d} : dat'[x] = dat[x]
  BY <1>1, <1>2, <1>3
<1>5. \A x \in Dat : dat'[x].left = dat[x].left /\ dat'[x].ctl = dat[x].ctl
  BY <1>2, <1>4
<1>6. Typed'
  BY <1>1, <1>4 DEF LInv, Typed
<1>7. Role(s)'
  BY <1>1 DEF LInv, Ledger, Role
<1>8. Clean'
  BY <1>1, <1>2, <1>4, <1>5 DEF LInv, Ledger, Clean
<1>9. s.cpcb # None => Asks(conn[s.cpcb])'
  BY <1>1 DEF LInv, Ledger, Asks, Fitting
<1>10. Stocks'
  BY <1>1, <1>5 DEF LInv, Ledger, Stocks
<1> QED
  BY <1>1, <1>6, <1>7, <1>8, <1>9, <1>10 DEF Ledger

\* Replies, field by field.
LEMMA ReplyFacts ==
  ASSUME LInv, NEW c \in Ctl, NEW rs \in Seq(Codes)
  PROVE  /\ Replies(c, rs) \in Link /\ conn[c] \in Link
         /\ Replies(c, rs).st = conn[c].st /\ Replies(c, rs).cmds = conn[c].cmds
         /\ Replies(c, rs).reps = conn[c].reps \o rs
         /\ Replies(c, rs).xf = conn[c].xf /\ Replies(c, rs).fin = conn[c].fin
         /\ Replies(c, rs).bye = conn[c].bye
<1>1. conn[c] \in Link
  BY DEF LInv, Typed
<1>2. conn[c].reps \in Seq(Codes)
  BY <1>1 DEF Link
<1>3. conn[c].reps \o rs \in Seq(Codes)
  BY <1>2
<1> QED
  BY <1>1, <1>3 DEF Replies, Link

LEMMA Reply ==
  ASSUME LInv, NEW c \in Ctl, conn[c].st = "open", NEW rs \in Seq(Codes)
  PROVE  \E Q \in Link : /\ Q = Replies(c, rs) /\ Q.st = "open" /\ Q.cmds = conn[c].cmds
                         /\ Q.reps = conn[c].reps \o rs
                         /\ Q.xf = conn[c].xf /\ Q.fin = conn[c].fin /\ Q.bye = conn[c].bye
<1>1. PICK Q : Q = Replies(c, rs)
  OBVIOUS
<1>2. /\ Q \in Link /\ Q.st = "open" /\ Q.cmds = conn[c].cmds
      /\ Q.reps = conn[c].reps \o rs
      /\ Q.xf = conn[c].xf /\ Q.fin = conn[c].fin /\ Q.bye = conn[c].bye
  BY <1>1, ReplyFacts
<1> QED
  BY <1>1, <1>2

\* The server of the session's connection has gone on.
LEMMA ServerLedger ==
  ASSUME LInv, NEW c \in Ctl, c = s.cpcb, conn[c].st = "open", s' = s, leftover' = leftover,
         NEW L \in Link, conn' = [conn EXCEPT ![c] = L], L.st = "open",
         dat' \in [Dat -> Wire],
         \A d \in Dat : /\ dat'[d].ctl = dat[d].ctl /\ dat'[d].st = dat[d].st
                        /\ dat[d].st = "free" => dat'[d] = dat[d],
         job' \in Task, job'.op = job.op, Asks(L)', Stocks'
  PROVE  Typed' /\ Ledger'
<1>1. conn \in [Ctl -> Link] /\ leftover \subseteq {"RETR", "STOR"} /\ s \in Session
  BY DEF LInv, Typed
<1>2. conn' \in [Ctl -> Link] /\ conn'[c] = L /\ \A x \in Ctl \ {c} : conn'[x] = conn[x]
  BY <1>1
<1>3. Typed'
  BY <1>1, <1>2 DEF Typed
<1>4. Role(s)'
  BY DEF LInv, Ledger, Role
<1>5. Clean'
  <2>1. Clean
    BY DEF LInv, Ledger
  <2>2. \A x \in Ctl : conn'[x].st = "free" => conn'[x] = FreeConn
    BY <1>2, <2>1 DEF Clean
  <2>3. \A d \in Dat : dat'[d].st = "free" => dat'[d] = FreeDat
    BY <2>1 DEF Clean
  <2>4. \A d \in Dat : dat'[d].ctl # None => dat'[d].ctl = s'.cpcb
    BY <2>1 DEF Clean
  <2>5. conn'[s'.cpcb].st # "syn"
    BY <1>2
  <2> QED
    BY <2>2, <2>3, <2>4, <2>5 DEF Clean
<1>6. Asks(conn[s.cpcb])'
  <2>1. conn'[s'.cpcb] = L
    BY <1>2
  <2> QED
    BY <2>1 DEF Asks, Fitting
<1> QED
  BY <1>3, <1>4, <1>5, <1>6 DEF Ledger

\* What is known of the connection whose server acts.
LEMMA Serves ==
  ASSUME LInv, NEW c \in Ctl, conn[c].st # "free"
  PROVE  /\ c = s.cpcb /\ c # None /\ Asks(conn[c]) /\ conn[c] \in Link /\ Stocks
         /\ s' = s => \A K : Asks(K)' <=>
              /\ Unique(K.cmds) /\ Fitting(K.cmds)'
              /\ s.cs \in Early => Works(K.cmds) = {} /\ K.xf = "no" /\ job'.did = 0
              /\ Works(K.cmds) # {} => job'.did = 0 /\ K.xf # "up"
              /\ K.xf = "up" => job'.did = 0 /\ job'.op = "STOR"
<1>1. c = s.cpcb /\ c # None
  BY LwftpAssumption DEF LInv, IInv, NoLeakedPcb
<1>2. conn[c] \in Link /\ Stocks /\ Asks(conn[c])
  BY <1>1 DEF LInv, Typed, Ledger
<1> QED
  BY <1>1, <1>2 DEF Asks

LEMMA ReplyCodes ==
  /\ <<"150">> \in Seq(Codes) /\ <<"226">> \in Seq(Codes) /\ <<"426", "226">> \in Seq(Codes)
  /\ <<"221">> \in Seq(Codes) /\ <<"426">> \in Seq(Codes) /\ <<"550">> \in Seq(Codes)
  /\ \A cmd \in DOMAIN Agrees : Agrees[cmd] \in Codes /\ <<Agrees[cmd]>> \in Seq(Codes)
<1>1. {"150", "226", "426", "221", "550"} \subseteq Codes
  BY DEF Codes
<1>2. \A cmd \in DOMAIN Agrees : Agrees[cmd] \in Codes
  BY DEF Agrees, Codes
<1> QED
  BY <1>1, <1>2

\* What is left in the wires of conn[c] does not depend on who asks for it.
LEMMA WireLeft ==
  ASSUME LInv, NEW c \in Ctl, c = s.cpcb, NEW n \in Nat,
         \/ dat' = dat
         \/ dat' = [d \in Dat |-> IF d \in DataOf(c) THEN [dat[d] EXCEPT !.left = n] ELSE dat[d]]
         \/ dat' = [d \in Dat |-> IF d \in DataOf(c) THEN [dat[d] EXCEPT !.eof = TRUE]
                                                    ELSE dat[d]]
  PROVE  /\ dat' \in [Dat -> Wire]
         /\ \A d \in Dat : /\ dat'[d].ctl = dat[d].ctl /\ dat'[d].st = dat[d].st
                           /\ dat[d].st = "free" => dat'[d] = dat[d]
                           /\ dat'[d].left \in {dat[d].left, n}
<1>1. dat \in [Dat -> Wire] /\ Clean /\ c # None
  BY LwftpAssumption DEF LInv, Typed, Ledger
<1>2. \A d \in DataOf(c) : dat[d].st # "free"
  BY <1>1 DEF DataOf, Clean, FreeDat
<1>3. \A d \in Dat : dat[d] \in Wire
  BY <1>1
<1>4. \A X \in Wire : LET L == [X EXCEPT !.left = n]
                          E == [X EXCEPT !.eof = TRUE]
                      IN  /\ L \in Wire /\ L.ctl = X.ctl /\ L.st = X.st /\ L.left = n
                          /\ E \in Wire /\ E.ctl = X.ctl /\ E.st = X.st /\ E.left = X.left
  BY DEF Wire
<1>5. CASE dat' = dat
  BY <1>1, <1>5
<1>6. CASE dat' = [d \in Dat |-> IF d \in DataOf(c) THEN [dat[d] EXCEPT !.left = n] ELSE dat[d]]
  <2>1. \A d \in Dat : dat'[d] = IF d \in DataOf(c) THEN [dat[d] EXCEPT !.left = n] ELSE dat[d]
    BY <1>6
  <2>2. \A d \in Dat : dat'[d] \in Wire
    BY <1>3, <1>4, <2>1
  <2>3. dat' \in [Dat -> Wire]
    BY <1>6, <2>2
  <2> QED
    BY <1>2, <1>3, <1>4, <2>1, <2>3
<1>7. CASE dat' = [d \in Dat |-> IF d \in DataOf(c) THEN [dat[d] EXCEPT !.eof = TRUE]
                                                    ELSE dat[d]]
  <2>1. \A d \in Dat : dat'[d] = IF d \in DataOf(c) THEN [dat[d] EXCEPT !.eof = TRUE] ELSE dat[d]
    BY <1>7
  <2>2. \A d \in Dat : dat'[d] \in Wire
    BY <1>3, <1>4, <2>1
  <2>3. dat' \in [Dat -> Wire]
    BY <1>7, <2>2
  <2> QED
    BY <1>2, <1>3, <1>4, <2>1, <2>3
<1> QED
  BY <1>5, <1>6, <1>7

\* The client's end of the job is as it was.
LEMMA JobServed ==
  ASSUME LInv, NEW did \in {job.did, job.did + 1}, NEW size \in Nat,
         NEW bad \in BOOLEAN, job' = [job EXCEPT !.did = did, !.size = size, !.bad = bad]
  PROVE  /\ job' \in Task /\ job'.op = job.op /\ job'.src = job.src /\ job'.got = job.got
         /\ job'.did = did /\ job'.size = size /\ job'.waiting = job.waiting /\ job'.bad = bad
<1>1. job \in Task
  BY DEF LInv, Typed
<1>2. did \in Nat
  BY <1>1 DEF Task
<1> QED
  BY <1>1, <1>2 DEF Task

\* The server has read a command, and turned to a transfer, or to the end.
LEMMA ReadOn ==
  ASSUME NEW Q \in Link, Q.cmds # <<>>, NEW xf \in {"no", "down", "up"}
  PROVE  \E L \in Link :
           /\ L = [[Q EXCEPT !.xf = xf] EXCEPT !.cmds = Tail(@)]
           /\ L.st = Q.st /\ L.cmds = Tail(Q.cmds) /\ L.xf = xf
           /\ L.reps = Q.reps /\ L.fin = Q.fin /\ L.bye = Q.bye
<1>1. PICK X : X = [Q EXCEPT !.xf = xf]
  OBVIOUS
<1>2. /\ X \in Link /\ X.st = Q.st /\ X.cmds = Q.cmds /\ X.xf = xf
      /\ X.reps = Q.reps /\ X.fin = Q.fin /\ X.bye = Q.bye
  BY <1>1 DEF Link
<1>3. Tail(Q.cmds) \in Seq(Commands)
  <2>1. Q.cmds \in Seq(Commands)
    BY DEF Link
  <2> QED
    BY <2>1
<1>4. PICK q \in Seq(Commands) : q = Tail(Q.cmds)
  BY <1>3
<1>5. PICK L : L = [X EXCEPT !.cmds = q]
  OBVIOUS
<1>6. /\ L \in Link /\ L.st = Q.st /\ L.cmds = q /\ L.xf = xf
      /\ L.reps = Q.reps /\ L.fin = Q.fin /\ L.bye = Q.bye
  BY <1>2, <1>5 DEF Link
<1>7. L = [X EXCEPT !.cmds = Tail(@)]
  BY <1>2, <1>4, <1>5
<1> QED
  BY <1>1, <1>4, <1>6, <1>7

LEMMA ReadLast ==
  ASSUME NEW Q \in Link, Q.cmds # <<>>
  PROVE  \E L \in Link :
           /\ L = [[Q EXCEPT !.bye = TRUE] EXCEPT !.cmds = Tail(@)]
           /\ L.st = Q.st /\ L.cmds = Tail(Q.cmds) /\ L.xf = Q.xf
           /\ L.reps = Q.reps /\ L.fin = Q.fin /\ L.bye = TRUE
<1>1. PICK X : X = [Q EXCEPT !.bye = TRUE]
  OBVIOUS
<1>2. /\ X \in Link /\ X.st = Q.st /\ X.cmds = Q.cmds /\ X.xf = Q.xf
      /\ X.reps = Q.reps /\ X.fin = Q.fin /\ X.bye = TRUE
  BY <1>1 DEF Link
<1>3. Tail(Q.cmds) \in Seq(Commands)
  <2>1. Q.cmds \in Seq(Commands)
    BY DEF Link
  <2> QED
    BY <2>1
<1>4. PICK q \in Seq(Commands) : q = Tail(Q.cmds)
  BY <1>3
<1>5. PICK L : L = [X EXCEPT !.cmds = q]
  OBVIOUS
<1>6. /\ L \in Link /\ L.st = Q.st /\ L.cmds = q /\ L.xf = Q.xf
      /\ L.reps = Q.reps /\ L.fin = Q.fin /\ L.bye = TRUE
  BY <1>2, <1>5 DEF Link
<1>7. L = [X EXCEPT !.cmds = Tail(@)]
  BY <1>2, <1>4, <1>5
<1> QED
  BY <1>1, <1>4, <1>6, <1>7

LEMMA AgreeLedger ==
  ASSUME LInv, NEW c \in Ctl, Agree(c)
  PROVE  Typed' /\ Ledger'
<1> DEFINE K == conn[c]
           cmd == Head(K.cmds)
           J == [job EXCEPT !.did = IF cmd \in Performs THEN @ + 1 ELSE @]
           Read(C) == [conn EXCEPT ![c] = [C EXCEPT !.cmds = Tail(@)]]
<1>1. K.st = "open" /\ K.cmds # <<>> /\ s' = s /\ leftover' = leftover
  BY DEF Agree
<1>2. PICK k : k = K
  OBVIOUS
<1>3. /\ c = s.cpcb /\ c # None /\ Asks(k) /\ k \in Link /\ Stocks
      /\ k.cmds \in Seq(Commands)
  BY <1>1, <1>2, Serves DEF Link
<1>4. PICK q : q = Tail(k.cmds)
  OBVIOUS
<1>5. /\ cmd \in Commands /\ q \in Seq(Commands)
      /\ cmd \in Work => Works(k.cmds) # {}
      /\ Works(k.cmds) = {} => Works(q) = {}
      /\ Unique(q) /\ (cmd \in Work => Works(q) = {})
      /\ Fitting(q) /\ (cmd = "STOR" => job.op = "STOR")
      /\ (cmd \in {"LIST", "RETR"} => job.op # "STOR")
  BY <1>1, <1>2, <1>3, <1>4, Popped DEF Asks
<1>6. job \in Task /\ job.did \in Nat /\ job.size \in Nat /\ job.bad \in BOOLEAN
  BY DEF LInv, Typed, Task
<1>7. PICK did \in {job.did, job.did + 1} : did = IF cmd \in Performs THEN job.did + 1 ELSE job.did
  OBVIOUS
<1>8. J = [job EXCEPT !.did = did, !.size = job.size, !.bad = job.bad]
      /\ \A n : [J EXCEPT !.size = n] = [job EXCEPT !.did = did, !.size = n, !.bad = job.bad]
  BY <1>6, <1>7 DEF Task
<1>9. job' = J \/ job' = job \/ \E n \in 0..MaxSize : job' = [J EXCEPT !.size = n]
  BY DEF Agree
<1>10. /\ cmd \in Work => job.did = 0 /\ s.cs \notin Early /\ Works(q) = {} /\ k.xf # "up"
       /\ cmd \in Performs \/ cmd = "STOR" <=> cmd \in Work
       /\ cmd = "STOR" => cmd \notin Performs
  BY <1>3, <1>5 DEF Asks, Work, Performs
<1>11. ASSUME NEW L \in Link, L.cmds = q, job'.op = job.op, job'.did = did,
              cmd \notin Work => L.xf = "no", L.xf = "up" => cmd = "STOR"
       PROVE  Asks(L)'
  <2>1. Fitting(L.cmds)'
    BY <1>5, <1>11 DEF Fitting
  <2>2. s.cs \in Early => Works(L.cmds) = {} /\ L.xf = "no" /\ job'.did = 0
    BY <1>3, <1>5, <1>7, <1>10, <1>11 DEF Asks
  <2>3. Works(L.cmds) # {} => job'.did = 0 /\ L.xf # "up"
    BY <1>3, <1>5, <1>7, <1>10, <1>11 DEF Asks
  <2>4. L.xf = "up" => job'.did = 0 /\ job'.op = "STOR"
    BY <1>3, <1>5, <1>7, <1>10, <1>11 DEF Asks
  <2> QED
    BY <1>1, <1>5, <1>11, <2>1, <2>2, <2>3, <2>4 DEF Asks
<1>12. job.did + 1 \in Nat /\ did \in Nat /\ did <= 1
  BY <1>3, <1>6, <1>7, <1>10 DEF Stocks
<1>13. ASSUME NEW L \in Link, conn' = [conn EXCEPT ![c] = L], L.cmds = q,
              job'.op = job.op, job'.did = did, job'.src = job.src, job'.got = job.got,
              job'.size = job.size,
              \A d \in Dat : dat'[d].left = dat[d].left
       PROVE  Stocks'
  <2>1. conn'[s'.cpcb].cmds = q
    BY <1>1, <1>3, <1>13 DEF LInv, Typed
  <2>2. s.cs \in Early \/ Works(q) # {} => s.cs \in Early \/ Works(k.cmds) # {}
    BY <1>5
  <2>3. s.cpcb # None /\ job.op # "STOR" =>
          (s.cs \in Early \/ Works(k.cmds) # {} =>
             job.got = 0 /\ \A d \in Dat : dat[d].left = 0)
    BY <1>2, <1>3 DEF Stocks
  <2> QED
    BY <1>1, <1>3, <1>12, <1>13, <2>1, <2>2, <2>3 DEF Stocks
<1> HIDE DEF J
<1>14. CASE cmd \in DOMAIN Agrees \ {"LIST", "RETR"} /\ k.xf = "no" /\ dat' = dat /\ job' = J
            /\ conn' = Read([Replies(c, <<Agrees[cmd]>>) EXCEPT
                               !.xf = IF cmd = "STOR" THEN "up" ELSE @])
  <2>1. <<Agrees[cmd]>> \in Seq(Codes)
    BY <1>14, ReplyCodes
  <2>2. PICK Q \in Link : /\ Q = Replies(c, <<Agrees[cmd]>>)
                          /\ Q.st = "open" /\ Q.cmds = k.cmds /\ Q.xf = k.xf
    BY <1>1, <1>2, <2>1, Reply
  <2>3. PICK xf \in {"no", "down", "up"} : xf = IF cmd = "STOR" THEN "up" ELSE "no"
    OBVIOUS
  <2>4. PICK L \in Link : /\ L = [[Q EXCEPT !.xf = xf] EXCEPT !.cmds = Tail(@)]
                          /\ L.st = Q.st /\ L.cmds = Tail(Q.cmds) /\ L.xf = xf
                          /\ L.reps = Q.reps /\ L.fin = Q.fin /\ L.bye = Q.bye
    <3>1. Q \in Link /\ Q.cmds # <<>>
      BY <1>1, <1>2, <2>2
    <3> QED
      BY <3>1, ReadOn
  <2>5. [Q EXCEPT !.xf = IF cmd = "STOR" THEN "up" ELSE @] = [Q EXCEPT !.xf = xf]
    <3>1. (IF cmd = "STOR" THEN "up" ELSE Q.xf) = xf
      BY <1>14, <2>2, <2>3
    <3> QED
      BY <3>1, Zenon
  <2>6. conn' = [conn EXCEPT ![c] = L]
    BY <1>14, <2>2, <2>4, <2>5
  <2>7. L \in Link /\ L.st = "open" /\ L.cmds = q /\ L.xf = xf
    BY <1>4, <2>2, <2>4
  <2>8. job' = [job EXCEPT !.did = did, !.size = job.size, !.bad = job.bad]
    BY <1>8, <1>14
  <2>9. /\ job' \in Task /\ job'.op = job.op /\ job'.src = job.src /\ job'.got = job.got
        /\ job'.did = did /\ job'.size = job.size
    BY <1>6, <2>8, JobServed
  <2>10. Asks(L)'
    BY <1>10, <1>11, <2>3, <2>7, <2>9
  <2>11. Stocks'
    BY <1>13, <1>14, <2>6, <2>7, <2>9
  <2>12. /\ dat' \in [Dat -> Wire]
         /\ \A d \in Dat : /\ dat'[d].ctl = dat[d].ctl /\ dat'[d].st = dat[d].st
                           /\ dat[d].st = "free" => dat'[d] = dat[d]
    BY <1>14 DEF LInv, Typed
  <2> QED
    BY <1>1, <1>3, <2>6, <2>7, <2>9, <2>10, <2>11, <2>12, ServerLedger
<1>15. ASSUME cmd \in {"LIST", "RETR"}, k.xf = "no", NEW n \in 0..MaxSize,
              conn' = Read([Replies(c, <<"150">>) EXCEPT !.xf = "down"]),
              dat' = [d \in Dat |-> IF d \in DataOf(c) THEN [dat[d] EXCEPT !.left = n]
                                                      ELSE dat[d]],
              job' = [J EXCEPT !.size = n]
       PROVE  Typed' /\ Ledger'
  <2>1. PICK Q \in Link : /\ Q = Replies(c, <<"150">>)
                          /\ Q.st = "open" /\ Q.cmds = k.cmds /\ Q.xf = k.xf
    <3>1. <<"150">> \in Seq(Codes)
      BY ReplyCodes
    <3> QED
      BY <1>1, <1>2, <3>1, Reply
  <2>2. PICK L \in Link : /\ L = [[Q EXCEPT !.xf = "down"] EXCEPT !.cmds = Tail(@)]
                          /\ L.st = Q.st /\ L.cmds = Tail(Q.cmds) /\ L.xf = "down"
    BY <1>1, <1>2, <2>1, ReadOn
  <2>3. conn' = [conn EXCEPT ![c] = L]
    BY <1>15, <2>1, <2>2
  <2>4. L \in Link /\ L.st = "open" /\ L.cmds = q /\ L.xf = "down"
    BY <1>4, <2>1, <2>2
  <2>5. n \in Nat /\ n <= MaxSize
    BY <1>15, LwftpAssumption
  <2>6. job' = [job EXCEPT !.did = did, !.size = n, !.bad = job.bad]
    BY <1>8, <1>15
  <2>7. /\ job' \in Task /\ job'.op = job.op /\ job'.src = job.src /\ job'.got = job.got
        /\ job'.did = did /\ job'.size = n
    BY <1>6, <2>5, <2>6, JobServed
  <2>8. cmd \in Work /\ job.op # "STOR"
    BY <1>5, <1>15, CommandFacts
  <2>9. Asks(L)'
    BY <1>11, <2>4, <2>7, <2>8
  <2>10. /\ dat' \in [Dat -> Wire]
         /\ \A d \in Dat : /\ dat'[d].ctl = dat[d].ctl /\ dat'[d].st = dat[d].st
                           /\ dat[d].st = "free" => dat'[d] = dat[d]
                           /\ dat'[d].left \in {dat[d].left, n}
    BY <1>3, <1>15, <2>5, WireLeft
  <2>11. /\ job.got = 0 /\ job.src = 0 /\ \A d \in Dat : dat[d].left = 0
         /\ s.cs \notin Early /\ Works(q) = {}
    BY <1>2, <1>3, <1>5, <1>10, <2>8 DEF Stocks
  <2>12. Stocks'
    <3>1. conn'[s'.cpcb].cmds = q
      BY <1>1, <1>3, <2>3, <2>4 DEF LInv, Typed
    <3>2. \A d \in Dat : dat'[d].left \in {0, n}
      BY <2>10, <2>11
    <3> QED
      BY <1>1, <1>12, <2>5, <2>7, <2>8, <2>11, <3>1, <3>2 DEF Stocks
  <2> QED
    BY <1>1, <1>3, <2>3, <2>4, <2>7, <2>9, <2>10, <2>12, ServerLedger
<1>16. CASE cmd = "ABOR" /\ job' = J
            /\ conn' = Read([Replies(c, IF k.xf = "no" THEN <<"226">> ELSE <<"426", "226">>)
                               EXCEPT !.xf = "no"])
            /\ dat' = [d \in Dat |-> IF d \in DataOf(c) THEN [dat[d] EXCEPT !.eof = TRUE]
                                                       ELSE dat[d]]
  <2>1. PICK rs \in Seq(Codes) : rs = IF k.xf = "no" THEN <<"226">> ELSE <<"426", "226">>
    BY ReplyCodes
  <2>2. PICK Q \in Link : Q = Replies(c, rs) /\ Q.st = "open" /\ Q.cmds = k.cmds
    BY <1>1, <1>2, Reply
  <2>3. PICK L \in Link : /\ L = [[Q EXCEPT !.xf = "no"] EXCEPT !.cmds = Tail(@)]
                          /\ L.st = Q.st /\ L.cmds = Tail(Q.cmds) /\ L.xf = "no"
    BY <1>1, <1>2, <2>2, ReadOn
  <2>4. conn' = [conn EXCEPT ![c] = L]
    BY <1>16, <2>1, <2>2, <2>3
  <2>5. L \in Link /\ L.st = "open" /\ L.cmds = q /\ L.xf = "no"
    BY <1>4, <2>2, <2>3
  <2>6. job' = [job EXCEPT !.did = did, !.size = job.size, !.bad = job.bad]
    BY <1>8, <1>16
  <2>7. /\ job' \in Task /\ job'.op = job.op /\ job'.src = job.src /\ job'.got = job.got
        /\ job'.did = did /\ job'.size = job.size
    BY <1>6, <2>6, JobServed
  <2>8. Asks(L)'
    BY <1>11, <2>5, <2>7
  <2>9. /\ dat' \in [Dat -> Wire]
        /\ \A d \in Dat : /\ dat'[d].ctl = dat[d].ctl /\ dat'[d].st = dat[d].st
                          /\ dat[d].st = "free" => dat'[d] = dat[d]
                          /\ dat'[d].left = dat[d].left
    <3>1. \A n \in Nat : /\ dat' \in [Dat -> Wire]
                         /\ \A d \in Dat : /\ dat'[d].ctl = dat[d].ctl /\ dat'[d].st = dat[d].st
                                           /\ dat[d].st = "free" => dat'[d] = dat[d]
                                           /\ dat'[d].left \in {dat[d].left, n}
      BY <1>3, <1>16, WireLeft
    <3>2. \A d \in Dat : dat'[d].left \in {dat[d].left, 0} /\ dat'[d].left \in {dat[d].left, 1}
      BY <3>1
    <3> QED
      BY <3>1, <3>2
  <2>10. Stocks'
    BY <1>13, <2>4, <2>5, <2>7, <2>9
  <2> QED
    BY <1>1, <1>3, <2>4, <2>5, <2>7, <2>8, <2>9, <2>10, ServerLedger
<1>17. CASE cmd = "QUIT" /\ k.xf = "no" /\ dat' = dat /\ job' = job
            /\ conn' = Read([Replies(c, <<"221">>) EXCEPT !.bye = TRUE])
  <2>1. PICK Q \in Link : /\ Q = Replies(c, <<"221">>)
                          /\ Q.st = "open" /\ Q.cmds = k.cmds /\ Q.xf = k.xf
    <3>1. <<"221">> \in Seq(Codes)
      BY ReplyCodes
    <3> QED
      BY <1>1, <1>2, <3>1, Reply
  <2>2. PICK L \in Link : /\ L = [[Q EXCEPT !.bye = TRUE] EXCEPT !.cmds = Tail(@)]
                          /\ L.st = Q.st /\ L.cmds = Tail(Q.cmds) /\ L.xf = Q.xf
    BY <1>1, <1>2, <2>1, ReadLast
  <2>3. conn' = [conn EXCEPT ![c] = L]
    BY <1>17, <2>1, <2>2
  <2>4. L \in Link /\ L.st = "open" /\ L.cmds = q /\ L.xf = "no"
    BY <1>4, <1>17, <2>1, <2>2
  <2>5. did = job.did
    BY <1>7, <1>17 DEF Performs
  <2>6. Asks(L)'
    BY <1>11, <1>17, <2>4, <2>5
  <2>7. Stocks'
    BY <1>13, <1>17, <2>3, <2>4, <2>5
  <2>8. /\ dat' \in [Dat -> Wire] /\ job' \in Task
        /\ \A d \in Dat : /\ dat'[d].ctl = dat[d].ctl /\ dat'[d].st = dat[d].st
                          /\ dat[d].st = "free" => dat'[d] = dat[d]
    BY <1>17 DEF LInv, Typed
  <2> QED
    BY <1>1, <1>3, <1>17, <2>3, <2>4, <2>6, <2>7, <2>8, ServerLedger
<1> QED
  <2>1. \/ /\ cmd \in DOMAIN Agrees \ {"LIST", "RETR"} /\ k.xf = "no" /\ dat' = dat /\ job' = J
           /\ conn' = Read([Replies(c, <<Agrees[cmd]>>) EXCEPT
                              !.xf = IF cmd = "STOR" THEN "up" ELSE @])
        \/ /\ cmd \in {"LIST", "RETR"} /\ k.xf = "no"
           /\ conn' = Read([Replies(c, <<"150">>) EXCEPT !.xf = "down"])
           /\ \E n \in 0..MaxSize :
                /\ dat' = [d \in Dat |-> IF d \in DataOf(c) THEN [dat[d] EXCEPT !.left = n]
                                                           ELSE dat[d]]
                /\ job' = [J EXCEPT !.size = n]
        \/ /\ cmd = "ABOR" /\ job' = J
           /\ conn' = Read([Replies(c, IF k.xf = "no" THEN <<"226">> ELSE <<"426", "226">>)
                              EXCEPT !.xf = "no"])
           /\ dat' = [d \in Dat |-> IF d \in DataOf(c) THEN [dat[d] EXCEPT !.eof = TRUE]
                                                      ELSE dat[d]]
        \/ /\ cmd = "QUIT" /\ k.xf = "no" /\ dat' = dat /\ job' = job
           /\ conn' = Read([Replies(c, <<"221">>) EXCEPT !.bye = TRUE])
    BY <1>2 DEF Agree, J
  <2> HIDE DEF Read
  <2> QED
    BY <1>14, <1>15, <1>16, <1>17, <2>1

\* A transfer is under way on an open connection.
LEMMA Moving ==
  ASSUME LInv, NEW c \in Ctl, conn[c].xf # "no"
  PROVE  conn[c].st = "open" /\ s.cs \notin Early
<1>1. conn[c].st # "free"
  BY DEF LInv, Ledger, Clean, FreeConn
<1>2. c = s.cpcb /\ c # None /\ Asks(conn[c]) /\ conn[c] \in Link
  BY <1>1, Serves
<1>3. s.cs \notin Early
  BY <1>2 DEF Asks
<1>4. conn[c].st # "syn"
  BY <1>2, <1>3 DEF LInv, Ledger, Clean, Early
<1> QED
  BY <1>1, <1>2, <1>3, <1>4 DEF Link

\* The server has replied, or lost a command, without doing anything.
LEMMA RestLedger ==
  ASSUME LInv, NEW c \in Ctl, conn[c].st = "open", s' = s, leftover' = leftover,
         NEW L \in Link, conn' = [conn EXCEPT ![c] = L], L.st = "open",
         L.cmds = conn[c].cmds \/ (conn[c].cmds # <<>> /\ L.cmds = Tail(conn[c].cmds)),
         L.xf = conn[c].xf \/ L.xf = "no",
         dat' \in [Dat -> Wire],
         \A d \in Dat : /\ dat'[d].ctl = dat[d].ctl /\ dat'[d].st = dat[d].st
                        /\ dat'[d].left = dat[d].left
                        /\ dat[d].st = "free" => dat'[d] = dat[d],
         NEW bad \in BOOLEAN, job' = [job EXCEPT !.bad = bad]
  PROVE  Typed' /\ Ledger'
<1>1. /\ c = s.cpcb /\ c # None /\ Asks(conn[c]) /\ conn[c] \in Link /\ Stocks
  BY Serves
<1>2. job \in Task
  BY DEF LInv, Typed
<1>3. /\ job' \in Task /\ job'.op = job.op /\ job'.src = job.src /\ job'.got = job.got
      /\ job'.did = job.did /\ job'.size = job.size
  BY <1>2 DEF Task
<1>4. /\ Unique(L.cmds) /\ Fitting(L.cmds)
      /\ Works(conn[c].cmds) = {} => Works(L.cmds) = {}
  <2>1. conn[c].cmds \in Seq(Commands) /\ Unique(conn[c].cmds) /\ Fitting(conn[c].cmds)
    BY <1>1 DEF Link, Asks
  <2> QED
    BY <2>1, Popped
<1>5. Fitting(L.cmds)'
  BY <1>3, <1>4 DEF Fitting
<1>6. Asks(L)'
  BY <1>1, <1>3, <1>4, <1>5 DEF Asks
<1>7. conn'[s'.cpcb] = L
  BY <1>1 DEF LInv, Typed
<1>8. Stocks'
  BY <1>1, <1>3, <1>4, <1>7 DEF Stocks
<1> QED
  BY <1>1, <1>3, <1>6, <1>8, ServerLedger

\* The reply that ends a transfer.
LEMMA EndReply ==
  ASSUME LInv, NEW c \in Ctl, conn[c].st = "open", NEW rs \in Seq(Codes)
  PROVE  \E L \in Link : /\ L = [Replies(c, rs) EXCEPT !.xf = "no"]
                         /\ L.st = "open" /\ L.cmds = conn[c].cmds /\ L.xf = "no"
                         /\ L.fin = conn[c].fin /\ L.bye = conn[c].bye
                         /\ L.reps = conn[c].reps \o rs
<1>1. PICK Q : Q = Replies(c, rs)
  OBVIOUS
<1>2. /\ Q \in Link /\ Q.st = "open" /\ Q.cmds = conn[c].cmds /\ Q.fin = conn[c].fin
      /\ Q.bye = conn[c].bye /\ Q.reps = conn[c].reps \o rs
  BY <1>1, ReplyFacts
<1>3. PICK L : L = [Q EXCEPT !.xf = "no"]
  OBVIOUS
<1>4. /\ L \in Link /\ L.st = "open" /\ L.cmds = conn[c].cmds /\ L.xf = "no"
      /\ L.fin = conn[c].fin /\ L.bye = conn[c].bye /\ L.reps = conn[c].reps \o rs
  BY <1>2, <1>3 DEF Link
<1> QED
  BY <1>1, <1>3, <1>4

LEMMA FinishDownLedger ==
  ASSUME LInv, NEW c \in Ctl, FinishDown(c)
  PROVE  Typed' /\ Ledger'
<1>1. /\ conn[c].xf = "down" /\ s' = s /\ leftover' = leftover /\ job' = job
      /\ conn' = [conn EXCEPT ![c] = [Replies(c, <<"226">>) EXCEPT !.xf = "no"]]
      /\ dat' = [d \in Dat |-> IF d \in DataOf(c) THEN [dat[d] EXCEPT !.eof = TRUE] ELSE dat[d]]
  BY DEF FinishDown
<1>2. conn[c].st = "open"
  BY <1>1, Moving
<1>3. c = s.cpcb
  BY <1>2, Serves
<1>4. <<"226">> \in Seq(Codes)
  BY ReplyCodes
<1>5. PICK L \in Link : /\ L = [Replies(c, <<"226">>) EXCEPT !.xf = "no"]
                        /\ L.st = "open" /\ L.cmds = conn[c].cmds /\ L.xf = "no"
  BY <1>2, <1>4, EndReply
<1>6. conn' = [conn EXCEPT ![c] = L]
  BY <1>1, <1>5
<1>7. /\ dat' \in [Dat -> Wire]
      /\ \A d \in Dat : /\ dat'[d].ctl = dat[d].ctl /\ dat'[d].st = dat[d].st
                        /\ dat[d].st = "free" => dat'[d] = dat[d]
                        /\ dat'[d].left = dat[d].left
  <2>1. \A n \in Nat : /\ dat' \in [Dat -> Wire]
                       /\ \A d \in Dat : /\ dat'[d].ctl = dat[d].ctl /\ dat'[d].st = dat[d].st
                                         /\ dat[d].st = "free" => dat'[d] = dat[d]
                                         /\ dat'[d].left \in {dat[d].left, n}
    BY <1>1, <1>3, WireLeft
  <2>2. \A d \in Dat : dat'[d].left \in {dat[d].left, 0} /\ dat'[d].left \in {dat[d].left, 1}
    BY <2>1
  <2> QED
    BY <2>1, <2>2
<1>8. PICK bad \in BOOLEAN : job' = [job EXCEPT !.bad = bad]
  <2>1. job.bad \in BOOLEAN /\ job' = [job EXCEPT !.bad = job.bad]
    BY <1>1 DEF LInv, Typed, Task
  <2> QED
    BY <2>1
<1> QED
  BY <1>1, <1>2, <1>5, <1>6, <1>7, <1>8, RestLedger

LEMMA FinishUpLedger ==
  ASSUME LInv, NEW c \in Ctl, FinishUp(c)
  PROVE  Typed' /\ Ledger'
<1>1. /\ conn[c].xf = "up" /\ s' = s /\ leftover' = leftover /\ dat' = dat
      /\ conn' = [conn EXCEPT ![c] = [Replies(c, <<"226">>) EXCEPT !.xf = "no"]]
      /\ job' = [job EXCEPT !.did = @ + 1]
  BY DEF FinishUp
<1>2. conn[c].st = "open" /\ s.cs \notin Early
  BY <1>1, Moving
<1>3. c = s.cpcb /\ c # None /\ Asks(conn[c]) /\ conn[c] \in Link /\ Stocks
  BY <1>2, Serves
<1>4. <<"226">> \in Seq(Codes)
  BY ReplyCodes
<1>5. PICK L \in Link : /\ L = [Replies(c, <<"226">>) EXCEPT !.xf = "no"]
                        /\ L.st = "open" /\ L.cmds = conn[c].cmds /\ L.xf = "no"
  BY <1>2, <1>4, EndReply
<1>6. conn' = [conn EXCEPT ![c] = L] /\ conn'[s'.cpcb] = L
  BY <1>1, <1>3, <1>5 DEF LInv, Typed
<1>7. job.did = 0 /\ job.op = "STOR" /\ Works(L.cmds) = {} /\ Unique(L.cmds) /\ Fitting(L.cmds)
  BY <1>1, <1>3, <1>5 DEF Asks
<1>8. job \in Task
  BY DEF LInv, Typed
<1>9. /\ job' \in Task /\ job'.op = job.op /\ job'.src = job.src /\ job'.got = job.got
      /\ job'.did = 1 /\ job'.size = job.size
  BY <1>1, <1>7, <1>8 DEF Task
<1>10. Fitting(L.cmds)'
  BY <1>7, <1>9 DEF Fitting
<1>11. Asks(L)'
  BY <1>1, <1>2, <1>5, <1>7, <1>10 DEF Asks
<1>12. Stocks'
  BY <1>1, <1>3, <1>7, <1>9 DEF Stocks
<1>13. dat' \in [Dat -> Wire] /\ \A d \in Dat : /\ dat'[d].ctl = dat[d].ctl
                                                 /\ dat'[d].st = dat[d].st
                                                 /\ dat[d].st = "free" => dat'[d] = dat[d]
  BY <1>1 DEF LInv, Typed
<1> QED
  BY <1>1, <1>2, <1>3, <1>5, <1>6, <1>9, <1>11, <1>12, <1>13, ServerLedger

\* dat as it is.
LEMMA WireRests ==
  ASSUME LInv, dat' = dat
  PROVE  /\ dat' \in [Dat -> Wire]
         /\ \A d \in Dat : /\ dat'[d].ctl = dat[d].ctl /\ dat'[d].st = dat[d].st
                           /\ dat'[d].left = dat[d].left
                           /\ dat[d].st = "free" => dat'[d] = dat[d]
  BY DEF LInv, Typed

LEMMA FailXferLedger ==
  ASSUME LInv, NEW c \in Ctl, FailXfer(c)
  PROVE  Typed' /\ Ledger'
<1>1. /\ conn[c].xf # "no" /\ s' = s /\ leftover' = leftover /\ dat' = dat
      /\ conn' = [conn EXCEPT ![c] = [Replies(c, <<"426">>) EXCEPT !.xf = "no"]]
      /\ job' = [job EXCEPT !.bad = TRUE]
  BY DEF FailXfer
<1>2. conn[c].st = "open"
  BY <1>1, Moving
<1>3. <<"426">> \in Seq(Codes)
  BY ReplyCodes
<1>4. PICK L \in Link : /\ L = [Replies(c, <<"426">>) EXCEPT !.xf = "no"]
                        /\ L.st = "open" /\ L.cmds = conn[c].cmds /\ L.xf = "no"
  BY <1>2, <1>3, EndReply
<1>5. conn' = [conn EXCEPT ![c] = L]
  BY <1>1, <1>4
<1> QED
  BY <1>1, <1>2, <1>4, <1>5, WireRests, RestLedger

LEMMA RefuseLedger ==
  ASSUME LInv, NEW c \in Ctl, Refuse(c)
  PROVE  Typed' /\ Ledger'
<1>1. /\ conn[c].st = "open" /\ conn[c].cmds # <<>> /\ s' = s /\ leftover' = leftover
      /\ dat' = dat
      /\ conn' = [conn EXCEPT ![c] = [Replies(c, <<"550">>) EXCEPT !.cmds = Tail(@)]]
      /\ job' = [job EXCEPT !.bad = TRUE]
  BY DEF Refuse
<1>2. PICK Q \in Link : /\ Q = Replies(c, <<"550">>) /\ Q.st = "open" /\ Q.cmds = conn[c].cmds
                        /\ Q.xf = conn[c].xf
  <2>1. <<"550">> \in Seq(Codes)
    BY ReplyCodes
  <2> QED
    BY <1>1, <2>1, Reply
<1>3. conn[c].cmds \in Seq(Commands)
  BY <1>2 DEF Link
<1>4. Tail(conn[c].cmds) \in Seq(Commands)
  BY <1>1, <1>3
<1>5. PICK L \in Link : /\ L = [Q EXCEPT !.cmds = Tail(@)] /\ L.st = "open"
                        /\ L.cmds = Tail(conn[c].cmds) /\ L.xf = conn[c].xf
  <2>1. PICK L : L = [Q EXCEPT !.cmds = Tail(@)]
    OBVIOUS
  <2>2. L \in Link /\ L.st = "open" /\ L.cmds = Tail(conn[c].cmds) /\ L.xf = conn[c].xf
    BY <1>2, <1>4, <2>1 DEF Link
  <2> QED
    BY <2>1, <2>2
<1>6. conn' = [conn EXCEPT ![c] = L]
  BY <1>1, <1>2, <1>5
<1> QED
  BY <1>1, <1>5, <1>6, WireRests, RestLedger

LEMMA UnsentLedger ==
  ASSUME LInv, NEW c \in Ctl, Unsent(c)
  PROVE  Typed' /\ Ledger'
<1>1. /\ conn[c].st = "open" /\ conn[c].cmds # <<>> /\ s' = s /\ leftover' = leftover
      /\ dat' = dat
      /\ conn' = [conn EXCEPT ![c].cmds = Tail(@)]
      /\ job' = [job EXCEPT !.bad = TRUE] /\ conn[c] \in Link
  BY DEF Unsent, LInv, Typed
<1>2. conn[c].cmds \in Seq(Commands)
  BY <1>1 DEF Link
<1>3. PICK q \in Seq(Commands) : q = Tail(conn[c].cmds)
  <2>1. Tail(conn[c].cmds) \in Seq(Commands)
    BY <1>1, <1>2
  <2> QED
    BY <2>1
<1>4. PICK L \in Link : /\ L = [conn[c] EXCEPT !.cmds = q] /\ L.st = "open"
                        /\ L.cmds = q /\ L.xf = conn[c].xf
  <2>1. PICK L : L = [conn[c] EXCEPT !.cmds = q]
    OBVIOUS
  <2>2. L \in Link /\ L.st = "open" /\ L.cmds = q /\ L.xf = conn[c].xf
    BY <1>1, <2>1 DEF Link
  <2> QED
    BY <2>1, <2>2
<1>5. conn' = [conn EXCEPT ![c] = L]
  BY <1>1, <1>3, <1>4
<1> QED
  BY <1>1, <1>3, <1>4, <1>5, WireRests, RestLedger

LEMMA WildLedger ==
  ASSUME LInv, NEW c \in Ctl, Wild(c)
  PROVE  Typed' /\ Ledger'
<1>1. /\ conn[c].st = "open" /\ s' = s /\ leftover' = leftover /\ dat' = dat
      /\ job' = [job EXCEPT !.bad = TRUE] /\ conn[c] \in Link
  BY DEF Wild, LInv, Typed
<1>2. conn[c].cmds \in Seq(Commands)
  BY <1>1 DEF Link
<1>3. ASSUME NEW r \in Codes,
             conn' = [conn EXCEPT ![c].reps = <<r>>,
                                  ![c].cmds = IF @ = <<>> THEN @ ELSE Tail(@)]
      PROVE  Typed' /\ Ledger'
  <2>1. PICK q \in Seq(Commands) :
          /\ q = IF conn[c].cmds = <<>> THEN conn[c].cmds ELSE Tail(conn[c].cmds)
          /\ q = conn[c].cmds \/ (conn[c].cmds # <<>> /\ q = Tail(conn[c].cmds))
    <3>1. CASE conn[c].cmds = <<>>
      BY <1>2, <3>1
    <3>2. CASE conn[c].cmds # <<>>
      <4>1. Tail(conn[c].cmds) \in Seq(Commands)
        BY <1>2, <3>2
      <4> QED
        BY <3>2, <4>1
    <3> QED
      BY <3>1, <3>2
  <2>2. <<r>> \in Seq(Codes)
    OBVIOUS
  <2>3. PICK R \in Seq(Codes) : R = <<r>>
    BY <2>2
  <2>4. PICK L \in Link : /\ L = [conn[c] EXCEPT !.reps = R, !.cmds = q] /\ L.st = "open"
                          /\ L.cmds = q /\ L.xf = conn[c].xf
    <3>1. PICK L : L = [conn[c] EXCEPT !.reps = R, !.cmds = q]
      OBVIOUS
    <3>2. L \in Link /\ L.st = "open" /\ L.cmds = q /\ L.xf = conn[c].xf
      BY <1>1, <3>1 DEF Link
    <3> QED
      BY <3>1, <3>2
  <2>5. conn' = [conn EXCEPT ![c] = L]
    <3>1. conn' = [conn EXCEPT ![c] = [conn[c] EXCEPT !.reps = R, !.cmds = q]]
      BY <1>3, <2>1, <2>3
    <3> QED
      BY <2>4, <3>1
  <2> QED
    BY <1>1, <2>1, <2>4, <2>5, WireRests, RestLedger
<1>4. CASE conn' = [conn EXCEPT ![c].bye = TRUE]
  <2>1. PICK L \in Link : /\ L = [conn[c] EXCEPT !.bye = TRUE] /\ L.st = "open"
                          /\ L.cmds = conn[c].cmds /\ L.xf = conn[c].xf
    <3>1. PICK L : L = [conn[c] EXCEPT !.bye = TRUE]
      OBVIOUS
    <3>2. L \in Link /\ L.st = "open" /\ L.cmds = conn[c].cmds /\ L.xf = conn[c].xf
      BY <1>1, <3>1 DEF Link
    <3> QED
      BY <3>1, <3>2
  <2>2. conn' = [conn EXCEPT ![c] = L]
    BY <1>4, <2>1
  <2> QED
    BY <1>1, <2>1, <2>2, WireRests, RestLedger
<1> QED
  BY <1>3, <1>4 DEF Wild

LEMMA NextLInv ==
  ASSUME LInv, Patient, [Next]_vars
  PROVE  LInv'
<1>1. IInv'
  BY NextIInv DEF LInv
<1>2. CASE UNCHANGED vars
  BY <1>1, <1>2 DEF vars, LInv, Typed, Ledger, Role, Clean, Asks, Fitting, Stocks
<1>3. CASE \E op \in AllJobs : Start(op)
  BY <1>1, <1>3, StartLedger DEF LInv
<1>4. CASE Collect \/ CancelJob \/ CancelListing \/ CancelMedia
  BY <1>1, <1>4, CollectLedger, CancelJobLedger, CancelListingLedger, CancelMediaLedger DEF LInv
<1>5. ASSUME NEW c \in Ctl,
             CtlStep(c) \/ CtlErr(c) \/ Unsent(c) \/ ServerStep(c) \/ Refuse(c) \/ Wild(c)
      PROVE  Typed' /\ Ledger'
  BY <1>1, <1>5, CtlConnectedLedger, CtlRecvLedger, CtlEofLedger, CtlErrLedger, AgreeLedger,
     FinishDownLedger, FinishUpLedger, FailXferLedger, RefuseLedger, WildLedger,
     UnsentLedger
     DEF CtlStep, ServerStep
<1>6. ASSUME NEW d \in Dat, DataStep(d) \/ DataErr(d)
      PROVE  Typed' /\ Ledger'
  BY <1>1, <1>6, DataConnectedLedger, DataRecvLedger, DataEofLedger, DataSentLedger,
     DataErrLedger DEF DataStep
<1>7. CASE Next
  <2>1. Typed' /\ Ledger'
    BY <1>3, <1>4, <1>5, <1>6, <1>7 DEF Next, LInv
  <2> QED
    BY <1>1, <2>1 DEF LInv
<1> QED
  BY <1>2, <1>7

LEMMA LInductive == ASSUME Patient PROVE Spec => []LInv
<1>1. Init => LInv
  BY InitIInv, InitLedger DEF LInv
<1>2. LInv /\ [Next]_vars => LInv'
  BY NextLInv
<1> QED
  BY <1>1, <1>2, PTL DEF Spec

\* No counter leaves its range: whatever the server answers and whichever faults occur,
\* a session sends the one command its job is about at most once, the server carries it
\* out at most once, and no more blocks reach the sink, or leave the source, than the
\* file has (lwftp_control_process, lwftp_send_next_data, the users' data callbacks).
THEOREM InBounds == ASSUME Patient PROVE Spec => []TypeOK
<1>1. LInv => TypeOK
  <2> SUFFICES ASSUME LInv PROVE TypeOK
    OBVIOUS
  <2>1. Typed /\ Stocks /\ MaxSize \in Nat
    BY LwftpAssumption DEF LInv, Ledger
  <2>2. /\ s \in Session /\ conn \in [Ctl -> Link] /\ dat \in [Dat -> Wire] /\ job \in Task
        /\ leftover \subseteq {"RETR", "STOR"}
    BY <2>1 DEF Typed
  <2>3. /\ job.src \in Nat /\ job.size \in Nat /\ job.got \in Nat /\ job.did \in Nat
        /\ \A d \in Dat : dat[d].left \in Nat
    BY <2>2 DEF Task, Wire
  <2>4. /\ job.src \in 0..MaxSize /\ job.size \in 0..MaxSize /\ job.got \in 0..MaxSize
        /\ job.did \in 0..2
    BY <2>1, <2>3 DEF Stocks
  <2>5. \A d \in Dat : dat[d].left \in 0..MaxSize
    BY <2>1, <2>3 DEF Stocks
  <2>6. dat \in [Dat -> [st: {"free", "new", "syn", "open"}, ctl: Ctl \cup {None},
                         left: 0..MaxSize, eof: BOOLEAN, fly: BOOLEAN]]
    <3>1. \A d \in Dat : dat[d] \in [st: {"free", "new", "syn", "open"}, ctl: Ctl \cup {None},
                                     left: 0..MaxSize, eof: BOOLEAN, fly: BOOLEAN]
      BY <2>2, <2>5 DEF Wire
    <3> QED
      BY <2>2, <3>1
  <2>7. job \in [op: AllJobs \cup {"none"}, waiting: BOOLEAN, src: 0..MaxSize,
                 size: 0..MaxSize, got: 0..MaxSize, did: 0..2, bad: BOOLEAN]
    BY <2>2, <2>4 DEF Task
  <2> QED
    BY <2>2, <2>6, <2>7 DEF TypeOK, Session, Link, Dones
<1> QED
  BY <1>1, LInductive, PTL
================================================================================
