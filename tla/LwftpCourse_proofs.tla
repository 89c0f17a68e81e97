-------------------------- MODULE LwftpCourse_proofs --------------------------
(* Proof that a job of the FTP client is done when its session has ended, as     *)
(* long as nothing outside goes wrong: for any job, a file of any length, and    *)
(* the callbacks of the two connections in any order.                            *)
(*                                                                               *)
(* A job goes through phases; Phase says of each what the session, its control   *)
(* connection K, its data connection D if it has one, and the job j have to do   *)
(* with each other.  What a callback makes of K, D and j is worked out once      *)
(* (Onward, Carried), then each callback is followed through each phase.         *)
EXTENDS Lwftp_proofs

--------------------------------------------------------------------------------
(* The phases of a job.                                                         *)

\* The blocks to move; WorkDone says it with Asked.
Due(j) == IF j.op \in {"MEDIA", "REST"} /\ Want < j.size THEN Want ELSE j.size
Finished(j) == j.did = 1 /\ j.got = Due(j)
Unstarted(j) == j.waiting /\ j.did = 0 /\ j.got = 0 /\ j.src = j.size

Quiet(K) == K.xf = "no" /\ K.bye = FALSE /\ K.fin = FALSE

\* The command is on its way, or the reply to it.
Sync(K, cmd) ==
  /\ Quiet(K)
  /\ \/ K.cmds = <<cmd>> /\ K.reps = <<>>
     \/ K.cmds = <<>> /\ K.reps = <<Agrees[cmd]>>

\* The data connection has been made, and nothing has passed over it.
Still(x, D) == x.dpcb # None /\ D.left = 0 /\ D.eof = FALSE /\ D.fly = FALSE

\* The connection is made and the user logs in.
Opening(x, K, j) ==
  /\ Unstarted(j) /\ x.done = "op" /\ x.dpcb = None /\ Quiet(K)
  /\ \/ x.cs = "CLOSED" /\ K.cmds = <<>> /\ K.reps = <<>>
     \/ x.cs = "CONNECTED" /\ K.cmds = <<>> /\ K.reps = <<"220">>
     \/ x.cs = "USER_SENT" /\ Sync(K, "USER")
     \/ x.cs = "PASS_SENT" /\ Sync(K, "PASS")

LastOf == [MKD_SENT |-> "MKD", RMD_SENT |-> "RMD", DELE_SENT |-> "DELE", RNTO_SENT |-> "RNTO"]

\* A command that is the whole job, or the two of a renaming.
Doing(x, K, j) ==
  /\ j.op \in Simple /\ x.done = "QUIT_cb" /\ x.dpcb = None
  /\ j.waiting /\ j.size = 0 /\ j.got = 0
  /\ \/ x.cs = "RNFR_SENT" /\ Sync(K, "RNFR") /\ j.did = 0
     \/ /\ x.cs \in DOMAIN LastOf /\ Sync(K, LastOf[x.cs])
        /\ j.did = IF K.cmds = <<>> THEN 1 ELSE 0

\* The folder to list is entered.
Entering(x, K, j) ==
  /\ Unstarted(j) /\ j.op = "CWD" /\ x.done = "LIST_cb" /\ x.dpcb = None
  /\ x.cs = "CWD_SENT" /\ Sync(K, "CWD")

TargetOf == [CWD |-> "LIST_SENT", RETR |-> "RETR_SENT", MEDIA |-> "RETR_SENT",
             REST |-> "REST_SENT", STOR |-> "STOR_SENT"]
IoOf == [CWD |-> "dir", RETR |-> "write", MEDIA |-> "media", REST |-> "media",
         STOR |-> "read"]
Suits(x, j) == j.op \in DOMAIN IoOf /\ x.io = IoOf[j.op] /\ x.done = "QUIT_cb"

\* What comes before a transfer: the type, the server's port, where to resume.
Preparing(x, K, D, j) ==
  /\ Unstarted(j) /\ Suits(x, j) /\ Still(x, D)
  /\ \/ x.cs = "TYPE_SENT" /\ Sync(K, "TYPE") /\ x.target = TargetOf[j.op]
     \/ x.cs = "PASV_SENT" /\ Sync(K, "PASV") /\ x.target = TargetOf[j.op]
     \/ x.cs = "REST_SENT" /\ Sync(K, "REST") /\ j.op = "REST" /\ D.ctl = x.cpcb

Asking(j) == IF j.op = "CWD" THEN "LIST_SENT" ELSE "RETR_SENT"

\* A download the server has not begun.
Calling(x, K, D, j) ==
  /\ Unstarted(j) /\ Suits(x, j) /\ Still(x, D) /\ D.ctl = x.cpcb /\ j.op # "STOR"
  /\ Quiet(K) /\ K.reps = <<>>
  /\ x.cs = Asking(j) /\ K.cmds = <<Verb[x.cs]>>

\* What has arrived and what is on the wire make up the file, unless the player has all
\* it wants.
Moved(x, D, j) ==
  /\ x.io = "media" => j.got <= Want
  /\ (x.io = "media" /\ j.got = Want) \/ j.got + D.left = j.size

\* A download the server has begun; the data, the end of them and the last reply come
\* in any order.
Fetching(x, K, D, j) ==
  /\ j.waiting /\ j.did = 1 /\ Suits(x, j) /\ x.dpcb # None /\ D.ctl = x.cpcb
  /\ j.op # "STOR" /\ D.fly = FALSE /\ Moved(x, D, j) /\ K.cmds = <<>> /\ K.bye = FALSE
  /\ \/ x.cs = Asking(j) /\ K.xf = "down" /\ D.eof = FALSE /\ K.reps = <<"150">>
     \/ x.cs = Asking(j) /\ K.xf = "no" /\ K.reps = <<"150", "226">>
     \/ x.cs = "XFERING" /\ K.xf = "down" /\ D.eof = FALSE /\ K.reps = <<>>
     \/ x.cs = "XFERING" /\ K.xf = "no" /\ K.reps \in {<<>>, <<"226">>}

\* An upload: asked for, agreed, under way, all sent, done.
Storing(x, K, D, j) ==
  /\ j.waiting /\ j.op = "STOR" /\ Suits(x, j) /\ j.got + j.src = j.size /\ K.bye = FALSE
  /\ \/ /\ x.cs = "STOR_SENT" /\ j.did = 0 /\ Still(x, D) /\ D.ctl = x.cpcb /\ K.fin = FALSE
        /\ \/ K.cmds = <<"STOR">> /\ K.reps = <<>> /\ K.xf = "no"
           \/ K.cmds = <<>> /\ K.reps = <<"150">> /\ K.xf = "up"
     \/ /\ x.cs = "XFERING" /\ j.did = 0 /\ x.dpcb # None /\ D.ctl = x.cpcb /\ D.left = 0
        /\ D.eof = FALSE /\ K.fin = FALSE /\ K.cmds = <<>> /\ K.reps = <<>> /\ K.xf = "up"
     \/ /\ x.cs = "XFERING" /\ j.did = 0 /\ x.dpcb = None /\ j.src = 0
        /\ K.fin = TRUE /\ K.cmds = <<>> /\ K.reps = <<>> /\ K.xf = "up"
     \/ /\ x.cs = "XFERING" /\ j.did = 1 /\ x.dpcb = None /\ j.src = 0
        /\ K.cmds = <<>> /\ K.reps = <<"226">> /\ K.xf = "no"

\* All has been done; the session is being closed.
Leaving(x, K, j) ==
  /\ j.waiting /\ Finished(j) /\ x.done = "QUIT_cb"
  /\ x.cs \in {"ABOR_SENT", "LOGGED", "QUIT_SENT"}
  /\ Works(K.cmds) = {} /\ K.xf # "up"
  /\ x.dpcb # None => x.io = "media" /\ j.got = Want

Phase(x, K, D, j) ==
  \/ Opening(x, K, j) \/ Doing(x, K, j) \/ Entering(x, K, j) \/ Preparing(x, K, D, j)
  \/ Calling(x, K, D, j) \/ Fetching(x, K, D, j) \/ Storing(x, K, D, j) \/ Leaving(x, K, j)

\* Until something goes wrong the job is in one of its phases, and finished once the
\* session is over.
Course ==
  ~job.bad => IF s.cpcb = None THEN job.waiting => Finished(job)
              ELSE Phase(s, conn[s.cpcb], dat[s.dpcb], job)

LEMMA CourseNext ==
  ASSUME \/ job'.bad
         \/ s'.cpcb = None /\ (job'.waiting => Finished(job'))
         \/ s'.cpcb # None /\ Phase(s', conn'[s'.cpcb], dat'[s'.dpcb], job')
  PROVE  Course'
  BY DEF Course

LEMMA CourseNow ==
  ASSUME Course, ~job.bad
  PROVE  /\ s.cpcb = None => (job.waiting => Finished(job))
         /\ s.cpcb # None => Phase(s, conn[s.cpcb], dat[s.dpcb], job)
  BY DEF Course

LEMMA Spliced ==
  ASSUME NEW q \in Seq(Commands)
  PROVE  <<>> \o q = q /\ q \o <<>> = q
  OBVIOUS

LEMMA OnlyOne ==
  ASSUME NEW S, NEW b \in S, NEW q \in Seq(S), Len(q) = 1, q[1] = b
  PROVE  q = <<b>>
<1>1. <<b>> \in Seq(S) /\ Len(<<b>>) = 1 /\ <<b>>[1] = b
  OBVIOUS
<1>2. \A p, r \in Seq(S) : Len(p) = Len(r) /\ (\A i \in 1..Len(p) : p[i] = r[i]) => p = r
  OBVIOUS
<1>3. \A i \in 1..1 : i = 1
  OBVIOUS
<1> QED
  BY <1>1, <1>2, <1>3

\* What is left of one or two replies when some have been taken.
Remain(q, R) ==
  /\ \A a \in Codes : q = <<a>> => Head(q) = a /\ R = <<>>
  /\ \A a, b \in Codes : q = <<a, b>> => Head(q) = a /\ R \in {<<>>, <<b>>}

LEMMA Taken ==
  ASSUME NEW q \in Seq(Codes), NEW k \in 1..Len(q),
         NEW R \in Seq(Codes), R = SubSeq(q, k + 1, Len(q))
  PROVE  Remain(q, R)
<1>1. Len(q) \in Nat /\ k \in Nat /\ Len(R) = Len(q) - k
      /\ \A i \in 1..(Len(q) - k) : R[i] = q[k + i]
  OBVIOUS
<1>2. Len(R) = 0 => R = <<>>
  OBVIOUS
<1>3. ASSUME NEW a \in Codes, q = <<a>>
      PROVE  Head(q) = a /\ R = <<>>
  <2>1. Len(q) = 1 /\ Head(q) = a
    BY <1>3
  <2> QED
    BY <1>1, <1>2, <2>1
<1>4. ASSUME NEW a \in Codes, NEW b \in Codes, q = <<a, b>>
      PROVE  Head(q) = a /\ R \in {<<>>, <<b>>}
  <2>1. Len(q) = 2 /\ Head(q) = a /\ q[2] = b
    BY <1>4
  <2>2. CASE k = 2
    BY <1>1, <1>2, <2>1, <2>2
  <2>3. CASE k = 1
    <3>1. Len(R) = 1 /\ R[1] = b
      BY <1>1, <2>1, <2>3
    <3>2. R = <<b>>
      BY <3>1, OnlyOne
    <3> QED
      BY <2>1, <3>2
  <2> QED
    BY <1>1, <2>1, <2>2, <2>3
<1> QED
  BY <1>3, <1>4 DEF Remain

--------------------------------------------------------------------------------
(* The session, the connections and the job after a callback.                   *)

\* K, X and j are what a callback that ended with V makes of C, D and J.
Onward(V, C, D, J, K, X, j) ==
  /\ K.cmds = C[s.cpcb].cmds \o V.out /\ K.reps = C[s.cpcb].reps /\ K.xf = C[s.cpcb].xf
  /\ K.bye = C[s.cpcb].bye
  /\ K.fin = (C[s.cpcb].fin \/ \E d \in V.shut \cap Dat : D[d].ctl = s.cpcb)
  /\ V.s.dpcb # None /\ V.s.dpcb \notin V.shut =>
       /\ X.left = D[V.s.dpcb].left /\ X.eof = D[V.s.dpcb].eof
       /\ X.ctl = IF V.syn THEN s.cpcb ELSE D[V.s.dpcb].ctl
       /\ X.fly = (D[V.s.dpcb].fly \/ V.put)
  /\ j.op = J.op /\ j.waiting = J.waiting /\ j.size = J.size /\ j.did = J.did
  /\ j.src = V.src /\ j.got = (IF V.put THEN J.got + 1 ELSE J.got)
  /\ j.bad = (J.bad \/ V.bad)

LEMMA Carried ==
  ASSUME LInv, NEW V \in Working, NEW C \in [Ctl -> Link], NEW D \in [Dat -> Wire],
         NEW J \in Task, Leave(V, C, D, J), leftover' \subseteq {"RETR", "STOR"},
         V.s.cpcb = s.cpcb, s.cpcb # None, s.cpcb \notin V.shut,
         \A K \in Link, j \in Task : \A X :
           Onward(V, C, D, J, K, X, j) => j.bad \/ Phase(V.s, K, X, j)
  PROVE  Course'
<1>1. Typed' /\ s' = V.s /\ ConnLeft(V, C, D) /\ DatLeft(V, D) /\ JobLeft(V, J)
  BY LeaveFacts DEF LInv
<1>2. PICK c \in Ctl : c = s.cpcb
  BY DEF LInv, Typed, Session
<1>3. PICK K \in Link : K = conn'[c]
  BY <1>1 DEF Typed
<1>4. PICK X : X = dat'[V.s.dpcb]
  OBVIOUS
<1>5. PICK j \in Task : j = job'
  BY <1>1 DEF Typed
<1>6. /\ K.reps = C[c].reps /\ K.xf = C[c].xf /\ K.bye = C[c].bye
      /\ K.cmds = C[c].cmds \o V.out
      /\ K.fin = (C[c].fin \/ \E d \in V.shut \cap Dat : D[d].ctl = c)
  BY <1>1, <1>2, <1>3 DEF ConnLeft
<1>7. V.s.dpcb # None /\ V.s.dpcb \notin V.shut =>
        /\ X.left = D[V.s.dpcb].left /\ X.eof = D[V.s.dpcb].eof
        /\ X.ctl = IF V.syn THEN s.cpcb ELSE D[V.s.dpcb].ctl
        /\ X.fly = (D[V.s.dpcb].fly \/ V.put)
  <2>1. V.s.dpcb \in Dat \cup {None}
    BY DEF Working, Session
  <2> QED
    BY <1>1, <1>4, <2>1 DEF DatLeft
<1>8. Onward(V, C, D, J, K, X, j)
  BY <1>1, <1>2, <1>5, <1>6, <1>7 DEF Onward, JobLeft
<1>9. j.bad \/ Phase(V.s, K, X, j)
  BY <1>8
<1> QED
  BY <1>1, <1>2, <1>3, <1>4, <1>5, <1>9, CourseNext

--------------------------------------------------------------------------------
(* What a callback does to a session nothing goes wrong with.                   *)

\* A callback has been entered.
Unused(W) ==
  /\ W \in Working /\ W.out = <<>> /\ W.shut = {} /\ W.syn = FALSE /\ W.put = FALSE
  /\ W.bad = FALSE

\* V leaves W's pcbs as they are.
Keeps(V, W) == V \in Working /\ V.s.cpcb = W.s.cpcb /\ V.shut = W.shut

Failed(V, W) == Keeps(V, W) /\ V.bad = TRUE

LEMMA Settled ==
  ASSUME NEW V, V.s.cs \notin {"DATAEND", "QUIT", "CLOSING"}, NEW result
  PROVE  Settle(V, result) = V
  BY DEF Settle

LEMMA SaysOne ==
  ASSUME NEW W \in Working, W.out = <<>>, NEW cmd \in Commands, NEW x \in States
  PROVE  Turned(Say(W, cmd, x), W, x) /\ Say(W, cmd, x).out = <<cmd>>
<1>1. Append(<<>>, cmd) = <<cmd>>
  OBVIOUS
<1> QED
  BY <1>1, SayFacts

LEMMA Closes ==
  ASSUME NEW W \in Working, W.s.cs # "CLOSED", W.s.cpcb # None
  PROVE  Turned(Close(W), W, "QUIT_SENT") /\ Close(W).out = Append(W.out, "QUIT")
  BY SayFacts DEF Close, Commands, States

\* TYPE is sent, and the pcb of the data connection is there.
Prepared(V, W, target, io) ==
  /\ Keeps(V, W) /\ V.s.cs = "TYPE_SENT" /\ V.s.target = target /\ V.s.io = io
  /\ V.s.done = "QUIT_cb" /\ V.s.dpcb = W.fresh /\ W.fresh # None /\ V.out = <<"TYPE">>
  /\ V.syn = W.syn /\ V.put = W.put /\ V.src = W.src /\ V.bad = W.bad

LEMMA TransferMade ==
  ASSUME NEW W \in Working, W.out = <<>>, W.s.dpcb = None, W.s.cs = "LOGGED",
         W.s.cpcb # None,
         NEW target \in {"LIST_SENT", "REST_SENT", "RETR_SENT", "STOR_SENT"},
         NEW io \in {"dir", "write", "media", "read"},
         NEW V, V = StartTransfer(W, target, io), NEW result
  PROVE  (Prepared(V, W, target, io) \/ Failed(V, W)) /\ Settle(V, result) = V
<1> DEFINE U == [W EXCEPT !.s.done = "QUIT_cb", !.s.io = io]
           B == [U EXCEPT !.bad = TRUE]
           Y == Say(U, "TYPE", "TYPE_SENT")
           X == [Y EXCEPT !.s.target = target, !.s.dpcb = U.fresh]
<1>1. /\ U \in Working /\ U.s.cs = W.s.cs /\ U.s.cpcb = W.s.cpcb
      /\ U.s.done = "QUIT_cb" /\ U.s.io = io /\ U.s.dpcb = None
      /\ U.out = W.out /\ U.put = W.put /\ U.src = W.src /\ U.shut = W.shut
      /\ U.syn = W.syn /\ U.bad = W.bad /\ U.fresh = W.fresh
  BY DEF Working, Session, Dones
<1>2. V = IF U.s.dpcb # None \/ U.fresh = None THEN Close(B) ELSE X
  BY DEF StartTransfer, U, B, X, Y
<1> HIDE DEF U
<1>3. B \in Working /\ B.s = U.s /\ B.shut = U.shut /\ B.bad = TRUE
  BY <1>1 DEF Working
<1> HIDE DEF B
<1>4. Turned(Close(B), B, "QUIT_SENT")
  BY <1>1, <1>3, Closes
<1>5. Failed(Close(B), W) /\ Close(B).s.cs = "QUIT_SENT"
  BY <1>1, <1>3, <1>4 DEF Failed, Keeps, Turned
<1>6. Turned(Y, U, "TYPE_SENT") /\ Y.out = <<"TYPE">>
  BY <1>1, SaysOne DEF Commands, States
<1> HIDE DEF Y
<1>7. Y \in Working /\ U.fresh \in Dat \cup {None} /\ target \in States
  BY <1>1, <1>6 DEF Turned, Working, States
<1>8. /\ X \in Working /\ X.s.cs = Y.s.cs /\ X.s.target = target /\ X.s.cpcb = Y.s.cpcb
      /\ X.s.done = Y.s.done /\ X.s.io = Y.s.io /\ X.s.dpcb = U.fresh
      /\ X.out = Y.out /\ X.put = Y.put /\ X.src = Y.src /\ X.shut = Y.shut
      /\ X.syn = Y.syn /\ X.bad = Y.bad
  BY <1>7 DEF Working, Session
<1> HIDE DEF X
<1>9. U.fresh # None => Prepared(X, W, target, io)
  BY <1>1, <1>6, <1>8 DEF Prepared, Keeps, Turned
<1>10. X.s.cs = "TYPE_SENT"
  BY <1>6, <1>8 DEF Turned
<1>11. CASE U.fresh = None
  <2>1. V = Close(B)
    BY <1>2, <1>11
  <2> QED
    BY <1>5, <2>1, Settled
<1>12. CASE U.fresh # None
  <2>1. V = X
    BY <1>1, <1>2, <1>12
  <2> QED
    BY <1>9, <1>10, <1>12, <2>1, Settled
<1> QED
  BY <1>11, <1>12

\* One command has been sent, and done_fn has changed.
Sent(V, W, cmd, x, done) ==
  /\ Keeps(V, W) /\ V.s.cs = x /\ V.s.done = done /\ V.s.dpcb = W.s.dpcb /\ V.out = <<cmd>>
  /\ V.syn = W.syn /\ V.put = W.put /\ V.src = W.src /\ V.bad = W.bad

LEMMA SentDone ==
  ASSUME NEW W \in Working, W.out = <<>>, NEW cmd \in Commands, NEW x \in States,
         NEW done \in Dones
  PROVE  Sent([Say(W, cmd, x) EXCEPT !.s.done = done], W, cmd, x, done)
<1> DEFINE Y == Say(W, cmd, x)
           X == [Y EXCEPT !.s.done = done]
<1>1. Turned(Y, W, x) /\ Y.out = <<cmd>>
  BY SaysOne
<1> HIDE DEF Y
<1>2. Y \in Working
  BY <1>1 DEF Turned
<1>3. /\ X \in Working /\ X.s.cs = Y.s.cs /\ X.s.cpcb = Y.s.cpcb /\ X.s.dpcb = Y.s.dpcb
      /\ X.s.done = done /\ X.out = Y.out /\ X.put = Y.put /\ X.src = Y.src
      /\ X.shut = Y.shut /\ X.syn = Y.syn /\ X.bad = Y.bad
  BY <1>2 DEF Working, Session
<1> HIDE DEF X
<1>4. Sent(X, W, cmd, x, done)
  BY <1>1, <1>3 DEF Sent, Keeps, Turned
<1> QED
  BY <1>4 DEF X, Y

LEMMA Begun ==
  ASSUME NEW W \in Working, W.out = <<>>, W.s.dpcb = None, W.s.cs = "LOGGED",
         W.s.cpcb # None, job.op \in AllJobs, NEW V, V = StartOp(W), NEW result
  PROVE  /\ Settle(V, result) = V
         /\ \/ job.op \in Simple /\ Sent(V, W, job.op, SimpleState[job.op], "QUIT_cb")
            \/ job.op = "CWD" /\ Sent(V, W, "CWD", "CWD_SENT", "LIST_cb")
            \/ /\ job.op \in DOMAIN IoOf \ {"CWD"}
               /\ Prepared(V, W, TargetOf[job.op], IoOf[job.op])
            \/ Failed(V, W)
<1>1. "QUIT_cb" \in Dones /\ "LIST_cb" \in Dones
  BY DEF Dones
<1>2. CASE job.op \in Simple
  <2>1. PICK op \in Simple : op = job.op
    BY <1>2
  <2>2. PICK x \in {"MKD_SENT", "RMD_SENT", "DELE_SENT", "RNFR_SENT"} : x = SimpleState[op]
    BY DEF Simple, SimpleState
  <2>3. op \in Commands /\ x \in States
    BY DEF Simple, Commands, States
  <2>4. V = [Say(W, op, x) EXCEPT !.s.done = "QUIT_cb"]
    BY <1>2, <2>1, <2>2 DEF StartOp, Simple
  <2>5. Sent(V, W, op, x, "QUIT_cb")
    BY <1>1, <2>3, <2>4, SentDone
  <2>6. V.s.cs = x
    BY <2>5 DEF Sent
  <2> QED
    BY <1>2, <2>1, <2>2, <2>5, <2>6, Settled
<1>3. CASE job.op = "CWD"
  <2>1. "CWD" \in Commands /\ "CWD_SENT" \in States
    BY DEF Commands, States
  <2>2. V = [Say(W, "CWD", "CWD_SENT") EXCEPT !.s.done = "LIST_cb"]
    BY <1>3 DEF StartOp, Simple
  <2>3. Sent(V, W, "CWD", "CWD_SENT", "LIST_cb")
    BY <1>1, <2>1, <2>2, SentDone
  <2>4. V.s.cs = "CWD_SENT"
    BY <2>3 DEF Sent
  <2> QED
    BY <1>3, <2>3, <2>4, Settled
<1>4. CASE job.op \in {"RETR", "MEDIA", "REST", "STOR"}
  <2>1. PICK target, io : target = TargetOf[job.op] /\ io = IoOf[job.op]
    OBVIOUS
  <2>2. target \in {"LIST_SENT", "REST_SENT", "RETR_SENT", "STOR_SENT"}
        /\ io \in {"dir", "write", "media", "read"}
        /\ job.op \in DOMAIN IoOf \ {"CWD"}
    BY <1>4, <2>1 DEF TargetOf, IoOf
  <2>3. V = StartTransfer(W, target, io)
    BY <1>4, <2>1 DEF StartOp, Simple, TargetOf, IoOf
  <2> QED
    BY <2>1, <2>2, <2>3, TransferMade
<1> QED
  BY <1>2, <1>3, <1>4 DEF AllJobs

--------------------------------------------------------------------------------
(* The replies.                                                                 *)

LEMMA NextReply ==
  ASSUME NEW W, Unused(W), NEW cs \in DOMAIN NextCommand, W.s.cs = cs,
         NEW V, V = Process(W, NextCommand[cs][1])
  PROVE  Turned(V, W, NextCommand[cs][3]) /\ V.out = <<NextCommand[cs][2]>>
<1>1. PICK cmd, x : cmd = NextCommand[cs][2] /\ x = NextCommand[cs][3]
  OBVIOUS
<1>2. /\ cmd \in Commands /\ x \in States /\ x \notin {"DATAEND", "QUIT", "CLOSING"}
  BY <1>1 DEF NextCommand, Commands, States
<1>3. OnReply(W, NextCommand[cs][1]) = <<Say(W, cmd, x), "ERR">>
  <2>1. cs \in {"CONNECTED", "USER_SENT", "RNFR_SENT", "TYPE_SENT"}
    BY DEF NextCommand
  <2>2. PICK r : r = NextCommand[cs][1]
    OBVIOUS
  <2>3. OnReply(W, r) = <<IF r = NextCommand[cs][1] THEN Say(W, cmd, x) ELSE Goto(W, "QUIT"),
                          "ERR">>
    BY <1>1, <2>1 DEF OnReply, NextCommand, Completes
  <2> QED
    BY <2>2, <2>3
<1>4. Turned(Say(W, cmd, x), W, x) /\ Say(W, cmd, x).out = <<cmd>>
  BY <1>2, SaysOne DEF Unused
<1>5. Say(W, cmd, x).s.cs = x
  BY <1>4 DEF Turned
<1>6. V = Say(W, cmd, x)
  BY <1>2, <1>3, <1>5, Settled DEF Process
<1> QED
  BY <1>1, <1>4, <1>6

\* V is as if done_fn had been called with W in state LOGGED.
LEMMA LoginReply ==
  ASSUME NEW W, Unused(W), W.s.cs = "PASS_SENT", W.s.done = "op", W.s.dpcb = None,
         W.s.cpcb # None, job.op \in AllJobs, NEW V, V = Process(W, "230")
  PROVE  \/ job.op \in Simple /\ Sent(V, W, job.op, SimpleState[job.op], "QUIT_cb")
         \/ job.op = "CWD" /\ Sent(V, W, "CWD", "CWD_SENT", "LIST_cb")
         \/ /\ job.op \in DOMAIN IoOf \ {"CWD"}
            /\ Prepared(V, W, TargetOf[job.op], IoOf[job.op])
         \/ Failed(V, W)
<1>1. PICK U : U = Goto(W, "LOGGED")
  OBVIOUS
<1>2. Turned(U, W, "LOGGED") /\ U.out = <<>>
  BY <1>1, GotoFacts DEF Unused, States
<1>3. OnReply(W, "230") = <<Done(U, "LOGGED"), "ERR">>
  BY <1>1 DEF OnReply, NextCommand, Completes
<1>4. Done(U, "LOGGED") = StartOp(U)
  BY <1>2 DEF Done, Turned
<1>5. V = Settle(StartOp(U), "ERR")
  BY <1>3, <1>4 DEF Process
<1>6. PICK Y : Y = StartOp(U)
  OBVIOUS
<1>7. U \in Working /\ U.s.dpcb = None /\ U.s.cs = "LOGGED" /\ U.s.cpcb # None
  BY <1>2 DEF Turned
<1>8. /\ Settle(Y, "ERR") = Y
      /\ \/ job.op \in Simple /\ Sent(Y, U, job.op, SimpleState[job.op], "QUIT_cb")
         \/ job.op = "CWD" /\ Sent(Y, U, "CWD", "CWD_SENT", "LIST_cb")
         \/ /\ job.op \in DOMAIN IoOf \ {"CWD"}
            /\ Prepared(Y, U, TargetOf[job.op], IoOf[job.op])
         \/ Failed(Y, U)
  BY <1>2, <1>6, <1>7, Begun
<1>9. V = Y
  BY <1>5, <1>6, <1>8
<1>10. /\ \A cmd, x, done : Sent(Y, U, cmd, x, done) => Sent(Y, W, cmd, x, done)
       /\ \A target, io : Prepared(Y, U, target, io) => Prepared(Y, W, target, io)
       /\ Failed(Y, U) => Failed(Y, W)
  BY <1>2 DEF Sent, Prepared, Failed, Keeps, Turned
<1> QED
  BY <1>8, <1>9, <1>10

LEMMA EnterReply ==
  ASSUME NEW W, Unused(W), W.s.cs = "CWD_SENT", W.s.done = "LIST_cb", W.s.dpcb = None,
         W.s.cpcb # None, NEW V, V = Process(W, "250")
  PROVE  Prepared(V, W, "LIST_SENT", "dir") \/ Failed(V, W)
<1>1. PICK U : U = Goto(W, "LOGGED")
  OBVIOUS
<1>2. Turned(U, W, "LOGGED") /\ U.out = <<>>
  BY <1>1, GotoFacts DEF Unused, States
<1>3. OnReply(W, "250") = <<Done(W, "OK"), "ERR">>
  BY DEF OnReply, NextCommand, Completes
<1>4. PICK Y : Y = StartTransfer(U, "LIST_SENT", "dir")
  OBVIOUS
<1>5. Done(W, "OK") = Y
  BY <1>1, <1>4 DEF Done
<1>6. U \in Working /\ U.s.dpcb = None /\ U.s.cs = "LOGGED" /\ U.s.cpcb # None
  BY <1>2 DEF Turned
<1>7. (Prepared(Y, U, "LIST_SENT", "dir") \/ Failed(Y, U)) /\ Settle(Y, "ERR") = Y
  BY <1>2, <1>4, <1>6, TransferMade
<1>8. V = Y
  BY <1>3, <1>5, <1>7 DEF Process
<1> QED
  BY <1>2, <1>7, <1>8 DEF Prepared, Failed, Keeps, Turned

\* The command is done: done_fn closes the session.
LEMMA LastReply ==
  ASSUME NEW W, Unused(W), NEW cs \in DOMAIN LastOf, W.s.cs = cs, W.s.done = "QUIT_cb",
         W.s.cpcb # None, NEW V, V = Process(W, Agrees[LastOf[cs]])
  PROVE  Turned(V, W, "QUIT_SENT") /\ V.out = <<"QUIT">>
<1>1. PICK r : r = Agrees[LastOf[cs]]
  OBVIOUS
<1>2. cs \in {"MKD_SENT", "RMD_SENT", "DELE_SENT", "RNTO_SENT"} /\ r = Completes[cs]
  BY <1>1 DEF LastOf, Agrees, Completes
<1>3. OnReply(W, r) = <<Done(W, "OK"), "ERR">>
  BY <1>2 DEF OnReply, NextCommand, Completes
<1>4. Done(W, "OK") = Close(W)
  BY DEF Done
<1>5. W \in Working /\ W.s.cs # "CLOSED" /\ W.out = <<>>
  BY <1>2 DEF Unused
<1>6. Turned(Close(W), W, "QUIT_SENT") /\ Close(W).out = Append(W.out, "QUIT")
  BY <1>5, Closes
<1>7. Close(W).s.cs = "QUIT_SENT" /\ Append(<<>>, "QUIT") = <<"QUIT">>
  BY <1>6 DEF Turned
<1>8. V = Close(W)
  BY <1>1, <1>3, <1>4, <1>7, Settled DEF Process
<1> QED
  BY <1>5, <1>6, <1>7, <1>8

\* The command of the transfer is sent, and the data connection asked for.
Called(V, W, cmd, x) ==
  /\ Keeps(V, W) /\ V.s.cs = x /\ V.s.dpcb = W.s.dpcb /\ V.s.done = W.s.done
  /\ V.s.io = W.s.io /\ V.out = <<cmd>> /\ V.syn = TRUE /\ V.put = FALSE /\ V.src = W.src

LEMMA PassiveReply ==
  ASSUME NEW W, Unused(W), W.s.cs = "PASV_SENT", NEW x \in DOMAIN Verb, W.s.target = x,
         W.s.dpcb # None, NEW V, V = Process(W, "227")
  PROVE  Called(V, W, Verb[x], x) \/ Failed(V, W)
<1>1. PICK cmd : cmd = Verb[x]
  OBVIOUS
<1>2. /\ cmd \in Commands /\ x \in States /\ x \notin {"DATAEND", "QUIT", "CLOSING"}
  BY <1>1 DEF Verb, Commands, States
<1>3. W \in Working /\ W.ok \in BOOLEAN
  BY DEF Unused, Working
<1> DEFINE Y == Say(W, cmd, x)
           U == [Y EXCEPT !.syn = W.s.dpcb # None /\ W.ok, !.bad = @ \/ ~W.ok]
<1>4. OnReply(W, "227") = <<U, "ERR">>
  BY <1>1 DEF OnReply, NextCommand, Completes
<1>5. Turned(Y, W, x) /\ Y.out = <<cmd>>
  BY <1>2, SaysOne DEF Unused
<1> HIDE DEF Y
<1>6. PICK syn \in BOOLEAN, bad \in BOOLEAN :
        syn = (W.s.dpcb # None /\ W.ok) /\ bad = (Y.bad \/ ~W.ok)
  OBVIOUS
<1>7. PICK Z : Z = [Y EXCEPT !.syn = syn, !.bad = bad]
  OBVIOUS
<1>8. U = Z
  BY <1>6, <1>7, Zenon
<1> HIDE DEF U
<1>9. Y \in Working
  BY <1>5 DEF Turned
<1>10. /\ Z \in Working /\ Z.s = Y.s /\ Z.out = Y.out /\ Z.put = Y.put /\ Z.src = Y.src
       /\ Z.shut = Y.shut /\ Z.syn = syn /\ Z.bad = bad
  BY <1>7, <1>9 DEF Working
<1>11. Keeps(Z, W) /\ Z.s.cs = x
  BY <1>5, <1>10 DEF Keeps, Turned
<1>12. V = Z
  BY <1>2, <1>4, <1>8, <1>11, Settled DEF Process
<1>13. Y.bad = FALSE
  BY <1>5 DEF Turned, Unused
<1>14. CASE W.ok = TRUE
  <2>1. syn = TRUE
    BY <1>6, <1>14
  <2>2. Called(Z, W, cmd, x)
    BY <1>5, <1>10, <1>11, <2>1 DEF Called, Turned, Unused
  <2> QED
    BY <1>1, <1>12, <2>2
<1>15. CASE W.ok = FALSE
  <2>1. bad = TRUE
    BY <1>6, <1>15
  <2> QED
    BY <1>10, <1>11, <1>12, <2>1 DEF Failed
<1> QED
  BY <1>3, <1>14, <1>15

LEMMA RestReply ==
  ASSUME NEW W, Unused(W), W.s.cs = "REST_SENT", NEW V, V = Process(W, "350")
  PROVE  Turned(V, W, "RETR_SENT") /\ V.out = <<"RETR">>
<1>1. OnReply(W, "350") = <<Say(W, "RETR", "RETR_SENT"), "ERR">>
  BY DEF OnReply, NextCommand, Completes
<1>2. Turned(Say(W, "RETR", "RETR_SENT"), W, "RETR_SENT")
      /\ Say(W, "RETR", "RETR_SENT").out = <<"RETR">>
  BY SaysOne DEF Unused, Commands, States
<1>3. V = Say(W, "RETR", "RETR_SENT")
  BY <1>1, <1>2, Settled DEF Process, Turned
<1> QED
  BY <1>2, <1>3

LEMMA BeginReply ==
  ASSUME NEW W, Unused(W), W.s.cs \in {"LIST_SENT", "RETR_SENT"}, NEW V, V = Process(W, "150")
  PROVE  Turned(V, W, "XFERING") /\ V.out = <<>>
<1>1. OnReply(W, "150") = <<Goto(W, "XFERING"), "ERR">>
  BY DEF OnReply, NextCommand, Completes
<1>2. Turned(Goto(W, "XFERING"), W, "XFERING") /\ Goto(W, "XFERING").out = <<>>
  BY GotoFacts DEF Unused, States
<1>3. V = Goto(W, "XFERING")
  BY <1>1, <1>2, Settled DEF Process, Turned
<1> QED
  BY <1>2, <1>3

\* The reply that ends a download does not wait for the data.
LEMMA EndsReply ==
  ASSUME NEW W, Unused(W), W.s.cs = "XFERING", W.s.dpcb # None,
         NEW V, V = Process(W, "226")
  PROVE  V = W
<1>1. OnReply(W, "226") = <<W, "OK">>
  BY DEF OnReply, NextCommand, Completes, TransferReply
<1> QED
  BY <1>1, Settled DEF Process

\* An upload is over: the session is closed.
LEMMA StoredReply ==
  ASSUME NEW W, Unused(W), W.s.cs = "XFERING", W.s.dpcb = None, W.s.done = "QUIT_cb",
         W.s.cpcb # None, NEW V, V = Process(W, "226")
  PROVE  Turned(V, W, "LOGGED") /\ V.out = <<"QUIT">>
<1>1. PICK U : U = Goto(W, "DATAEND")
  OBVIOUS
<1>2. Turned(U, W, "DATAEND") /\ U.out = <<>>
  BY <1>1, GotoFacts DEF Unused, States
<1>3. OnReply(W, "226") = <<U, "OK">>
  BY <1>1 DEF OnReply, NextCommand, Completes, TransferReply
<1>4. U \in Working /\ U.s.dpcb = None /\ U.s.cs = "DATAEND" /\ U.s.done = "QUIT_cb"
      /\ U.s.cpcb # None
  BY <1>2 DEF Turned
<1>5. DataClose(U, "OK") = Close(U)
  BY <1>4 DEF DataClose, ShutData, Done
<1>6. PICK Y : Y = Close(U)
  OBVIOUS
<1>7. Turned(Y, U, "QUIT_SENT") /\ Y.out = Append(<<>>, "QUIT")
  BY <1>2, <1>4, <1>6, Closes
<1>8. V = Goto(Y, "LOGGED")
  <2>1. V = Settle(U, "OK")
    BY <1>3 DEF Process
  <2>2. Settle(U, "OK") = Goto(DataClose(U, "OK"), "LOGGED")
    BY <1>4 DEF Settle
  <2> QED
    BY <1>5, <1>6, <2>1, <2>2
<1>9. Turned(V, Y, "LOGGED") /\ V.out = Y.out
  <2>1. Y \in Working /\ "LOGGED" \in States
    BY <1>7 DEF Turned, States
  <2> QED
    BY <1>8, <2>1, GotoFacts
<1>10. Append(<<>>, "QUIT") = <<"QUIT">>
  OBVIOUS
<1>11. V.s = [W.s EXCEPT !.cs = "LOGGED"]
  <2>1. W.s \in Session /\ U.s \in Session /\ Y.s \in Session /\ V.s \in Session
    BY <1>4, <1>7, <1>9 DEF Unused, Turned, Working
  <2>2. U.s = [W.s EXCEPT !.cs = "DATAEND"] /\ Y.s = [U.s EXCEPT !.cs = "QUIT_SENT"]
        /\ V.s = [Y.s EXCEPT !.cs = "LOGGED"]
    BY <1>2, <1>7, <1>9 DEF Turned
  <2>3. Y.s = [W.s EXCEPT !.cs = "QUIT_SENT"]
    BY <2>1, <2>2 DEF Session
  <2> QED
    BY <2>1, <2>2, <2>3 DEF Session
<1>12. Turned(V, W, "LOGGED")
  BY <1>2, <1>7, <1>9, <1>11 DEF Turned
<1> QED
  BY <1>7, <1>9, <1>10, <1>12

--------------------------------------------------------------------------------
(* The data.                                                                    *)

\* A block has been handed to lwIP, or has been lost.
LEMMA NextBlock ==
  ASSUME NEW W, W \in Working, W.s.dpcb # None, W.src > 0, W.s.io = "read",
         NEW V, V = SendNext(W)
  PROVE  /\ V \in Working /\ V.s = W.s /\ V.out = W.out /\ V.shut = W.shut /\ V.syn = W.syn
         /\ V.src = W.src - 1 /\ V.put = W.ok /\ V.bad = (W.bad \/ ~W.ok)
<1>1. W.src - 1 \in Nat /\ W.ok \in BOOLEAN /\ (W.bad \/ ~W.ok) \in BOOLEAN
  BY DEF Working
<1>2. PICK bad \in BOOLEAN : bad = (W.bad \/ ~W.ok)
  BY <1>1
<1>3. V = [W EXCEPT !.src = W.src - 1, !.put = W.ok, !.bad = bad]
  <2>1. (W.ok /\ W.s.dpcb # None) = W.ok
    BY <1>1
  <2> QED
    BY <1>2, <2>1, Zenon DEF SendNext
<1>4. /\ V \in Working /\ V.s = W.s /\ V.out = W.out /\ V.shut = W.shut /\ V.syn = W.syn
      /\ V.src = W.src - 1 /\ V.put = W.ok /\ V.bad = bad
  BY <1>1, <1>3 DEF Working
<1> QED
  BY <1>2, <1>4

\* The data connection has been closed by the client.
Shut(V, W, out) ==
  /\ V \in Working /\ V.s.cpcb = W.s.cpcb /\ V.s.dpcb = None /\ V.shut = {W.s.dpcb}
  /\ V.s.done = W.s.done /\ V.s.io = W.s.io /\ V.out = out
  /\ V.syn = FALSE /\ V.put = FALSE /\ V.src = W.src /\ V.bad = FALSE

LEMMA NoBlock ==
  ASSUME NEW W, Unused(W), W.s.dpcb # None, ~(W.src > 0 /\ W.s.io = "read"),
         NEW V, V = SendNext(W)
  PROVE  Shut(V, W, <<>>) /\ V.s.cs = W.s.cs
<1>1. V = ShutData(W) /\ W \in Working
  BY DEF SendNext, Unused
<1>2. W.shut \cup ({W.s.dpcb} \ {None}) = {W.s.dpcb}
  BY DEF Unused
<1>3. /\ V \in Working /\ V.s.cs = W.s.cs /\ V.s.dpcb = None
      /\ V.s.target = W.s.target /\ V.s.cpcb = W.s.cpcb
      /\ V.s.done = W.s.done /\ V.s.io = W.s.io
      /\ V.shut = {W.s.dpcb}
      /\ V.out = W.out /\ V.syn = W.syn /\ V.put = W.put
      /\ V.src = W.src /\ V.bad = W.bad
  BY <1>1, <1>2, ShutFacts
<1> QED
  BY <1>3 DEF Shut, Unused

\* lwftp_data_recv with no pbuf.
LEMMA DataEnds ==
  ASSUME NEW W, Unused(W), W.s.dpcb # None, W.s.done = "QUIT_cb", W.s.cs # "CLOSED",
         W.s.cpcb # None, NEW V, V = Goto(DataClose(W, "OK"), "LOGGED")
  PROVE  Shut(V, W, <<"QUIT">>) /\ V.s.cs = "LOGGED"
<1>1. PICK U : U = ShutData(W)
  OBVIOUS
<1>2. W.shut \cup ({W.s.dpcb} \ {None}) = {W.s.dpcb} /\ W \in Working
  BY DEF Unused
<1>3. /\ U \in Working /\ U.s.cs = W.s.cs /\ U.s.dpcb = None
      /\ U.s.cpcb = W.s.cpcb /\ U.s.done = W.s.done /\ U.s.io = W.s.io
      /\ U.shut = {W.s.dpcb} /\ U.out = W.out /\ U.syn = W.syn /\ U.put = W.put
      /\ U.src = W.src /\ U.bad = W.bad
  BY <1>1, <1>2, ShutFacts
<1>4. PICK Y : Y = Close(U)
  OBVIOUS
<1>5. DataClose(W, "OK") = Y
  BY <1>1, <1>3, <1>4 DEF DataClose, Done
<1>6. Turned(Y, U, "QUIT_SENT") /\ Y.out = Append(U.out, "QUIT")
  BY <1>3, <1>4, Closes
<1>7. Y \in Working /\ "LOGGED" \in States /\ V = Goto(Y, "LOGGED")
  BY <1>5, <1>6 DEF Turned, States
<1>8. Turned(V, Y, "LOGGED") /\ V.out = Y.out
  BY <1>7, GotoFacts
<1>9. Append(<<>>, "QUIT") = <<"QUIT">>
  OBVIOUS
<1> QED
  BY <1>3, <1>6, <1>8, <1>9 DEF Shut, Turned, Unused

\* The player has all it wants, and the transfer is under way.
LEMMA Aborts ==
  ASSUME NEW W, Unused(W), W.s.cs = "XFERING", W.s.done = "QUIT_cb", NEW V, V = Abort(W)
  PROVE  Turned(V, W, "ABOR_SENT") /\ V.out = <<"ABOR">>
<1>1. Turned(Say(W, "ABOR", "ABOR_SENT"), W, "ABOR_SENT")
      /\ Say(W, "ABOR", "ABOR_SENT").out = <<"ABOR">>
  BY SaysOne DEF Unused, Commands, States
<1>2. V = Say(W, "ABOR", "ABOR_SENT")
  BY <1>1 DEF Abort, Done, Turned
<1> QED
  BY <1>1, <1>2

\* A block of a download, while the file is wanted.
LEMMA Kept ==
  ASSUME NEW W, Unused(W), NEW j, j = job, j.op \in DOMAIN IoOf, j.op # "STOR",
         W.s.io = IoOf[j.op], W.s.cs \in {Asking(j), "XFERING"}, j.waiting,
         W.s.io = "media" => j.got < Want, W.s.cpcb # None
  PROVE  (Sink(W)[1] = W \/ Failed(Sink(W)[1], W)) /\ Sink(W)[2] = TRUE
<1>1. j.op \in {"CWD", "RETR", "MEDIA", "REST"}
  BY DEF IoOf
<1>2. CASE j.op = "RETR"
  <2>1. W.s.io = "write" /\ W.s.cs \in {"XFERING", "RETR_SENT", "REST_SENT"}
    BY <1>2 DEF IoOf, Asking
  <2>2. PICK B : B = [W EXCEPT !.bad = TRUE]
    OBVIOUS
  <2>3. B \in Working /\ B.s = W.s /\ B.shut = W.shut /\ B.bad = TRUE
    BY <2>2 DEF Unused, Working
  <2>4. Turned(Close(B), B, "QUIT_SENT")
    BY <2>1, <2>3, Closes
  <2>5. Failed(Close(B), W)
    BY <2>3, <2>4 DEF Failed, Keeps, Turned
  <2>6. Sink(W) = IF W.ok THEN <<W, TRUE>> ELSE <<Close(B), TRUE>>
    BY <2>1, <2>2 DEF Sink
  <2> QED
    BY <2>5, <2>6
<1>3. CASE j.op = "CWD"
  BY <1>3 DEF IoOf, Sink
<1>4. CASE j.op \in {"MEDIA", "REST"}
  BY <1>4 DEF IoOf, Sink
<1> QED
  BY <1>1, <1>2, <1>3, <1>4

\* A block of a file the player has enough of.
LEMMA Spared ==
  ASSUME NEW W, Unused(W), W.s.io = "media", ~(job.got < Want), W.s.done = "QUIT_cb"
  PROVE  /\ Sink(W)[2] = FALSE
         /\ job.waiting /\ W.s.cs = "XFERING" =>
              Turned(Sink(W)[1], W, "ABOR_SENT") /\ Sink(W)[1].out = <<"ABOR">>
         /\ W.s.cs # "XFERING" => Sink(W)[1] = W
<1>1. CASE job.waiting
  <2>1. Sink(W) = <<IF W.s.cs = "XFERING" THEN Abort(W) ELSE W, FALSE>>
    BY <1>1 DEF Sink
  <2> QED
    BY <1>1, <2>1, Aborts
<1>2. CASE ~job.waiting
  <2>1. Sink(W) = <<W, FALSE>>
    BY <1>2 DEF Sink
  <2> QED
    BY <1>2, <2>1
<1> QED
  BY <1>1, <1>2

--------------------------------------------------------------------------------
(* The control connection's callback, in the session's course.                  *)

\* lwftp_control_recv has been entered with W and ends with V, and leaves C, whose
\* connection c has still the replies R.
Received(c, W, V, R, C) ==
  /\ c = s.cpcb /\ c # None /\ conn[c].reps # <<>> /\ job.op \in AllJobs
  /\ Unused(W) /\ W.s = s /\ W.src = job.src
  /\ W.fresh # None => W.fresh \in Dat /\ dat[W.fresh] = FreeDat
  /\ V = Process(W, Head(conn[c].reps))
  /\ Remain(conn[c].reps, R)
  /\ C \in [Ctl -> Link] /\ C[c].reps = R /\ C[c].cmds = conn[c].cmds
  /\ C[c].xf = conn[c].xf /\ C[c].bye = conn[c].bye /\ C[c].fin = conn[c].fin
  /\ Leave(V, C, dat, job) /\ leftover' \subseteq {"RETR", "STOR"}

LEMMA Receives ==
  ASSUME LInv, NEW c \in Ctl, CtlRecv(c)
  PROVE  \E W, V, R, C : Received(c, W, V, R, C)
<1>1. PICK k \in IF "merge" \in Faults THEN 1..Len(conn[c].reps) ELSE {1},
           n \in Fresh, ok \in BOOLEAN :
        Leave(Process(Enter(n, ok), Head(conn[c].reps)),
              [conn EXCEPT ![c].reps = SubSeq(@, k + 1, Len(@))], dat, job)
  <2>1. Luck("lowmem") \subseteq BOOLEAN
    BY DEF Luck
  <2> QED
    BY <2>1 DEF CtlRecv
<1>2. PICK q : q = conn[c].reps
  OBVIOUS
<1>3. conn[c].st = "open" /\ q # <<>> /\ leftover' = leftover
  BY <1>2 DEF CtlRecv
<1>4. s.cpcb = c /\ c # None /\ job.op \in AllJobs
  BY <1>3, Held, LwftpAssumption DEF LInv, Holds
<1>5. conn \in [Ctl -> Link] /\ conn[c] \in Link /\ leftover \subseteq {"RETR", "STOR"}
  BY DEF LInv, Typed
<1>6. q \in Seq(Codes)
  BY <1>2, <1>5 DEF Link
<1>7. k \in 1..Len(q)
  BY <1>2, <1>3, <1>6
<1>8. SubSeq(q, k + 1, Len(q)) \in Seq(Codes)
  BY <1>6, <1>7
<1>9. PICK R \in Seq(Codes) : R = SubSeq(q, k + 1, Len(q))
  BY <1>8
<1>10. PICK C : C = [conn EXCEPT ![c].reps = R]
  OBVIOUS
<1>11. /\ C \in [Ctl -> Link] /\ C[c].reps = R /\ C[c].cmds = conn[c].cmds
       /\ C[c].xf = conn[c].xf /\ C[c].bye = conn[c].bye /\ C[c].fin = conn[c].fin
  <2>1. PICK L : L = [conn[c] EXCEPT !.reps = R]
    OBVIOUS
  <2>2. /\ L \in Link /\ L.reps = R /\ L.cmds = conn[c].cmds
        /\ L.xf = conn[c].xf /\ L.bye = conn[c].bye /\ L.fin = conn[c].fin
    BY <1>5, <2>1 DEF Link
  <2>3. C = [conn EXCEPT ![c] = L]
    BY <1>10, <2>1
  <2> QED
    BY <1>5, <2>2, <2>3
<1>12. PICK W : W = Enter(n, ok)
  OBVIOUS
<1>13. Unused(W) /\ W.s = s /\ W.src = job.src /\ W.fresh = n
  <2>1. /\ Thrifty(W, s.cs) /\ W.out = <<>> /\ W.put = FALSE /\ W.s = s /\ W.src = job.src
        /\ W.fresh = n /\ W.shut = {} /\ W.bad = FALSE /\ W.syn = FALSE
    BY <1>12, EnterThrifty
  <2> QED
    BY <2>1 DEF Unused, Thrifty
<1>14. n # None => n \in Dat /\ dat[n] = FreeDat
  <2>1. n # None => n \in FreshPcbs
    BY DEF Fresh
  <2> QED
    BY <2>1 DEF FreshPcbs, LInv, Ledger, Clean
<1>15. PICK V : V = Process(W, Head(q))
  OBVIOUS
<1>16. Leave(V, C, dat, job)
  <2>1. [conn EXCEPT ![c].reps = SubSeq(conn[c].reps, k + 1, Len(conn[c].reps))] = C
    BY <1>2, <1>9, <1>10
  <2>2. V = Process(Enter(n, ok), Head(conn[c].reps))
    BY <1>2, <1>12, <1>15
  <2>3. Leave(Process(Enter(n, ok), Head(conn[c].reps)),
              [conn EXCEPT ![c].reps = SubSeq(conn[c].reps, k + 1, Len(conn[c].reps))],
              dat, job)
    BY <1>1
  <2> QED
    BY <2>1, <2>2, <2>3
<1>17. Remain(q, R)
  BY <1>6, <1>7, <1>9, Taken
<1>18. Received(c, W, V, R, C)
  BY <1>2, <1>3, <1>4, <1>5, <1>11, <1>13, <1>14, <1>15, <1>16, <1>17 DEF Received
<1> QED
  BY <1>18

\* The session goes on.
LEMMA GoesOn ==
  ASSUME LInv, NEW c \in Ctl, NEW W, NEW V, NEW R, NEW C, Received(c, W, V, R, C), Keeps(V, W),
         \A K \in Link, j \in Task : \A X :
           Onward(V, C, dat, job, K, X, j) => j.bad \/ Phase(V.s, K, X, j)
  PROVE  Course'
<1>1. V \in Working /\ V.s.cpcb = s.cpcb /\ s.cpcb # None /\ s.cpcb \notin V.shut
  BY DEF Received, Unused, Keeps
<1>2. C \in [Ctl -> Link] /\ Leave(V, C, dat, job) /\ leftover' \subseteq {"RETR", "STOR"}
  BY DEF Received
<1>3. dat \in [Dat -> Wire] /\ job \in Task
  BY DEF LInv, Typed
<1> QED
  BY <1>1, <1>2, <1>3, Carried

LEMMA GoesWrong ==
  ASSUME LInv, NEW c \in Ctl, NEW W, NEW V, NEW R, NEW C, Received(c, W, V, R, C), Failed(V, W)
  PROVE  Course'
<1>1. \A K, X, j : Onward(V, C, dat, job, K, X, j) => j.bad
  BY DEF Onward, Failed
<1> QED
  BY <1>1, GoesOn DEF Failed

\* What the server and the user see of it.
Onto(c, q, R, K, j) ==
  /\ K.cmds = q /\ K.reps = R /\ K.xf = conn[c].xf /\ K.bye = conn[c].bye
  /\ K.fin = conn[c].fin
  /\ j.op = job.op /\ j.waiting = job.waiting /\ j.src = job.src /\ j.size = job.size
  /\ j.got = job.got /\ j.did = job.did

OntoData(D, X) == X.left = D.left /\ X.eof = D.eof /\ X.fly = D.fly

\* Nothing has been closed or written.
Plain(V) == V \in Working /\ V.shut = {} /\ V.put = FALSE /\ V.src = job.src

Answer(V, c, R, K, X, j) ==
  /\ Onto(c, conn[c].cmds \o V.out, R, K, j)
  /\ conn[c].cmds = <<>> => Onto(c, V.out, R, K, j)
  /\ V.s.dpcb # None => OntoData(dat[V.s.dpcb], X)
  /\ V.s.dpcb # None => X.ctl = IF V.syn THEN c ELSE dat[V.s.dpcb].ctl

LEMMA Answering ==
  ASSUME LInv, NEW c \in Ctl, NEW W, NEW V, NEW R, NEW C,
         Received(c, W, V, R, C), Plain(V),
         NEW K, NEW X, NEW j, Onward(V, C, dat, job, K, X, j)
  PROVE  Answer(V, c, R, K, X, j)
<1> USE DEF Plain
<1>1. /\ c = s.cpcb /\ C[c].reps = R /\ C[c].cmds = conn[c].cmds
      /\ C[c].xf = conn[c].xf /\ C[c].bye = conn[c].bye /\ C[c].fin = conn[c].fin
  BY DEF Received
<1>2. conn[c].fin \in BOOLEAN /\ \A d \in Dat : dat[d].fly \in BOOLEAN
  BY DEF LInv, Typed, Link, Wire
<1>3. (conn[c].fin \/ \E d \in V.shut \cap Dat : dat[d].ctl = c) = conn[c].fin
  BY <1>2
<1>4. Onto(c, conn[c].cmds \o V.out, R, K, j)
  BY <1>1, <1>3 DEF Onward, Onto
<1>5. <<>> \o V.out = V.out
  BY Spliced DEF Working
<1>6. V.s.dpcb # None => /\ OntoData(dat[V.s.dpcb], X)
                         /\ X.ctl = IF V.syn THEN c ELSE dat[V.s.dpcb].ctl
  <2> SUFFICES ASSUME V.s.dpcb # None
               PROVE  /\ OntoData(dat[V.s.dpcb], X)
                      /\ X.ctl = IF V.syn THEN c ELSE dat[V.s.dpcb].ctl
    OBVIOUS
  <2>1. /\ X.left = dat[V.s.dpcb].left /\ X.eof = dat[V.s.dpcb].eof
        /\ X.ctl = IF V.syn THEN s.cpcb ELSE dat[V.s.dpcb].ctl
        /\ X.fly = (dat[V.s.dpcb].fly \/ V.put)
    BY DEF Onward
  <2>2. V.s.dpcb \in Dat
    BY DEF Working, Session
  <2> QED
    BY <1>1, <1>2, <2>1, <2>2 DEF OntoData
<1> QED
  BY <1>4, <1>5, <1>6 DEF Answer

LEMMA Synced ==
  ASSUME NEW c, NEW W, NEW V, NEW R, NEW C, Received(c, W, V, R, C),
         NEW cmd \in DOMAIN Agrees, Sync(conn[c], cmd)
  PROVE  Quiet(conn[c]) /\ conn[c].cmds = <<>> /\ V = Process(W, Agrees[cmd]) /\ R = <<>>
<1>1. conn[c].cmds = <<>> /\ conn[c].reps = <<Agrees[cmd]>> /\ Quiet(conn[c])
  BY DEF Received, Sync
<1>2. Agrees[cmd] \in Codes
  BY ReplyCodes
<1> QED
  BY <1>1, <1>2 DEF Received, Remain

\* A session that has only said one thing more.
LEMMA Says ==
  ASSUME LInv, NEW c \in Ctl, NEW W, NEW V, NEW R, NEW C, Received(c, W, V, R, C),
         NEW x, Turned(V, W, x), conn[c].cmds = <<>>,
         NEW q, V.out = q
  PROVE  /\ Keeps(V, W)
         /\ V.s.cs = x /\ V.s.target = s.target /\ V.s.cpcb = c /\ V.s.dpcb = s.dpcb
         /\ V.s.done = s.done /\ V.s.io = s.io
         /\ \A K, X, j : Onward(V, C, dat, job, K, X, j) =>
              /\ Onto(c, q, R, K, j)
              /\ s.dpcb # None => OntoData(dat[s.dpcb], X) /\ X.ctl = dat[s.dpcb].ctl
<1>1. /\ V \in Working /\ V.s.cs = x /\ V.s.target = s.target /\ V.s.cpcb = c /\ V.s.dpcb = s.dpcb
      /\ V.s.done = s.done /\ V.s.io = s.io /\ V.shut = {} /\ V.put = FALSE
      /\ V.src = job.src /\ V.syn = FALSE
  BY DEF Turned, Received, Unused
<1>2. Keeps(V, W)
  BY DEF Turned, Keeps
<1>3. ASSUME NEW K, NEW X, NEW j, Onward(V, C, dat, job, K, X, j)
      PROVE  /\ Onto(c, q, R, K, j)
             /\ s.dpcb # None => OntoData(dat[s.dpcb], X) /\ X.ctl = dat[s.dpcb].ctl
  <2>1. Plain(V)
    BY <1>1 DEF Plain
  <2>2. Answer(V, c, R, K, X, j)
    BY <1>3, <2>1, Answering
  <2> QED
    BY <1>1, <2>2 DEF Answer
<1> QED
  BY <1>1, <1>2, <1>3

\* Up to the login.
LEMMA OpeningRecv ==
  ASSUME LInv, NEW c \in Ctl, NEW W, NEW V, NEW R, NEW C, Received(c, W, V, R, C),
         Opening(s, conn[c], job), s.cs # "PASS_SENT"
  PROVE  Course'
<1>1. /\ c = s.cpcb /\ conn[c].reps # <<>> /\ Unused(W) /\ W.s = s
      /\ V = Process(W, Head(conn[c].reps))
  BY DEF Received
<1>2. Unstarted(job) /\ s.done = "op" /\ s.dpcb = None /\ Quiet(conn[c])
  BY DEF Opening
<1>3. CASE s.cs = "CONNECTED"
  <2>1. conn[c].cmds = <<>> /\ conn[c].reps = <<"220">> /\ "220" \in Codes
    BY <1>3 DEF Opening, Codes
  <2>2. V = Process(W, "220") /\ R = <<>>
    BY <2>1 DEF Received, Remain
  <2>3. Turned(V, W, "USER_SENT") /\ V.out = <<"USER">>
    <3>1. "CONNECTED" \in DOMAIN NextCommand
          /\ NextCommand["CONNECTED"][1] = "220" /\ NextCommand["CONNECTED"][2] = "USER"
          /\ NextCommand["CONNECTED"][3] = "USER_SENT"
      BY DEF NextCommand
    <3> QED
      BY <1>1, <1>3, <2>2, <3>1, NextReply
  <2>4. ASSUME NEW K, NEW X, NEW j, Onward(V, C, dat, job, K, X, j)
        PROVE  Phase(V.s, K, X, j)
    <3>1. Onto(c, <<"USER">>, <<>>, K, j) /\ V.s.cs = "USER_SENT" /\ V.s.dpcb = None
          /\ V.s.done = "op"
      BY <1>2, <2>1, <2>2, <2>3, <2>4, Says
    <3>2. Sync(K, "USER")
      BY <1>2, <3>1 DEF Sync, Onto, Quiet
    <3>3. Opening(V.s, K, j)
      BY <1>2, <3>1, <3>2 DEF Opening, Onto, Quiet, Unstarted
    <3> QED
      BY <3>3 DEF Phase
  <2>5. Keeps(V, W)
    BY <2>3 DEF Turned, Keeps
  <2> QED
    BY <2>4, <2>5, GoesOn
<1>4. CASE s.cs = "USER_SENT"
  <2>1. Sync(conn[c], "USER") /\ "USER" \in DOMAIN Agrees /\ Agrees["USER"] = "331"
    BY <1>4 DEF Opening, Agrees
  <2>2. V = Process(W, "331") /\ R = <<>> /\ conn[c].cmds = <<>>
    BY <2>1, Synced
  <2>3. Turned(V, W, "PASS_SENT") /\ V.out = <<"PASS">>
    <3>1. "USER_SENT" \in DOMAIN NextCommand
          /\ NextCommand["USER_SENT"][1] = "331" /\ NextCommand["USER_SENT"][2] = "PASS"
          /\ NextCommand["USER_SENT"][3] = "PASS_SENT"
      BY DEF NextCommand
    <3> QED
      BY <1>1, <1>4, <2>2, <3>1, NextReply
  <2>4. ASSUME NEW K, NEW X, NEW j, Onward(V, C, dat, job, K, X, j)
        PROVE  Phase(V.s, K, X, j)
    <3>1. Onto(c, <<"PASS">>, <<>>, K, j) /\ V.s.cs = "PASS_SENT" /\ V.s.dpcb = None
          /\ V.s.done = "op"
      BY <1>2, <2>2, <2>3, <2>4, Says
    <3>2. Sync(K, "PASS")
      BY <1>2, <3>1 DEF Sync, Onto, Quiet
    <3>3. Opening(V.s, K, j)
      BY <1>2, <3>1, <3>2 DEF Opening, Onto, Quiet, Unstarted
    <3> QED
      BY <3>3 DEF Phase
  <2>5. Keeps(V, W)
    BY <2>3 DEF Turned, Keeps
  <2> QED
    BY <2>4, <2>5, GoesOn
<1> QED
  BY <1>1, <1>3, <1>4 DEF Opening

LEMMA Plainly ==
  ASSUME LInv, NEW c \in Ctl, NEW W, NEW V, NEW R, NEW C, Received(c, W, V, R, C)
  PROVE  /\ \A cmd, x, done : Sent(V, W, cmd, x, done) => Plain(V) /\ V.s.dpcb = s.dpcb
         /\ \A target, io : Prepared(V, W, target, io) =>
              Plain(V) /\ V.s.dpcb # None /\ dat[V.s.dpcb] = FreeDat
         /\ \A cmd, x : Called(V, W, cmd, x) => Plain(V) /\ V.s.dpcb = s.dpcb
  BY DEF Received, Unused, Sent, Prepared, Called, Plain, Keeps

\* A data connection has been set up.
LEMMA Prepares ==
  ASSUME LInv, NEW c \in Ctl, NEW W, NEW V, NEW R, NEW C, Received(c, W, V, R, C),
         job.op \in DOMAIN IoOf, Prepared(V, W, TargetOf[job.op], IoOf[job.op]),
         Unstarted(job), Quiet(conn[c]), conn[c].cmds = <<>>, R = <<>>
  PROVE  Course'
<1>1. Plain(V) /\ V.s.dpcb # None /\ dat[V.s.dpcb] = FreeDat
  BY Plainly
<1>2. /\ Keeps(V, W) /\ V.s.cs = "TYPE_SENT" /\ V.s.target = TargetOf[job.op]
      /\ V.s.io = IoOf[job.op] /\ V.s.done = "QUIT_cb" /\ V.out = <<"TYPE">>
  BY DEF Prepared
<1>3. ASSUME NEW K, NEW X, NEW j, Onward(V, C, dat, job, K, X, j)
      PROVE  Phase(V.s, K, X, j)
  <2>1. Answer(V, c, R, K, X, j)
    BY <1>1, <1>3, Answering
  <2>2. Onto(c, <<"TYPE">>, <<>>, K, j) /\ OntoData(FreeDat, X)
    BY <1>1, <1>2, <2>1 DEF Answer
  <2>3. Sync(K, "TYPE")
    BY <2>2 DEF Sync, Onto, Quiet
  <2>4. Still(V.s, X)
    BY <1>1, <2>2 DEF Still, OntoData, FreeDat
  <2>5. Unstarted(j) /\ j.op = job.op
    BY <2>2 DEF Unstarted, Onto
  <2>6. Preparing(V.s, K, X, j)
    BY <1>2, <2>3, <2>4, <2>5 DEF Preparing, Suits
  <2> QED
    BY <2>6 DEF Phase
<1> QED
  BY <1>2, <1>3, GoesOn

LEMMA LoginRecv ==
  ASSUME LInv, NEW c \in Ctl, NEW W, NEW V, NEW R, NEW C, Received(c, W, V, R, C),
         Opening(s, conn[c], job), s.cs = "PASS_SENT"
  PROVE  Course'
<1>1. /\ Unused(W) /\ W.s = s /\ c = s.cpcb /\ c # None /\ job.op \in AllJobs
  BY DEF Received
<1>2. Unstarted(job) /\ s.done = "op" /\ s.dpcb = None /\ Sync(conn[c], "PASS")
      /\ "PASS" \in DOMAIN Agrees /\ Agrees["PASS"] = "230"
  BY DEF Opening, Agrees
<1>3. V = Process(W, "230") /\ R = <<>> /\ conn[c].cmds = <<>> /\ Quiet(conn[c])
  BY <1>2, Synced
<1>4. \/ job.op \in Simple /\ Sent(V, W, job.op, SimpleState[job.op], "QUIT_cb")
      \/ job.op = "CWD" /\ Sent(V, W, "CWD", "CWD_SENT", "LIST_cb")
      \/ /\ job.op \in DOMAIN IoOf \ {"CWD"}
         /\ Prepared(V, W, TargetOf[job.op], IoOf[job.op])
      \/ Failed(V, W)
  BY <1>1, <1>2, <1>3, LoginReply
<1>5. CASE job.op \in Simple /\ Sent(V, W, job.op, SimpleState[job.op], "QUIT_cb")
  <2>1. Plain(V) /\ V.s.dpcb = s.dpcb
    BY <1>5, Plainly
  <2>2. PICK x : x = SimpleState[job.op]
    OBVIOUS
  <2>3. /\ Keeps(V, W) /\ V.s.cs = x /\ V.s.done = "QUIT_cb" /\ V.out = <<job.op>>
    BY <1>5, <2>2 DEF Sent
  <2>4. job.size = 0 /\ job.got = 0 /\ job.did = 0 /\ job.waiting
    BY <1>2, <1>5 DEF Unstarted, Simple, LInv, Ledger, Stocks
  <2>5. ASSUME NEW K, NEW X, NEW j, Onward(V, C, dat, job, K, X, j)
        PROVE  Phase(V.s, K, X, j)
    <3>1. Answer(V, c, R, K, X, j)
      BY <2>1, <2>5, Answering
    <3>2. Onto(c, <<job.op>>, <<>>, K, j)
      BY <1>3, <2>3, <3>1 DEF Answer
    <3>3. Sync(K, job.op) /\ K.cmds # <<>>
      BY <1>3, <3>2 DEF Sync, Onto, Quiet
    <3>4. /\ j.op = job.op /\ j.waiting /\ j.size = 0 /\ j.got = 0 /\ j.did = 0
      BY <2>4, <3>2 DEF Onto
    <3>5. CASE job.op = "RNFR"
      <4>1. x = "RNFR_SENT"
        BY <2>2, <3>5 DEF SimpleState
      <4>2. Doing(V.s, K, j)
        BY <1>2, <1>5, <2>1, <2>3, <3>3, <3>4, <3>5, <4>1 DEF Doing
      <4> QED
        BY <4>2 DEF Phase
    <3>6. CASE job.op # "RNFR"
      <4>1. x \in DOMAIN LastOf /\ LastOf[x] = job.op
        BY <1>5, <2>2, <3>6 DEF SimpleState, Simple, LastOf
      <4>2. Doing(V.s, K, j)
        BY <1>2, <1>5, <2>1, <2>3, <3>3, <3>4, <4>1 DEF Doing
      <4> QED
        BY <4>2 DEF Phase
    <3> QED
      BY <3>5, <3>6
  <2> QED
    BY <2>3, <2>5, GoesOn
<1>6. CASE job.op = "CWD" /\ Sent(V, W, "CWD", "CWD_SENT", "LIST_cb")
  <2>1. Plain(V) /\ V.s.dpcb = s.dpcb
    BY <1>6, Plainly
  <2>2. /\ Keeps(V, W) /\ V.s.cs = "CWD_SENT" /\ V.s.done = "LIST_cb" /\ V.out = <<"CWD">>
    BY <1>6 DEF Sent
  <2>3. ASSUME NEW K, NEW X, NEW j, Onward(V, C, dat, job, K, X, j)
        PROVE  Phase(V.s, K, X, j)
    <3>1. Answer(V, c, R, K, X, j)
      BY <2>1, <2>3, Answering
    <3>2. Onto(c, <<"CWD">>, <<>>, K, j)
      BY <1>3, <2>2, <3>1 DEF Answer
    <3>3. Sync(K, "CWD")
      BY <1>3, <3>2 DEF Sync, Onto, Quiet
    <3>4. Unstarted(j) /\ j.op = "CWD"
      BY <1>2, <1>6, <3>2 DEF Unstarted, Onto
    <3>5. Entering(V.s, K, j)
      BY <1>2, <2>1, <2>2, <3>3, <3>4 DEF Entering
    <3> QED
      BY <3>5 DEF Phase
  <2> QED
    BY <2>2, <2>3, GoesOn
<1>7. CASE job.op \in DOMAIN IoOf \ {"CWD"} /\ Prepared(V, W, TargetOf[job.op], IoOf[job.op])
  BY <1>2, <1>3, <1>7, Prepares
<1>8. CASE Failed(V, W)
  BY <1>8, GoesWrong
<1> QED
  BY <1>4, <1>5, <1>6, <1>7, <1>8

LEMMA EnteringRecv ==
  ASSUME LInv, NEW c \in Ctl, NEW W, NEW V, NEW R, NEW C, Received(c, W, V, R, C),
         Entering(s, conn[c], job)
  PROVE  Course'
<1>1. /\ Unused(W) /\ W.s = s /\ c = s.cpcb /\ c # None
  BY DEF Received
<1>2. /\ Unstarted(job) /\ job.op = "CWD" /\ s.done = "LIST_cb" /\ s.dpcb = None
      /\ s.cs = "CWD_SENT" /\ Sync(conn[c], "CWD")
      /\ "CWD" \in DOMAIN Agrees /\ Agrees["CWD"] = "250"
  BY DEF Entering, Agrees
<1>3. V = Process(W, "250") /\ R = <<>> /\ conn[c].cmds = <<>> /\ Quiet(conn[c])
  BY <1>2, Synced
<1>4. Prepared(V, W, "LIST_SENT", "dir") \/ Failed(V, W)
  BY <1>1, <1>2, <1>3, EnterReply
<1>5. job.op \in DOMAIN IoOf /\ TargetOf[job.op] = "LIST_SENT" /\ IoOf[job.op] = "dir"
  BY <1>2 DEF IoOf, TargetOf
<1> QED
  BY <1>2, <1>3, <1>4, <1>5, Prepares, GoesWrong

\* The only command so far has been QUIT.
LEMMA QuitOnly == Works(<<"QUIT">>) = {} /\ Works(<<"ABOR">>) = {}
<1>1. "QUIT" \in Commands /\ "ABOR" \in Commands /\ "QUIT" \notin Work /\ "ABOR" \notin Work
  BY CommandFacts
<1>2. Works(Append(<<>>, "QUIT")) = {} /\ Works(Append(<<>>, "ABOR")) = {}
  BY <1>1, EmptyFacts, Appended
<1>3. Append(<<>>, "QUIT") = <<"QUIT">> /\ Append(<<>>, "ABOR") = <<"ABOR">>
  OBVIOUS
<1> QED
  BY <1>2, <1>3

LEMMA DoingRecv ==
  ASSUME LInv, NEW c \in Ctl, NEW W, NEW V, NEW R, NEW C, Received(c, W, V, R, C),
         Doing(s, conn[c], job)
  PROVE  Course'
<1>1. /\ Unused(W) /\ W.s = s /\ c = s.cpcb /\ c # None
  BY DEF Received
<1>2. /\ job.op \in Simple /\ s.done = "QUIT_cb" /\ s.dpcb = None
      /\ job.waiting /\ job.size = 0 /\ job.got = 0
  BY DEF Doing
<1>3. CASE s.cs = "RNFR_SENT" /\ Sync(conn[c], "RNFR") /\ job.did = 0
  <2>1. "RNFR" \in DOMAIN Agrees /\ Agrees["RNFR"] = "350"
    BY DEF Agrees
  <2>2. V = Process(W, "350") /\ R = <<>> /\ conn[c].cmds = <<>> /\ Quiet(conn[c])
    BY <1>3, <2>1, Synced
  <2>3. Turned(V, W, "RNTO_SENT") /\ V.out = <<"RNTO">>
    <3>1. "RNFR_SENT" \in DOMAIN NextCommand
          /\ NextCommand["RNFR_SENT"][1] = "350" /\ NextCommand["RNFR_SENT"][2] = "RNTO"
          /\ NextCommand["RNFR_SENT"][3] = "RNTO_SENT"
      BY DEF NextCommand
    <3> QED
      BY <1>1, <1>3, <2>2, <3>1, NextReply
  <2>4. ASSUME NEW K, NEW X, NEW j, Onward(V, C, dat, job, K, X, j)
        PROVE  Phase(V.s, K, X, j)
    <3>1. Onto(c, <<"RNTO">>, <<>>, K, j) /\ V.s.cs = "RNTO_SENT" /\ V.s.dpcb = None
          /\ V.s.done = "QUIT_cb"
      BY <1>2, <2>2, <2>3, <2>4, Says
    <3>2. Sync(K, "RNTO") /\ K.cmds # <<>>
      BY <2>2, <3>1 DEF Sync, Onto, Quiet
    <3>3. "RNTO_SENT" \in DOMAIN LastOf /\ LastOf["RNTO_SENT"] = "RNTO"
      BY DEF LastOf
    <3>4. Doing(V.s, K, j)
      BY <1>2, <1>3, <3>1, <3>2, <3>3 DEF Doing, Onto
    <3> QED
      BY <3>4 DEF Phase
  <2>5. Keeps(V, W)
    BY <2>3 DEF Turned, Keeps
  <2> QED
    BY <2>4, <2>5, GoesOn
<1>4. CASE /\ s.cs \in DOMAIN LastOf /\ Sync(conn[c], LastOf[s.cs])
           /\ job.did = IF conn[c].cmds = <<>> THEN 1 ELSE 0
  <2>1. PICK cs \in DOMAIN LastOf : s.cs = cs
    BY <1>4
  <2>2. LastOf[cs] \in DOMAIN Agrees
    BY DEF LastOf, Agrees
  <2>3. V = Process(W, Agrees[LastOf[cs]]) /\ R = <<>> /\ conn[c].cmds = <<>> /\ Quiet(conn[c])
    BY <1>4, <2>1, <2>2, Synced
  <2>4. Turned(V, W, "QUIT_SENT") /\ V.out = <<"QUIT">>
    BY <1>1, <1>2, <2>1, <2>3, LastReply
  <2>5. Finished(job)
    BY <1>2, <1>4, <2>3 DEF Finished, Due, Simple
  <2>6. ASSUME NEW K, NEW X, NEW j, Onward(V, C, dat, job, K, X, j)
        PROVE  Phase(V.s, K, X, j)
    <3>1. Onto(c, <<"QUIT">>, <<>>, K, j) /\ V.s.cs = "QUIT_SENT" /\ V.s.dpcb = None
          /\ V.s.done = "QUIT_cb"
      BY <1>2, <2>3, <2>4, <2>6, Says
    <3>2. Finished(j) /\ j.waiting
      BY <1>2, <2>5, <3>1 DEF Finished, Due, Onto
    <3>3. Works(K.cmds) = {} /\ K.xf # "up"
      BY <2>3, <3>1, QuitOnly DEF Onto, Quiet
    <3>4. Leaving(V.s, K, j)
      BY <3>1, <3>2, <3>3 DEF Leaving
    <3> QED
      BY <3>4 DEF Phase
  <2>7. Keeps(V, W)
    BY <2>4 DEF Turned, Keeps
  <2> QED
    BY <2>6, <2>7, GoesOn
<1> QED
  BY <1>3, <1>4 DEF Doing

LEMMA PreparingRecv ==
  ASSUME LInv, NEW c \in Ctl, NEW W, NEW V, NEW R, NEW C, Received(c, W, V, R, C),
         Preparing(s, conn[c], dat[s.dpcb], job)
  PROVE  Course'
<1>1. /\ Unused(W) /\ W.s = s /\ c = s.cpcb /\ c # None
  BY DEF Received
<1>2. Unstarted(job) /\ Suits(s, job) /\ Still(s, dat[s.dpcb])
  BY DEF Preparing
<1>3. s.dpcb # None /\ job.op \in DOMAIN IoOf /\ s.io = IoOf[job.op] /\ s.done = "QUIT_cb"
  BY <1>2 DEF Still, Suits
<1>4. CASE s.cs = "TYPE_SENT" /\ Sync(conn[c], "TYPE") /\ s.target = TargetOf[job.op]
  <2>1. "TYPE" \in DOMAIN Agrees /\ Agrees["TYPE"] = "200"
    BY DEF Agrees
  <2>2. V = Process(W, "200") /\ R = <<>> /\ conn[c].cmds = <<>> /\ Quiet(conn[c])
    BY <1>4, <2>1, Synced
  <2>3. Turned(V, W, "PASV_SENT") /\ V.out = <<"PASV">>
    <3>1. "TYPE_SENT" \in DOMAIN NextCommand
          /\ NextCommand["TYPE_SENT"][1] = "200" /\ NextCommand["TYPE_SENT"][2] = "PASV"
          /\ NextCommand["TYPE_SENT"][3] = "PASV_SENT"
      BY DEF NextCommand
    <3> QED
      BY <1>1, <1>4, <2>2, <3>1, NextReply
  <2>4. ASSUME NEW K, NEW X, NEW j, Onward(V, C, dat, job, K, X, j)
        PROVE  Phase(V.s, K, X, j)
    <3>1. Onto(c, <<"PASV">>, <<>>, K, j) /\ V.s.cs = "PASV_SENT" /\ V.s.dpcb = s.dpcb
          /\ V.s.done = s.done /\ V.s.io = s.io /\ V.s.target = s.target
          /\ OntoData(dat[s.dpcb], X)
      BY <1>3, <2>2, <2>3, <2>4, Says
    <3>2. Sync(K, "PASV")
      BY <2>2, <3>1 DEF Sync, Onto, Quiet
    <3>3. Still(V.s, X)
      BY <1>2, <3>1 DEF Still, OntoData
    <3>4. Unstarted(j) /\ j.op = job.op /\ Suits(V.s, j)
      BY <1>2, <3>1 DEF Unstarted, Onto, Suits
    <3>5. Preparing(V.s, K, X, j)
      BY <1>4, <3>1, <3>2, <3>3, <3>4 DEF Preparing
    <3> QED
      BY <3>5 DEF Phase
  <2>5. Keeps(V, W)
    BY <2>3 DEF Turned, Keeps
  <2> QED
    BY <2>4, <2>5, GoesOn
<1>5. CASE s.cs = "PASV_SENT" /\ Sync(conn[c], "PASV") /\ s.target = TargetOf[job.op]
  <2>1. "PASV" \in DOMAIN Agrees /\ Agrees["PASV"] = "227"
    BY DEF Agrees
  <2>2. V = Process(W, "227") /\ R = <<>> /\ conn[c].cmds = <<>> /\ Quiet(conn[c])
    BY <1>5, <2>1, Synced
  <2>3. PICK x : x = TargetOf[job.op]
    OBVIOUS
  <2>4. x \in DOMAIN Verb
    BY <1>3, <2>3 DEF IoOf, TargetOf, Verb
  <2>5. Called(V, W, Verb[x], x) \/ Failed(V, W)
    BY <1>1, <1>3, <1>5, <2>2, <2>3, <2>4, PassiveReply
  <2>6. ASSUME Called(V, W, Verb[x], x)
        PROVE  Course'
    <3>1. Plain(V) /\ V.s.dpcb = s.dpcb
      BY <2>6, Plainly
    <3>2. /\ Keeps(V, W) /\ V.s.cs = x /\ V.s.done = s.done /\ V.s.io = s.io
          /\ V.out = <<Verb[x]>> /\ V.syn = TRUE /\ V.s.cpcb = c
      BY <1>1, <2>6 DEF Called, Keeps
    <3>3. ASSUME NEW K, NEW X, NEW j, Onward(V, C, dat, job, K, X, j)
          PROVE  Phase(V.s, K, X, j)
      <4>1. Answer(V, c, R, K, X, j)
        BY <3>1, <3>3, Answering
      <4>2. Onto(c, <<Verb[x]>>, <<>>, K, j) /\ OntoData(dat[s.dpcb], X) /\ X.ctl = V.s.cpcb
        BY <1>3, <2>2, <3>1, <3>2, <4>1 DEF Answer
      <4>3. K.cmds = <<Verb[x]>> /\ K.reps = <<>> /\ Quiet(K)
        BY <2>2, <4>2 DEF Onto, Quiet
      <4>4. Still(V.s, X)
        BY <1>2, <3>1, <4>2 DEF Still, OntoData
      <4>5. Unstarted(j) /\ j.op = job.op /\ Suits(V.s, j)
        BY <1>2, <3>2, <4>2 DEF Unstarted, Onto, Suits
      <4>6. CASE job.op = "REST"
        <5>1. x = "REST_SENT" /\ Verb[x] = "REST"
          BY <2>3, <4>6 DEF TargetOf, Verb
        <5>2. Sync(K, "REST")
          BY <4>3, <5>1 DEF Sync
        <5>3. Preparing(V.s, K, X, j)
          BY <3>2, <4>2, <4>4, <4>5, <4>6, <5>1, <5>2 DEF Preparing
        <5> QED
          BY <5>3 DEF Phase
      <4>7. CASE job.op = "STOR"
        <5>1. x = "STOR_SENT" /\ Verb[x] = "STOR"
          BY <2>3, <4>7 DEF TargetOf, Verb
        <5>2. j.waiting /\ j.did = 0 /\ j.got + j.src = j.size
          <6>1. j.waiting /\ j.did = 0 /\ j.got = 0 /\ j.src = j.size
            BY <4>5 DEF Unstarted
          <6>2. j.size = job.size /\ job.size \in Nat
            BY <4>2 DEF Onto, LInv, Typed, Task
          <6> QED
            BY <6>1, <6>2
        <5>3. Storing(V.s, K, X, j)
          BY <3>2, <4>2, <4>3, <4>4, <4>5, <4>7, <5>1, <5>2 DEF Storing, Quiet
        <5> QED
          BY <5>3 DEF Phase
      <4>8. CASE job.op \in {"CWD", "RETR", "MEDIA"}
        <5>1. x = Asking(j) /\ j.op # "STOR"
          BY <2>3, <4>5, <4>8 DEF TargetOf, Asking
        <5>2. Calling(V.s, K, X, j)
          BY <3>2, <4>2, <4>3, <4>4, <4>5, <5>1 DEF Calling
        <5> QED
          BY <5>2 DEF Phase
      <4> QED
        BY <1>3, <4>6, <4>7, <4>8 DEF IoOf
    <3> QED
      BY <3>2, <3>3, GoesOn
  <2> QED
    BY <2>5, <2>6, GoesWrong
<1>6. CASE s.cs = "REST_SENT" /\ Sync(conn[c], "REST") /\ job.op = "REST"
           /\ dat[s.dpcb].ctl = s.cpcb
  <2>1. "REST" \in DOMAIN Agrees /\ Agrees["REST"] = "350"
    BY DEF Agrees
  <2>2. V = Process(W, "350") /\ R = <<>> /\ conn[c].cmds = <<>> /\ Quiet(conn[c])
    BY <1>6, <2>1, Synced
  <2>3. Turned(V, W, "RETR_SENT") /\ V.out = <<"RETR">>
    BY <1>1, <1>6, <2>2, RestReply
  <2>4. ASSUME NEW K, NEW X, NEW j, Onward(V, C, dat, job, K, X, j)
        PROVE  Phase(V.s, K, X, j)
    <3>1. Onto(c, <<"RETR">>, <<>>, K, j) /\ V.s.cs = "RETR_SENT" /\ V.s.dpcb = s.dpcb
          /\ V.s.done = s.done /\ V.s.io = s.io /\ V.s.cpcb = c
          /\ OntoData(dat[s.dpcb], X) /\ X.ctl = dat[s.dpcb].ctl
      BY <1>3, <2>2, <2>3, <2>4, Says
    <3>2. K.cmds = <<"RETR">> /\ K.reps = <<>> /\ Quiet(K)
      BY <2>2, <3>1 DEF Onto, Quiet
    <3>3. Still(V.s, X)
      BY <1>2, <3>1 DEF Still, OntoData
    <3>4. Unstarted(j) /\ j.op = job.op /\ Suits(V.s, j)
      BY <1>2, <3>1 DEF Unstarted, Onto, Suits
    <3>5. Asking(j) = "RETR_SENT" /\ Verb["RETR_SENT"] = "RETR"
      BY <1>6, <3>4 DEF Asking, Verb
    <3>6. Calling(V.s, K, X, j)
      BY <1>1, <1>6, <3>1, <3>2, <3>3, <3>4, <3>5 DEF Calling
    <3> QED
      BY <3>6 DEF Phase
  <2>5. Keeps(V, W)
    BY <2>3 DEF Turned, Keeps
  <2> QED
    BY <2>4, <2>5, GoesOn
<1> QED
  BY <1>4, <1>5, <1>6 DEF Preparing

LEMMA StillFetching ==
  ASSUME NEW c, NEW D, NEW X, NEW K, NEW j, NEW x, NEW R,
         Fetching(s, conn[c], D, job), Onto(c, <<>>, R, K, j), OntoData(D, X), X.ctl = D.ctl,
         x.dpcb = s.dpcb, x.done = s.done, x.io = s.io, x.cpcb = s.cpcb, x.cs = "XFERING",
         \/ conn[c].xf = "down" /\ D.eof = FALSE /\ R = <<>>
         \/ conn[c].xf = "no" /\ R \in {<<>>, <<"226">>}
  PROVE  Phase(x, K, X, j)
<1>1. /\ j.op = job.op /\ j.waiting = job.waiting /\ j.size = job.size
      /\ j.got = job.got /\ j.did = job.did /\ X.left = D.left
  BY DEF Onto, OntoData
<1>2. Moved(x, X, j)
  BY <1>1 DEF Fetching, Moved
<1>3. Suits(x, j)
  BY <1>1 DEF Fetching, Suits
<1>4. K.cmds = <<>> /\ K.reps = R /\ K.xf = conn[c].xf /\ K.bye = conn[c].bye
      /\ X.eof = D.eof /\ X.fly = D.fly
  BY DEF Onto, OntoData
<1>5. Fetching(x, K, X, j)
  BY <1>1, <1>2, <1>3, <1>4 DEF Fetching
<1> QED
  BY <1>5 DEF Phase

LEMMA FetchingRecv ==
  ASSUME LInv, NEW c \in Ctl, NEW W, NEW V, NEW R, NEW C, Received(c, W, V, R, C),
         Fetching(s, conn[c], dat[s.dpcb], job)
  PROVE  Course'
<1>1. /\ Unused(W) /\ W.s = s /\ c = s.cpcb /\ c # None /\ conn[c].reps # <<>>
      /\ V = Process(W, Head(conn[c].reps)) /\ Remain(conn[c].reps, R)
  BY DEF Received
<1>2. s.dpcb # None /\ conn[c].cmds = <<>> /\ "150" \in Codes /\ "226" \in Codes
  BY DEF Fetching, Codes
<1>3. CASE s.cs = Asking(job)
  <2>1. Head(conn[c].reps) = "150"
        /\ \/ conn[c].xf = "down" /\ dat[s.dpcb].eof = FALSE /\ R = <<>>
           \/ conn[c].xf = "no" /\ R \in {<<>>, <<"226">>}
    <3>1. CASE conn[c].reps = <<"150">> /\ conn[c].xf = "down" /\ dat[s.dpcb].eof = FALSE
      BY <1>1, <1>2, <3>1 DEF Remain
    <3>2. CASE conn[c].reps = <<"150", "226">> /\ conn[c].xf = "no"
      BY <1>1, <1>2, <3>2 DEF Remain
    <3> QED
      BY <1>3, <3>1, <3>2 DEF Fetching, Asking
  <2>2. s.cs \in {"LIST_SENT", "RETR_SENT"}
    BY <1>3 DEF Asking
  <2>3. Turned(V, W, "XFERING") /\ V.out = <<>>
    BY <1>1, <2>1, <2>2, BeginReply
  <2>4. ASSUME NEW K, NEW X, NEW j, Onward(V, C, dat, job, K, X, j)
        PROVE  Phase(V.s, K, X, j)
    <3>1. Onto(c, <<>>, R, K, j) /\ V.s.cs = "XFERING" /\ V.s.dpcb = s.dpcb
          /\ V.s.done = s.done /\ V.s.io = s.io /\ V.s.cpcb = s.cpcb
          /\ OntoData(dat[s.dpcb], X) /\ X.ctl = dat[s.dpcb].ctl
      BY <1>1, <1>2, <2>3, <2>4, Says
    <3> QED
      BY <2>1, <3>1, StillFetching
  <2>5. Keeps(V, W)
    BY <2>3 DEF Turned, Keeps
  <2> QED
    BY <2>4, <2>5, GoesOn
<1>4. CASE s.cs = "XFERING"
  <2>1. conn[c].xf = "no" /\ conn[c].reps = <<"226">>
    BY <1>1, <1>4 DEF Fetching, Asking
  <2>2. Head(conn[c].reps) = "226" /\ R = <<>>
    BY <1>1, <1>2, <2>1 DEF Remain
  <2>3. V = W
    BY <1>1, <1>2, <1>4, <2>2, EndsReply
  <2>4. Plain(V) /\ V.out = <<>> /\ V.syn = FALSE /\ V.s = s
    BY <1>1, <2>3 DEF Plain, Unused, Received
  <2>5. ASSUME NEW K, NEW X, NEW j, Onward(V, C, dat, job, K, X, j)
        PROVE  Phase(V.s, K, X, j)
    <3>1. Answer(V, c, R, K, X, j)
      BY <2>4, <2>5, Answering
    <3>2. Onto(c, <<>>, R, K, j) /\ OntoData(dat[s.dpcb], X) /\ X.ctl = dat[s.dpcb].ctl
      BY <1>2, <2>4, <3>1 DEF Answer
    <3> QED
      BY <1>4, <2>1, <2>2, <2>4, <3>2, StillFetching
  <2>6. Keeps(V, W)
    BY <2>3, <2>4 DEF Plain, Keeps
  <2> QED
    BY <2>5, <2>6, GoesOn
<1> QED
  BY <1>3, <1>4 DEF Fetching

\* The data connection of an upload has been closed.
LEMMA Uploaded ==
  ASSUME LInv, NEW W, NEW V, Shut(V, W, <<>>), W.s.dpcb = s.dpcb, W.s.cpcb = s.cpcb,
         W.s.done = s.done, W.s.io = s.io, W.src = job.src, V.s.cs = "XFERING",
         NEW C \in [Ctl -> Link], NEW D \in [Dat -> Wire],
         s.cpcb # None, s.dpcb # None, D[s.dpcb].ctl = s.cpcb,
         C[s.cpcb].cmds = <<>>, C[s.cpcb].reps = <<>>, C[s.cpcb].xf = "up",
         C[s.cpcb].bye = FALSE,
         job.waiting, job.op = "STOR", Suits(s, job), job.got + job.src = job.size,
         job.did = 0, job.src = 0,
         NEW K, NEW X, NEW j, Onward(V, C, D, job, K, X, j)
  PROVE  Phase(V.s, K, X, j)
<1>1. /\ V.s.dpcb = None /\ V.s.done = s.done /\ V.s.io = s.io /\ V.out = <<>>
      /\ V.put = FALSE /\ V.src = 0 /\ V.shut = {s.dpcb}
  BY DEF Shut
<1>2. s.dpcb \in Dat
  BY DEF LInv, Typed, Session
<1>3. s.dpcb \in V.shut \cap Dat
  BY <1>1, <1>2
<1>4. \E d \in V.shut \cap Dat : D[d].ctl = s.cpcb
  BY <1>3
<1>5. K.fin = TRUE
  BY <1>4 DEF Onward
<1>6. <<>> \o <<>> = <<>>
  OBVIOUS
<1>7. K.cmds = <<>> /\ K.reps = <<>> /\ K.xf = "up" /\ K.bye = FALSE
  BY <1>1, <1>6 DEF Onward
<1>8. /\ j.op = "STOR" /\ j.waiting /\ j.size = job.size /\ j.did = 0
      /\ j.src = 0 /\ j.got = job.got
  BY <1>1 DEF Onward
<1>9. Suits(V.s, j)
  BY <1>1, <1>8 DEF Suits
<1>10. j.got + j.src = j.size
  BY <1>8
<1>11. Storing(V.s, K, X, j)
  BY <1>1, <1>5, <1>7, <1>8, <1>9, <1>10 DEF Storing
<1> QED
  BY <1>11 DEF Phase

\* Another block of an upload has been written.
LEMMA Uploading ==
  ASSUME LInv, NEW W \in Working, W.s.dpcb = s.dpcb, W.s.cpcb = s.cpcb, W.out = <<>>, W.shut = {},
         W.syn = FALSE, W.s.done = s.done, W.s.io = s.io, W.src = job.src, W.src > 0,
         W.s.cs = "XFERING",
         NEW V, V = SendNext(W),
         NEW C \in [Ctl -> Link], NEW D \in [Dat -> Wire],
         s.cpcb # None, s.dpcb # None, D[s.dpcb].ctl = s.cpcb, D[s.dpcb].left = 0,
         D[s.dpcb].eof = FALSE,
         C[s.cpcb].cmds = <<>>, C[s.cpcb].reps = <<>>, C[s.cpcb].xf = "up",
         C[s.cpcb].bye = FALSE, C[s.cpcb].fin = FALSE,
         job.waiting, job.op = "STOR", Suits(s, job), job.got + job.src = job.size,
         job.did = 0
  PROVE  /\ V \in Working /\ V.s.cpcb = s.cpcb /\ V.shut = {}
         /\ \A K, X, j : Onward(V, C, D, job, K, X, j) => j.bad \/ Phase(V.s, K, X, j)
<1>1. s.io = "read"
  BY DEF Suits, IoOf
<1>2. /\ V \in Working /\ V.s = W.s /\ V.out = W.out /\ V.shut = W.shut /\ V.syn = W.syn
      /\ V.src = W.src - 1 /\ V.put = W.ok /\ V.bad = (W.bad \/ ~W.ok)
  BY <1>1, NextBlock
<1>3. ASSUME NEW K, NEW X, NEW j, Onward(V, C, D, job, K, X, j), W.ok = TRUE
      PROVE  Phase(V.s, K, X, j)
  <2>1. <<>> \o <<>> = <<>>
    OBVIOUS
  <2>2. K.fin = FALSE
    BY <1>2, <1>3 DEF Onward
  <2>3. K.cmds = <<>> /\ K.reps = <<>> /\ K.xf = "up" /\ K.bye = FALSE
    BY <1>2, <1>3, <2>1 DEF Onward
  <2>4. X.left = 0 /\ X.eof = FALSE /\ X.ctl = s.cpcb
    BY <1>2, <1>3 DEF Onward
  <2>5. /\ j.op = "STOR" /\ j.waiting /\ j.size = job.size /\ j.did = 0
        /\ j.src = job.src - 1 /\ j.got = job.got + 1
    BY <1>2, <1>3 DEF Onward
  <2>6. j.got + j.src = j.size
    <3>1. job.got \in Nat /\ job.src \in Nat /\ job.size \in Nat
      BY DEF LInv, Typed, Task
    <3> QED
      BY <2>5, <3>1
  <2>7. Suits(V.s, j)
    BY <1>2, <2>5 DEF Suits
  <2>8. Storing(V.s, K, X, j)
    BY <1>2, <2>2, <2>3, <2>4, <2>5, <2>6, <2>7 DEF Storing
  <2> QED
    BY <2>8 DEF Phase
<1>4. ASSUME NEW K, NEW X, NEW j, Onward(V, C, D, job, K, X, j), W.ok = FALSE
      PROVE  j.bad
  BY <1>2, <1>4 DEF Onward
<1>5. W.ok = TRUE \/ W.ok = FALSE
  BY DEF Working
<1> QED
  BY <1>2, <1>3, <1>4, <1>5

LEMMA StoringRecv ==
  ASSUME LInv, NEW c \in Ctl, NEW W, NEW V, NEW R, NEW C, Received(c, W, V, R, C),
         Storing(s, conn[c], dat[s.dpcb], job)
  PROVE  Course'
<1>1. /\ Unused(W) /\ W \in Working /\ W.s = s /\ c = s.cpcb /\ c # None
      /\ conn[c].reps # <<>> /\ W.src = job.src
      /\ V = Process(W, Head(conn[c].reps)) /\ Remain(conn[c].reps, R)
  BY DEF Received, Unused
<1>2. "150" \in Codes /\ "226" \in Codes
  BY DEF Codes
<1>3. /\ job.waiting /\ job.op = "STOR" /\ Suits(s, job) /\ job.got + job.src = job.size
      /\ conn[c].bye = FALSE /\ s.done = "QUIT_cb" /\ s.io = "read"
  BY DEF Storing, Suits, IoOf
<1>4. /\ C \in [Ctl -> Link] /\ C[c].reps = R /\ C[c].cmds = conn[c].cmds
      /\ C[c].xf = conn[c].xf /\ C[c].bye = conn[c].bye /\ C[c].fin = conn[c].fin
  BY DEF Received
<1>5. dat \in [Dat -> Wire]
  BY DEF LInv, Typed
<1>6. CASE /\ s.cs = "STOR_SENT" /\ job.did = 0 /\ Still(s, dat[s.dpcb])
           /\ dat[s.dpcb].ctl = s.cpcb /\ conn[c].fin = FALSE
           /\ conn[c].cmds = <<>> /\ conn[c].reps = <<"150">> /\ conn[c].xf = "up"
  <2>1. Head(conn[c].reps) = "150" /\ R = <<>> /\ s.dpcb # None
    BY <1>1, <1>2, <1>6 DEF Remain, Still
  <2>2. PICK U : U = Goto(W, "XFERING")
    OBVIOUS
  <2>3. Turned(U, W, "XFERING") /\ U.out = <<>>
    BY <1>1, <2>2, GotoFacts DEF Unused, States
  <2>4. OnReply(W, "150") = <<SendNext(U), "ERR">>
    BY <1>1, <1>6, <2>2 DEF OnReply, NextCommand, Completes
  <2>5. PICK Y : Y = SendNext(U)
    OBVIOUS
  <2>6. V = Settle(Y, "ERR")
    BY <1>1, <2>1, <2>4, <2>5 DEF Process
  <2>7. /\ U \in Working /\ U.s.cs = "XFERING" /\ U.s.dpcb = s.dpcb /\ U.s.cpcb = s.cpcb
        /\ U.s.done = s.done /\ U.s.io = s.io /\ U.src = job.src /\ U.shut = {}
        /\ U.syn = FALSE /\ U.put = FALSE /\ U.bad = FALSE
    BY <1>1, <2>3 DEF Turned, Unused
  <2>8. dat[s.dpcb].left = 0 /\ dat[s.dpcb].eof = FALSE
    BY <1>6 DEF Still
  <2>9. CASE job.src > 0
    <3>1. /\ Y \in Working /\ Y.s = U.s
      BY <1>3, <2>1, <2>5, <2>7, <2>9, NextBlock
    <3>2. V = Y
      BY <2>6, <2>7, <3>1, Settled
    <3>3. /\ V \in Working /\ V.s.cpcb = s.cpcb /\ V.shut = {}
          /\ \A K, X, j : Onward(V, C, dat, job, K, X, j) => j.bad \/ Phase(V.s, K, X, j)
      <4>1. C[s.cpcb].cmds = <<>> /\ C[s.cpcb].reps = <<>> /\ C[s.cpcb].xf = "up"
            /\ C[s.cpcb].bye = FALSE /\ C[s.cpcb].fin = FALSE /\ s.cpcb # None
        BY <1>1, <1>3, <1>4, <1>6, <2>1
      <4>2. /\ U.out = <<>> /\ V = SendNext(U) /\ U.src > 0 /\ C \in [Ctl -> Link]
            /\ dat[s.dpcb].ctl = s.cpcb /\ job.did = 0
        BY <1>4, <1>6, <2>3, <2>5, <2>7, <2>9, <3>2
      <4> QED
        BY <1>3, <1>5, <2>1, <2>7, <2>8, <4>1, <4>2, Uploading
    <3>4. Keeps(V, W)
      BY <1>1, <3>3 DEF Keeps, Unused
    <3> QED
      BY <3>3, <3>4, GoesOn
  <2>10. CASE ~(job.src > 0)
    <3>1. Unused(U)
      BY <2>3, <2>7 DEF Unused
    <3>2. Shut(Y, U, <<>>) /\ Y.s.cs = "XFERING"
      BY <2>1, <2>5, <2>7, <2>10, <3>1, NoBlock
    <3>3. V = Y
      BY <2>6, <3>2, Settled
    <3>4. job.src = 0
      BY <2>10 DEF LInv, Typed, Task
    <3>5. C[s.cpcb].cmds = <<>> /\ C[s.cpcb].reps = <<>> /\ C[s.cpcb].xf = "up"
          /\ C[s.cpcb].bye = FALSE /\ s.cpcb # None
      BY <1>1, <1>3, <1>4, <1>6, <2>1
    <3>6. ASSUME NEW K, NEW X, NEW j, Onward(V, C, dat, job, K, X, j)
          PROVE  Phase(V.s, K, X, j)
      BY <1>3, <1>4, <1>5, <1>6, <2>1, <2>7, <3>2, <3>3, <3>4, <3>5, <3>6, Uploaded
    <3>7. V \in Working /\ V.s.cpcb = s.cpcb /\ V.shut = {s.dpcb}
      BY <2>7, <3>2, <3>3 DEF Shut
    <3>8. s.cpcb \notin V.shut
      BY <2>1, <3>7, LwftpAssumption DEF LInv, Typed, Session
    <3>9. Leave(V, C, dat, job) /\ leftover' \subseteq {"RETR", "STOR"} /\ job \in Task
      BY DEF Received, LInv, Typed
    <3> QED
      BY <1>1, <1>4, <1>5, <3>6, <3>7, <3>8, <3>9, Carried
  <2> QED
    BY <2>9, <2>10
<1>7. CASE /\ s.cs = "XFERING" /\ job.did = 1 /\ s.dpcb = None /\ job.src = 0
           /\ conn[c].cmds = <<>> /\ conn[c].reps = <<"226">> /\ conn[c].xf = "no"
  <2>1. Head(conn[c].reps) = "226" /\ R = <<>>
    BY <1>1, <1>2, <1>7 DEF Remain
  <2>2. Turned(V, W, "LOGGED") /\ V.out = <<"QUIT">>
    BY <1>1, <1>3, <1>7, <2>1, StoredReply
  <2>3. Finished(job)
    <3>1. job.got \in Nat /\ job.size \in Nat
      BY DEF LInv, Typed, Task
    <3>2. job.got = job.size
      BY <1>3, <1>7, <3>1
    <3> QED
      BY <1>3, <1>7, <3>2 DEF Finished, Due
  <2>4. ASSUME NEW K, NEW X, NEW j, Onward(V, C, dat, job, K, X, j)
        PROVE  Phase(V.s, K, X, j)
    <3>1. Onto(c, <<"QUIT">>, <<>>, K, j) /\ V.s.cs = "LOGGED" /\ V.s.dpcb = None
          /\ V.s.done = "QUIT_cb"
      BY <1>3, <1>7, <2>1, <2>2, <2>4, Says
    <3>2. Finished(j) /\ j.waiting
      BY <1>3, <2>3, <3>1 DEF Finished, Due, Onto
    <3>3. Works(K.cmds) = {} /\ K.xf # "up"
      BY <1>7, <3>1, QuitOnly DEF Onto
    <3>4. Leaving(V.s, K, j)
      BY <3>1, <3>2, <3>3 DEF Leaving
    <3> QED
      BY <3>4 DEF Phase
  <2>5. Keeps(V, W)
    BY <2>2 DEF Turned, Keeps
  <2> QED
    BY <2>4, <2>5, GoesOn
<1> QED
  BY <1>1, <1>6, <1>7 DEF Storing

\* The session has been closed.
LEMMA Ended ==
  ASSUME LInv, NEW V \in Working, NEW C \in [Ctl -> Link], NEW D \in [Dat -> Wire],
         Leave(V, C, D, job), leftover' \subseteq {"RETR", "STOR"}, V.s.cpcb = None,
         V.put = FALSE, Finished(job)
  PROVE  Course'
<1>1. s' = V.s /\ JobLeft(V, job)
  BY LeaveFacts DEF LInv, Typed
<1>2. Finished(job')
  BY <1>1 DEF JobLeft, Finished, Due
<1> QED
  BY <1>1, <1>2, CourseNext

LEMMA StillLeaving ==
  ASSUME LInv, NEW c \in Ctl, Leaving(s, conn[c], job), NEW x, x.done = s.done,
         x.dpcb \in {None, s.dpcb}, x.io = s.io, x.cs \in {"ABOR_SENT", "LOGGED", "QUIT_SENT"},
         NEW q \in Seq(Commands), Works(q) = {}, NEW K, NEW j,
         K.cmds = conn[c].cmds \o q, K.xf = conn[c].xf,
         j.op = job.op, j.waiting = job.waiting, j.size = job.size, j.got = job.got,
         j.did = job.did, NEW X
  PROVE  Phase(x, K, X, j)
<1>1. conn[c].cmds \in Seq(Commands)
  BY DEF LInv, Typed, Link
<1>2. Works(conn[c].cmds \o q) = {}
  BY <1>1, Joined DEF Leaving
<1>3. Finished(j) /\ j.waiting
  BY DEF Leaving, Finished, Due
<1>4. Leaving(x, K, j)
  BY <1>2, <1>3 DEF Leaving
<1> QED
  BY <1>4 DEF Phase

LEMMA LeavingRecv ==
  ASSUME LInv, NEW c \in Ctl, NEW W, NEW V, NEW R, NEW C, Received(c, W, V, R, C),
         Leaving(s, conn[c], job)
  PROVE  Course'
<1>1. PICK r : r = Head(conn[c].reps)
  OBVIOUS
<1>2. /\ Unused(W) /\ W \in Working /\ W.out = <<>> /\ W.s = s /\ c = s.cpcb /\ c # None
      /\ V = Process(W, r) /\ W.src = job.src /\ C \in [Ctl -> Link] /\ W.put = FALSE
      /\ Leave(V, C, dat, job) /\ leftover' \subseteq {"RETR", "STOR"}
  BY <1>1 DEF Received, Unused
<1>3. s.cs \in {"ABOR_SENT", "LOGGED", "QUIT_SENT"} /\ s.done = "QUIT_cb"
  BY DEF Leaving
<1>4. ASSUME NEW x \in {"LOGGED", "QUIT_SENT"}, Plain(V), V.s.cpcb = s.cpcb, V.s.done = s.done,
             V.s.dpcb = s.dpcb, V.s.io = s.io, V.s.cs = x, Works(V.out) = {}
      PROVE  Course'
  <2>1. ASSUME NEW K, NEW X, NEW j, Onward(V, C, dat, job, K, X, j)
        PROVE  Phase(V.s, K, X, j)
    <3>1. Answer(V, c, R, K, X, j)
      BY <1>4, <2>1, Answering
    <3>2. Onto(c, conn[c].cmds \o V.out, R, K, j)
      BY <3>1 DEF Answer
    <3>3. V.out \in Seq(Commands)
      BY <1>4 DEF Plain, Working
    <3> QED
      BY <1>4, <3>2, <3>3, StillLeaving DEF Onto
  <2>2. Keeps(V, W)
    BY <1>2, <1>4 DEF Keeps, Plain, Unused
  <2> QED
    BY <2>1, <2>2, GoesOn
<1>5. CASE s.cs = "ABOR_SENT"
  <2>1. PICK U : U = IF r # "426" THEN Goto(W, "QUIT") ELSE Close(W)
    OBVIOUS
  <2>2. OnReply(W, r) = <<U, "ERR">>
    <3>1. Done(W, "OK") = Close(W)
      BY <1>2, <1>3 DEF Done
    <3>2. OnReply(W, r) = <<IF r # "426" THEN Goto(W, "QUIT") ELSE Done(W, "OK"), "ERR">>
      BY <1>2, <1>5 DEF OnReply, NextCommand, Completes
    <3> QED
      BY <2>1, <3>1, <3>2
  <2>3. Append(<<>>, "QUIT") = <<"QUIT">>
    OBVIOUS
  <2>4. CASE r # "426"
    <3>1. Turned(U, W, "QUIT") /\ U.out = <<>>
      BY <1>2, <2>1, <2>4, GotoFacts DEF States
    <3>2. V = Say(U, "QUIT", "QUIT_SENT")
      <4>1. V = Settle(U, "ERR")
        BY <1>2, <2>2 DEF Process
      <4> QED
        BY <3>1, <4>1 DEF Settle, Turned
    <3>3. U \in Working
      BY <3>1 DEF Turned
    <3>4. Turned(V, U, "QUIT_SENT") /\ V.out = <<"QUIT">>
      BY <3>1, <3>2, <3>3, SaysOne DEF Commands, States
    <3>5. /\ Plain(V) /\ V.s.cpcb = s.cpcb /\ V.s.done = s.done /\ V.s.dpcb = s.dpcb
          /\ V.s.io = s.io /\ V.s.cs = "QUIT_SENT"
      BY <1>2, <3>1, <3>4 DEF Plain, Turned, Unused
    <3> QED
      BY <1>4, <3>4, <3>5, QuitOnly
  <2>5. CASE r = "426"
    <3>1. Turned(U, W, "QUIT_SENT") /\ U.out = Append(<<>>, "QUIT")
      <4>1. U = Close(W)
        BY <2>1, <2>5
      <4>2. W.s.cs # "CLOSED" /\ W.s.cpcb # None
        BY <1>2, <1>5
      <4>3. Turned(Close(W), W, "QUIT_SENT") /\ Close(W).out = Append(W.out, "QUIT")
        BY <1>2, <4>2, Closes
      <4> QED
        BY <1>2, <4>1, <4>3
    <3>2. V = U
      <4>1. V = Settle(U, "ERR")
        BY <1>2, <2>2 DEF Process
      <4>2. U.s.cs = "QUIT_SENT"
        BY <3>1 DEF Turned
      <4> QED
        BY <4>1, <4>2, Settled
    <3>3. /\ Plain(V) /\ V.s.cpcb = s.cpcb /\ V.s.done = s.done /\ V.s.dpcb = s.dpcb
          /\ V.s.io = s.io /\ V.s.cs = "QUIT_SENT"
      BY <1>2, <3>1, <3>2 DEF Plain, Turned, Unused
    <3> QED
      BY <1>4, <2>3, <3>1, <3>2, <3>3, QuitOnly
  <2> QED
    BY <2>4, <2>5
<1>6. CASE s.cs = "LOGGED"
  <2>1. OnReply(W, r) = <<W, "ERR">>
    BY <1>2, <1>6 DEF OnReply, NextCommand, Completes
  <2>2. V = W
    BY <1>2, <1>6, <2>1, Settled DEF Process
  <2>3. Plain(V)
    BY <1>2, <2>2 DEF Plain, Unused
  <2> QED
    BY <1>2, <1>4, <1>6, <2>2, <2>3, EmptyFacts
<1>7. CASE s.cs = "QUIT_SENT"
  <2>1. PICK U : U = Goto(W, "CLOSING")
    OBVIOUS
  <2>2. PICK result \in {"OK", "ERR"} : result = IF r = "221" THEN "OK" ELSE "ERR"
    OBVIOUS
  <2>3. OnReply(W, r) = <<U, result>>
    BY <1>2, <1>7, <2>1, <2>2 DEF OnReply, NextCommand, Completes
  <2>4. Turned(U, W, "CLOSING") /\ U.out = <<>>
    BY <1>2, <2>1, GotoFacts DEF States
  <2>5. V = ControlClose(U, result)
    <3>1. V = Settle(U, result)
      BY <1>2, <2>3 DEF Process
    <3> QED
      BY <2>4, <3>1 DEF Settle, Turned
  <2>6. Thrifty(U, s.cs)
    <3>1. Role(U.s)
      <4>1. Role(s)
        BY DEF LInv, Ledger
      <4> QED
        BY <1>2, <1>7, <2>4, <4>1 DEF Role, Turned
    <3>2. job.src <= job.src /\ U.src = job.src /\ U.put = FALSE /\ U.s.cs = "CLOSING"
          /\ U \in Working
      BY <1>2, <2>4 DEF Turned, Unused, LInv, Typed, Task
    <3> QED
      BY <2>4, <3>1, <3>2, EmptyFacts DEF Thrifty, Early
  <2>7. Thrifty(V, s.cs) /\ V.s.cpcb = None /\ V.put = U.put
    BY <2>5, <2>6, ControlCloseThrifty
  <2>8. V \in Working /\ V.put = FALSE
    BY <1>2, <2>4, <2>7 DEF Thrifty, Turned
  <2>9. dat \in [Dat -> Wire] /\ Finished(job)
    BY DEF LInv, Typed, Leaving
  <2> QED
    BY <1>2, <2>7, <2>8, <2>9, Ended
<1> QED
  BY <1>3, <1>5, <1>6, <1>7

\* What has gone wrong stays so.
LEMMA StaysBad ==
  ASSUME NEW J \in Task, J.bad, NEW V, NEW C, NEW D, Leave(V, C, D, J)
  PROVE  job'.bad
<1>1. job' = [J EXCEPT !.src = V.src, !.got = IF V.put THEN @ + 1 ELSE @,
                       !.bad = @ \/ V.bad]
  BY DEF Leave
<1>2. PICK src, got : src = V.src /\ got = IF V.put THEN J.got + 1 ELSE J.got
  OBVIOUS
<1>3. (J.bad \/ V.bad) = TRUE
  OBVIOUS
<1>4. job' = [J EXCEPT !.src = src, !.got = got, !.bad = TRUE]
  BY <1>1, <1>2, <1>3, Zenon
<1> QED
  BY <1>4 DEF Task

LEMMA CtlRecvCourse ==
  ASSUME LInv, Course, NEW c \in Ctl, CtlRecv(c), ~job.bad
  PROVE  Course'
<1>1. PICK W, V, R, C : Received(c, W, V, R, C)
  BY Receives
<1>2. c = s.cpcb /\ c # None /\ conn[c].reps # <<>>
  BY <1>1 DEF Received
<1>3. Phase(s, conn[c], dat[s.dpcb], job)
  BY <1>2, CourseNow
<1>4. ~Calling(s, conn[c], dat[s.dpcb], job)
  BY <1>2 DEF Calling
<1> QED
  BY <1>1, <1>3, <1>4, OpeningRecv, LoginRecv, DoingRecv, EnteringRecv, PreparingRecv,
     FetchingRecv, StoringRecv, LeavingRecv DEF Phase

LEMMA CtlEofCourse ==
  ASSUME LInv, Course, NEW c \in Ctl, CtlEof(c), ~job.bad
  PROVE  Course'
<1>1. /\ conn[c].st = "open" /\ conn[c].bye /\ conn[c].reps = <<>>
      /\ Leave(ControlClose(Enter(None, TRUE), "ERR"), conn, dat, job)
      /\ leftover' = leftover
  BY DEF CtlEof
<1>2. s.cpcb = c /\ c # None
  BY <1>1, Held, LwftpAssumption DEF LInv, Holds
<1>3. conn \in [Ctl -> Link] /\ dat \in [Dat -> Wire] /\ leftover \subseteq {"RETR", "STOR"}
      /\ conn[c].bye \in BOOLEAN
  BY DEF LInv, Typed, Link
<1>4. Phase(s, conn[c], dat[s.dpcb], job)
  BY <1>2, CourseNow
<1>5. Finished(job)
  <2>1. conn[c].bye # FALSE
    BY <1>1
  <2>2. Leaving(s, conn[c], job)
    BY <1>4, <2>1 DEF Phase, Opening, Doing, Entering, Preparing, Calling, Fetching, Storing,
                      Sync, Quiet
  <2> QED
    BY <2>2 DEF Leaving
<1>6. PICK W : W = Enter(None, TRUE)
  OBVIOUS
<1>7. Thrifty(W, s.cs) /\ W.put = FALSE
  BY <1>6, EnterThrifty
<1>8. PICK V : V = ControlClose(W, "ERR")
  OBVIOUS
<1>9. Thrifty(V, s.cs) /\ V.s.cpcb = None /\ V.put = FALSE
  BY <1>7, <1>8, ControlCloseThrifty
<1> QED
  BY <1>1, <1>3, <1>5, <1>6, <1>8, <1>9, Ended DEF Thrifty

LEMMA CtlConnectedCourse ==
  ASSUME LInv, Course, NEW c \in Ctl, CtlConnected(c), ~job.bad
  PROVE  Course'
<1>1. /\ job' = job /\ s' = [s EXCEPT !.cs = "CONNECTED"]
      /\ conn[c].st = "syn" /\ s \in Session /\ conn \in [Ctl -> Link]
  BY DEF CtlConnected, LInv, Typed
<1>2. s.cpcb = c /\ c # None /\ s.cs = "CLOSED" /\ s.dpcb = None
  BY <1>1, LwftpAssumption, SynClosed DEF LInv, IInv, NoLeakedPcb
<1>3. s'.cs = "CONNECTED" /\ s'.cpcb = c /\ s'.dpcb = None /\ s'.done = s.done
  BY <1>1, <1>2 DEF Session
<1>4. PICK L : L = [conn[c] EXCEPT !.st = "open", !.reps = <<"220">>]
  OBVIOUS
<1>5. /\ L.cmds = conn[c].cmds /\ L.reps = <<"220">> /\ L.xf = conn[c].xf
      /\ L.fin = conn[c].fin /\ L.bye = conn[c].bye
  BY <1>1, <1>4 DEF Link
<1>6. conn'[c] = L
  <2>1. conn' = [conn EXCEPT ![c] = L]
    BY <1>4 DEF CtlConnected
  <2> QED
    BY <1>1, <2>1
<1>7. Phase(s, conn[c], dat[s.dpcb], job)
  BY <1>2, CourseNow
<1>8. Opening(s, conn[c], job)
  BY <1>2, <1>7 DEF Phase, Doing, LastOf, Entering, Preparing, Calling, Asking, Fetching,
                    Storing, Leaving
<1>9. Opening(s', conn'[s'.cpcb], job')
  BY <1>1, <1>2, <1>3, <1>5, <1>6, <1>8 DEF Opening, Unstarted, Quiet
<1> QED
  BY <1>2, <1>3, <1>9, CourseNext DEF Phase

\* Of the data connection only what is on the wire matters.
LEMMA SameData ==
  ASSUME NEW x, NEW K, NEW j, NEW D, NEW X, Phase(x, K, D, j),
         x.dpcb # None => /\ X.left = D.left /\ X.eof = D.eof /\ X.fly = D.fly /\ X.ctl = D.ctl
  PROVE  Phase(x, K, X, j)
<1>1. CASE Preparing(x, K, D, j)
  BY <1>1 DEF Phase, Preparing, Still
<1>2. CASE Calling(x, K, D, j)
  BY <1>2 DEF Phase, Calling, Still
<1>3. CASE Fetching(x, K, D, j)
  <2>1. Moved(x, X, j)
    BY <1>3 DEF Fetching, Moved
  <2>2. Fetching(x, K, X, j)
    BY <1>3, <2>1 DEF Fetching
  <2> QED
    BY <2>2 DEF Phase
<1>4. CASE Storing(x, K, D, j)
  <2>1. Storing(x, K, X, j)
    BY <1>4 DEF Storing, Still
  <2> QED
    BY <2>1 DEF Phase
<1> QED
  BY <1>1, <1>2, <1>3, <1>4 DEF Phase

LEMMA DataConnectedCourse ==
  ASSUME LInv, Course, NEW d \in Dat, DataConnected(d), ~job.bad
  PROVE  Course'
<1>1. /\ s' = s /\ conn' = conn /\ job' = job
      /\ dat \in [Dat -> Wire] /\ dat' = [dat EXCEPT ![d].st = "open"] /\ dat[d].st = "syn"
  BY DEF DataConnected, LInv, Typed
<1>2. PICK X : X = [dat[d] EXCEPT !.st = "open"]
  OBVIOUS
<1>3. /\ X.left = dat[d].left /\ X.eof = dat[d].eof /\ X.fly = dat[d].fly /\ X.ctl = dat[d].ctl
  BY <1>1, <1>2 DEF Wire
<1>4. dat'[d] = X
  BY <1>1, <1>2
<1>5. s.dpcb = d /\ s.cpcb # None
  BY <1>1, WireOpen
<1>6. Phase(s, conn[s.cpcb], X, job)
  BY <1>3, <1>5, CourseNow, SameData
<1> QED
  BY <1>1, <1>4, <1>5, <1>6, CourseNext

LEMMA CollectCourse ==
  ASSUME LInv, Collect
  PROVE  Course'
<1>1. s' = s /\ s.cpcb = None /\ job \in Task /\ job' = [job EXCEPT !.waiting = FALSE]
  BY DEF Collect, LInv, Typed
<1>2. ~job'.waiting
  BY <1>1 DEF Task
<1> QED
  BY <1>1, <1>2, CourseNext

LEMMA StartCourse ==
  ASSUME LInv, Patient, NEW op \in AllJobs, Start(op)
  PROVE  Course'
<1>1. s.cpcb = None
  BY DEF Start
<1>2. \A c \in Ctl : conn[c] = FreeConn
  BY <1>1, NoneLeft
<1>3. PICK n \in IF op = "STOR" THEN 0..MaxSize ELSE {0} :
        LET J == [NoJob EXCEPT !.op = op, !.waiting = TRUE, !.src = n, !.size = n,
                               !.bad = op \in leftover] IN
        \/ \E c \in Ctl :
             /\ conn[c].st = "free"
             /\ s' = [NewSession EXCEPT !.cpcb = c, !.done = "op"]
             /\ conn' = [conn EXCEPT ![c].st = "syn"]
             /\ job' = J
        \/ /\ "lowmem" \in Faults
           /\ s' = [NewSession EXCEPT !.done = "op"]
           /\ job' = [J EXCEPT !.bad = TRUE]
           /\ UNCHANGED conn
  BY DEF Start
<1>4. n \in Nat
  <2>1. MaxSize \in Nat
    BY LwftpAssumption
  <2>2. CASE op = "STOR"
    BY <2>1, <2>2
  <2>3. CASE op # "STOR"
    BY <2>1, <2>3
  <2> QED
    BY <2>2, <2>3
<1>5. PICK b \in BOOLEAN : b = (op \in leftover)
  <2>1. (op \in leftover) \in BOOLEAN
    OBVIOUS
  <2> QED
    BY <2>1, Zenon
<1>6. PICK J : J = [NoJob EXCEPT !.op = op, !.waiting = TRUE, !.src = n, !.size = n, !.bad = b]
  OBVIOUS
<1>7. /\ J \in Task /\ J.op = op /\ J.waiting /\ J.src = n /\ J.size = n /\ J.got = 0
      /\ J.did = 0
  <2>1. NoJob \in Task /\ NoJob.got = 0 /\ NoJob.did = 0
    BY DEF NoJob, Task
  <2> QED
    BY <1>4, <1>6, <2>1 DEF Task
<1>8. J = [NoJob EXCEPT !.op = op, !.waiting = TRUE, !.src = n, !.size = n,
                        !.bad = op \in leftover]
  BY <1>5, <1>6, Zenon
<1>9. CASE job' = [J EXCEPT !.bad = TRUE]
  <2>1. job'.bad
    BY <1>7, <1>9 DEF Task
  <2> QED
    BY <2>1, CourseNext
<1>10. ASSUME NEW c \in Ctl, s' = [NewSession EXCEPT !.cpcb = c, !.done = "op"],
              conn' = [conn EXCEPT ![c].st = "syn"], job' = J
       PROVE  Course'
  <2>1. s'.cs = "CLOSED" /\ s'.cpcb = c /\ s'.dpcb = None /\ s'.done = "op" /\ c # None
    BY <1>10, LwftpAssumption DEF NewSession
  <2>2. PICK K : K = [FreeConn EXCEPT !.st = "syn"]
    OBVIOUS
  <2>3. K.cmds = <<>> /\ K.reps = <<>> /\ K.xf = "no" /\ K.fin = FALSE /\ K.bye = FALSE
    BY <2>2 DEF FreeConn
  <2>4. conn'[c] = K
    <3>1. conn \in [Ctl -> Link]
      BY DEF LInv, Typed
    <3> QED
      BY <1>2, <1>10, <2>2, <3>1
  <2>5. Opening(s', conn'[s'.cpcb], job')
    BY <1>7, <1>10, <2>1, <2>3, <2>4 DEF Opening, Unstarted, Quiet
  <2> QED
    BY <2>1, <2>5, CourseNext DEF Phase
<1> QED
  BY <1>3, <1>8, <1>9, <1>10

--------------------------------------------------------------------------------
(* What goes wrong.                                                             *)

LEMMA FaultBad ==
  ASSUME LInv, \/ CancelJob \/ CancelListing \/ CancelMedia
               \/ \E c \in Ctl : CtlErr(c) \/ Unsent(c) \/ FailXfer(c) \/ Refuse(c) \/ Wild(c)
               \/ \E d \in Dat : DataErr(d)
  PROVE  job'.bad
<1>1. job \in Task
  BY DEF LInv, Typed
<1>2. PICK A : A = [job EXCEPT !.bad = TRUE]
  OBVIOUS
<1>3. PICK B : B = [job EXCEPT !.waiting = FALSE, !.bad = TRUE]
  OBVIOUS
<1>4. A \in Task /\ A.bad /\ B \in Task /\ B.bad
  BY <1>1, <1>2, <1>3 DEF Task
<1>5. job' = A \/ \E V, C, D : Leave(V, C, D, A) \/ Leave(V, C, D, B)
  <2>1. CASE CancelJob
    BY <1>3, <2>1 DEF CancelJob
  <2>2. CASE CancelListing
    BY <1>2, <2>2 DEF CancelListing
  <2>3. CASE CancelMedia
    BY <1>3, <2>3 DEF CancelMedia
  <2>4. ASSUME NEW c \in Ctl, CtlErr(c) PROVE <1>5
    BY <1>2, <2>4 DEF CtlErr
  <2>5. ASSUME NEW c \in Ctl, Unsent(c) \/ FailXfer(c) \/ Refuse(c) \/ Wild(c)
        PROVE  job' = A
    BY <1>2, <2>5 DEF Unsent, FailXfer, Refuse, Wild
  <2>6. ASSUME NEW d \in Dat, DataErr(d) PROVE <1>5
    BY <1>2, <2>6 DEF DataErr
  <2> QED
    BY <2>1, <2>2, <2>3, <2>4, <2>5, <2>6
<1> QED
  BY <1>4, <1>5, StaysBad

LEMMA OnceBad ==
  ASSUME LInv, job.bad, \/ \E c \in Ctl : CtlStep(c) \/ ServerStep(c)
                        \/ \E d \in Dat : DataStep(d)
  PROVE  job'.bad
<1>1. job \in Task
  BY DEF LInv, Typed
<1>2. ASSUME NEW V, NEW C, NEW D, Leave(V, C, D, job) PROVE job'.bad
  BY <1>1, <1>2, StaysBad
<1>3. ASSUME NEW c \in Ctl, CtlStep(c) PROVE job'.bad
  BY <1>2, <1>3 DEF CtlStep, CtlConnected, CtlRecv, CtlEof
<1>4. ASSUME NEW c \in Ctl, Agree(c) PROVE job'.bad
  <2>1. PICK did : did = IF Head(conn[c].cmds) \in Performs THEN job.did + 1 ELSE job.did
    OBVIOUS
  <2>2. PICK J : J = [job EXCEPT !.did = did]
    OBVIOUS
  <2>3. J.bad /\ \A n : [J EXCEPT !.size = n].bad
    BY <1>1, <2>2 DEF Task
  <2>4. job' = J \/ job' = job \/ \E n \in 0..MaxSize : job' = [J EXCEPT !.size = n]
    BY <1>4, <2>1, <2>2 DEF Agree
  <2> QED
    BY <2>3, <2>4
<1>5. ASSUME NEW c \in Ctl, FinishDown(c) \/ FinishUp(c) \/ FailXfer(c) PROVE job'.bad
  BY <1>1, <1>5 DEF FinishDown, FinishUp, FailXfer, Task
<1>6. ASSUME NEW d \in Dat, DataRecv(d) PROVE job'.bad
  <2>1. PICK J : J = [job EXCEPT !.got = @ + 1]
    OBVIOUS
  <2>2. J \in Task /\ J.bad
    <3>1. job.got + 1 \in Nat
      BY <1>1 DEF Task
    <3> QED
      BY <1>1, <2>1, <3>1 DEF Task
  <2>3. \E V, C, D : Leave(V, C, D, J) \/ Leave(V, C, D, job)
    <3>1. PICK ok \in Luck("disk") :
            LET X == Sink(Enter(None, ok)) IN
            Leave(X[1], conn, [dat EXCEPT ![d].left = @ - 1],
                  IF X[2] THEN [job EXCEPT !.got = @ + 1] ELSE job)
      BY <1>6 DEF DataRecv
    <3>2. PICK X : X = Sink(Enter(None, ok))
      OBVIOUS
    <3>3. CASE X[2]
      BY <2>1, <3>1, <3>2, <3>3
    <3>4. CASE ~X[2]
      BY <3>1, <3>2, <3>4
    <3> QED
      BY <3>3, <3>4
  <2> QED
    BY <1>2, <2>2, <2>3, StaysBad
<1>7. ASSUME NEW d \in Dat, DataConnected(d) \/ DataEof(d) \/ DataSent(d) PROVE job'.bad
  BY <1>2, <1>7 DEF DataConnected, DataEof, DataSent
<1> QED
  BY <1>3, <1>4, <1>5, <1>6, <1>7 DEF ServerStep, DataStep

--------------------------------------------------------------------------------
(* The data connection's callbacks, in the session's course.                    *)

\* A callback that has closed and written nothing, on data connection d.
Passed(q, D, J, K, X, j) ==
  /\ K.cmds = conn[s.cpcb].cmds \o q /\ (q = <<>> => K.cmds = conn[s.cpcb].cmds)
  /\ K.reps = conn[s.cpcb].reps /\ K.xf = conn[s.cpcb].xf /\ K.bye = conn[s.cpcb].bye
  /\ X.left = D[s.dpcb].left /\ X.eof = D[s.dpcb].eof /\ X.ctl = D[s.dpcb].ctl
  /\ X.fly = D[s.dpcb].fly
  /\ j.op = J.op /\ j.waiting = J.waiting /\ j.size = J.size /\ j.did = J.did
  /\ j.src = J.src /\ j.got = J.got

LEMMA Passing ==
  ASSUME LInv, NEW d \in Dat, s.dpcb = d, s.cpcb \in Ctl, NEW D \in [Dat -> Wire], NEW J \in Task,
         NEW V \in Working, V.s.dpcb = d, V.shut = {}, V.syn = FALSE, V.put = FALSE, V.src = J.src,
         NEW K, NEW X, NEW j, Onward(V, conn, D, J, K, X, j)
  PROVE  Passed(V.out, D, J, K, X, j)
<1>1. conn[s.cpcb].cmds \in Seq(Commands) /\ D[d].fly \in BOOLEAN /\ d # None
  BY LwftpAssumption DEF LInv, Typed, Link, Wire
<1>2. conn[s.cpcb].cmds \o <<>> = conn[s.cpcb].cmds
  BY <1>1, Spliced
<1>3. X.left = D[d].left /\ X.eof = D[d].eof /\ X.ctl = D[d].ctl /\ X.fly = (D[d].fly \/ FALSE)
  BY <1>1 DEF Onward
<1>4. X.fly = D[d].fly
  BY <1>1, <1>3
<1> QED
  BY <1>2, <1>3, <1>4 DEF Onward, Passed

\* All has been done: what is left to do is to close the session x.
Over(c, x) ==
  /\ Finished(job) /\ job.waiting /\ conn[c].xf # "up" /\ Works(conn[c].cmds) = {}
  /\ x.cs \in {"ABOR_SENT", "LOGGED", "QUIT_SENT"} /\ x.done = "QUIT_cb"
  /\ x.dpcb # None => x.io = "media" /\ job.got = Want

Steady(c, q, K, j) ==
  /\ K.cmds = conn[c].cmds \o q /\ K.xf = conn[c].xf
  /\ j.op = job.op /\ j.waiting = job.waiting /\ j.size = job.size /\ j.got = job.got
  /\ j.did = job.did

LEMMA NowLeaving ==
  ASSUME LInv, NEW c \in Ctl, NEW x, Over(c, x), NEW q \in Seq(Commands), Works(q) = {},
         NEW K, NEW j, Steady(c, q, K, j), NEW X
  PROVE  Phase(x, K, X, j)
<1>1. conn[c].cmds \in Seq(Commands)
  BY DEF LInv, Typed, Link
<1>2. Works(K.cmds) = {}
  BY <1>1, Joined DEF Over, Steady
<1>3. Finished(j)
  BY DEF Finished, Due, Over, Steady
<1>4. Leaving(x, K, j)
  BY <1>2, <1>3 DEF Leaving, Over, Steady
<1> QED
  BY <1>4 DEF Phase

\* All of the file has arrived, or all that the player wants of it.
LEMMA Fetched ==
  ASSUME LInv, NEW K, NEW d \in Dat, Fetching(s, K, dat[d], job),
         dat[d].left = 0 \/ (s.io = "media" /\ job.got = Want)
  PROVE  Finished(job)
<1>1. /\ job.did = 1 /\ Moved(s, dat[d], job)
      /\ s.io = "media" <=> job.op \in {"MEDIA", "REST"}
  BY DEF Fetching, Suits, IoOf
<1>2. job.got \in Nat /\ job.size \in Nat /\ Want \in Nat
  BY LwftpAssumption DEF LInv, Typed, Task
<1>3. job.got <= job.size
  <2>1. job.op # "STOR"
    BY DEF Fetching
  <2> QED
    BY <2>1 DEF LInv, Ledger, Stocks
<1>4. CASE s.io = "media"
  <2>1. job.got <= Want /\ (job.got = Want \/ job.got = job.size)
    BY <1>1, <1>2, <1>4 DEF Moved
  <2>2. job.got = IF Want < job.size THEN Want ELSE job.size
    BY <1>2, <1>3, <2>1
  <2> QED
    BY <1>1, <1>4, <2>2 DEF Finished, Due
<1>5. CASE s.io # "media"
  <2>1. job.got = job.size
    BY <1>1, <1>2, <1>5 DEF Moved
  <2> QED
    BY <1>1, <1>5, <2>1 DEF Finished, Due
<1> QED
  BY <1>4, <1>5

\* Only a download, or one the player has enough of, has data on the wire.
LEMMA OnTheWire ==
  ASSUME NEW d \in Dat, s.dpcb = d, NEW K, Phase(s, K, dat[d], job), d # None,
         dat[d].left # 0 \/ dat[d].eof # FALSE
  PROVE  Fetching(s, K, dat[d], job) \/ Leaving(s, K, job)
BY DEF Phase, Opening, Doing, Entering, Preparing, Calling, Still, Storing

\* What a callback of the data connection is entered with.
LEMMA DataCall ==
  ASSUME LInv, Course, ~job.bad, NEW d \in Dat, dat[d].st # "free", NEW ok \in BOOLEAN,
         NEW W, W = Enter(None, ok)
  PROVE  /\ Unused(W) /\ W \in Working /\ W.s = s /\ W.src = job.src
         /\ s.dpcb = d /\ d # None /\ s.cpcb \in Ctl /\ s.cpcb # None
         /\ Phase(s, conn[s.cpcb], dat[d], job)
<1>1. /\ Thrifty(W, s.cs) /\ W.out = <<>> /\ W.put = FALSE /\ W.s = s /\ W.src = job.src
      /\ W.shut = {} /\ W.bad = FALSE /\ W.syn = FALSE
  BY EnterThrifty
<1>2. s.dpcb = d /\ s.cpcb \in Ctl /\ s.cpcb # None
  BY WireOpen
<1>3. Phase(s, conn[s.cpcb], dat[d], job)
  BY <1>2, CourseNow
<1> QED
  BY <1>1, <1>2, <1>3, LwftpAssumption DEF Unused, Thrifty

\* One block less on the wire.
LEMMA BlockTaken ==
  ASSUME LInv, NEW d \in Dat, dat[d].left > 0
  PROVE  \E D \in [Dat -> Wire] :
           /\ D = [dat EXCEPT ![d].left = @ - 1] /\ D[d].left = dat[d].left - 1
           /\ D[d].eof = dat[d].eof /\ D[d].fly = dat[d].fly /\ D[d].ctl = dat[d].ctl
<1>1. dat \in [Dat -> Wire]
  BY DEF LInv, Typed
<1>2. dat[d].left - 1 \in Nat
  BY <1>1 DEF Wire
<1>3. PICK Y : Y = [dat[d] EXCEPT !.left = dat[d].left - 1]
  OBVIOUS
<1>4. /\ Y \in Wire /\ Y.left = dat[d].left - 1 /\ Y.eof = dat[d].eof /\ Y.fly = dat[d].fly
      /\ Y.ctl = dat[d].ctl
  BY <1>1, <1>2, <1>3 DEF Wire
<1>5. PICK D : D = [dat EXCEPT ![d] = Y]
  OBVIOUS
<1>6. D \in [Dat -> Wire] /\ D[d] = Y
  BY <1>1, <1>4, <1>5
<1>7. D = [dat EXCEPT ![d].left = @ - 1]
  BY <1>3, <1>5
<1> QED
  BY <1>4, <1>6, <1>7

\* A block of a download that is wanted has arrived.
LEMMA BlockKept ==
  ASSUME LInv, NEW d \in Dat, s.dpcb = d, s.cpcb \in Ctl, NEW D \in [Dat -> Wire],
         dat[d].left > 0, D[d].left = dat[d].left - 1,
         D[d].eof = dat[d].eof, D[d].fly = dat[d].fly, D[d].ctl = dat[d].ctl,
         Fetching(s, conn[s.cpcb], dat[d], job),
         NEW J, J.op = job.op, J.waiting = job.waiting, J.size = job.size, J.did = job.did,
         \/ J.got = job.got + 1 /\ (s.io = "media" => job.got < Want)
         \/ J.got = job.got /\ s.io = "media" /\ job.got = Want,
         NEW K, NEW X, NEW j, Passed(<<>>, D, J, K, X, j)
  PROVE  Phase(s, K, X, j)
<1>1. /\ job.got \in Nat /\ job.size \in Nat /\ Want \in Nat /\ dat[d].left \in Nat
  BY LwftpAssumption DEF LInv, Typed, Task, Wire
<1>2. /\ j.got = J.got /\ X.left = dat[d].left - 1 /\ j.size = job.size
  BY DEF Passed
<1>3. Moved(s, dat[d], job)
  BY DEF Fetching
<1>4. Moved(s, X, j)
  BY <1>1, <1>2, <1>3 DEF Moved
<1>5. /\ K.cmds = conn[s.cpcb].cmds /\ K.reps = conn[s.cpcb].reps /\ K.xf = conn[s.cpcb].xf
      /\ K.bye = conn[s.cpcb].bye /\ X.eof = dat[d].eof /\ X.fly = dat[d].fly
      /\ X.ctl = dat[d].ctl
      /\ j.op = job.op /\ j.waiting = job.waiting /\ j.did = job.did
  BY DEF Passed
<1>6. Suits(s, j) /\ Asking(j) = Asking(job)
  BY <1>5 DEF Fetching, Suits, Asking
<1>7. Fetching(s, K, X, j)
  BY <1>4, <1>5, <1>6 DEF Fetching
<1> QED
  BY <1>7 DEF Phase

LEMMA DataRecvCourse ==
  ASSUME LInv, Course, ~job.bad, NEW d \in Dat, DataRecv(d)
  PROVE  Course'
<1>1. PICK ok \in BOOLEAN :
        LET X == Sink(Enter(None, ok)) IN
        Leave(X[1], conn, [dat EXCEPT ![d].left = @ - 1],
              IF X[2] THEN [job EXCEPT !.got = @ + 1] ELSE job)
  <2>1. Luck("disk") \subseteq BOOLEAN
    BY DEF Luck
  <2> QED
    BY <2>1 DEF DataRecv
<1>2. dat[d].st # "free" /\ dat[d].left > 0 /\ leftover' \subseteq {"RETR", "STOR"}
  BY DEF DataRecv, LInv, Typed
<1>3. PICK W : W = Enter(None, ok)
  OBVIOUS
<1>4. /\ Unused(W) /\ W \in Working /\ W.s = s /\ W.src = job.src
      /\ s.dpcb = d /\ d # None /\ s.cpcb \in Ctl /\ s.cpcb # None
      /\ Phase(s, conn[s.cpcb], dat[d], job)
  BY <1>2, <1>3, DataCall
<1>5. PICK D \in [Dat -> Wire] :
        /\ D = [dat EXCEPT ![d].left = @ - 1] /\ D[d].left = dat[d].left - 1
        /\ D[d].eof = dat[d].eof /\ D[d].fly = dat[d].fly /\ D[d].ctl = dat[d].ctl
  BY <1>2, BlockTaken
<1>6. job \in Task /\ conn \in [Ctl -> Link] /\ dat[d].left # 0 /\ job.got \in Nat /\ Want \in Nat
  BY <1>2, LwftpAssumption DEF LInv, Typed, Task, Wire
<1>7. PICK J : J = [job EXCEPT !.got = @ + 1]
  OBVIOUS
<1>8. /\ J \in Task /\ J.got = job.got + 1 /\ J.op = job.op /\ J.waiting = job.waiting
      /\ J.size = job.size /\ J.did = job.did /\ J.src = job.src
  <2>1. job.got + 1 \in Nat
    BY <1>6
  <2> QED
    BY <1>6, <1>7, <2>1 DEF Task
<1>9. PICK V : V = Sink(W)[1]
  OBVIOUS
<1>10. /\ Sink(W)[2] = TRUE => Leave(V, conn, D, J)
       /\ Sink(W)[2] = FALSE => Leave(V, conn, D, job)
  BY <1>1, <1>3, <1>5, <1>7, <1>9
<1>11. ASSUME V = W, NEW Y \in Task, Y.src = job.src, Leave(V, conn, D, Y),
              \A K, X, j : Passed(<<>>, D, Y, K, X, j) => Phase(s, K, X, j)
       PROVE  Course'
  <2>1. ASSUME NEW K, NEW X, NEW j, Onward(V, conn, D, Y, K, X, j)
        PROVE  Phase(V.s, K, X, j)
    <3>1. /\ V \in Working /\ V.s.dpcb = d /\ V.shut = {} /\ V.syn = FALSE /\ V.put = FALSE
          /\ V.src = Y.src /\ V.out = <<>>
      BY <1>4, <1>11 DEF Unused
    <3>2. Passed(V.out, D, Y, K, X, j)
      BY <1>4, <2>1, <3>1, Passing
    <3>3. Passed(<<>>, D, Y, K, X, j)
      BY <3>1, <3>2
    <3> QED
      BY <1>4, <1>11, <3>3
  <2>2. V \in Working /\ V.s.cpcb = s.cpcb /\ s.cpcb \notin V.shut
    BY <1>4, <1>11 DEF Unused
  <2> QED
    BY <1>2, <1>4, <1>6, <1>11, <2>1, <2>2, Carried
<1>12. Fetching(s, conn[s.cpcb], dat[d], job) \/ Leaving(s, conn[s.cpcb], job)
  BY <1>4, <1>6, OnTheWire
<1>13. CASE Fetching(s, conn[s.cpcb], dat[d], job) /\ (s.io = "media" => job.got < Want)
  <2>1. (V = W \/ Failed(V, W)) /\ Sink(W)[2] = TRUE
    <3>1. /\ job.op \in DOMAIN IoOf /\ job.op # "STOR" /\ W.s.io = IoOf[job.op]
          /\ W.s.cs \in {Asking(job), "XFERING"} /\ job.waiting /\ W.s.cpcb # None
          /\ W.s.io = "media" => job.got < Want
      BY <1>4, <1>13 DEF Fetching, Suits
    <3> QED
      BY <1>4, <1>9, <3>1, Kept
  <2>2. Leave(V, conn, D, J)
    BY <1>10, <2>1
  <2>3. CASE V = W
    <3>1. ASSUME NEW K, NEW X, NEW j, Passed(<<>>, D, J, K, X, j)
          PROVE  Phase(s, K, X, j)
      BY <1>2, <1>4, <1>5, <1>8, <1>13, <3>1, BlockKept
    <3> QED
      BY <1>8, <1>11, <2>2, <2>3, <3>1
  <2>4. CASE Failed(V, W)
    <3>1. \A K, X, j : Onward(V, conn, D, J, K, X, j) => j.bad
      BY <2>4 DEF Onward, Failed
    <3>2. V \in Working /\ V.s.cpcb = s.cpcb /\ s.cpcb \notin V.shut
      BY <1>4, <2>4 DEF Failed, Keeps, Unused
    <3> QED
      BY <1>2, <1>4, <1>6, <1>8, <2>2, <3>1, <3>2, Carried
  <2> QED
    BY <2>1, <2>3, <2>4
<1>14. CASE Fetching(s, conn[s.cpcb], dat[d], job) /\ ~(s.io = "media" => job.got < Want)
  <2>1. s.io = "media" /\ job.got = Want /\ ~(job.got < Want) /\ s.done = "QUIT_cb"
    <3>1. job.got <= Want
      BY <1>14 DEF Fetching, Moved
    <3> QED
      BY <1>6, <1>14, <3>1 DEF Fetching, Suits
  <2>2. /\ Sink(W)[2] = FALSE
        /\ job.waiting /\ s.cs = "XFERING" => Turned(V, W, "ABOR_SENT") /\ V.out = <<"ABOR">>
        /\ s.cs # "XFERING" => V = W
    BY <1>4, <1>9, <2>1, Spared
  <2>3. Leave(V, conn, D, job)
    BY <1>10, <2>2
  <2>4. CASE s.cs # "XFERING"
    <3>1. ASSUME NEW K, NEW X, NEW j, Passed(<<>>, D, job, K, X, j)
          PROVE  Phase(s, K, X, j)
      BY <1>2, <1>4, <1>5, <1>14, <2>1, <3>1, BlockKept
    <3> QED
      BY <1>6, <1>11, <2>2, <2>3, <2>4, <3>1
  <2>5. CASE s.cs = "XFERING"
    <3>1. Turned(V, W, "ABOR_SENT") /\ V.out = <<"ABOR">>
      BY <1>14, <2>2, <2>5 DEF Fetching
    <3>2. /\ V \in Working /\ V.s.dpcb = d /\ V.shut = {} /\ V.syn = FALSE /\ V.put = FALSE
          /\ V.src = job.src /\ V.s.cpcb = s.cpcb /\ V.s.cs = "ABOR_SENT"
          /\ V.s.done = "QUIT_cb" /\ V.s.io = "media" /\ V.out \in Seq(Commands)
      BY <1>4, <2>1, <3>1 DEF Turned, Unused, Working
    <3>3. Finished(job)
      BY <1>14, <2>1, Fetched
    <3>4. job.waiting /\ conn[s.cpcb].xf # "up" /\ Works(conn[s.cpcb].cmds) = {}
      BY <1>14, EmptyFacts DEF Fetching
    <3>5. ASSUME NEW K, NEW X, NEW j, Onward(V, conn, D, job, K, X, j)
          PROVE  Phase(V.s, K, X, j)
      <4>1. Passed(V.out, D, job, K, X, j)
        BY <1>4, <1>6, <3>2, <3>5, Passing
      <4>2. Steady(s.cpcb, V.out, K, j)
        BY <4>1 DEF Passed, Steady
      <4>3. Over(s.cpcb, V.s)
        BY <2>1, <3>2, <3>3, <3>4 DEF Over
      <4>4. Works(V.out) = {} /\ V.out \in Seq(Commands) /\ s.cpcb \in Ctl
        BY <1>4, <3>1, <3>2, QuitOnly
      <4> QED
        BY <4>2, <4>3, <4>4, NowLeaving
    <3>6. s.cpcb \notin V.shut
      BY <3>2
    <3> QED
      BY <1>2, <1>4, <1>6, <2>3, <3>2, <3>5, <3>6, Carried
  <2> QED
    BY <2>4, <2>5
<1>15. CASE Leaving(s, conn[s.cpcb], job)
  <2>1. s.io = "media" /\ ~(job.got < Want) /\ s.done = "QUIT_cb" /\ s.cs # "XFERING"
        /\ s.cs \in {"ABOR_SENT", "LOGGED", "QUIT_SENT"}
    BY <1>4, <1>6, <1>15 DEF Leaving
  <2>2. Sink(W)[2] = FALSE /\ V = W
    BY <1>4, <1>9, <2>1, Spared
  <2>3. Leave(V, conn, D, job)
    BY <1>10, <2>2
  <2>4. ASSUME NEW K, NEW X, NEW j, Passed(<<>>, D, job, K, X, j)
        PROVE  Phase(s, K, X, j)
    <3>1. K.cmds = conn[s.cpcb].cmds \o <<>> /\ K.xf = conn[s.cpcb].xf
          /\ j.op = job.op /\ j.waiting = job.waiting /\ j.size = job.size
          /\ j.got = job.got /\ j.did = job.did
      BY <2>4 DEF Passed
    <3> QED
      BY <1>4, <1>15, <2>1, <3>1, StillLeaving, EmptyFacts
  <2> QED
    BY <1>6, <1>11, <2>2, <2>3, <2>4
<1> QED
  BY <1>12, <1>13, <1>14, <1>15

\* The data connection has been closed, and what was asked has been done.
LEMMA ShutLeaving ==
  ASSUME LInv, NEW W, Unused(W), W.s = s, W.src = job.src, NEW q, NEW V, Shut(V, W, q),
         Works(q) = {}, s.cpcb \in Ctl, s.cpcb # None, s.dpcb \in Dat,
         Finished(job), job.waiting, conn[s.cpcb].xf # "up", Works(conn[s.cpcb].cmds) = {},
         V.s.cs \in {"ABOR_SENT", "LOGGED", "QUIT_SENT"}, s.done = "QUIT_cb",
         NEW D \in [Dat -> Wire], Leave(V, conn, D, job), leftover' \subseteq {"RETR", "STOR"}
  PROVE  Course'
<1>1. /\ V \in Working /\ V.s.cpcb = s.cpcb /\ V.s.dpcb = None /\ V.s.done = "QUIT_cb"
      /\ V.out = q /\ V.out \in Seq(Commands) /\ V.put = FALSE /\ s.cpcb \notin V.shut
  BY LwftpAssumption DEF Shut, Working
<1>2. Over(s.cpcb, V.s)
  BY <1>1 DEF Over
<1>3. ASSUME NEW K, NEW X, NEW j, Onward(V, conn, D, job, K, X, j)
      PROVE  Phase(V.s, K, X, j)
  <2>1. Steady(s.cpcb, V.out, K, j)
    BY <1>1, <1>3 DEF Onward, Steady
  <2> QED
    BY <1>1, <1>2, <2>1, NowLeaving
<1>4. conn \in [Ctl -> Link] /\ job \in Task
  BY DEF LInv, Typed
<1> QED
  BY <1>1, <1>3, <1>4, Carried

LEMMA DataEofCourse ==
  ASSUME LInv, Course, ~job.bad, NEW d \in Dat, DataEof(d)
  PROVE  Course'
<1>1. /\ dat[d].st # "free" /\ dat[d].left = 0 /\ dat[d].eof
      /\ Leave(Goto(DataClose(Enter(None, TRUE), "OK"), "LOGGED"), conn, dat, job)
      /\ leftover' \subseteq {"RETR", "STOR"}
  BY DEF DataEof, LInv, Typed
<1>2. PICK W : W = Enter(None, TRUE)
  OBVIOUS
<1>3. /\ Unused(W) /\ W \in Working /\ W.s = s /\ W.src = job.src
      /\ s.dpcb = d /\ d # None /\ s.cpcb \in Ctl /\ s.cpcb # None
      /\ Phase(s, conn[s.cpcb], dat[d], job)
  BY <1>1, <1>2, DataCall
<1>4. dat \in [Dat -> Wire] /\ dat[d].eof # FALSE
  BY <1>1 DEF LInv, Typed
<1>5. Fetching(s, conn[s.cpcb], dat[d], job) \/ Leaving(s, conn[s.cpcb], job)
  BY <1>3, <1>4, OnTheWire
<1>6. /\ Finished(job) /\ job.waiting /\ conn[s.cpcb].xf # "up"
      /\ Works(conn[s.cpcb].cmds) = {} /\ s.done = "QUIT_cb" /\ s.cs # "CLOSED"
  <2>1. CASE Fetching(s, conn[s.cpcb], dat[d], job)
    <3>1. Finished(job)
      BY <1>1, <2>1, Fetched
    <3> QED
      BY <2>1, <3>1, EmptyFacts DEF Fetching, Suits, Asking
  <2>2. CASE Leaving(s, conn[s.cpcb], job)
    BY <2>2 DEF Leaving
  <2> QED
    BY <1>5, <2>1, <2>2
<1>7. PICK V : V = Goto(DataClose(W, "OK"), "LOGGED")
  OBVIOUS
<1>8. Shut(V, W, <<"QUIT">>) /\ V.s.cs = "LOGGED"
  BY <1>3, <1>6, <1>7, DataEnds
<1>9. Leave(V, conn, dat, job)
  BY <1>1, <1>2, <1>7
<1> QED
  BY <1>1, <1>3, <1>4, <1>6, <1>8, <1>9, QuitOnly, ShutLeaving

\* The acknowledgement of a block.
LEMMA Acknowledged ==
  ASSUME LInv, NEW d \in Dat, NEW fly \in BOOLEAN
  PROVE  \E D \in [Dat -> Wire] :
           /\ D = [dat EXCEPT ![d].fly = fly] /\ D[d].left = dat[d].left
           /\ D[d].eof = dat[d].eof /\ D[d].ctl = dat[d].ctl
<1>1. dat \in [Dat -> Wire]
  BY DEF LInv, Typed
<1>2. PICK Y : Y = [dat[d] EXCEPT !.fly = fly]
  OBVIOUS
<1>3. Y \in Wire /\ Y.left = dat[d].left /\ Y.eof = dat[d].eof /\ Y.ctl = dat[d].ctl
  BY <1>1, <1>2 DEF Wire
<1>4. PICK D : D = [dat EXCEPT ![d] = Y]
  OBVIOUS
<1>5. D \in [Dat -> Wire] /\ D[d] = Y
  BY <1>1, <1>3, <1>4
<1>6. D = [dat EXCEPT ![d].fly = fly]
  BY <1>2, <1>4
<1> QED
  BY <1>3, <1>5, <1>6

LEMMA DataSentCourse ==
  ASSUME LInv, Course, ~job.bad, NEW d \in Dat, DataSent(d)
  PROVE  Course'
<1>1. PICK fly \in BOOLEAN, ok \in BOOLEAN :
        Leave(SendNext(Enter(None, ok)), conn, [dat EXCEPT ![d].fly = fly], job)
  <2>1. Luck("lowmem") \subseteq BOOLEAN
    BY DEF Luck
  <2> QED
    BY <2>1 DEF DataSent
<1>2. dat[d].st # "free" /\ dat[d].fly /\ leftover' \subseteq {"RETR", "STOR"}
  BY DEF DataSent, LInv, Typed
<1>3. PICK W : W = Enter(None, ok)
  OBVIOUS
<1>4. /\ Unused(W) /\ W \in Working /\ W.s = s /\ W.src = job.src
      /\ s.dpcb = d /\ d # None /\ s.cpcb \in Ctl /\ s.cpcb # None
      /\ Phase(s, conn[s.cpcb], dat[d], job)
  BY <1>2, <1>3, DataCall
<1>5. PICK D \in [Dat -> Wire] :
        /\ D = [dat EXCEPT ![d].fly = fly] /\ D[d].left = dat[d].left
        /\ D[d].eof = dat[d].eof /\ D[d].ctl = dat[d].ctl
  BY Acknowledged
<1>6. PICK V : V = SendNext(W)
  OBVIOUS
<1>7. Leave(V, conn, D, job)
  BY <1>1, <1>3, <1>5, <1>6
<1>8. job \in Task /\ conn \in [Ctl -> Link] /\ dat[d].fly # FALSE
  BY <1>2 DEF LInv, Typed
<1>9. Storing(s, conn[s.cpcb], dat[d], job) \/ Leaving(s, conn[s.cpcb], job)
  BY <1>4, <1>8 DEF Phase, Opening, Doing, Entering, Preparing, Calling, Fetching, Still
<1>10. CASE Storing(s, conn[s.cpcb], dat[d], job)
  <2>1. /\ s.cs = "XFERING" /\ job.did = 0 /\ dat[d].ctl = s.cpcb /\ dat[d].left = 0
        /\ dat[d].eof = FALSE /\ conn[s.cpcb].fin = FALSE /\ conn[s.cpcb].cmds = <<>>
        /\ conn[s.cpcb].reps = <<>> /\ conn[s.cpcb].xf = "up" /\ conn[s.cpcb].bye = FALSE
    BY <1>4, <1>8, <1>10 DEF Storing, Still
  <2>2. /\ job.waiting /\ job.op = "STOR" /\ Suits(s, job) /\ job.got + job.src = job.size
        /\ W.s.io = "read"
    BY <1>4, <1>10 DEF Storing, Suits, IoOf
  <2>3. CASE job.src > 0
    <3>1. /\ V \in Working /\ V.s.cpcb = s.cpcb /\ V.shut = {}
          /\ \A K, X, j : Onward(V, conn, D, job, K, X, j) => j.bad \/ Phase(V.s, K, X, j)
      <4>1. /\ W.out = <<>> /\ W.shut = {} /\ W.syn = FALSE /\ W.s.dpcb = s.dpcb
            /\ W.s.cpcb = s.cpcb /\ W.s.done = s.done /\ W.s.io = s.io /\ W.s.cs = "XFERING"
            /\ W.src > 0
        BY <1>4, <2>1, <2>3 DEF Unused
      <4>2. D[s.dpcb].ctl = s.cpcb /\ D[s.dpcb].left = 0 /\ D[s.dpcb].eof = FALSE
            /\ s.dpcb # None
        BY <1>4, <1>5, <2>1
      <4> QED
        BY <1>4, <1>6, <1>8, <2>1, <2>2, <4>1, <4>2, Uploading
    <3>2. s.cpcb \notin V.shut
      BY <3>1
    <3> QED
      BY <1>2, <1>4, <1>7, <1>8, <3>1, <3>2, Carried
  <2>4. CASE ~(job.src > 0)
    <3>1. Shut(V, W, <<>>) /\ V.s.cs = "XFERING"
      BY <1>4, <1>6, <2>1, <2>4, NoBlock
    <3>2. job.src = 0
      BY <1>8, <2>4 DEF Task
    <3>3. ASSUME NEW K, NEW X, NEW j, Onward(V, conn, D, job, K, X, j)
          PROVE  Phase(V.s, K, X, j)
      <4>1. W.s.dpcb = s.dpcb /\ W.s.cpcb = s.cpcb /\ W.s.done = s.done /\ W.s.io = s.io
        BY <1>4
      <4>2. D[s.dpcb].ctl = s.cpcb /\ s.dpcb # None
        BY <1>4, <1>5, <2>1
      <4> QED
        BY <1>4, <1>8, <2>1, <2>2, <3>1, <3>2, <3>3, <4>1, <4>2, Uploaded
    <3>4. V \in Working /\ V.s.cpcb = s.cpcb /\ s.cpcb \notin V.shut
      BY <1>4, <3>1, LwftpAssumption DEF Shut
    <3> QED
      BY <1>2, <1>4, <1>7, <1>8, <3>3, <3>4, Carried
  <2> QED
    BY <2>3, <2>4
<1>11. CASE Leaving(s, conn[s.cpcb], job)
  <2>1. W.s.io # "read" /\ s.done = "QUIT_cb" /\ s.cs \in {"ABOR_SENT", "LOGGED", "QUIT_SENT"}
        /\ Finished(job) /\ job.waiting /\ conn[s.cpcb].xf # "up"
        /\ Works(conn[s.cpcb].cmds) = {}
    BY <1>4, <1>11 DEF Leaving
  <2>2. Shut(V, W, <<>>) /\ V.s.cs = s.cs
    BY <1>4, <1>6, <2>1, NoBlock
  <2> QED
    BY <1>2, <1>4, <1>7, <2>1, <2>2, EmptyFacts, ShutLeaving
<1> QED
  BY <1>9, <1>10, <1>11

--------------------------------------------------------------------------------
(* The server, in the session's course.                                         *)

\* The server of c has read cmd; L and j are what it has made of the connection and the job.
Obeyed(c, cmd, L, j) ==
  /\ cmd = Head(conn[c].cmds) /\ L.cmds = Tail(conn[c].cmds) /\ L.fin = conn[c].fin
  /\ j.op = job.op /\ j.waiting = job.waiting /\ j.src = job.src /\ j.got = job.got
  /\ j.did = IF cmd \in Performs THEN job.did + 1 ELSE job.did

Obliged(c, cmd, L, j) ==
  /\ cmd \in DOMAIN Agrees \ {"LIST", "RETR"} /\ conn[c].xf = "no"
  /\ L.reps = conn[c].reps \o <<Agrees[cmd]>> /\ L.bye = conn[c].bye
  /\ L.xf = (IF cmd = "STOR" THEN "up" ELSE "no") /\ j.size = job.size

Started(c, cmd, L, j) ==
  /\ cmd \in {"LIST", "RETR"} /\ L.reps = conn[c].reps \o <<"150">> /\ L.bye = conn[c].bye
  /\ L.xf = "down"

\* ABOR or QUIT.
Stopped(cmd, L, j) == cmd \in {"ABOR", "QUIT"} /\ L.xf = "no" /\ j.size = job.size

\* What the server sees of the data connection.
Loaded(c, X, n) ==
  \A d \in Dat : dat[d].ctl = c => /\ X[d].left = n /\ X[d].eof = dat[d].eof
                                   /\ X[d].fly = dat[d].fly /\ X[d].ctl = c

LEMMA DataServed ==
  ASSUME LInv, NEW c, NEW n,
         dat' = [x \in Dat |-> IF dat[x].ctl = c THEN [dat[x] EXCEPT !.left = n] ELSE dat[x]]
  PROVE  Loaded(c, dat', n)
<1>1. ASSUME NEW x \in Dat, dat[x].ctl = c
      PROVE  /\ dat'[x].left = n /\ dat'[x].eof = dat[x].eof /\ dat'[x].fly = dat[x].fly
             /\ dat'[x].ctl = c
  <2>1. dat[x] \in Wire
    BY DEF LInv, Typed
  <2>2. PICK Y : Y = [dat[x] EXCEPT !.left = n]
    OBVIOUS
  <2>3. Y.left = n /\ Y.eof = dat[x].eof /\ Y.fly = dat[x].fly /\ Y.ctl = c
    BY <1>1, <2>1, <2>2 DEF Wire
  <2>4. dat'[x] = Y
    BY <1>1, <2>2
  <2> QED
    BY <2>3, <2>4
<1> QED
  BY <1>1 DEF Loaded

LEMMA Agreeing ==
  ASSUME LInv, NEW c \in Ctl, Agree(c)
  PROVE  /\ c = s.cpcb /\ c # None /\ s' = s /\ conn[c].cmds # <<>>
         /\ \E cmd \in Commands :
              /\ Obeyed(c, cmd, conn'[c], job')
              /\ \/ Obliged(c, cmd, conn'[c], job') /\ dat' = dat
                 \/ Started(c, cmd, conn'[c], job') /\ Loaded(c, dat', job'.size)
                 \/ Stopped(cmd, conn'[c], job')
<1> DEFINE K == conn[c]
           cmd == Head(K.cmds)
           J == [job EXCEPT !.did = IF cmd \in Performs THEN @ + 1 ELSE @]
           Read(C) == [conn EXCEPT ![c] = [C EXCEPT !.cmds = Tail(@)]]
<1>1. K.st = "open" /\ K.cmds # <<>> /\ s' = s
  BY DEF Agree
<1>2. PICK k : k = K
  OBVIOUS
<1>3. c = s.cpcb /\ c # None /\ k \in Link /\ k.cmds \in Seq(Commands) /\ conn \in [Ctl -> Link]
  BY <1>1, <1>2, Serves DEF Link, LInv, Typed
<1>4. PICK q : q = Tail(k.cmds)
  OBVIOUS
<1>5. cmd \in Commands
  BY <1>1, <1>2, <1>3, Popped
<1>6. job \in Task /\ job.did \in Nat /\ job.size \in Nat /\ job.bad \in BOOLEAN
  BY DEF LInv, Typed, Task
<1>7. PICK did \in {job.did, job.did + 1} : did = IF cmd \in Performs THEN job.did + 1 ELSE job.did
  OBVIOUS
<1>8. J = [job EXCEPT !.did = did, !.size = job.size, !.bad = job.bad]
      /\ \A n : [J EXCEPT !.size = n] = [job EXCEPT !.did = did, !.size = n, !.bad = job.bad]
  BY <1>6, <1>7 DEF Task
<1> HIDE DEF J
<1>9. ASSUME NEW n \in Nat, job' = [job EXCEPT !.did = did, !.size = n, !.bad = job.bad],
             NEW L \in Link, conn' = [conn EXCEPT ![c] = L], L.cmds = q, L.fin = k.fin
      PROVE  Obeyed(c, cmd, conn'[c], job') /\ job'.size = n /\ conn'[c] = L
  <2>1. /\ job'.op = job.op /\ job'.src = job.src /\ job'.got = job.got
        /\ job'.did = did /\ job'.size = n /\ job'.waiting = job.waiting
    BY <1>6, <1>9, JobServed
  <2>2. conn'[c] = L
    BY <1>3, <1>9
  <2> QED
    BY <1>2, <1>4, <1>7, <1>9, <2>1, <2>2 DEF Obeyed
<1>14. CASE cmd \in DOMAIN Agrees \ {"LIST", "RETR"} /\ k.xf = "no" /\ dat' = dat /\ job' = J
            /\ conn' = Read([Replies(c, <<Agrees[cmd]>>) EXCEPT
                               !.xf = IF cmd = "STOR" THEN "up" ELSE @])
  <2>1. <<Agrees[cmd]>> \in Seq(Codes)
    BY <1>14, ReplyCodes
  <2>2. PICK Q \in Link : /\ Q = Replies(c, <<Agrees[cmd]>>)
                          /\ Q.st = "open" /\ Q.cmds = k.cmds /\ Q.xf = k.xf
                          /\ Q.reps = k.reps \o <<Agrees[cmd]>> /\ Q.fin = k.fin
                          /\ Q.bye = k.bye
    BY <1>1, <1>2, <2>1, Reply
  <2>3. PICK xf \in {"no", "down", "up"} : xf = IF cmd = "STOR" THEN "up" ELSE "no"
    OBVIOUS
  <2>4. PICK L \in Link : /\ L = [[Q EXCEPT !.xf = xf] EXCEPT !.cmds = Tail(@)]
                          /\ L.st = Q.st /\ L.cmds = Tail(Q.cmds) /\ L.xf = xf
                          /\ L.reps = Q.reps /\ L.fin = Q.fin /\ L.bye = Q.bye
    <3>1. Q \in Link /\ Q.cmds # <<>>
      BY <1>1, <1>2, <2>2
    <3> QED
      BY <3>1, ReadOn
  <2>5. [Q EXCEPT !.xf = IF cmd = "STOR" THEN "up" ELSE @] = [Q EXCEPT !.xf = xf]
    <3>1. (IF cmd = "STOR" THEN "up" ELSE Q.xf) = xf
      BY <1>14, <2>2, <2>3
    <3> QED
      BY <3>1, Zenon
  <2>6. conn' = [conn EXCEPT ![c] = L]
    BY <1>14, <2>2, <2>4, <2>5
  <2>7. L.cmds = q /\ L.fin = k.fin
    BY <1>4, <2>2, <2>4
  <2>8. job' = [job EXCEPT !.did = did, !.size = job.size, !.bad = job.bad]
    BY <1>8, <1>14
  <2>9. Obeyed(c, cmd, conn'[c], job') /\ job'.size = job.size /\ conn'[c] = L
    BY <1>6, <1>9, <2>6, <2>7, <2>8
  <2>10. Obliged(c, cmd, conn'[c], job')
    BY <1>2, <1>14, <2>2, <2>3, <2>4, <2>9 DEF Obliged
  <2> QED
    BY <1>1, <1>3, <1>5, <1>14, <2>9, <2>10
<1>15. ASSUME cmd \in {"LIST", "RETR"}, k.xf = "no", NEW n \in 0..MaxSize,
              conn' = Read([Replies(c, <<"150">>) EXCEPT !.xf = "down"]),
              dat' = [d \in Dat |-> IF d \in DataOf(c) THEN [dat[d] EXCEPT !.left = n]
                                                      ELSE dat[d]],
              job' = [J EXCEPT !.size = n]
       PROVE  /\ Obeyed(c, cmd, conn'[c], job') /\ Started(c, cmd, conn'[c], job')
              /\ Loaded(c, dat', job'.size)
  <2>1. PICK Q \in Link : /\ Q = Replies(c, <<"150">>)
                          /\ Q.st = "open" /\ Q.cmds = k.cmds /\ Q.xf = k.xf
                          /\ Q.reps = k.reps \o <<"150">> /\ Q.fin = k.fin /\ Q.bye = k.bye
    <3>1. <<"150">> \in Seq(Codes)
      BY ReplyCodes
    <3> QED
      BY <1>1, <1>2, <3>1, Reply
  <2>2. PICK L \in Link : /\ L = [[Q EXCEPT !.xf = "down"] EXCEPT !.cmds = Tail(@)]
                          /\ L.st = Q.st /\ L.cmds = Tail(Q.cmds) /\ L.xf = "down"
                          /\ L.reps = Q.reps /\ L.fin = Q.fin /\ L.bye = Q.bye
    BY <1>1, <1>2, <2>1, ReadOn
  <2>3. conn' = [conn EXCEPT ![c] = L]
    BY <1>15, <2>1, <2>2
  <2>4. L.cmds = q /\ L.fin = k.fin
    BY <1>4, <2>1, <2>2
  <2>5. n \in Nat
    BY <1>15, LwftpAssumption
  <2>6. job' = [job EXCEPT !.did = did, !.size = n, !.bad = job.bad]
    BY <1>8, <1>15
  <2>7. Obeyed(c, cmd, conn'[c], job') /\ job'.size = n /\ conn'[c] = L
    BY <1>9, <2>3, <2>4, <2>5, <2>6
  <2>8. Started(c, cmd, conn'[c], job')
    BY <1>2, <1>15, <2>1, <2>2, <2>7 DEF Started
  <2>9. dat' = [x \in Dat |-> IF dat[x].ctl = c THEN [dat[x] EXCEPT !.left = n] ELSE dat[x]]
    <3>1. \A x \in Dat : x \in DataOf(c) <=> dat[x].ctl = c
      BY DEF DataOf
    <3> QED
      BY <1>15, <3>1
  <2>10. Loaded(c, dat', n)
    BY <2>9, DataServed
  <2> QED
    BY <2>7, <2>8, <2>10
<1>16. CASE cmd = "ABOR" /\ job' = J
            /\ conn' = Read([Replies(c, IF k.xf = "no" THEN <<"226">> ELSE <<"426", "226">>)
                              EXCEPT !.xf = "no"])
  <2>1. PICK rs \in Seq(Codes) : rs = IF k.xf = "no" THEN <<"226">> ELSE <<"426", "226">>
    BY ReplyCodes
  <2>2. PICK Q \in Link : /\ Q = Replies(c, rs) /\ Q.cmds = k.cmds /\ Q.fin = k.fin
    BY <1>1, <1>2, Reply
  <2>3. PICK L \in Link : /\ L = [[Q EXCEPT !.xf = "no"] EXCEPT !.cmds = Tail(@)]
                          /\ L.cmds = Tail(Q.cmds) /\ L.xf = "no" /\ L.fin = Q.fin
    BY <1>1, <1>2, <2>2, ReadOn
  <2>4. conn' = [conn EXCEPT ![c] = L]
    BY <1>16, <2>1, <2>2, <2>3
  <2>5. L.cmds = q /\ L.fin = k.fin
    BY <1>4, <2>2, <2>3
  <2>6. job' = [job EXCEPT !.did = did, !.size = job.size, !.bad = job.bad]
    BY <1>8, <1>16
  <2>7. Obeyed(c, cmd, conn'[c], job') /\ job'.size = job.size /\ conn'[c] = L
    BY <1>6, <1>9, <2>4, <2>5, <2>6
  <2>8. Stopped(cmd, conn'[c], job')
    BY <1>16, <2>3, <2>7 DEF Stopped
  <2> QED
    BY <1>1, <1>3, <1>5, <2>7, <2>8
<1>17. CASE cmd = "QUIT" /\ k.xf = "no" /\ job' = job
            /\ conn' = Read([Replies(c, <<"221">>) EXCEPT !.bye = TRUE])
  <2>1. PICK Q \in Link : /\ Q = Replies(c, <<"221">>) /\ Q.cmds = k.cmds /\ Q.fin = k.fin
                          /\ Q.xf = k.xf
    <3>1. <<"221">> \in Seq(Codes)
      BY ReplyCodes
    <3> QED
      BY <1>1, <1>2, <3>1, Reply
  <2>2. PICK L \in Link : /\ L = [[Q EXCEPT !.bye = TRUE] EXCEPT !.cmds = Tail(@)]
                          /\ L.cmds = Tail(Q.cmds) /\ L.xf = Q.xf /\ L.fin = Q.fin
    BY <1>1, <1>2, <2>1, ReadLast
  <2>3. conn' = [conn EXCEPT ![c] = L]
    BY <1>17, <2>1, <2>2
  <2>4. L.cmds = q /\ L.fin = k.fin /\ L.xf = "no"
    BY <1>4, <1>17, <2>1, <2>2
  <2>5. cmd \notin Performs /\ conn'[c] = L
    BY <1>3, <1>17, <2>3 DEF Performs
  <2>6. Obeyed(c, cmd, conn'[c], job') /\ Stopped(cmd, conn'[c], job')
    BY <1>2, <1>4, <1>17, <2>4, <2>5 DEF Obeyed, Stopped
  <2> QED
    BY <1>1, <1>3, <1>5, <2>6
<1> QED
  <2>1. \/ /\ cmd \in DOMAIN Agrees \ {"LIST", "RETR"} /\ k.xf = "no" /\ dat' = dat /\ job' = J
           /\ conn' = Read([Replies(c, <<Agrees[cmd]>>) EXCEPT
                              !.xf = IF cmd = "STOR" THEN "up" ELSE @])
        \/ /\ cmd \in {"LIST", "RETR"} /\ k.xf = "no"
           /\ conn' = Read([Replies(c, <<"150">>) EXCEPT !.xf = "down"])
           /\ \E n \in 0..MaxSize :
                /\ dat' = [d \in Dat |-> IF d \in DataOf(c) THEN [dat[d] EXCEPT !.left = n]
                                                           ELSE dat[d]]
                /\ job' = [J EXCEPT !.size = n]
        \/ /\ cmd = "ABOR" /\ job' = J
           /\ conn' = Read([Replies(c, IF k.xf = "no" THEN <<"226">> ELSE <<"426", "226">>)
                              EXCEPT !.xf = "no"])
        \/ /\ cmd = "QUIT" /\ k.xf = "no" /\ job' = job
           /\ conn' = Read([Replies(c, <<"221">>) EXCEPT !.bye = TRUE])
    BY <1>2 DEF Agree, J
  <2> HIDE DEF Read
  <2> QED
    BY <1>1, <1>3, <1>5, <1>14, <1>15, <1>16, <1>17, <2>1

LEMMA OneRead ==
  ASSUME NEW a
  PROVE  Head(<<a>>) = a /\ Tail(<<a>>) = <<>> /\ <<a>> # <<>> /\ <<>> \o <<a>> = <<a>>
  OBVIOUS

Reads(c, cmd, L, j) ==
  Obeyed(c, cmd, L, j) /\ (Obliged(c, cmd, L, j) \/ Started(c, cmd, L, j) \/ Stopped(cmd, L, j))

\* A command with a plain reply.
LEMMA SyncRead ==
  ASSUME NEW c, NEW cmd, NEW L, NEW j, Reads(c, cmd, L, j),
         NEW a \in DOMAIN Agrees \ {"LIST", "RETR", "STOR"}, Sync(conn[c], a),
         conn[c].cmds # <<>>
  PROVE  /\ cmd = a /\ Sync(L, a) /\ L.cmds = <<>> /\ Quiet(L) /\ j.size = job.size
         /\ j.op = job.op /\ j.waiting = job.waiting /\ j.src = job.src /\ j.got = job.got
         /\ j.did = IF a \in Performs THEN job.did + 1 ELSE job.did
<1>1. conn[c].cmds = <<a>> /\ conn[c].reps = <<>> /\ Quiet(conn[c])
  BY DEF Sync
<1>2. cmd = a /\ L.cmds = <<>>
  BY <1>1, OneRead DEF Reads, Obeyed
<1>3. Obliged(c, cmd, L, j)
  BY <1>2 DEF Reads, Started, Stopped, Agrees
<1>4. L.reps = <<Agrees[a]>>
  BY <1>1, <1>2, <1>3, OneRead DEF Obliged
<1>5. Quiet(L)
  BY <1>1, <1>2, <1>3 DEF Quiet, Obliged, Reads, Obeyed
<1> QED
  BY <1>2, <1>3, <1>4, <1>5 DEF Sync, Reads, Obeyed, Obliged

LEMMA OpeningRead ==
  ASSUME NEW c, NEW cmd, NEW L, NEW j, Reads(c, cmd, L, j), conn[c].cmds # <<>>,
         Opening(s, conn[c], job)
  PROVE  Opening(s, L, j)
<1>1. PICK a \in {"USER", "PASS"} :
        Sync(conn[c], a) /\ (a = "USER" => s.cs = "USER_SENT") /\ (a = "PASS" => s.cs = "PASS_SENT")
  BY DEF Opening
<1>2. a \in DOMAIN Agrees \ {"LIST", "RETR", "STOR"} /\ a \notin Performs
  BY DEF Agrees, Performs
<1>3. /\ Sync(L, a) /\ Quiet(L) /\ j.size = job.size
      /\ j.op = job.op /\ j.waiting = job.waiting /\ j.src = job.src /\ j.got = job.got
      /\ j.did = job.did
  BY <1>1, <1>2, SyncRead
<1>4. Unstarted(j)
  BY <1>3 DEF Opening, Unstarted
<1> QED
  BY <1>1, <1>3, <1>4 DEF Opening

LEMMA DoingRead ==
  ASSUME NEW c, NEW cmd, NEW L, NEW j, Reads(c, cmd, L, j), conn[c].cmds # <<>>,
         Doing(s, conn[c], job)
  PROVE  Doing(s, L, j)
<1>1. CASE s.cs = "RNFR_SENT" /\ Sync(conn[c], "RNFR") /\ job.did = 0
  <2>1. "RNFR" \in DOMAIN Agrees \ {"LIST", "RETR", "STOR"} /\ "RNFR" \notin Performs
    BY DEF Agrees, Performs
  <2>2. /\ Sync(L, "RNFR") /\ j.size = job.size /\ j.op = job.op /\ j.waiting = job.waiting
        /\ j.got = job.got /\ j.did = job.did
    BY <1>1, <2>1, SyncRead
  <2> QED
    BY <1>1, <2>2 DEF Doing
<1>2. CASE s.cs \in DOMAIN LastOf /\ Sync(conn[c], LastOf[s.cs])
  <2>1. PICK a : a = LastOf[s.cs]
    OBVIOUS
  <2>2. a \in {"MKD", "RMD", "DELE", "RNTO"}
    BY <1>2, <2>1 DEF LastOf
  <2>3. a \in DOMAIN Agrees \ {"LIST", "RETR", "STOR"} /\ a \in Performs
    BY <2>2 DEF Agrees, Performs
  <2>4. job.did = 0
    BY <1>2 DEF Doing, LastOf
  <2>5. /\ Sync(L, a) /\ j.size = job.size /\ j.op = job.op /\ j.waiting = job.waiting
        /\ j.got = job.got /\ j.did = 1 /\ L.cmds = <<>>
    BY <1>2, <2>1, <2>3, <2>4, SyncRead
  <2> QED
    BY <1>2, <2>1, <2>5 DEF Doing
<1> QED
  BY <1>1, <1>2 DEF Doing

LEMMA EnteringRead ==
  ASSUME NEW c, NEW cmd, NEW L, NEW j, Reads(c, cmd, L, j), conn[c].cmds # <<>>,
         Entering(s, conn[c], job)
  PROVE  Entering(s, L, j)
<1>1. "CWD" \in DOMAIN Agrees \ {"LIST", "RETR", "STOR"} /\ "CWD" \notin Performs
  BY DEF Agrees, Performs
<1>2. /\ Sync(L, "CWD") /\ j.size = job.size
      /\ j.op = job.op /\ j.waiting = job.waiting /\ j.src = job.src /\ j.got = job.got
      /\ j.did = job.did
  BY <1>1, SyncRead DEF Entering
<1> QED
  BY <1>2 DEF Entering, Unstarted

LEMMA PreparingRead ==
  ASSUME NEW c, NEW cmd, NEW L, NEW j, Reads(c, cmd, L, j), conn[c].cmds # <<>>, NEW D,
         Preparing(s, conn[c], D, job)
  PROVE  Preparing(s, L, D, j) /\ cmd \notin {"LIST", "RETR", "ABOR", "QUIT"}
<1>1. PICK a \in {"TYPE", "PASV", "REST"} :
        /\ Sync(conn[c], a)
        /\ a = "TYPE" => s.cs = "TYPE_SENT" /\ s.target = TargetOf[job.op]
        /\ a = "PASV" => s.cs = "PASV_SENT" /\ s.target = TargetOf[job.op]
        /\ a = "REST" => s.cs = "REST_SENT" /\ job.op = "REST" /\ D.ctl = s.cpcb
  BY DEF Preparing
<1>2. a \in DOMAIN Agrees \ {"LIST", "RETR", "STOR"} /\ a \notin Performs
  BY DEF Agrees, Performs
<1>3. /\ cmd = a /\ Sync(L, a) /\ j.size = job.size
      /\ j.op = job.op /\ j.waiting = job.waiting /\ j.src = job.src /\ j.got = job.got
      /\ j.did = job.did
  BY <1>1, <1>2, SyncRead
<1>4. Unstarted(j) /\ Suits(s, j) /\ Still(s, D)
  BY <1>3 DEF Preparing, Unstarted, Suits
<1> QED
  BY <1>1, <1>3, <1>4 DEF Preparing

LEMMA CallingRead ==
  ASSUME LInv, NEW c, NEW cmd, NEW L, NEW j, Reads(c, cmd, L, j), conn[c].cmds # <<>>,
         Calling(s, conn[c], dat[s.dpcb], job), s.dpcb \in Dat, c = s.cpcb,
         NEW X, Obliged(c, cmd, L, j) \/ Stopped(cmd, L, j) \/ Loaded(c, X, j.size), j.size \in Nat
  PROVE  Fetching(s, L, X[s.dpcb], j)
<1>1. /\ Unstarted(job) /\ Suits(s, job) /\ Still(s, dat[s.dpcb]) /\ dat[s.dpcb].ctl = c
      /\ job.op # "STOR" /\ Quiet(conn[c]) /\ conn[c].reps = <<>>
      /\ s.cs = Asking(job) /\ conn[c].cmds = <<Verb[s.cs]>>
  BY DEF Calling
<1>2. Verb[s.cs] \in {"LIST", "RETR"}
  BY <1>1 DEF Asking, Verb
<1>3. cmd \in {"LIST", "RETR"} /\ L.cmds = <<>>
  BY <1>1, <1>2, OneRead DEF Reads, Obeyed
<1>4. Started(c, cmd, L, j) /\ Loaded(c, X, j.size)
  BY <1>3 DEF Reads, Obliged, Stopped
<1>5. L.reps = <<"150">> /\ L.xf = "down" /\ L.bye = FALSE
  BY <1>1, <1>4, OneRead DEF Started, Quiet
<1>6. cmd \in Performs
  BY <1>3 DEF Performs
<1>7. j.op = job.op /\ j.waiting = job.waiting /\ j.got = 0 /\ j.did = 1
  BY <1>1, <1>6 DEF Reads, Obeyed, Unstarted
<1>8. /\ X[s.dpcb].left = j.size /\ X[s.dpcb].eof = FALSE /\ X[s.dpcb].fly = FALSE
      /\ X[s.dpcb].ctl = c /\ s.dpcb # None
  BY <1>1, <1>4 DEF Loaded, Still
<1>9. Moved(s, X[s.dpcb], j)
  BY <1>7, <1>8, LwftpAssumption DEF Moved
<1>10. Suits(s, j) /\ Asking(j) = Asking(job) /\ j.waiting
  BY <1>1, <1>7 DEF Suits, Asking, Unstarted
<1> QED
  BY <1>1, <1>3, <1>5, <1>7, <1>8, <1>9, <1>10 DEF Fetching

LEMMA StoringRead ==
  ASSUME NEW c, NEW cmd, NEW L, NEW j, Reads(c, cmd, L, j), conn[c].cmds # <<>>, NEW D,
         Storing(s, conn[c], D, job)
  PROVE  Storing(s, L, D, j) /\ cmd \notin {"LIST", "RETR", "ABOR", "QUIT"}
<1>1. /\ job.waiting /\ job.op = "STOR" /\ Suits(s, job) /\ job.got + job.src = job.size
      /\ conn[c].bye = FALSE /\ s.cs = "STOR_SENT" /\ job.did = 0 /\ Still(s, D)
      /\ D.ctl = s.cpcb /\ conn[c].fin = FALSE
      /\ conn[c].cmds = <<"STOR">> /\ conn[c].reps = <<>>
  BY DEF Storing
<1>2. cmd = "STOR" /\ L.cmds = <<>>
  BY <1>1, OneRead DEF Reads, Obeyed
<1>3. Obliged(c, cmd, L, j) /\ Agrees[cmd] = "150" /\ cmd \notin Performs
  BY <1>2 DEF Reads, Started, Stopped, Agrees, Performs
<1>4. /\ L.reps = <<"150">> /\ L.xf = "up" /\ L.bye = FALSE /\ L.fin = FALSE
      /\ j.op = "STOR" /\ j.waiting = job.waiting /\ j.src = job.src /\ j.got = job.got
      /\ j.did = 0 /\ j.size = job.size
  BY <1>1, <1>2, <1>3, OneRead DEF Obliged, Reads, Obeyed
<1>5. Suits(s, j)
  BY <1>1, <1>4 DEF Suits
<1> QED
  BY <1>1, <1>2, <1>4, <1>5 DEF Storing

LEMMA LeavingRead ==
  ASSUME LInv, NEW c \in Ctl, NEW cmd, NEW L, NEW j, Reads(c, cmd, L, j), conn[c].cmds # <<>>,
         Leaving(s, conn[c], job)
  PROVE  Leaving(s, L, j)
<1>1. conn[c].cmds \in Seq(Commands)
  BY DEF LInv, Typed, Link
<1>2. cmd \notin Work /\ Works(L.cmds) = {}
  BY <1>1, Popped DEF Leaving, Reads, Obeyed
<1>3. cmd \notin Performs /\ cmd # "STOR" /\ cmd \notin {"LIST", "RETR"}
  BY <1>2 DEF Work, Performs
<1>4. L.xf = "no" /\ j.size = job.size
  BY <1>3 DEF Reads, Obliged, Started, Stopped
<1>5. /\ j.op = job.op /\ j.waiting = job.waiting /\ j.got = job.got /\ j.did = job.did
  BY <1>3 DEF Reads, Obeyed
<1>6. Finished(j)
  BY <1>4, <1>5 DEF Leaving, Finished, Due
<1> QED
  BY <1>2, <1>4, <1>5, <1>6 DEF Leaving

LEMMA AgreeCourse ==
  ASSUME LInv, Course, ~job.bad, NEW c \in Ctl, Agree(c)
  PROVE  Course'
<1>1. c = s.cpcb /\ c # None /\ s' = s /\ conn[c].cmds # <<>>
  BY Agreeing
<1>2. PICK L : L = conn'[c]
  OBVIOUS
<1>3. PICK j : j = job'
  OBVIOUS
<1>4. PICK X : X = dat'
  OBVIOUS
<1>5. PICK cmd \in Commands :
        /\ Reads(c, cmd, L, j)
        /\ Obliged(c, cmd, L, j) \/ Stopped(cmd, L, j) \/ Loaded(c, X, j.size)
        /\ cmd \notin {"LIST", "RETR", "ABOR", "QUIT"} => dat' = dat
  <2>1. PICK cmd \in Commands :
          /\ Obeyed(c, cmd, conn'[c], job')
          /\ \/ Obliged(c, cmd, conn'[c], job') /\ dat' = dat
             \/ Started(c, cmd, conn'[c], job') /\ Loaded(c, dat', job'.size)
             \/ Stopped(cmd, conn'[c], job')
    BY Agreeing
  <2> QED
    BY <1>2, <1>3, <1>4, <2>1 DEF Reads, Started, Stopped
<1>6. Phase(s, conn[c], dat[s.dpcb], job)
  BY <1>1, CourseNow
<1>7. j.size \in Nat
  BY <1>3, AgreeLedger DEF Typed, Task
<1>8. Phase(s, L, X[s.dpcb], j)
  <2>1. CASE Opening(s, conn[c], job)
    BY <1>1, <1>5, <2>1, OpeningRead DEF Phase
  <2>2. CASE Doing(s, conn[c], job)
    BY <1>1, <1>5, <2>2, DoingRead DEF Phase
  <2>3. CASE Entering(s, conn[c], job)
    BY <1>1, <1>5, <2>3, EnteringRead DEF Phase
  <2>4. CASE Preparing(s, conn[c], dat[s.dpcb], job)
    <3>1. Preparing(s, L, dat[s.dpcb], j) /\ X = dat
      BY <1>1, <1>4, <1>5, <2>4, PreparingRead
    <3> QED
      BY <3>1 DEF Phase
  <2>5. CASE Calling(s, conn[c], dat[s.dpcb], job)
    <3>1. s.dpcb \in Dat
      BY <2>5 DEF Calling, Still, LInv, Typed, Session
    <3> QED
      BY <1>1, <1>5, <1>7, <2>5, <3>1, CallingRead DEF Phase
  <2>6. CASE Storing(s, conn[c], dat[s.dpcb], job)
    <3>1. Storing(s, L, dat[s.dpcb], j) /\ X = dat
      BY <1>1, <1>4, <1>5, <2>6, StoringRead
    <3> QED
      BY <3>1 DEF Phase
  <2>7. CASE Leaving(s, conn[c], job)
    BY <1>1, <1>5, <2>7, LeavingRead DEF Phase
  <2>8. ~Fetching(s, conn[c], dat[s.dpcb], job)
    BY <1>1 DEF Fetching
  <2> QED
    BY <1>6, <2>1, <2>2, <2>3, <2>4, <2>5, <2>6, <2>7, <2>8 DEF Phase
<1> QED
  BY <1>1, <1>2, <1>3, <1>4, <1>8, CourseNext

--------------------------------------------------------------------------------
(* The server ends a transfer.                                                  *)

\* K is what becomes of connection c with its last reply.
Concluded(c, K) ==
  /\ c = s.cpcb /\ c # None
  /\ K.cmds = conn[c].cmds /\ K.fin = conn[c].fin /\ K.bye = conn[c].bye /\ K.xf = "no"
  /\ conn[c].reps = <<>> => K.reps = <<"226">>
  /\ conn[c].reps = <<"150">> => K.reps = <<"150", "226">>

LEMMA TwoReplies ==
  ASSUME NEW a \in Codes, NEW b \in Codes
  PROVE  <<>> \o <<b>> = <<b>> /\ <<a>> \o <<b>> = <<a, b>>
<1>1. \A p, r \in Seq(Codes) : Len(p) = Len(r) /\ (\A i \in 1..Len(p) : p[i] = r[i]) => p = r
  OBVIOUS
<1>2. <<a>> \in Seq(Codes) /\ <<b>> \in Seq(Codes) /\ Len(<<a>>) = 1 /\ Len(<<b>>) = 1
      /\ <<a>>[1] = a /\ <<b>>[1] = b
  OBVIOUS
<1>3. PICK p, r \in Seq(Codes) : p = <<a>> /\ r = <<b>> /\ Len(p) = 1 /\ Len(r) = 1
                                 /\ p[1] = a /\ r[1] = b
  BY <1>2
<1>4. Len(p \o r) = 2 /\ (p \o r)[1] = a /\ (p \o r)[2] = b /\ p \o r \in Seq(Codes)
  BY <1>3
<1>5. Len(<<a, b>>) = 2 /\ <<a, b>>[1] = a /\ <<a, b>>[2] = b /\ <<a, b>> \in Seq(Codes)
  OBVIOUS
<1>6. \A i \in 1..2 : i = 1 \/ i = 2
  OBVIOUS
<1>7. p \o r = <<a, b>>
  BY <1>1, <1>4, <1>5, <1>6
<1> QED
  BY <1>3, <1>7, Spliced

LEMMA LastOne ==
  ASSUME LInv, NEW c \in Ctl, conn[c].xf # "no", NEW rs \in Seq(Codes), rs = <<"226">>
  PROVE  \E K \in Link : Concluded(c, K) /\ K = [Replies(c, rs) EXCEPT !.xf = "no"]
<1>1. c = s.cpcb /\ c # None /\ conn[c].st = "open"
  <2>1. conn[c].st = "open"
    BY Moving
  <2> QED
    BY <2>1, Serves
<1>2. PICK K \in Link : /\ K = [Replies(c, rs) EXCEPT !.xf = "no"]
                        /\ K.st = "open" /\ K.cmds = conn[c].cmds /\ K.xf = "no"
                        /\ K.fin = conn[c].fin /\ K.bye = conn[c].bye
                        /\ K.reps = conn[c].reps \o rs
  BY <1>1, EndReply
<1>3. "150" \in Codes /\ "226" \in Codes
  BY DEF Codes
<1>4. conn[c].reps = <<>> => K.reps = <<"226">>
  BY <1>2, <1>3, TwoReplies
<1>5. conn[c].reps = <<"150">> => K.reps = <<"150", "226">>
  BY <1>2, <1>3, TwoReplies
<1>6. Concluded(c, K)
  BY <1>1, <1>2, <1>4, <1>5 DEF Concluded
<1> QED
  BY <1>2, <1>6

\* The server has closed the data connections of c.
LEMMA DataEnded ==
  ASSUME LInv, NEW c,
         dat' = [d \in Dat |-> IF dat[d].ctl = c THEN [dat[d] EXCEPT !.eof = TRUE] ELSE dat[d]],
         NEW d \in Dat
  PROVE  dat'[d].left = dat[d].left /\ dat'[d].fly = dat[d].fly /\ dat'[d].ctl = dat[d].ctl
<1>1. dat[d] \in Wire
  BY DEF LInv, Typed
<1>2. PICK Y : Y = [dat[d] EXCEPT !.eof = TRUE]
  OBVIOUS
<1>3. Y.left = dat[d].left /\ Y.fly = dat[d].fly /\ Y.ctl = dat[d].ctl
  BY <1>1, <1>2 DEF Wire
<1>4. dat'[d] = Y \/ dat'[d] = dat[d]
  BY <1>2
<1> QED
  BY <1>3, <1>4

LEMMA FinishDownCourse ==
  ASSUME LInv, Course, ~job.bad, NEW c \in Ctl, FinishDown(c)
  PROVE  Course'
<1>1. /\ conn[c].xf = "down" /\ s' = s /\ job' = job
      /\ conn' = [conn EXCEPT ![c] = [Replies(c, <<"226">>) EXCEPT !.xf = "no"]]
      /\ dat' = [d \in Dat |-> IF dat[d].ctl = c THEN [dat[d] EXCEPT !.eof = TRUE] ELSE dat[d]]
  BY DEF FinishDown, DataOf
<1>2. PICK L : Concluded(c, L) /\ conn' = [conn EXCEPT ![c] = L]
  <2>1. PICK rs \in Seq(Codes) : rs = <<"226">>
    BY ReplyCodes
  <2>2. PICK L \in Link : Concluded(c, L) /\ L = [Replies(c, rs) EXCEPT !.xf = "no"]
    BY <1>1, <2>1, LastOne
  <2>3. conn' = [conn EXCEPT ![c] = L]
    BY <1>1, <2>1, <2>2
  <2> QED
    BY <2>2, <2>3
<1>3. c = s.cpcb /\ c # None /\ conn'[c] = L
  BY <1>2 DEF Concluded, LInv, Typed
<1>4. PICK D : D = dat[s.dpcb]
  OBVIOUS
<1>5. PICK X : X = dat'[s.dpcb]
  OBVIOUS
<1>6. s.dpcb # None => X.left = D.left /\ X.fly = D.fly /\ X.ctl = D.ctl
  <2>1. s.dpcb \in Dat \cup {None}
    BY DEF LInv, Typed, Session
  <2> QED
    BY <1>1, <1>4, <1>5, <2>1, DataEnded
<1>7. Fetching(s, conn[c], D, job) \/ Leaving(s, conn[c], job)
  <2>1. Phase(s, conn[c], D, job)
    BY <1>3, <1>4, CourseNow
  <2> QED
    BY <1>1, <2>1 DEF Phase, Opening, Doing, Entering, Preparing, Calling, Storing, Sync, Quiet
<1>8. Phase(s, L, X, job)
  <2>1. CASE Fetching(s, conn[c], D, job)
    <3>1. s.dpcb # None /\ D.ctl = s.cpcb /\ D.fly = FALSE /\ Moved(s, D, job)
          /\ job.waiting /\ job.did = 1 /\ Suits(s, job) /\ job.op # "STOR"
          /\ conn[c].cmds = <<>> /\ conn[c].bye = FALSE
          /\ \/ s.cs = Asking(job) /\ conn[c].reps = <<"150">>
             \/ s.cs = "XFERING" /\ conn[c].reps = <<>>
      BY <1>1, <2>1 DEF Fetching
    <3>2. Moved(s, X, job)
      BY <1>6, <3>1 DEF Moved
    <3>3. \/ s.cs = Asking(job) /\ L.reps = <<"150", "226">>
          \/ s.cs = "XFERING" /\ L.reps = <<"226">>
      BY <1>2, <3>1 DEF Concluded
    <3>4. Fetching(s, L, X, job)
      BY <1>2, <1>6, <3>1, <3>2, <3>3 DEF Fetching, Concluded
    <3> QED
      BY <3>4 DEF Phase
  <2>2. CASE Leaving(s, conn[c], job)
    <3>1. Leaving(s, L, job)
      BY <1>2, <2>2 DEF Leaving, Concluded
    <3> QED
      BY <3>1 DEF Phase
  <2> QED
    BY <1>7, <2>1, <2>2
<1> QED
  BY <1>1, <1>2, <1>3, <1>5, <1>8, CourseNext

LEMMA FinishUpCourse ==
  ASSUME LInv, Course, ~job.bad, NEW c \in Ctl, FinishUp(c)
  PROVE  Course'
<1>1. /\ conn[c].xf = "up" /\ conn[c].fin /\ s' = s /\ dat' = dat
      /\ conn' = [conn EXCEPT ![c] = [Replies(c, <<"226">>) EXCEPT !.xf = "no"]]
      /\ job' = [job EXCEPT !.did = @ + 1]
  BY DEF FinishUp
<1>2. PICK L : Concluded(c, L) /\ conn' = [conn EXCEPT ![c] = L]
  <2>1. PICK rs \in Seq(Codes) : rs = <<"226">>
    BY ReplyCodes
  <2>2. PICK L \in Link : Concluded(c, L) /\ L = [Replies(c, rs) EXCEPT !.xf = "no"]
    BY <1>1, <2>1, LastOne
  <2>3. conn' = [conn EXCEPT ![c] = L]
    BY <1>1, <2>1, <2>2
  <2> QED
    BY <2>2, <2>3
<1>3. c = s.cpcb /\ c # None /\ conn'[c] = L
  BY <1>2 DEF Concluded, LInv, Typed
<1>4. PICK j : j = job'
  OBVIOUS
<1>5. /\ j.op = job.op /\ j.waiting = job.waiting /\ j.src = job.src /\ j.size = job.size
      /\ j.got = job.got /\ j.did = job.did + 1
  BY <1>1, <1>4 DEF LInv, Typed, Task
<1>6. PICK D : D = dat[s.dpcb]
  OBVIOUS
<1>7. /\ job.waiting /\ job.op = "STOR" /\ Suits(s, job) /\ job.got + job.src = job.size
      /\ conn[c].bye = FALSE /\ s.cs = "XFERING" /\ job.did = 0 /\ s.dpcb = None /\ job.src = 0
      /\ conn[c].cmds = <<>> /\ conn[c].reps = <<>>
  <2>1. Phase(s, conn[c], D, job)
    BY <1>3, <1>6, CourseNow
  <2>2. conn[c].fin # FALSE
    BY <1>1
  <2>3. Storing(s, conn[c], D, job)
    BY <1>1, <2>1 DEF Phase, Opening, Doing, Entering, Preparing, Calling, Fetching, Leaving,
                      Sync, Quiet
  <2> QED
    BY <1>1, <2>2, <2>3 DEF Storing
<1>8. Suits(s, j)
  BY <1>5, <1>7 DEF Suits
<1>9. j.did = 1 /\ L.reps = <<"226">> /\ j.got + j.src = j.size
  BY <1>2, <1>5, <1>7 DEF Concluded
<1>10. Storing(s, L, D, j)
  BY <1>2, <1>5, <1>7, <1>8, <1>9 DEF Storing, Concluded
<1> QED
  BY <1>1, <1>2, <1>3, <1>4, <1>6, <1>10, CourseNext DEF Phase

--------------------------------------------------------------------------------

LEMMA NextCourse ==
  ASSUME LInv, Course, Patient, [Next]_vars
  PROVE  Course'
<1>1. CASE UNCHANGED vars
  <2>1. s' = s /\ conn' = conn /\ dat' = dat /\ job' = job
    BY <1>1 DEF vars
  <2>2. CASE job.bad
    BY <2>1, <2>2, CourseNext
  <2>3. CASE ~job.bad
    BY <2>1, <2>3, CourseNow, CourseNext
  <2> QED
    BY <2>2, <2>3
<1>2. CASE \E op \in AllJobs : Start(op)
  BY <1>2, StartCourse
<1>3. CASE Collect
  BY <1>3, CollectCourse
<1>4. CASE \/ CancelJob \/ CancelListing \/ CancelMedia
           \/ \E c \in Ctl : CtlErr(c) \/ Unsent(c) \/ FailXfer(c) \/ Refuse(c) \/ Wild(c)
           \/ \E d \in Dat : DataErr(d)
  BY <1>4, FaultBad, CourseNext
<1>5. CASE job.bad /\ (\/ \E c \in Ctl : CtlStep(c) \/ ServerStep(c)
                       \/ \E d \in Dat : DataStep(d))
  BY <1>5, OnceBad, CourseNext
<1>6. ASSUME ~job.bad, NEW c \in Ctl, CtlStep(c) \/ ServerStep(c)
      PROVE  Course'
  <2>1. ~FailXfer(c) => Course'
    BY <1>6, CtlConnectedCourse, CtlRecvCourse, CtlEofCourse, AgreeCourse, FinishDownCourse,
       FinishUpCourse DEF CtlStep, ServerStep
  <2> QED
    BY <1>4, <2>1
<1>7. ASSUME ~job.bad, NEW d \in Dat, DataStep(d)
      PROVE  Course'
  BY <1>7, DataConnectedCourse, DataRecvCourse, DataEofCourse, DataSentCourse DEF DataStep
<1> QED
  BY <1>1, <1>2, <1>3, <1>4, <1>5, <1>6, <1>7 DEF Next

LEMMA WInductive == ASSUME Patient PROVE Spec => [](LInv /\ Course)
<1>1. Init => LInv /\ Course
  <2> SUFFICES ASSUME Init PROVE LInv /\ Course
    OBVIOUS
  <2>1. LInv
    BY InitIInv, InitLedger DEF LInv
  <2>2. s.cpcb = None /\ ~job.waiting
    BY DEF Init, NewSession, NoJob
  <2> QED
    BY <2>1, <2>2 DEF Course
<1>2. LInv /\ Course /\ [Next]_vars => LInv' /\ Course'
  BY NextLInv, NextCourse
<1> QED
  BY <1>1, <1>2, PTL DEF Spec

\* The users are right to look at nothing but control_pcb, as long as no command is
\* refused, no connection breaks, memory and disk last and nobody cancels: when they find
\* it NULL, the server has carried out the command of the job, once, and every block of
\* the file has been moved - although the last reply, the end of the data and the data
\* come in any order, replies may come together and only the first is looked at, and
\* done_fn sends QUIT from within the callback that is told of the end
\* (lwftp_control_process, lwftp_data_recv, lwftp_data_sent; the loops on control_pcb in
\* lv_file_manager.c).
THEOREM JobsAreDone == ASSUME Patient PROVE Spec => []WorkDone
<1>1. LInv /\ Course => WorkDone
  <2> SUFFICES ASSUME Course, job.waiting, s.cpcb = None, ~job.bad
               PROVE  job.did = 1 /\ job.got = Asked
    BY DEF WorkDone
  <2>1. Finished(job)
    BY CourseNow
  <2> QED
    BY <2>1 DEF Finished, Due, Asked
<1> QED
  BY <1>1, WInductive, PTL
================================================================================
