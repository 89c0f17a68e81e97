------------------------------- MODULE Ftps_proofs -------------------------------
(* Proofs about Ftps, for any number of sessions, data blocks and connections.   *)
EXTENDS Ftps, FiniteSetTheorems, TLAPS

USE FtpsAssumption

-----------------------------------------------------------------------------
(* The inductive invariant.                                                   *)

\* A session points to one of its own blocks, and a listed block has an owner.
Linked == SessionPointsHome /\ \A d \in dataConns : data[d].ctrl \in Sess

IInv == TypeOK /\ Linked /\ CountsExact

\* A listed block that loses its session in this step was not the one the session
\* pointed to.
LeavesReplaced ==
  \A d \in dataConns : ~data[d].stale /\ data'[d].stale => ctrl[data[d].ctrl].data # d

\* What every step keeps.
Kept == IInv' /\ LeavesReplaced

-----------------------------------------------------------------------------
(* The records the helpers build are well typed.                              *)

LEMMA Blanks == NewCtrl \in CtrlRec /\ NewData \in DataRec
                /\ FreePcb \in PcbRec /\ Quiet \in OutRec
  BY DEF NewCtrl, CtrlRec, States, NewData, DataRec, FreePcb, PcbRec, Quiet, OutRec

LEMMA OwnedType ==
  ASSUME NEW s \in Sess
  PROVE  LET D == [NewData EXCEPT !.ctrl = s]
             L == [NewData EXCEPT !.ctrl = s, !.listen = TRUE]
         IN /\ D \in DataRec /\ D.ctrl = s /\ ~D.stale
            /\ L \in DataRec /\ L.ctrl = s /\ ~L.stale
<1>1. NewData \in DataRec /\ ~NewData.stale
  BY Blanks DEF NewData
<1>. QED BY <1>1 DEF DataRec

LEMMA DetachedType ==
  ASSUME NEW c \in CtrlRec
  PROVE  Detached(c) \in CtrlRec /\ Detached(c).data = None
  BY DEF Detached, CtrlRec, States

LEMMA WrittenType ==
  ASSUME NEW b \in OutRec
  PROVE  Written(b) \subseteq OutRec
<1>1. [b EXCEPT !.held = TRUE] \in OutRec
  BY DEF OutRec
<1>2. [held |-> FALSE, inFlight |-> TRUE] \in OutRec
  BY DEF OutRec
<1>. QED BY <1>1, <1>2, Zenon DEF Written

LEMMA ReplyType ==
  ASSUME TypeOK, NEW s, Reply(s) \/ Reply2(s)
  PROVE  out' \in [Sess -> OutRec]
<1>1. ASSUME NEW b \in OutRec PROVE [out EXCEPT ![s] = b] \in [Sess -> OutRec]
  BY DEF TypeOK
<1>2. CASE s \in Sess
  <2>1. out[s] \in OutRec
    BY <1>2 DEF TypeOK
  <2>2. CASE Reply(s)
    BY <2>1, <2>2, <1>1, WrittenType, Zenon DEF Reply
  <2>3. CASE Reply2(s)
    <3>1. PICK b1 \in Written(out[s]) : \E b2 \in Written(b1) : out' = [out EXCEPT ![s] = b2]
      BY <2>3 DEF Reply2
    <3>2. b1 \in OutRec
      BY <3>1, <2>1, WrittenType, Zenon
    <3>. QED BY <3>1, <3>2, <1>1, WrittenType, Zenon
  <2>. QED BY <2>2, <2>3
<1>3. CASE s \notin Sess
  <2>1. \A b : [out EXCEPT ![s] = b] = out
    BY <1>3 DEF TypeOK
  <2>. QED BY <2>1, Zenon DEF Reply, Reply2, TypeOK
<1>. QED BY <1>2, <1>3

SaidType == [Sess -> {"none", "150", "226", "failed", "lost"}]

LEMMA SaysType ==
  ASSUME TypeOK, NEW s \in Sess, NEW w \in {"150", "226", "failed", "lost"},
         Says(s, w) \/ SaysEnd(s, w)
  PROVE  said' \in SaidType
  BY DEF TypeOK, Says, SaysEnd, SaidType

LEMMA ShutType ==
  ASSUME TypeOK, NEW p
  PROVE  Shut(p) \in [Conn -> PcbRec]
  BY Blanks DEF TypeOK, Shut

-----------------------------------------------------------------------------
(* Steps that leave the links alone, and steps that close a data connection.   *)

\* The part of a step that concerns neither the links nor the lists.
RestTyped ==
  /\ pcb' \in [Conn -> PcbRec] /\ out' \in [Sess -> OutRec] /\ fault' \in BOOLEAN
  /\ said' \in SaidType /\ mute' \subseteq Sess

\* Sessions C point where the present ones do.
SamePointers(C) == C \in [Sess -> CtrlRec] /\ \A s \in Sess : C[s].data = ctrl[s].data

LEMMA FrameStep ==
  ASSUME IInv, SamePointers(ctrl'), RestTyped,
         data' \in [Data -> DataRec],
         \A d \in Data : data'[d].ctrl = data[d].ctrl /\ data'[d].stale = data[d].stale,
         UNCHANGED <<lists, dataConns, dataCnt, leaked>>
  PROVE  Kept
<1>1. TypeOK'
  BY DEF IInv, TypeOK, RestTyped, SamePointers, SaidType, lists
<1>2. Linked'
  BY DEF IInv, TypeOK, Linked, SessionPointsHome, SamePointers, lists
<1>3. CountsExact'
  BY DEF IInv, CountsExact, lists
<1>4. LeavesReplaced
  BY DEF IInv, TypeOK, LeavesReplaced
<1>. QED BY <1>1, <1>2, <1>3, <1>4 DEF IInv, Kept

LEMMA CloseStep ==
  ASSUME IInv, NEW d \in Data, NEW p, NEW C, SamePointers(C), data[d].ctrl \in Sess,
         DataClose(d, p, C), RestTyped, UNCHANGED lists
  PROVE  Kept
<1>1. CASE d \notin dataConns
  <2>1. ctrl' = C /\ UNCHANGED <<data, dataConns, dataCnt, leaked>>
    BY <1>1 DEF DataClose
  <2>2. data' \in [Data -> DataRec]
    BY <2>1 DEF IInv, TypeOK
  <2>. QED BY <2>1, <2>2, FrameStep
<1>2. CASE d \in dataConns
  <2>. DEFINE s == data[d].ctrl
  <2>1. /\ dataConns' = dataConns \ {d} /\ dataCnt' = dataCnt - 1
        /\ data' = [data EXCEPT ![d] = NewData]
        /\ ctrl' = [C EXCEPT ![s] = Detached(C[s])]
        /\ UNCHANGED leaked
    BY <1>2 DEF DataClose
  <2>2. C[s] \in CtrlRec
    BY DEF SamePointers
  <2>3. ctrl' \in [Sess -> CtrlRec] /\ ctrl'[s].data = None
    BY <2>1, <2>2, DetachedType DEF SamePointers
  <2>4. \A t \in Sess \ {s} : ctrl'[t].data = ctrl[t].data
    BY <2>1 DEF SamePointers
  <2>5. data' \in [Data -> DataRec] /\ \A e \in Data \ {d} : data'[e] = data[e]
    BY <2>1, Blanks DEF IInv, TypeOK
  <2>6. TypeOK'
    BY <2>1, <2>3, <2>5 DEF IInv, TypeOK, RestTyped, SaidType, lists
  <2>7. SessionPointsHome'
    <3>. SUFFICES ASSUME NEW t \in ctrlConns, ctrl'[t].data # None
                  PROVE  LET e == ctrl'[t].data IN
                         e \in (dataConns \cup leaked)' /\ data'[e].ctrl = t /\ ~data'[e].stale
      BY DEF SessionPointsHome, lists
    <3>. DEFINE e == ctrl'[t].data
    <3>1. t \in Sess /\ t # s
      BY <2>3 DEF IInv, TypeOK
    <3>2. e = ctrl[t].data /\ e \in dataConns \cup leaked /\ data[e].ctrl = t /\ ~data[e].stale
      BY <3>1, <2>4 DEF IInv, Linked, SessionPointsHome
    <3>3. e # d /\ e \in Data
      BY <3>1, <3>2 DEF IInv, TypeOK
    <3>. QED BY <3>2, <3>3, <2>1, <2>5
  <2>8. \A e \in dataConns' : data'[e].ctrl \in Sess
    BY <2>1, <2>5 DEF IInv, TypeOK, Linked
  <2>9. CountsExact'
    <3>1. IsFiniteSet(dataConns)
      BY FS_Subset DEF IInv, TypeOK, FtpsAssumption
    <3>2. Cardinality(dataConns \ {d}) = Cardinality(dataConns) - 1
      BY <3>1, <1>2, FS_RemoveElement
    <3>. QED BY <3>2, <2>1 DEF IInv, CountsExact, lists
  <2>10. LeavesReplaced
    <3>1. data'[d] = NewData /\ ~NewData.stale
      BY <2>1 DEF IInv, TypeOK, NewData
    <3>. QED BY <3>1, <2>5 DEF IInv, TypeOK, LeavesReplaced
  <2>. QED BY <2>6, <2>7, <2>8, <2>9, <2>10 DEF IInv, Linked, Kept
<1>. QED BY <1>1, <1>2

-----------------------------------------------------------------------------
(* The transfer engine: ftps_dir_read and ftps_file_send.                      *)

LEMMA CompleteStep ==
  ASSUME IInv, NEW d \in Data, NEW p, NEW C, SamePointers(C), data[d].ctrl \in Sess,
         Complete(d, p, C), UNCHANGED <<lists, fault, mute>>
  PROVE  Kept
<1>. DEFINE s == data[d].ctrl
            E == [C EXCEPT ![s].state = "IDLE", ![s].offset = FALSE]
<1>1. DataClose(d, p, E) /\ Reply(s) /\ SaysEnd(s, "226")
  BY DEF Complete
<1>2. SamePointers(E)
  <2>1. C[s] \in CtrlRec
    BY DEF SamePointers
  <2>2. [C[s] EXCEPT !.state = "IDLE", !.offset = FALSE] \in CtrlRec
    BY <2>1 DEF CtrlRec, States
  <2>3. E = [C EXCEPT ![s] = [C[s] EXCEPT !.state = "IDLE", !.offset = FALSE]]
    BY DEF SamePointers
  <2>. QED BY <2>1, <2>2, <2>3 DEF SamePointers, CtrlRec
<1>3. RestTyped
  BY <1>1, ReplyType, SaysType, ShutType DEF IInv, TypeOK, RestTyped, DataClose
<1>. QED BY <1>1, <1>2, <1>3, CloseStep DEF lists

\* A block as a handler leaves it while its connection goes on.
SameOwner(d, D) == D \in DataRec /\ D.ctrl = data[d].ctrl /\ D.stale = data[d].stale

LEMMA KeepStep ==
  ASSUME IInv, NEW d \in Data, NEW p \in Conn, NEW C, SamePointers(C),
         NEW D, SameOwner(d, D), NEW P \in PcbRec,
         Keep(d, p, C, D, P), UNCHANGED <<lists, fault, mute>>
  PROVE  Kept
<1>1. RestTyped
  BY DEF IInv, TypeOK, RestTyped, SaidType, Keep
<1>2. /\ data' \in [Data -> DataRec]
      /\ \A x \in Data : data'[x].ctrl = data[x].ctrl /\ data'[x].stale = data[x].stale
  BY DEF IInv, TypeOK, Keep, SameOwner
<1>. QED BY <1>1, <1>2, FrameStep DEF Keep, lists

LEMMA SendStep ==
  ASSUME IInv, NEW d \in Data, NEW p \in Conn, NEW C, SamePointers(C),
         NEW D, SameOwner(d, D), NEW P \in PcbRec,
         Send(d, p, C, D, P), UNCHANGED <<lists, fault, mute>>
  PROVE  Kept
<1>1. ASSUME NEW b \in BOOLEAN PROVE SameOwner(d, [D EXCEPT !.sending = b])
  BY DEF SameOwner, DataRec
<1>2. [P EXCEPT !.inFlight = TRUE] \in PcbRec
  BY DEF PcbRec
<1>3. CASE Keep(d, p, C, [D EXCEPT !.sending = FALSE], [P EXCEPT !.inFlight = TRUE])
  BY <1>1, <1>2, <1>3, KeepStep
<1>4. CASE Keep(d, p, C, [D EXCEPT !.sending = TRUE], P)
  BY <1>1, <1>4, KeepStep
<1>. QED BY <1>3, <1>4 DEF Send

LEMMA ProgressStep ==
  ASSUME IInv, NEW d \in Data, data[d].ctrl \in Sess, NEW p \in Conn,
         NEW C, SamePointers(C), NEW D, SameOwner(d, D), NEW P \in PcbRec,
         Progress(d, p, C, D, P), UNCHANGED <<lists, fault, mute>>
  PROVE  Kept
<1>1. ASSUME Send(d, p, C, D, P) PROVE Kept
  BY <1>1, SendStep
<1>2. ASSUME Complete(d, p, C) PROVE Kept
  BY <1>2, CompleteStep
<1>3. ASSUME Keep(d, p, C, D, P) PROVE Kept
  BY <1>3, KeepStep
<1>4. ASSUME DirRead(d, p, C, D, P) PROVE Kept
  <2>. DEFINE D1 == [D EXCEPT !.dleft = @ - 1]
  <2>1. ASSUME D.dleft > 0 PROVE SameOwner(d, D1)
    BY <2>1 DEF SameOwner, DataRec
  <2>2. CASE D.dleft > 0 /\ Send(d, p, C, D1, P)
    BY <2>1, <2>2, SendStep
  <2>3. CASE D.dleft > 0 /\ Keep(d, p, C, D1, P)
    BY <2>1, <2>3, KeepStep
  <2>. HIDE DEF D1
  <2>. QED BY <1>1, <1>2, <1>4, <2>2, <2>3 DEF DirRead, D1
<1>5. ASSUME FileSend(d, p, C, D, P) PROVE Kept
  <2>. DEFINE D1 == [D EXCEPT !.fleft = @ - 1]
              D2 == [D EXCEPT !.fp = "none"]
              C2 == [C EXCEPT ![D.ctrl].offset = FALSE]
  <2>1. ASSUME D.fleft > 0 PROVE SameOwner(d, D1)
    BY <2>1 DEF SameOwner, DataRec
  <2>2. SameOwner(d, D2)
    BY DEF SameOwner, DataRec
  <2>3. SamePointers(C2)
    BY DEF SamePointers, CtrlRec
  <2>4. CASE D.fleft > 0 /\ Send(d, p, C, D1, P)
    BY <2>1, <2>4, SendStep
  <2>5. CASE Keep(d, p, C2, D2, P)
    BY <2>2, <2>3, <2>5, KeepStep
  <2>. HIDE DEF D1, D2, C2
  <2>6. \/ Send(d, p, C, D, P) \/ Complete(d, p, C)
        \/ D.fleft > 0 /\ Send(d, p, C, D1, P)
        \/ Keep(d, p, C2, D2, P)
    BY <1>5 DEF FileSend, D1, D2, C2
  <2>. QED BY <1>1, <1>2, <2>4, <2>5, <2>6
<1>6. DirRead(d, p, C, D, P) \/ FileSend(d, p, C, D, P) \/ Keep(d, p, C, D, P)
  BY DEF Progress
<1>. QED BY <1>3, <1>4, <1>5, <1>6

LEMMA CrashStep == ASSUME IInv, Crash PROVE Kept
<1>1. SamePointers(ctrl') /\ RestTyped
  BY DEF IInv, TypeOK, Crash, SamePointers, RestTyped, SaidType, dataVars
<1>2. data' \in [Data -> DataRec] /\ data' = data
  BY DEF IInv, TypeOK, Crash, dataVars
<1>. QED BY <1>1, <1>2, FrameStep DEF Crash, lists, dataVars

-----------------------------------------------------------------------------
(* The end and the start of a session.                                         *)

LEMMA FiniteLists == TypeOK => IsFiniteSet(ctrlConns) /\ IsFiniteSet(dataConns)
  BY FS_Subset DEF TypeOK, FtpsAssumption

LEMMA EndStep ==
  ASSUME IInv, NEW s \in ctrlConns, NEW block \in CtrlRec, EndSession(s, block)
  PROVE  Kept
<1>. DEFINE d == ctrl[s].data
            p == ctrl[s].data_pcb
            base == IF d \in dataConns THEN [data EXCEPT ![d] = NewData] ELSE data
<1>1. CASE Crash
  BY <1>1, CrashStep
<1>2. CASE ~(d # None /\ Bogus(p))
  <2>1. /\ ctrlConns' = ctrlConns \ {s} /\ ctrlCnt' = ctrlCnt - 1
        /\ ctrl' = [ctrl EXCEPT ![s] = block]
        /\ pcb' = (IF d = None THEN pcb ELSE Shut(p))
        /\ dataConns' = dataConns \ {d}
        /\ dataCnt' = (IF d \in dataConns THEN dataCnt - 1 ELSE dataCnt)
        /\ data' = [x \in Data |-> IF base[x].ctrl = s THEN [base[x] EXCEPT !.stale = TRUE]
                                                       ELSE base[x]]
        /\ out' = [out EXCEPT ![s] = Quiet]
        /\ said' = [said EXCEPT ![s] = "none"]
        /\ mute' = mute \ {s}
        /\ UNCHANGED <<leaked, fault>>
    BY <1>2 DEF EndSession
  <2>2. s \in Sess /\ base \in [Data -> DataRec]
    BY Blanks DEF IInv, TypeOK
  <2>3. ASSUME NEW D \in DataRec PROVE [D EXCEPT !.stale = TRUE] \in DataRec
                                        /\ [D EXCEPT !.stale = TRUE].ctrl = D.ctrl
    BY DEF DataRec
  <2>. HIDE DEF base
  <2>4. data' \in [Data -> DataRec]
    BY <2>1, <2>2, <2>3
  <2>5. \A x \in Data : data'[x].ctrl = base[x].ctrl
    BY <2>1, <2>2, <2>3
  <2>6. \A x \in Data : base[x].ctrl # s => data'[x] = base[x]
    BY <2>1
  <2>7. pcb' \in [Conn -> PcbRec]
    BY <2>1, ShutType DEF IInv, TypeOK
  <2>8. TypeOK'
    BY <2>1, <2>2, <2>4, <2>7, Blanks DEF IInv, TypeOK
  <2>9. SessionPointsHome'
    <3>. SUFFICES ASSUME NEW t \in ctrlConns', ctrl'[t].data # None
                  PROVE  LET e == ctrl'[t].data IN
                         e \in (dataConns \cup leaked)' /\ data'[e].ctrl = t /\ ~data'[e].stale
      BY DEF SessionPointsHome
    <3>. DEFINE e == ctrl[t].data
    <3>1. t \in Sess /\ t \in ctrlConns /\ t # s /\ ctrl'[t] = ctrl[t]
      BY <2>1 DEF IInv, TypeOK
    <3>2. e # None /\ e \in dataConns \cup leaked /\ data[e].ctrl = t /\ ~data[e].stale
      BY <3>1 DEF IInv, Linked, SessionPointsHome
    <3>3. e \in Data /\ (d # None => data[d].ctrl = s)
      BY <3>2 DEF IInv, TypeOK, Linked, SessionPointsHome
    <3>4. e # d
      BY <3>1, <3>2, <3>3
    <3>5. base[e] = data[e]
      BY <3>4 DEF base, IInv, TypeOK
    <3>. QED BY <3>1, <3>2, <3>3, <3>4, <3>5, <2>1, <2>6
  <2>10. \A x \in dataConns' : data'[x].ctrl \in Sess
    <3>. SUFFICES ASSUME NEW x \in dataConns' PROVE data'[x].ctrl \in Sess
      OBVIOUS
    <3>1. x \in dataConns /\ x # d /\ x \in Data
      BY <2>1 DEF IInv, TypeOK
    <3>2. base[x] = data[x]
      BY <3>1 DEF base, IInv, TypeOK
    <3>. QED BY <3>1, <3>2, <2>5 DEF IInv, Linked
  <2>11. CountsExact'
    <3>1. Cardinality(ctrlConns \ {s}) = Cardinality(ctrlConns) - 1
      BY FiniteLists, FS_RemoveElement DEF IInv
    <3>2. Cardinality(dataConns \ {d})
            = IF d \in dataConns THEN Cardinality(dataConns) - 1 ELSE Cardinality(dataConns)
      BY FiniteLists, FS_RemoveElement DEF IInv
    <3>. QED BY <3>1, <3>2, <2>1 DEF IInv, CountsExact
  <2>12. LeavesReplaced
    <3>. SUFFICES ASSUME NEW x \in dataConns, ~data[x].stale, data'[x].stale
                  PROVE  ctrl[data[x].ctrl].data # x
      BY DEF LeavesReplaced
    <3>1. x \in Data
      BY DEF IInv, TypeOK
    <3>2. CASE x = d
      <4>1. base[x] = NewData
        BY <3>1, <3>2 DEF base, IInv, TypeOK
      <4>2. NewData.ctrl # s /\ ~NewData.stale
        BY <2>2 DEF NewData, FtpsAssumption
      <4>. QED BY <3>1, <4>1, <4>2, <2>6
    <3>3. CASE x # d
      <4>1. base[x] = data[x]
        BY <3>1, <3>3 DEF base, IInv, TypeOK
      <4>. QED BY <3>1, <3>3, <4>1, <2>6
    <3>. QED BY <3>2, <3>3
  <2>. QED BY <2>8, <2>9, <2>10, <2>11, <2>12 DEF IInv, Linked, Kept
<1>. QED BY <1>1, <1>2 DEF EndSession

LEMMA AcceptStep ==
  ASSUME IInv, NEW s \in Sess, Accept(s), s \in ctrlConns'
  PROVE  Kept
<1>1. /\ s \notin ctrlConns
      /\ ctrlConns' = ctrlConns \cup {s} /\ ctrlCnt' = ctrlCnt + 1
      /\ ctrl' = [ctrl EXCEPT ![s] = NewCtrl]
      /\ UNCHANGED <<data, dataConns, dataCnt, leaked, pcb, fault, said, mute>>
  BY DEF Accept, dataVars, lists
<1>2. out' \in [Sess -> OutRec]
  BY ReplyType DEF IInv, Accept, lists
<1>3. TypeOK'
  <2>1. ctrl' \in [Sess -> CtrlRec] /\ ctrlConns' \subseteq Sess /\ ctrlCnt' \in Int
    BY <1>1, Blanks DEF IInv, TypeOK
  <2>. QED BY <1>1, <1>2, <2>1 DEF IInv, TypeOK
<1>4. Linked'
  BY <1>1 DEF IInv, TypeOK, Linked, SessionPointsHome, NewCtrl
<1>5. Cardinality(ctrlConns \cup {s}) = Cardinality(ctrlConns) + 1
  BY <1>1, FiniteLists, FS_AddElement DEF IInv
<1>6. CountsExact'
  BY <1>1, <1>5 DEF IInv, CountsExact
<1>7. LeavesReplaced
  BY <1>1 DEF LeavesReplaced
<1>. QED BY <1>3, <1>4, <1>6, <1>7 DEF IInv, Kept

\* A block that nothing points to is linked for session s.
Fresh == Data \ (dataConns \cup leaked)

LEMMA LinkStep ==
  ASSUME IInv, NEW s \in ctrlConns, NEW d \in Fresh, NEW D \in DataRec,
         D.ctrl = s, ~D.stale,
         data' = [data EXCEPT ![d] = D],
         ctrl' \in [Sess -> CtrlRec], ctrl'[s].data = d,
         \A t \in Sess \ {s} : ctrl'[t] = ctrl[t],
         \/ /\ dataConns' = dataConns \cup {d} /\ dataCnt' = dataCnt + 1
            /\ UNCHANGED leaked
         \/ leaked' = leaked \cup {d} /\ UNCHANGED <<dataConns, dataCnt>>,
         RestTyped, UNCHANGED lists
  PROVE  Kept
<1>1. s \in Sess /\ d \in Data /\ d \notin dataConns /\ d \notin leaked
  BY DEF IInv, TypeOK, Fresh
<1>2. data' \in [Data -> DataRec] /\ data'[d] = D /\ \A x \in Data \ {d} : data'[x] = data[x]
  BY <1>1 DEF IInv, TypeOK
<1>3. TypeOK'
  <2>1. dataConns' \subseteq Data /\ leaked' \subseteq Data /\ dataCnt' \in Int
    BY <1>1 DEF IInv, TypeOK
  <2>. QED BY <1>2, <2>1 DEF IInv, TypeOK, RestTyped, SaidType, lists
<1>4. SessionPointsHome'
  <2>. SUFFICES ASSUME NEW t \in ctrlConns, ctrl'[t].data # None
                PROVE  LET e == ctrl'[t].data IN
                       e \in (dataConns \cup leaked)' /\ data'[e].ctrl = t /\ ~data'[e].stale
    BY DEF SessionPointsHome, lists
  <2>1. CASE t = s
    BY <2>1, <1>2
  <2>2. CASE t # s
    <3>1. t \in Sess /\ ctrl'[t] = ctrl[t]
      BY <2>2 DEF IInv, TypeOK
    <3>2. LET e == ctrl[t].data IN
          e \in dataConns \cup leaked /\ data[e].ctrl = t /\ ~data[e].stale
      BY <3>1 DEF IInv, Linked, SessionPointsHome
    <3>. QED BY <3>1, <3>2, <1>1, <1>2 DEF IInv, TypeOK
  <2>. QED BY <2>1, <2>2
<1>5. \A x \in dataConns' : data'[x].ctrl \in Sess
  BY <1>1, <1>2 DEF IInv, TypeOK, Linked
<1>6. CountsExact'
  <2>1. Cardinality(dataConns \cup {d}) = Cardinality(dataConns) + 1
    BY <1>1, FiniteLists, FS_AddElement DEF IInv
  <2>. QED BY <2>1 DEF IInv, CountsExact, lists
<1>7. LeavesReplaced
  BY <1>1, <1>2 DEF IInv, TypeOK, LeavesReplaced
<1>. QED BY <1>3, <1>4, <1>5, <1>6, <1>7 DEF IInv, Linked, Kept

\* A session forgets its data connection and nothing else is touched.
LEMMA UnlinkStep ==
  ASSUME IInv, NEW s \in ctrlConns,
         ctrl' \in [Sess -> CtrlRec], ctrl'[s].data = None,
         \A t \in Sess \ {s} : ctrl'[t] = ctrl[t],
         UNCHANGED <<data, dataConns, dataCnt, leaked>>, RestTyped, UNCHANGED lists
  PROVE  Kept
<1>1. TypeOK'
  BY DEF IInv, TypeOK, RestTyped, SaidType, lists
<1>2. Linked'
  BY DEF IInv, TypeOK, Linked, SessionPointsHome, lists
<1>3. CountsExact'
  BY DEF IInv, CountsExact, lists
<1>4. LeavesReplaced
  BY DEF LeavesReplaced
<1>. QED BY <1>1, <1>2, <1>3, <1>4 DEF IInv, Kept

-----------------------------------------------------------------------------
(* The control connection: callbacks and commands.                             *)

\* A step that changes a session's other fields, its reply and what the client knows.
LEMMA ReplyStep ==
  ASSUME IInv, SamePointers(ctrl'), UNCHANGED <<lists, dataVars, fault, mute>>,
         out' \in [Sess -> OutRec], said' \in SaidType
  PROVE  Kept
<1>1. RestTyped /\ data' \in [Data -> DataRec]
  BY DEF IInv, TypeOK, RestTyped, dataVars
<1>. QED BY <1>1, FrameStep DEF dataVars

LEMMA SetStateSame ==
  ASSUME TypeOK, NEW s \in Sess, NEW st \in States
  PROVE  SamePointers([ctrl EXCEPT ![s].state = st])
<1>1. ctrl[s] \in CtrlRec
  BY DEF TypeOK
<1>2. [ctrl[s] EXCEPT !.state = st] \in CtrlRec
  BY <1>1 DEF CtrlRec
<1>. QED BY <1>1, <1>2 DEF SamePointers, TypeOK, CtrlRec

LEMMA TimeoutSame ==
  ASSUME TypeOK, NEW s \in Sess, NEW n \in 0..MaxPoll + 1
  PROVE  SamePointers([ctrl EXCEPT ![s].timeout = n])
<1>1. ctrl[s] \in CtrlRec
  BY DEF TypeOK
<1>2. [ctrl[s] EXCEPT !.timeout = n] \in CtrlRec
  BY <1>1 DEF CtrlRec
<1>. QED BY <1>1, <1>2 DEF SamePointers, TypeOK, CtrlRec

LEMMA OffsetSame ==
  ASSUME TypeOK, NEW s \in Sess, NEW b \in BOOLEAN
  PROVE  SamePointers([ctrl EXCEPT ![s].offset = b])
<1>1. ctrl[s] \in CtrlRec
  BY DEF TypeOK
<1>2. [ctrl[s] EXCEPT !.offset = b] \in CtrlRec
  BY <1>1 DEF CtrlRec
<1>. QED BY <1>1, <1>2 DEF SamePointers, TypeOK, CtrlRec

LEMMA Same == TypeOK => SamePointers(ctrl) /\ said \in SaidType /\ out \in [Sess -> OutRec]
  BY DEF TypeOK, SamePointers, SaidType

\* The freed block of a session, with or without one more count.
LEMMA ReapedType == Reaped \in CtrlRec /\ Reaped.data = None /\ Reaped.data_pcb = None
                     /\ Reaped.state = "IDLE"
<1>1. 1 \in 0..MaxPoll + 1
  BY FtpsAssumption
<1>2. NewCtrl.timeout + 1 = 1
  BY DEF NewCtrl
<1>3. Reaped = [NewCtrl EXCEPT !.timeout = 1]
  BY <1>2 DEF Reaped
<1>4. Reaped \in CtrlRec
  BY <1>1, <1>3, Blanks DEF CtrlRec
<1>. QED BY <1>3, <1>4 DEF NewCtrl

LEMMA SentStep ==
  ASSUME IInv, NEW s \in ctrlConns, CtrlSent(s)
  PROVE  Kept
<1>1. CASE EndSession(s, NewCtrl)
  BY <1>1, EndStep, Blanks
<1>2. CASE /\ \E more \in BOOLEAN :
                LET b == [out[s] EXCEPT !.inFlight = more]
                IN \E w \in (IF b.held THEN Written(b) ELSE {b}) :
                      out' = [out EXCEPT ![s] = w]
           /\ UNCHANGED <<ctrl, lists, dataVars, fault, said, mute>>
  <2>1. PICK more \in BOOLEAN :
          LET b == [out[s] EXCEPT !.inFlight = more]
          IN \E w \in (IF b.held THEN Written(b) ELSE {b}) : out' = [out EXCEPT ![s] = w]
    BY <1>2
  <2>. DEFINE b == [out[s] EXCEPT !.inFlight = more]
  <2>2. out[s] \in OutRec /\ out \in [Sess -> OutRec]
    BY DEF IInv, TypeOK
  <2>3. b \in OutRec
    BY <2>2 DEF OutRec
  <2>4. PICK w \in (IF b.held THEN Written(b) ELSE {b}) : out' = [out EXCEPT ![s] = w]
    BY <2>1
  <2>. HIDE DEF b
  <2>5. w \in OutRec
    BY <2>3, <2>4, WrittenType
  <2>6. out' \in [Sess -> OutRec]
    BY <2>2, <2>4, <2>5
  <2>7. SamePointers(ctrl') /\ said' \in SaidType
    BY <1>2, Same DEF IInv
  <2>. QED BY <1>2, <2>6, <2>7, ReplyStep
<1>. QED BY <1>1, <1>2 DEF CtrlSent

LEMMA PollStep ==
  ASSUME IInv, NEW s \in ctrlConns, Poll(s)
  PROVE  Kept
<1>. DEFINE d == ctrl[s].data
            p == ctrl[s].data_pcb
            C == [ctrl EXCEPT ![s].timeout = 1]
<1>0. s \in Sess /\ ctrl[s] \in CtrlRec /\ TypeOK
  BY DEF IInv, TypeOK
<1>1. CASE EndSession(s, Reaped)
  BY <1>1, EndStep, ReapedType
<1>2. CASE d = None /\ ctrl[s].timeout < MaxPoll /\ Count(s)
  <2>1. ctrl[s].timeout + 1 \in 0..MaxPoll + 1
    BY <1>0, <1>2 DEF CtrlRec, FtpsAssumption
  <2>2. ctrl' = [ctrl EXCEPT ![s].timeout = ctrl[s].timeout + 1]
    BY <1>0, <1>2 DEF Count
  <2>3. SamePointers(ctrl')
    BY <1>0, <2>1, <2>2, TimeoutSame
  <2>. QED BY <1>0, <1>2, <2>3, Same, ReplyStep DEF Count
<1>3. SamePointers(C)
  BY <1>0, TimeoutSame DEF FtpsAssumption
<1>4. CASE ctrl' = C /\ UNCHANGED <<lists, dataVars, out, fault, said, mute>>
  BY <1>0, <1>3, <1>4, Same, ReplyStep
<1>5. CASE Crash
  BY <1>5, CrashStep
<1>6. CASE /\ d # None /\ p # None /\ UNCHANGED <<lists, fault, mute>>
           /\ Progress(d, p, C, data[d], pcb[p])
  <2>1. d \in dataConns \cup leaked /\ data[d].ctrl = s
    BY <1>6 DEF IInv, Linked, SessionPointsHome
  <2>2. d \in Data /\ p \in Conn /\ pcb[p] \in PcbRec /\ SameOwner(d, data[d])
    BY <1>0, <1>6, <2>1 DEF TypeOK, CtrlRec, SameOwner
  <2>. HIDE DEF d, p, C
  <2>. QED BY <1>0, <1>3, <1>6, <2>1, <2>2, ProgressStep
<1>7. \/ EndSession(s, Reaped) \/ Crash
      \/ d = None /\ ctrl[s].timeout < MaxPoll /\ Count(s)
      \/ ctrl' = C /\ UNCHANGED <<lists, dataVars, out, fault, said, mute>>
      \/ /\ d # None /\ p # None /\ UNCHANGED <<lists, fault, mute>>
         /\ Progress(d, p, C, data[d], pcb[p])
  <2>. HIDE DEF C
  <2>1. CASE d = None /\ ctrl[s].timeout >= MaxPoll
    BY <2>1 DEF Poll, C
  <2>2. CASE d = None /\ ctrl[s].timeout < MaxPoll
    BY <2>2, <1>0 DEF Poll, C, CtrlRec, FtpsAssumption
  <2>3. CASE d # None
    BY <2>3 DEF Poll, C
  <2>4. ctrl[s].timeout \in Int /\ MaxPoll \in Int
    BY <1>0 DEF CtrlRec, FtpsAssumption
  <2>. QED BY <2>1, <2>2, <2>3, <2>4
<1>. QED BY <1>1, <1>2, <1>4, <1>5, <1>6, <1>7

LEMMA StayStep == ASSUME IInv, UNCHANGED vars PROVE Kept
<1>1. SamePointers(ctrl') /\ RestTyped /\ data' \in [Data -> DataRec] /\ data' = data
  BY Same DEF IInv, TypeOK, RestTyped, SaidType, vars
<1>. QED BY <1>1, FrameStep DEF vars, lists

LEMMA ControlStep ==
  ASSUME IInv, NEW s \in Sess, Control(s)
  PROVE  Kept
<1>1. CASE Accept(s)
  <2>1. CASE s \in ctrlConns'
    BY <1>1, <2>1, AcceptStep
  <2>2. CASE s \notin ctrlConns'
    BY <1>1, <2>2, StayStep DEF Accept, vars, lists, dataVars
  <2>. QED BY <2>1, <2>2
<1>2. CASE CtrlEof(s)
  BY <1>2, EndStep, Blanks DEF CtrlEof, Hears, Usable
<1>3. CASE CtrlErr(s)
  BY <1>3, EndStep, Blanks DEF CtrlErr, Usable
<1>4. CASE CtrlSent(s)
  BY <1>4, SentStep DEF CtrlSent, Hears, Usable
<1>5. CASE Poll(s)
  BY <1>5, PollStep DEF Poll, Usable
<1>6. CASE Vanish(s)
  <2>1. SamePointers(ctrl') /\ data' = data
    BY <1>6, Same DEF IInv, Vanish, dataVars
  <2>2. RestTyped /\ data' \in [Data -> DataRec]
    BY <1>6 DEF IInv, TypeOK, RestTyped, SaidType, Vanish, dataVars
  <2>. QED BY <1>6, <2>1, <2>2, FrameStep DEF Vanish, dataVars
<1>. QED BY <1>1, <1>2, <1>3, <1>4, <1>5, <1>6 DEF Control

-----------------------------------------------------------------------------
(* The commands.                                                               *)

LEMMA AbrtStep ==
  ASSUME IInv, NEW s \in ctrlConns, CmdAbrt(s)
  PROVE  Kept
<1>. DEFINE d == ctrl[s].data
            p == ctrl[s].data_pcb
<1>0. s \in Sess /\ TypeOK
  BY DEF IInv, TypeOK
<1>1. CASE d = None
  BY <1>0, <1>1, Same, ReplyType, ReplyStep DEF CmdAbrt, OnlyCtrl
<1>2. CASE Crash
  BY <1>2, CrashStep
<1>3. CASE /\ d # None /\ DataClose(d, p, ctrl) /\ Reply(s) /\ SaysEnd(s, "failed")
           /\ UNCHANGED <<lists, fault, mute>>
  <2>1. d \in Data /\ data[d].ctrl \in Sess
    BY <1>0, <1>3 DEF IInv, TypeOK, Linked, SessionPointsHome
  <2>2. RestTyped
    BY <1>0, <1>3, ReplyType, SaysType, ShutType DEF TypeOK, RestTyped, DataClose
  <2>. HIDE DEF d, p
  <2>. QED BY <1>0, <1>3, <2>1, <2>2, Same, CloseStep
<1>. QED BY <1>1, <1>2, <1>3 DEF CmdAbrt

LEMMA PasvStep ==
  ASSUME IInv, NEW s \in ctrlConns, CmdPasv(s)
  PROVE  Kept
<1>0. s \in Sess /\ TypeOK /\ ctrl[s] \in CtrlRec
  BY DEF IInv, TypeOK
<1>1. UNCHANGED <<lists, fault, said, mute>>
  BY DEF CmdPasv
<1>2. ASSUME NEW d \in Fresh,
             data' = [data EXCEPT ![d] = [NewData EXCEPT !.ctrl = s, !.listen = TRUE]],
             ctrl' = [ctrl EXCEPT ![s].data = d, ![s].pasv = TRUE],
             dataConns' = dataConns \cup {d} /\ dataCnt' = dataCnt + 1,
             Reply(s), UNCHANGED <<leaked, pcb>>
      PROVE  Kept
  <2>. DEFINE D == [NewData EXCEPT !.ctrl = s, !.listen = TRUE]
  <2>1. D \in DataRec /\ D.ctrl = s /\ ~D.stale
    BY <1>0, OwnedType
  <2>2. [ctrl[s] EXCEPT !.data = d, !.pasv = TRUE] \in CtrlRec
    BY <1>0 DEF CtrlRec, Fresh
  <2>3. /\ ctrl' \in [Sess -> CtrlRec] /\ ctrl'[s].data = d
        /\ \A t \in Sess \ {s} : ctrl'[t] = ctrl[t]
    BY <1>0, <1>2, <2>2 DEF TypeOK, CtrlRec
  <2>4. RestTyped
    BY <1>0, <1>1, <1>2, ReplyType DEF TypeOK, RestTyped, SaidType
  <2>. HIDE DEF D
  <2>. QED BY <1>1, <1>2, <2>1, <2>3, <2>4, LinkStep DEF D
<1>3. ASSUME NEW d \in Fresh,
             data' = [data EXCEPT ![d] = [NewData EXCEPT !.ctrl = s]],
             ctrl' = [ctrl EXCEPT ![s].data = d],
             leaked' = leaked \cup {d},
             UNCHANGED <<dataConns, dataCnt, pcb, out>>
      PROVE  Kept
  <2>. DEFINE D == [NewData EXCEPT !.ctrl = s]
  <2>1. D \in DataRec /\ D.ctrl = s /\ ~D.stale
    BY <1>0, OwnedType
  <2>2. [ctrl[s] EXCEPT !.data = d] \in CtrlRec
    BY <1>0 DEF CtrlRec, Fresh
  <2>3. /\ ctrl' \in [Sess -> CtrlRec] /\ ctrl'[s].data = d
        /\ \A t \in Sess \ {s} : ctrl'[t] = ctrl[t]
    BY <1>0, <1>3, <2>2 DEF TypeOK, CtrlRec
  <2>4. RestTyped
    BY <1>0, <1>1, <1>3 DEF TypeOK, RestTyped, SaidType
  <2>. HIDE DEF D
  <2>. QED BY <1>1, <1>3, <2>1, <2>3, <2>4, LinkStep DEF D
<1>4. CASE ctrl' = [ctrl EXCEPT ![s].data = None] /\ Reply(s) /\ UNCHANGED dataVars
  <2>1. [ctrl[s] EXCEPT !.data = None] \in CtrlRec
    BY <1>0 DEF CtrlRec
  <2>2. /\ ctrl' \in [Sess -> CtrlRec] /\ ctrl'[s].data = None
        /\ \A t \in Sess \ {s} : ctrl'[t] = ctrl[t]
    BY <1>0, <1>4, <2>1 DEF TypeOK, CtrlRec
  <2>3. RestTyped
    BY <1>0, <1>1, <1>4, ReplyType DEF TypeOK, RestTyped, SaidType, dataVars
  <2>. QED BY <1>1, <1>4, <2>2, <2>3, UnlinkStep DEF dataVars
<1>. QED BY <1>2, <1>3, <1>4 DEF CmdPasv, Fresh

LEMMA OpenedType ==
  ASSUME NEW D \in DataRec, NEW k \in Transfer, NEW n \in 0..MaxLeft
  PROVE  /\ Opened(D, k, n) \in DataRec
         /\ Opened(D, k, n).ctrl = D.ctrl /\ Opened(D, k, n).stale = D.stale
<1>1. /\ [D EXCEPT !.dp = TRUE, !.dleft = n] \in DataRec
      /\ [D EXCEPT !.dp = TRUE, !.dleft = n].ctrl = D.ctrl
      /\ [D EXCEPT !.dp = TRUE, !.dleft = n].stale = D.stale
  BY DEF DataRec
<1>2. /\ [D EXCEPT !.fp = "rd", !.fleft = n] \in DataRec
      /\ [D EXCEPT !.fp = "rd", !.fleft = n].ctrl = D.ctrl
      /\ [D EXCEPT !.fp = "rd", !.fleft = n].stale = D.stale
  BY DEF DataRec
<1>3. /\ [D EXCEPT !.fp = "wr"] \in DataRec
      /\ [D EXCEPT !.fp = "wr"].ctrl = D.ctrl /\ [D EXCEPT !.fp = "wr"].stale = D.stale
  BY DEF DataRec
<1>4. CASE k = "LIST"
  BY <1>1, <1>4 DEF Opened
<1>5. CASE k = "RETR"
  BY <1>2, <1>5 DEF Opened
<1>6. CASE k = "STOR"
  BY <1>3, <1>6 DEF Opened
<1>. QED BY <1>4, <1>5, <1>6 DEF Transfer

LEMMA BeginStep ==
  ASSUME IInv, NEW s \in ctrlConns, NEW k \in Transfer, Begin(s, k),
         UNCHANGED <<lists, fault, mute>>
  PROVE  Kept
<1>0. s \in Sess /\ TypeOK /\ ctrl[s] \in CtrlRec
  BY DEF IInv, TypeOK
<1>1. CASE /\ SetState(s, k)
           /\ IF ctrl[s].data = None THEN UNCHANGED data
              ELSE \E n \in 0..MaxLeft :
                     data' = [data EXCEPT ![ctrl[s].data] = Opened(data[ctrl[s].data], k, n)]
           /\ Reply(s) /\ Says(s, "150")
           /\ UNCHANGED <<dataConns, dataCnt, leaked, pcb>>
  <2>1. SamePointers(ctrl')
    BY <1>0, <1>1, SetStateSame DEF SetState, Transfer, States
  <2>2. RestTyped
    BY <1>0, <1>1, ReplyType, SaysType DEF TypeOK, RestTyped
  <2>3. /\ data' \in [Data -> DataRec]
        /\ \A x \in Data : data'[x].ctrl = data[x].ctrl /\ data'[x].stale = data[x].stale
    <3>1. CASE UNCHANGED data
      BY <1>0, <3>1 DEF TypeOK
    <3>2. CASE ctrl[s].data # None
      <4>. DEFINE d == ctrl[s].data
      <4>1. d \in Data /\ data[d] \in DataRec
        BY <1>0, <3>2 DEF TypeOK, CtrlRec
      <4>2. PICK n \in 0..MaxLeft : data' = [data EXCEPT ![d] = Opened(data[d], k, n)]
        BY <1>1, <3>2
      <4>. HIDE DEF d
      <4>. QED BY <1>0, <4>1, <4>2, OpenedType DEF TypeOK
    <3>. QED BY <1>1, <3>1, <3>2
  <2>. QED BY <1>1, <2>1, <2>2, <2>3, FrameStep
<1>2. ASSUME NEW d \in Fresh, NEW n \in 0..MaxLeft, NEW p \in Conn,
             data' = [data EXCEPT ![d] = Opened([NewData EXCEPT !.ctrl = s], k, n)],
             pcb' = [pcb EXCEPT ![p] = [FreePcb EXCEPT !.st = "syn", !.arg = d]],
             ctrl' = [ctrl EXCEPT ![s].data = d, ![s].data_pcb = p, ![s].state = k],
             dataConns' = dataConns \cup {d} /\ dataCnt' = dataCnt + 1,
             Reply(s), Says(s, "150"), UNCHANGED leaked
      PROVE  Kept
  <2>. DEFINE D == Opened([NewData EXCEPT !.ctrl = s], k, n)
  <2>1. [NewData EXCEPT !.ctrl = s] \in DataRec /\ [NewData EXCEPT !.ctrl = s].ctrl = s
        /\ ~[NewData EXCEPT !.ctrl = s].stale
    BY <1>0, OwnedType
  <2>2. D \in DataRec /\ D.ctrl = s /\ ~D.stale
    BY <2>1, OpenedType
  <2>3. d \in Data /\ k \in States
    BY DEF Fresh, Transfer, States
  <2>4. [ctrl[s] EXCEPT !.data = d, !.data_pcb = p, !.state = k] \in CtrlRec
    BY <1>0, <2>3 DEF CtrlRec
  <2>5. /\ ctrl' \in [Sess -> CtrlRec] /\ ctrl'[s].data = d
        /\ \A t \in Sess \ {s} : ctrl'[t] = ctrl[t]
    BY <1>0, <1>2, <2>4 DEF TypeOK, CtrlRec
  <2>6. [FreePcb EXCEPT !.st = "syn", !.arg = d] \in PcbRec
    BY <2>3 DEF FreePcb, PcbRec
  <2>7. RestTyped
    BY <1>0, <1>2, <2>6, ReplyType, SaysType DEF TypeOK, RestTyped
  <2>. HIDE DEF D
  <2>. QED BY <1>2, <2>2, <2>5, <2>7, LinkStep DEF D
<1>3. ASSUME NEW q \in {None, ctrl[s].data_pcb}, NEW o \in BOOLEAN,
             ctrl' = [ctrl EXCEPT ![s].data = None, ![s].data_pcb = q, ![s].offset = o],
             Reply(s) \/ Reply2(s), SaysEnd(s, "failed"), UNCHANGED dataVars
      PROVE  Kept
  <2>1. q \in Conn \cup {None}
    BY <1>0 DEF CtrlRec
  <2>2. [ctrl[s] EXCEPT !.data = None, !.data_pcb = q, !.offset = o] \in CtrlRec
    BY <1>0, <2>1 DEF CtrlRec
  <2>3. /\ ctrl' \in [Sess -> CtrlRec] /\ ctrl'[s].data = None
        /\ \A t \in Sess \ {s} : ctrl'[t] = ctrl[t]
    BY <1>0, <1>3, <2>2 DEF TypeOK, CtrlRec
  <2>4. RestTyped
    BY <1>0, <1>3, ReplyType, SaysType DEF TypeOK, RestTyped, dataVars
  <2>. QED BY <1>3, <2>3, <2>4, UnlinkStep DEF dataVars
<1>4. ctrl[s].offset \in BOOLEAN /\ ctrl \in [Sess -> CtrlRec]
  BY <1>0 DEF CtrlRec, TypeOK
<1>5. CASE ctrl[s].pasv
  BY <1>1, <1>5 DEF Begin
<1>6. CASE ~ctrl[s].pasv
  <2>1. CASE \E d \in Data \ (dataConns \cup leaked), n \in 0..MaxLeft,
                p \in {q \in Conn : pcb[q].st = "free"} :
          /\ data' = [data EXCEPT ![d] = Opened([NewData EXCEPT !.ctrl = s], k, n)]
          /\ pcb' = [pcb EXCEPT ![p] = [FreePcb EXCEPT !.st = "syn", !.arg = d]]
          /\ ctrl' = [ctrl EXCEPT ![s].data = d, ![s].data_pcb = p, ![s].state = k]
          /\ dataConns' = dataConns \cup {d} /\ dataCnt' = dataCnt + 1
          /\ Reply(s) /\ Says(s, "150") /\ UNCHANGED leaked
    BY <1>2, <2>1 DEF Fresh
  <2>2. CASE /\ \E q \in {None, ctrl[s].data_pcb} :
                  ctrl' = [ctrl EXCEPT ![s].data = None, ![s].data_pcb = q,
                             ![s].offset = IF k = "LIST" THEN ctrl[s].offset ELSE FALSE]
             /\ Reply(s) \/ Reply2(s)
             /\ SaysEnd(s, "failed") /\ UNCHANGED dataVars
    BY <1>3, <1>4, <2>2
  <2>3. CASE /\ \E q \in {None, ctrl[s].data_pcb} :
                  ctrl' = [ctrl EXCEPT ![s].data = None, ![s].data_pcb = q,
                                       ![s].offset = IF k = "LIST" THEN @ ELSE FALSE]
             /\ Reply(s) \/ Reply2(s)
             /\ SaysEnd(s, "failed") /\ UNCHANGED dataVars
    BY <1>0, <1>4, <2>2, <2>3
  <2>. QED BY <1>6, <2>1, <2>3 DEF Begin
<1>. QED BY <1>5, <1>6

LEMMA CommandStep ==
  ASSUME IInv, NEW s \in Sess, Command(s)
  PROVE  Kept
<1>0. s \in ctrlConns /\ TypeOK /\ ctrl[s] \in CtrlRec
  BY DEF IInv, TypeOK, Command, CmdUser, CmdPass, CmdQuit, CmdAbrt, CmdInfo, CmdChdir,
         CmdDele, CmdMkd, CmdRnfr, CmdRnto, CmdRest, CmdPasv, CmdList, CmdRetr, CmdStor,
         MayBegin, Asks, Hears, Usable
<1>1. ASSUME SamePointers(ctrl'), Reply(s) \/ Reply2(s), OnlyCtrl, UNCHANGED said
      PROVE  Kept
  BY <1>0, <1>1, Same, ReplyType, ReplyStep DEF OnlyCtrl
<1>2. ASSUME NEW st \in States, SetState(s, st) PROVE SamePointers(ctrl')
  BY <1>0, <1>2, SetStateSame DEF SetState
<1>3. ASSUME UNCHANGED ctrl PROVE SamePointers(ctrl')
  BY <1>0, <1>3, Same
<1>4. CASE CmdUser(s)
  BY <1>1, <1>2, <1>4 DEF CmdUser, States
<1>5. CASE CmdPass(s)
  BY <1>1, <1>2, <1>5 DEF CmdPass, States
<1>6. CASE CmdQuit(s)
  BY <1>1, <1>2, <1>6 DEF CmdQuit, States
<1>7. CASE CmdAbrt(s)
  BY <1>0, <1>7, AbrtStep
<1>8. CASE CmdInfo(s) \/ CmdChdir(s) \/ CmdDele(s) \/ CmdMkd(s)
  BY <1>1, <1>3, <1>8 DEF CmdInfo, CmdChdir, CmdDele, CmdMkd
<1>9. CASE CmdRnfr(s)
  BY <1>1, <1>2, <1>3, <1>9 DEF CmdRnfr, States
<1>10. CASE CmdRnto(s)
  BY <1>1, <1>2, <1>3, <1>10 DEF CmdRnto, States
<1>11. CASE CmdRest(s)
  <2>1. SamePointers(ctrl')
    BY <1>0, <1>11, OffsetSame DEF CmdRest
  <2>. QED BY <1>1, <1>11, <2>1 DEF CmdRest
<1>12. CASE CmdPasv(s)
  BY <1>0, <1>12, PasvStep
<1>13. ASSUME NEW k \in Transfer, Begin(s, k), UNCHANGED <<lists, fault, mute>> PROVE Kept
  BY <1>0, <1>13, BeginStep
<1>14. ASSUME Reply(s) \/ Reply2(s), SaysEnd(s, "failed"), UNCHANGED <<ctrl, dataVars>>,
              UNCHANGED <<lists, fault, mute>>
       PROVE  Kept
  <2>1. SamePointers(ctrl')
    BY <1>3, <1>14
  <2>2. out' \in [Sess -> OutRec] /\ said' \in SaidType
    BY <1>0, <1>14, ReplyType, SaysType
  <2>. QED BY <1>14, <2>1, <2>2, ReplyStep
<1>15. CASE CmdList(s)
  BY <1>13, <1>14, <1>15 DEF CmdList, NoTransfer, Transfer
<1>16. CASE CmdRetr(s)
  BY <1>13, <1>14, <1>16 DEF CmdRetr, NoTransfer, Transfer
<1>17. CASE CmdStor(s)
  BY <1>13, <1>14, <1>17 DEF CmdStor, NoTransfer, Transfer
<1>. QED BY <1>4, <1>5, <1>6, <1>7, <1>8, <1>9, <1>10, <1>11, <1>12, <1>15, <1>16, <1>17
         DEF Command

-----------------------------------------------------------------------------
(* The data connections.                                                       *)

LEMMA ClosedStep ==
  ASSUME IInv, NEW d \in dataConns, NEW p, DataClose(d, p, ctrl),
         said' \in SaidType, UNCHANGED <<lists, out, fault, mute>>
  PROVE  Kept
<1>1. d \in Data /\ data[d].ctrl \in Sess /\ SamePointers(ctrl)
  BY Same DEF IInv, TypeOK, Linked
<1>2. RestTyped
  BY ShutType DEF IInv, TypeOK, RestTyped, SaidType, DataClose
<1>. QED BY <1>1, <1>2, CloseStep

LEMMA ConnectedStep ==
  ASSUME IInv, NEW d \in dataConns, NEW p \in Conn, NEW P \in PcbRec, Connected(d, p, P)
  PROVE  Kept
<1>. DEFINE s == data[d].ctrl
            C == [ctrl EXCEPT ![s].data_pcb = p]
            D == [data[d] EXCEPT !.conn = TRUE]
<1>1. d \in Data /\ s \in Sess /\ TypeOK
  BY DEF IInv, TypeOK, Linked
<1>2. ctrl[s] \in CtrlRec /\ data[d] \in DataRec
  BY <1>1 DEF TypeOK
<1>3. [ctrl[s] EXCEPT !.data_pcb = p] \in CtrlRec
  BY <1>2 DEF CtrlRec
<1>4. SamePointers(C)
  BY <1>1, <1>2, <1>3 DEF SamePointers, TypeOK, CtrlRec
<1>5. SameOwner(d, D)
  BY <1>2 DEF SameOwner, DataRec
<1>. HIDE DEF C, D
<1>6. Crash \/ (Progress(d, p, C, D, P) /\ UNCHANGED <<lists, fault, mute>>)
  <2>1. CASE data[d].stale
    BY <2>1 DEF Connected
  <2>2. CASE ~data[d].stale
    BY <2>2 DEF Connected, C, D
  <2>. QED BY <2>1, <2>2
<1>. QED BY <1>1, <1>4, <1>5, <1>6, CrashStep, ProgressStep

LEMMA AbortStep ==
  ASSUME IInv, NEW p, pcb' = Shut(p),
         UNCHANGED <<ctrl, lists, data, dataConns, dataCnt, leaked, out, fault, said, mute>>
  PROVE  Kept
<1>1. SamePointers(ctrl') /\ data' \in [Data -> DataRec]
  BY Same DEF IInv, TypeOK
<1>2. RestTyped
  BY ShutType DEF IInv, TypeOK, RestTyped, SaidType
<1>. QED BY <1>1, <1>2, FrameStep

LEMMA SentDataStep ==
  ASSUME IInv, NEW p \in Conn, DataSent(p)
  PROVE  Kept
<1>. DEFINE d == pcb[p].arg
<1>1. CASE Abort(p)
  BY <1>1, AbortStep DEF Abort
<1>2. CASE Crash
  BY <1>2, CrashStep
<1>3. CASE /\ d \in dataConns /\ UNCHANGED <<lists, fault, mute>>
           /\ \E more \in BOOLEAN :
                Progress(d, p, ctrl, data[d], [pcb[p] EXCEPT !.inFlight = more])
  <2>1. PICK more \in BOOLEAN : Progress(d, p, ctrl, data[d], [pcb[p] EXCEPT !.inFlight = more])
    BY <1>3
  <2>2. pcb[p] \in PcbRec /\ d \in Data /\ data[d].ctrl \in Sess /\ data[d] \in DataRec
    BY <1>3 DEF IInv, TypeOK, Linked
  <2>3. [pcb[p] EXCEPT !.inFlight = more] \in PcbRec
    BY <2>2 DEF PcbRec
  <2>4. SameOwner(d, data[d]) /\ SamePointers(ctrl)
    BY <2>2, Same DEF SameOwner, IInv
  <2>. HIDE DEF d
  <2>. QED BY <1>3, <2>1, <2>2, <2>3, <2>4, ProgressStep
<1>. QED BY <1>1, <1>2, <1>3 DEF DataSent

LEMMA RecvStep ==
  ASSUME IInv, NEW p \in Conn, DataRecv(p)
  PROVE  Kept
<1>. DEFINE d == pcb[p].arg
<1>1. CASE Abort(p)
  BY <1>1, AbortStep DEF Abort
<1>2. CASE /\ d \in dataConns
           /\ \E b \in BOOLEAN : data' = [data EXCEPT ![d].sending = b]
           /\ UNCHANGED <<ctrl, lists, dataConns, dataCnt, leaked, pcb, out, fault, said, mute>>
  <2>1. PICK b \in BOOLEAN : data' = [data EXCEPT ![d].sending = b]
    BY <1>2
  <2>2. d \in Data /\ data[d] \in DataRec
    BY <1>2 DEF IInv, TypeOK
  <2>. DEFINE D == [data[d] EXCEPT !.sending = b]
  <2>3. SameOwner(d, D)
    BY <2>2 DEF SameOwner, DataRec
  <2>4. data' = [data EXCEPT ![d] = D]
    BY <2>1, <2>2 DEF DataRec, IInv, TypeOK
  <2>. HIDE DEF D
  <2>5. /\ data' \in [Data -> DataRec]
        /\ \A x \in Data : data'[x].ctrl = data[x].ctrl /\ data'[x].stale = data[x].stale
    BY <2>2, <2>3, <2>4 DEF SameOwner, IInv, TypeOK
  <2>6. SamePointers(ctrl') /\ RestTyped
    BY <1>2, Same DEF IInv, TypeOK, RestTyped, SaidType
  <2>. QED BY <1>2, <2>5, <2>6, FrameStep
<1>. QED BY <1>1, <1>2 DEF DataRecv

LEMMA EofStep ==
  ASSUME IInv, NEW p \in Conn, DataEof(p)
  PROVE  Kept
<1>. DEFINE d == pcb[p].arg
<1>1. CASE Abort(p)
  BY <1>1, AbortStep DEF Abort
<1>2. CASE Crash
  BY <1>2, CrashStep
<1>3. CASE d \in dataConns /\ Complete(d, p, ctrl) /\ UNCHANGED <<lists, fault, mute>>
  <2>1. d \in Data /\ data[d].ctrl \in Sess /\ SamePointers(ctrl)
    BY <1>3, Same DEF IInv, TypeOK, Linked
  <2>. HIDE DEF d
  <2>. QED BY <1>3, <2>1, CompleteStep
<1>. QED BY <1>1, <1>2, <1>3 DEF DataEof

LEMMA DataStep ==
  ASSUME IInv, NEW p \in Conn, DataCallback(p)
  PROVE  Kept
<1>1. ASSUME NEW d \in Data, PassiveConnect(d, p) PROVE Kept
  <2>1. [FreePcb EXCEPT !.st = "open", !.arg = d] \in PcbRec
    BY DEF FreePcb, PcbRec
  <2>. QED BY <1>1, <2>1, ConnectedStep DEF PassiveConnect
<1>2. CASE ActiveConnect(p)
  <2>1. CASE pcb[p].arg \in dataConns
    <3>1. pcb[p] \in PcbRec
      BY DEF IInv, TypeOK
    <3>2. [pcb[p] EXCEPT !.st = "open"] \in PcbRec
      BY <3>1 DEF PcbRec
    <3>. QED BY <1>2, <2>1, <3>2, ConnectedStep DEF ActiveConnect
  <2>2. CASE pcb[p].arg \notin dataConns
    BY <1>2, <2>2, AbortStep DEF ActiveConnect
  <2>. QED BY <2>1, <2>2
<1>3. CASE ActiveRefused(p)
  BY <1>3, AbortStep DEF ActiveRefused
<1>4. CASE DataErr(p)
  <2>1. CASE Abort(p)
    BY <2>1, AbortStep DEF Abort
  <2>2. CASE Crash
    BY <2>2, CrashStep
  <2>3. CASE /\ pcb[p].arg \in dataConns /\ DataClose(pcb[p].arg, p, ctrl)
             /\ SaysEnd(data[pcb[p].arg].ctrl, "lost")
             /\ UNCHANGED <<lists, out, fault, mute>>
    <3>1. said' \in SaidType
      BY <2>3, SaysType DEF IInv, Linked
    <3>. QED BY <2>3, <3>1, ClosedStep
  <2>. QED BY <1>4, <2>1, <2>2, <2>3 DEF DataErr
<1>. QED BY <1>1, <1>2, <1>3, <1>4, SentDataStep, RecvStep, EofStep DEF DataCallback

-----------------------------------------------------------------------------
(* The invariant and the theorems.                                             *)

LEMMA InitIInv == Init => IInv
<1>. SUFFICES ASSUME Init PROVE IInv
  OBVIOUS
<1>1. TypeOK
  <2>1. ctrl \in [Sess -> CtrlRec] /\ data \in [Data -> DataRec]
        /\ pcb \in [Conn -> PcbRec] /\ out \in [Sess -> OutRec]
    BY Blanks DEF Init
  <2>2. ctrlConns = {} /\ dataConns = {} /\ leaked = {} /\ mute = {}
        /\ ctrlCnt = 0 /\ dataCnt = 0 /\ fault = FALSE
    BY Zenon DEF Init
  <2>3. ctrlConns \subseteq Sess /\ dataConns \subseteq Data /\ leaked \subseteq Data
        /\ mute \subseteq Sess /\ ctrlCnt \in Int /\ dataCnt \in Int
    BY <2>2
  <2>4. fault \in BOOLEAN
    BY <2>2
  <2>5. said \in [Sess -> {"none", "150", "226", "failed", "lost"}]
    BY DEF Init
  <2>. QED BY <2>1, <2>3, <2>4, <2>5, Zenon DEF TypeOK
<1>2. Linked /\ CountsExact
  BY FS_EmptySet DEF Init, Linked, SessionPointsHome, CountsExact
<1>. QED BY <1>1, <1>2 DEF IInv

LEMMA NextKept == IInv /\ [Next]_vars => Kept
<1>. SUFFICES ASSUME IInv, [Next]_vars PROVE Kept
  OBVIOUS
<1>1. CASE UNCHANGED vars
  BY <1>1, StayStep
<1>2. ASSUME NEW s \in Sess, Control(s) \/ Command(s) PROVE Kept
  BY <1>2, ControlStep, CommandStep
<1>3. ASSUME NEW p \in Conn, DataCallback(p) PROVE Kept
  BY <1>3, DataStep
<1>4. ASSUME NEW d \in Data, PassiveNoMem(d) PROVE Kept
  <2>1. CASE Crash
    BY <2>1, CrashStep
  <2>2. CASE d \in dataConns /\ DataClose(d, None, ctrl) /\ UNCHANGED <<lists, out, fault, said, mute>>
    BY <2>2, Same, ClosedStep DEF IInv
  <2>. QED BY <1>4, <2>1, <2>2 DEF PassiveNoMem
<1>. QED BY <1>1, <1>2, <1>3, <1>4 DEF Next, Faulted

LEMMA NextIInv == IInv /\ [Next]_vars => IInv'
  BY NextKept DEF Kept

LEMMA Inductive == Spec => []IInv
  BY InitIInv, NextIInv, PTL DEF Spec

\* Every state variable keeps its type, for any number of sessions and blocks: in
\* particular a poll counter never runs past its limit and no pointer field holds
\* anything but a block of its kind or NULL.
THEOREM TypeCorrect == Spec => []TypeOK
  BY Inductive, PTL DEF IInv

\* A listed session never points to a freed data block, nor to another session's,
\* whatever the order of commands and callbacks and however addresses are reused.
THEOREM PointsHome == Spec => []SessionPointsHome
  BY Inductive, PTL DEF IInv, Linked

\* ctrl_cnt and data_cnt always equal the lengths of the lists they count.
THEOREM Counted == Spec => []CountsExact
  BY Inductive, PTL DEF IInv

\* However a session ends, only the blocks that it had stopped pointing to are left
\* behind with a dangling "ctrl".
THEOREM LeftBehind == Spec => LeftBehindOnlyIfReplaced
<1>1. IInv /\ [Next]_vars
        => [\A d \in dataConns : ~data[d].stale /\ data'[d].stale
                                 => ctrl[data[d].ctrl].data # d]_vars
  BY NextKept DEF Kept, LeavesReplaced
<1>. QED BY <1>1, Inductive, PTL DEF Spec, LeftBehindOnlyIfReplaced

-----------------------------------------------------------------------------
(* Clients that run one passive transfer at a time, for any number of sessions, *)
(* data blocks and connections.                                               *)

OnePassive == Orderly /\ "PORT" \notin Cmds

-----------------------------------------------------------------------------
(* The inductive invariant, beside IInv.                                      *)

\* What is no longer being read has been read to its end.
ReadOut(D) ==
  /\ ~D.dp => D.dleft = 0
  /\ ~DiskErr /\ D.fp # "rd" => D.fleft = 0

\* A data connection D is what its session wants in state st, when the client has last
\* been told w: idle between transfers, and during one with what the transfer needs.
Fits(st, D, w) ==
  /\ ReadOut(D)
  /\ st \in Transfer => w = "150"
  /\ w # "150" => D.fp = "none" /\ ~D.dp
  /\ st = "LIST" => D.dp /\ D.fp = "none"
  /\ st = "RETR" => ~D.dp /\ D.fp \in {"rd", "none"}
  /\ st = "STOR" => ~D.dp /\ D.fp = "wr"

\* A session and its data connection agree: data_pcb is set while it is connected, and
\* is then an open pcb that hands the session's own block to the callbacks.
Settled(s) ==
  LET c == ctrl[s] IN
  /\ s \notin ctrlConns => c.data = None
  /\ c.data = None => c.data_pcb = None /\ c.state \notin Transfer
  /\ c.data # None => (data[c.data].conn <=> c.data_pcb # None)
  /\ c.data \in dataConns => Fits(c.state, data[c.data], said[s])
  /\ c.data_pcb # None =>
       /\ c.data \in dataConns
       /\ pcb[c.data_pcb].st = "open" /\ pcb[c.data_pcb].arg = c.data

\* A listed block belongs to a listed session that knows it.
Owned(d) ==
  data[d].ctrl \in ctrlConns /\ ~data[d].stale /\ ctrl[data[d].ctrl].data = d

OInv ==
  /\ ~fault
  /\ \A d \in dataConns : Owned(d)
  /\ CallbackArgLive
  /\ \A s \in Sess : Settled(s)
  /\ ~LowMem => leaked = {}

\* A transfer is whole: an upload, or all read and handed to lwIP.
Done(D) ==
  D.fp = "wr" \/ (~D.sending /\ D.dleft = 0 /\ D.fp = "none" /\ D.fleft = 0)

\* What a step tells the client of session s about its transfer is true: "226" only
\* when it is whole, and nothing only when lwIP could not accept the connection.
TellsWhole(s) ==
  said[s] = "150" /\ said'[s] = "226" => DiskErr \/ Done(data[ctrl[s].data])

TellsAll(s) ==
  s \in ctrlConns /\ s \in ctrlConns' /\ said[s] = "150" /\ said'[s] = "150"
  /\ ctrl[s].data # None /\ ctrl'[s].data = None
  => LowMem /\ ~data[ctrl[s].data].conn

Told(s) == TellsWhole(s) /\ TellsAll(s)

\* What every step keeps.
OKept == OInv' /\ \A s \in Sess : Told(s)

-----------------------------------------------------------------------------
(* A step that concerns the session s, its block and its connection only.     *)

Local(s) ==
  /\ \A t \in Sess \ {s} : (t \in ctrlConns' <=> t \in ctrlConns)
                           /\ ctrl'[t] = ctrl[t] /\ said'[t] = said[t]
  /\ \A d \in Data : data[d].ctrl # s /\ d # ctrl'[s].data =>
       data'[d] = data[d] /\ (d \in dataConns' <=> d \in dataConns)
  /\ \A d \in dataConns' : data[d].ctrl = s => data'[d].ctrl = s
  /\ ctrl'[s].data # None =>
       s \in ctrlConns /\ (ctrl'[s].data = ctrl[s].data \/ ctrl'[s].data \in Fresh)
  /\ \A p \in Conn : p # ctrl[s].data_pcb /\ p # ctrl'[s].data_pcb =>
       pcb'[p] = pcb[p] \/ (pcb'[p].st = "free" /\ pcb[p].st = "free")
  /\ ctrl[s].data_pcb # None =>
       ctrl'[s].data_pcb = ctrl[s].data_pcb \/ pcb'[ctrl[s].data_pcb].st = "free"
  /\ ctrl'[s].data_pcb # None =>
       ctrl'[s].data_pcb = ctrl[s].data_pcb \/ pcb[ctrl'[s].data_pcb].st = "free"

\* What the step must leave true of s.
Tidy(s) ==
  /\ Settled(s)
  /\ \A d \in dataConns : data[d].ctrl = s => Owned(d)

LEMMA TypeFacts ==
  ASSUME IInv
  PROVE  /\ \A s \in Sess : ctrl[s] \in CtrlRec
         /\ \A d \in Data : data[d] \in DataRec
         /\ \A p \in Conn : pcb[p] \in PcbRec
         /\ ctrlConns \subseteq Sess /\ dataConns \subseteq Data /\ leaked \subseteq Data
         /\ None \notin Sess /\ None \notin Data /\ None \notin Conn
  BY FtpsAssumption DEF IInv, TypeOK

\* The connection of another session is neither the one s had nor the one it gets.
LEMMA OtherPcb ==
  ASSUME IInv, OInv, NEW s \in Sess, Local(s), NEW t \in Sess \ {s}, ctrl[t].data_pcb # None
  PROVE  /\ ctrl[t].data_pcb # ctrl[s].data_pcb /\ ctrl[t].data_pcb # ctrl'[s].data_pcb
         /\ pcb'[ctrl[t].data_pcb] = pcb[ctrl[t].data_pcb]
<1>1. /\ pcb[ctrl[t].data_pcb].st = "open" /\ ctrl[t].data \in dataConns
      /\ pcb[ctrl[t].data_pcb].arg = ctrl[t].data
  BY DEF OInv, Settled
<1>2. ctrl[t].data_pcb \in Conn
  BY TypeFacts DEF CtrlRec
<1>3. data[ctrl[t].data].ctrl = t
  <2>1. ctrl[data[ctrl[t].data].ctrl].data_pcb = ctrl[t].data_pcb
    BY <1>1, <1>2 DEF OInv, CallbackArgLive
  <2>2. t \in ctrlConns /\ ctrl[t].data # None
    BY <1>1, TypeFacts DEF OInv, Settled
  <2> QED
    BY <2>2 DEF IInv, Linked, SessionPointsHome
<1>4. ctrl[s].data_pcb # ctrl[t].data_pcb
  <2>1. ASSUME ctrl[s].data_pcb = ctrl[t].data_pcb PROVE FALSE
    <3>1. ctrl[s].data = ctrl[t].data
      BY <1>1, <2>1 DEF OInv, Settled
    <3>2. ctrl[s].data # None /\ s \in ctrlConns
      BY <1>1, <3>1, TypeFacts DEF OInv, Settled
    <3>3. data[ctrl[s].data].ctrl = s
      BY <3>2 DEF IInv, Linked, SessionPointsHome
    <3> QED
      BY <1>3, <3>1, <3>3
  <2> QED
    BY <2>1
<1>5. ctrl'[s].data_pcb # ctrl[t].data_pcb
  BY <1>1, <1>2, <1>4, TypeFacts DEF Local
<1> QED
  BY <1>1, <1>2, <1>4, <1>5 DEF Local

LEMMA LocalStep ==
  ASSUME IInv, IInv', OInv, NEW s \in Sess, Local(s), Tidy(s)', ~fault',
         ~LowMem => leaked' = {}, Told(s)
  PROVE  OKept
<1>1. ASSUME NEW t \in Sess \ {s}, ctrl[t].data # None
      PROVE  /\ data[ctrl[t].data].ctrl = t /\ t \in ctrlConns
             /\ ctrl[t].data \in Data /\ ctrl[t].data # ctrl'[s].data
             /\ data'[ctrl[t].data] = data[ctrl[t].data]
             /\ ctrl[t].data \in dataConns' <=> ctrl[t].data \in dataConns
  <2>1. t \in ctrlConns
    BY <1>1 DEF OInv, Settled
  <2>2. data[ctrl[t].data].ctrl = t /\ ctrl[t].data \in dataConns \cup leaked
    BY <1>1, <2>1 DEF IInv, Linked, SessionPointsHome
  <2>3. ctrl[t].data \in Data
    BY <2>2, TypeFacts
  <2>4. ctrl[t].data # ctrl'[s].data
    <3>1. CASE ctrl'[s].data = ctrl[s].data /\ s \in ctrlConns /\ ctrl[s].data # None
      BY <2>2, <3>1 DEF IInv, Linked, SessionPointsHome
    <3>2. CASE ctrl'[s].data \in Fresh
      BY <2>2, <3>2 DEF Fresh
    <3> QED
      BY <1>1, <3>1, <3>2 DEF Local
  <2> QED
    BY <2>1, <2>2, <2>3, <2>4 DEF Local
<1>2. ASSUME NEW d \in dataConns', data'[d].ctrl # s
      PROVE  /\ d \in dataConns /\ data'[d] = data[d] /\ d \in Data
             /\ data[d].ctrl \in Sess \ {s} /\ Owned(d)
  <2>1. d \in Data /\ data'[d].ctrl \in Sess
    BY TypeFacts DEF IInv, Linked, TypeOK
  <2>2. d # ctrl'[s].data
    <3>1. ASSUME d = ctrl'[s].data PROVE FALSE
      <4>1. ctrl'[s].data # None
        BY <2>1, <3>1, TypeFacts
      <4>2. s \in ctrlConns'
        BY <4>1 DEF Tidy, Settled
      <4>3. data'[ctrl'[s].data].ctrl = s
        BY <4>1, <4>2 DEF IInv, Linked, SessionPointsHome
      <4> QED
        BY <1>2, <3>1, <4>3
    <3> QED
      BY <3>1
  <2>3. data[d].ctrl # s
    BY <1>2 DEF Local
  <2> QED
    BY <1>2, <2>1, <2>2, <2>3, TypeFacts DEF Local, OInv
<1>3. ASSUME NEW d \in dataConns' PROVE Owned(d)'
  <2>1. CASE data'[d].ctrl = s
    BY <2>1 DEF Tidy
  <2>2. CASE data'[d].ctrl # s
    BY <1>2, <2>2 DEF Owned, Local
  <2> QED
    BY <2>1, <2>2
<1>4. ASSUME NEW t \in Sess PROVE Settled(t)'
  <2>1. CASE t = s
    BY <2>1 DEF Tidy
  <2>2. CASE t # s
    <3>1. Settled(t) /\ ctrl'[t] = ctrl[t] /\ said'[t] = said[t]
          /\ (t \in ctrlConns' <=> t \in ctrlConns)
      BY <2>2 DEF OInv, Local
    <3>2. CASE ctrl[t].data = None
      <4>1. ctrl[t].data_pcb = None
        BY <3>1, <3>2 DEF Settled
      <4>2. None \notin dataConns'
        BY TypeFacts DEF IInv, TypeOK
      <4> QED
        BY <3>1, <3>2, <4>1, <4>2 DEF Settled
    <3>3. CASE ctrl[t].data # None
      <4>1. /\ data'[ctrl[t].data] = data[ctrl[t].data]
            /\ ctrl[t].data \in dataConns' <=> ctrl[t].data \in dataConns
        BY <1>1, <2>2, <3>3
      <4>2. ctrl[t].data_pcb # None => pcb'[ctrl[t].data_pcb] = pcb[ctrl[t].data_pcb]
        BY <2>2, OtherPcb
      <4> QED
        BY <3>1, <3>3, <4>1, <4>2 DEF Settled
    <3> QED
      BY <3>2, <3>3
  <2> QED
    BY <2>1, <2>2
<1>5. CallbackArgLive'
  <2> SUFFICES ASSUME NEW p \in Conn, pcb'[p].st # "free"
               PROVE  pcb'[p].arg \in dataConns' /\ ctrl'[data'[pcb'[p].arg].ctrl].data_pcb = p
    BY DEF CallbackArgLive
  <2>1. CASE p = ctrl'[s].data_pcb
    <3>1. ctrl'[s].data_pcb # None
      BY <2>1, TypeFacts
    <3>2. ctrl'[s].data \in dataConns' /\ pcb'[p].arg = ctrl'[s].data
      BY <2>1, <3>1 DEF Tidy, Settled
    <3>3. ctrl'[s].data # None /\ s \in ctrlConns'
      BY <3>2, TypeFacts DEF IInv, TypeOK, Tidy, Settled
    <3>4. data'[ctrl'[s].data].ctrl = s
      BY <3>3 DEF IInv, Linked, SessionPointsHome
    <3> QED
      BY <2>1, <3>2, <3>4
  <2>2. CASE p # ctrl'[s].data_pcb
    <3> DEFINE d == pcb[p].arg
    <3>1. p # ctrl[s].data_pcb
      BY <2>2, TypeFacts DEF Local
    <3>2. pcb'[p] = pcb[p] /\ pcb[p].st # "free"
      BY <2>2, <3>1 DEF Local
    <3>3. d \in dataConns /\ ctrl[data[d].ctrl].data_pcb = p
      BY <3>2 DEF OInv, CallbackArgLive
    <3>4. data[d].ctrl \in Sess \ {s} /\ ctrl[data[d].ctrl].data = d /\ d # None
      BY <3>1, <3>3, TypeFacts DEF OInv, Owned
    <3> HIDE DEF d
    <3>5. data'[d] = data[d] /\ d \in dataConns'
      BY <1>1, <3>3, <3>4
    <3>6. ctrl'[data[d].ctrl] = ctrl[data[d].ctrl]
      BY <3>4 DEF Local
    <3> QED
      BY <3>2, <3>3, <3>5, <3>6 DEF d
  <2> QED
    BY <2>1, <2>2
<1>6. ASSUME NEW t \in Sess \ {s} PROVE Told(t)
  BY DEF Local, Told, TellsWhole, TellsAll
<1> QED
  BY <1>3, <1>4, <1>5, <1>6 DEF OInv, OKept

-----------------------------------------------------------------------------
(* Closing a data connection, and leaving it open.                             *)

\* The block d of session s with its connection p, or a pcb p that lwIP has just given
\* it, and the sessions C as the handler leaves them.
Ready(s, d, p, C) ==
  /\ s \in ctrlConns /\ d \in dataConns /\ data[d].ctrl = s
  /\ p = ctrl[s].data_pcb \/ (ctrl[s].data_pcb = None /\ p \in Conn /\ pcb[p].st = "free")
  /\ C \in [Sess -> CtrlRec] /\ \A t \in Sess \ {s} : C[t] = ctrl[t]

OthersSaid(s) == \A t \in Sess \ {s} : said'[t] = said[t]

LEMMA CloseOStep ==
  ASSUME IInv, IInv', OInv, NEW s \in Sess, NEW d, NEW p, NEW C, Ready(s, d, p, C),
         DataClose(d, p, C), OthersSaid(s), Told(s), UNCHANGED <<lists, fault>>
  PROVE  OKept
<1>1. /\ pcb' = Shut(p) /\ dataConns' = dataConns \ {d} /\ UNCHANGED leaked
      /\ data' = [data EXCEPT ![d] = NewData]
      /\ ctrl' = [C EXCEPT ![s] = Detached(C[s])]
  BY DEF DataClose, Ready
<1>2. s \in Sess /\ d \in Data /\ ctrl[s].data = d
  BY TypeFacts DEF Ready, OInv, Owned
<1>3. /\ ctrl'[s].data = None /\ ctrl'[s].data_pcb = None /\ ctrl'[s].state = "IDLE"
      /\ \A t \in Sess \ {s} : ctrl'[t] = ctrl[t]
  <2>1. C[s] \in CtrlRec
    BY DEF Ready
  <2>2. /\ Detached(C[s]).data = None /\ Detached(C[s]).data_pcb = None
        /\ Detached(C[s]).state = "IDLE"
    BY <2>1 DEF Detached, CtrlRec
  <2> QED
    BY <1>1, <1>2, <2>2 DEF Ready
<1>4. \A q \in Conn : /\ q # p => pcb'[q] = pcb[q]
                      /\ q = p => pcb'[q].st = "free"
  <2>1. pcb \in [Conn -> PcbRec] /\ FreePcb.st = "free" /\ None \notin Conn
    BY TypeFacts DEF IInv, TypeOK, FreePcb
  <2> QED
    BY <1>1, <2>1 DEF Shut
<1>5. Local(s)
  <2>1. \A t \in Sess \ {s} : (t \in ctrlConns' <=> t \in ctrlConns)
                              /\ ctrl'[t] = ctrl[t] /\ said'[t] = said[t]
    BY <1>3 DEF OthersSaid, lists
  <2>2. \A e \in Data : data[e].ctrl # s =>
          data'[e] = data[e] /\ (e \in dataConns' <=> e \in dataConns)
    BY <1>1 DEF Ready, IInv, TypeOK
  <2>3. \A e \in dataConns' : data[e].ctrl # s
    BY <1>1, <1>2 DEF OInv, Owned
  <2>4. \A q \in Conn : q # ctrl[s].data_pcb =>
          pcb'[q] = pcb[q] \/ (pcb'[q].st = "free" /\ pcb[q].st = "free")
    BY <1>4 DEF Ready
  <2>5. ctrl[s].data_pcb # None => pcb'[ctrl[s].data_pcb].st = "free"
    BY <1>2, <1>4, TypeFacts DEF Ready, CtrlRec
  <2> QED
    BY <1>3, <2>1, <2>2, <2>3, <2>4, <2>5 DEF Local
<1>6. Tidy(s)'
  <2>1. None \notin dataConns'
    BY TypeFacts DEF IInv, TypeOK
  <2>2. Settled(s)'
    BY <1>3, <2>1 DEF Settled, Transfer
  <2>3. \A e \in dataConns' : data'[e].ctrl # s
    BY <1>1, <1>2 DEF OInv, Owned, IInv, TypeOK
  <2> QED
    BY <2>2, <2>3 DEF Tidy
<1> QED
  BY <1>1, <1>2, <1>5, <1>6, LocalStep DEF OInv

LEMMA KeepOStep ==
  ASSUME IInv, IInv', OInv, NEW s \in Sess, NEW d, NEW p \in Conn, NEW C, Ready(s, d, p, C),
         C[s].data = d, C[s].data_pcb = p,
         NEW D \in DataRec, D.ctrl = s, D.conn, ~D.stale, Fits(C[s].state, D, said[s]),
         NEW P, P.st = "open", P.arg = d,
         Keep(d, p, C, D, P), UNCHANGED <<lists, fault>>
  PROVE  OKept
<1>1. /\ ctrl' = C /\ data' = [data EXCEPT ![d] = D] /\ pcb' = [pcb EXCEPT ![p] = P]
      /\ UNCHANGED <<dataConns, leaked, said>>
  BY DEF Keep
<1>2. s \in Sess /\ d \in Data /\ ctrl[s].data = d /\ d # None /\ p # None
  BY TypeFacts DEF Ready, OInv, Owned
<1>3. data'[d] = D /\ \A e \in Data \ {d} : data'[e] = data[e]
  BY <1>1, <1>2 DEF IInv, TypeOK
<1>4. pcb'[p] = P /\ \A q \in Conn \ {p} : pcb'[q] = pcb[q]
  BY <1>1 DEF IInv, TypeOK
<1>5. Local(s)
  <2>1. \A t \in Sess \ {s} : (t \in ctrlConns' <=> t \in ctrlConns)
                              /\ ctrl'[t] = ctrl[t] /\ said'[t] = said[t]
    BY <1>1 DEF Ready, lists
  <2>2. \A e \in Data : data[e].ctrl # s => data'[e] = data[e]
    BY <1>3 DEF Ready
  <2>3. \A e \in dataConns' : data[e].ctrl = s => data'[e].ctrl = s
    BY <1>1, <1>3, TypeFacts
  <2>4. \A q \in Conn : q # ctrl'[s].data_pcb => pcb'[q] = pcb[q]
    BY <1>1, <1>4
  <2>5. ctrl'[s].data = ctrl[s].data /\ s \in ctrlConns
    BY <1>1, <1>2 DEF Ready
  <2>6. p = ctrl[s].data_pcb \/ (pcb[p].st = "free" /\ ctrl[s].data_pcb = None)
    BY DEF Ready
  <2> QED
    BY <1>1, <2>1, <2>2, <2>3, <2>4, <2>5, <2>6 DEF Local
<1>6. Tidy(s)'
  <2>1. Settled(s)'
    BY <1>1, <1>2, <1>3, <1>4 DEF Settled, Ready, lists, DataRec
  <2>2. \A e \in dataConns' : data'[e].ctrl = s => Owned(e)'
    <3>1. \A e \in dataConns : data[e].ctrl = s => e = d
      BY <1>2 DEF OInv, Owned
    <3>2. Owned(d)'
      BY <1>1, <1>3 DEF Owned, Ready, lists
    <3> QED
      BY <1>1, <1>3, <3>1, <3>2, TypeFacts
  <2> QED
    BY <2>1, <2>2 DEF Tidy
<1>7. Told(s)
  BY <1>1, <1>2 DEF Told, TellsWhole, TellsAll
<1> QED
  BY <1>1, <1>5, <1>6, <1>7, LocalStep DEF OInv

-----------------------------------------------------------------------------
(* The transfer engine.                                                        *)

LEMMA CompleteOStep ==
  ASSUME IInv, IInv', OInv, NEW s \in Sess, NEW d, NEW p, NEW C, Ready(s, d, p, C),
         Complete(d, p, C), DiskErr \/ Done(data[d]), UNCHANGED <<lists, fault>>
  PROVE  OKept
<1> DEFINE E == [C EXCEPT ![s].state = "IDLE", ![s].offset = FALSE]
<1>1. DataClose(d, p, E) /\ SaysEnd(s, "226")
  BY DEF Complete, Ready
<1>2. Ready(s, d, p, E)
  <2>1. C[s] \in CtrlRec
    BY DEF Ready
  <2>2. [C[s] EXCEPT !.state = "IDLE", !.offset = FALSE] \in CtrlRec
    BY <2>1 DEF CtrlRec, States
  <2>3. E = [C EXCEPT ![s] = [C[s] EXCEPT !.state = "IDLE", !.offset = FALSE]]
    BY DEF Ready
  <2> HIDE DEF E
  <2> QED
    BY <2>2, <2>3 DEF Ready
<1>3. OthersSaid(s)
  BY <1>1 DEF SaysEnd, Says, OthersSaid, IInv, TypeOK
<1>4. Told(s)
  <2>1. ctrl[s].data = d
    BY DEF Ready, OInv, Owned
  <2>2. said[s] = "150" => said'[s] = "226"
    BY <1>1 DEF SaysEnd, Says, IInv, TypeOK
  <2> QED
    BY <2>1, <2>2 DEF Told, TellsWhole, TellsAll
<1> HIDE DEF E
<1> QED
  BY <1>1, <1>2, <1>3, <1>4, CloseOStep

\* The block D and the pcb P as the handler leaves them, with a transfer under way.
Underway(s, d, p, C, D, P) ==
  /\ Ready(s, d, p, C) /\ C[s].data = d /\ C[s].data_pcb = p
  /\ D \in DataRec /\ D.ctrl = s /\ D.conn /\ ~D.stale /\ Fits(C[s].state, D, said[s])
  /\ P \in PcbRec /\ P.st = "open" /\ P.arg = d

LEMMA SendOStep ==
  ASSUME IInv, IInv', OInv, NEW s \in Sess, NEW d, NEW p \in Conn, NEW C, NEW D, NEW P,
         Underway(s, d, p, C, D, P),
         Send(d, p, C, D, P) \/ Keep(d, p, C, D, P), UNCHANGED <<lists, fault>>
  PROVE  OKept
<1>1. ASSUME NEW b \in BOOLEAN
      PROVE  LET D1 == [D EXCEPT !.sending = b] IN
             /\ D1 \in DataRec /\ D1.ctrl = s /\ D1.conn /\ ~D1.stale
             /\ Fits(C[s].state, D1, said[s])
  BY DEF Underway, DataRec, Fits, ReadOut
<1>2. LET P1 == [P EXCEPT !.inFlight = TRUE] IN P1.st = "open" /\ P1.arg = d
  BY DEF Underway, PcbRec
<1>3. CASE Keep(d, p, C, [D EXCEPT !.sending = FALSE], [P EXCEPT !.inFlight = TRUE])
  BY <1>1, <1>2, <1>3, KeepOStep DEF Underway
<1>4. CASE Keep(d, p, C, [D EXCEPT !.sending = TRUE], P)
  BY <1>1, <1>4, KeepOStep DEF Underway
<1>5. CASE Keep(d, p, C, D, P)
  BY <1>5, KeepOStep DEF Underway
<1> QED
  BY <1>3, <1>4, <1>5 DEF Send

LEMMA ProgressOStep ==
  ASSUME IInv, IInv', OInv, NEW s \in Sess, NEW d, NEW p \in Conn, NEW C, NEW D, NEW P,
         Underway(s, d, p, C, D, P), Progress(d, p, C, D, P), Done(D) => Done(data[d]),
         UNCHANGED <<lists, fault>>
  PROVE  OKept
<1>1. ASSUME Complete(d, p, C), DiskErr \/ Done(D) PROVE OKept
  BY <1>1, CompleteOStep DEF Underway
<1>2. CASE Send(d, p, C, D, P) \/ Keep(d, p, C, D, P)
  BY <1>2, SendOStep
<1>3. CASE C[s].state = "LIST" /\ DirRead(d, p, C, D, P)
  <2> DEFINE D1 == [D EXCEPT !.dleft = @ - 1]
  <2>1. ASSUME D.dp, D.dleft > 0 PROVE Underway(s, d, p, C, D1, P)
    <3>1. D \in DataRec
      BY DEF Underway
    <3>2. D.dleft - 1 \in 0..MaxLeft
      BY <2>1, <3>1, FtpsAssumption DEF DataRec
    <3>3. /\ D1 \in DataRec /\ D1.ctrl = D.ctrl /\ D1.conn = D.conn /\ D1.stale = D.stale
          /\ D1.fp = D.fp /\ D1.dp = D.dp /\ D1.fleft = D.fleft
      BY <3>1, <3>2 DEF DataRec
    <3> HIDE DEF D1
    <3> QED
      BY <2>1, <3>3 DEF Underway, Fits, ReadOut
  <2> HIDE DEF D1
  <2>2. \/ D.dp /\ D.dleft > 0 /\ (Send(d, p, C, D1, P) \/ Keep(d, p, C, D1, P))
        \/ Send(d, p, C, D, P)
        \/ (~D.dp \/ D.dleft = 0 \/ DiskErr) /\ ~D.sending /\ Complete(d, p, C)
    BY <1>3 DEF DirRead, D1
  <2>3. ASSUME ~D.dp \/ D.dleft = 0 \/ DiskErr, ~D.sending PROVE DiskErr \/ Done(D)
    BY <1>3, <2>3 DEF Underway, Fits, ReadOut, Done
  <2> QED
    BY <1>1, <1>2, <2>1, <2>2, <2>3, SendOStep
<1>4. CASE C[s].state = "RETR" /\ FileSend(d, p, C, D, P)
  <2> DEFINE D1 == [D EXCEPT !.fleft = @ - 1]
             D2 == [D EXCEPT !.fp = "none"]
             C2 == [C EXCEPT ![s].offset = FALSE]
  <2>1. ASSUME D.fp = "rd", D.fleft > 0 PROVE Underway(s, d, p, C, D1, P)
    <3>1. D \in DataRec
      BY DEF Underway
    <3>2. D.fleft - 1 \in 0..MaxLeft
      BY <2>1, <3>1, FtpsAssumption DEF DataRec
    <3>3. /\ D1 \in DataRec /\ D1.ctrl = D.ctrl /\ D1.conn = D.conn /\ D1.stale = D.stale
          /\ D1.fp = D.fp /\ D1.dp = D.dp /\ D1.dleft = D.dleft
      BY <3>1, <3>2 DEF DataRec
    <3> HIDE DEF D1
    <3> QED
      BY <2>1, <3>3 DEF Underway, Fits, ReadOut
  <2>2. ASSUME D.fp = "wr" \/ D.fleft = 0 \/ DiskErr PROVE Underway(s, d, p, C2, D2, P)
    <3>1. C[s] \in CtrlRec /\ C \in [Sess -> CtrlRec]
      BY DEF Underway, Ready
    <3>2. [C[s] EXCEPT !.offset = FALSE] \in CtrlRec
      BY <3>1 DEF CtrlRec
    <3>3. /\ C2 \in [Sess -> CtrlRec] /\ \A t \in Sess \ {s} : C2[t] = C[t]
          /\ C2[s] = [C[s] EXCEPT !.offset = FALSE]
      BY <3>1, <3>2
    <3>4. C2[s].data = C[s].data /\ C2[s].data_pcb = C[s].data_pcb /\ C2[s].state = C[s].state
      BY <3>1, <3>3 DEF CtrlRec
    <3>5. D2 \in DataRec /\ D2.ctrl = s /\ D2.conn /\ ~D2.stale /\ Fits("RETR", D2, said[s])
      BY <1>4, <2>2 DEF Underway, DataRec, Fits, ReadOut, Transfer
    <3> HIDE DEF C2, D2
    <3> QED
      BY <1>4, <3>3, <3>4, <3>5 DEF Underway, Ready
  <2>3. D.ctrl = s
    BY DEF Underway
  <2> HIDE DEF D1, D2, C2
  <2>4. \/ D.fp = "rd" /\ D.fleft > 0 /\ Send(d, p, C, D1, P)
        \/ (D.fp = "wr" \/ D.fleft = 0 \/ DiskErr) /\ Keep(d, p, C2, D2, P)
        \/ Send(d, p, C, D, P)
        \/ ~D.sending /\ D.fp = "none" /\ Complete(d, p, C)
    BY <1>4, <2>3 DEF FileSend, D1, D2, C2
  <2>5. ASSUME ~D.sending, D.fp = "none" PROVE DiskErr \/ Done(D)
    BY <1>4, <2>5 DEF Underway, Fits, ReadOut, Done
  <2> QED
    BY <1>1, <1>2, <2>1, <2>2, <2>4, <2>5, SendOStep
<1> QED
  BY <1>2, <1>3, <1>4 DEF Progress, Underway

-----------------------------------------------------------------------------
(* The control connection.                                                     *)

\* A step that touches no data connection.
LEMMA TalkOStep ==
  ASSUME IInv, IInv', OInv, NEW s \in Sess, OthersSaid(s), UNCHANGED <<dataVars, fault>>,
         \A t \in Sess \ {s} : ctrl'[t] = ctrl[t] /\ (t \in ctrlConns' <=> t \in ctrlConns),
         s \in ctrlConns => s \in ctrlConns',
         ctrl'[s].data = ctrl[s].data, ctrl'[s].data_pcb = ctrl[s].data_pcb, Settled(s)',
         said[s] = "150" => said'[s] # "226"
  PROVE  OKept
<1>1. Local(s)
  <2>1. ctrl[s].data # None => s \in ctrlConns
    BY DEF OInv, Settled
  <2> QED
    BY <2>1, TypeFacts DEF Local, OthersSaid, dataVars
<1>2. Tidy(s)'
  BY DEF Tidy, Owned, OInv, dataVars
<1>3. Told(s)
  BY DEF Told, TellsWhole, TellsAll
<1> QED
  BY <1>1, <1>2, <1>3, LocalStep DEF OInv, dataVars

LEMMA EndOStep ==
  ASSUME IInv, IInv', OInv, NEW s \in ctrlConns, NEW block \in {NewCtrl, Reaped},
         EndSession(s, block)
  PROVE  OKept
<1> DEFINE d == ctrl[s].data
           p == ctrl[s].data_pcb
           base == IF d \in dataConns THEN [data EXCEPT ![d] = NewData] ELSE data
<1>1. s \in Sess /\ Settled(s)
  BY TypeFacts DEF OInv
<1>2. ~Bogus(p)
  BY <1>1 DEF Bogus, Settled
<1>3. /\ ctrlConns' = ctrlConns \ {s} /\ ctrl' = [ctrl EXCEPT ![s] = block]
      /\ pcb' = (IF d = None THEN pcb ELSE Shut(p))
      /\ dataConns' = dataConns \ {d}
      /\ data' = [x \in Data |-> IF base[x].ctrl = s THEN [base[x] EXCEPT !.stale = TRUE]
                                                     ELSE base[x]]
      /\ said' = [said EXCEPT ![s] = "none"]
      /\ UNCHANGED <<leaked, fault>>
  BY <1>2 DEF EndSession
<1>4. /\ ctrl'[s].data = None /\ ctrl'[s].data_pcb = None /\ ctrl'[s].state = "IDLE"
      /\ \A t \in Sess \ {s} : ctrl'[t] = ctrl[t] /\ said'[t] = said[t]
  BY <1>1, <1>3, ReapedType DEF IInv, TypeOK, NewCtrl
<1>5. \A x \in Data : data[x].ctrl # s => x # d /\ data'[x] = data[x]
  <2>1. d # None => data[d].ctrl = s
    BY DEF IInv, Linked, SessionPointsHome
  <2>2. \A x \in Data : data[x].ctrl # s => x # d /\ base[x] = data[x]
    BY <2>1, TypeFacts DEF IInv, TypeOK
  <2> HIDE DEF base
  <2> QED
    BY <1>3, <2>2
<1>6. \A x \in dataConns' : data[x].ctrl # s
  BY <1>3 DEF OInv, Owned
<1>7. \A q \in Conn : /\ q # p => pcb'[q] = pcb[q]
                      /\ q = p => pcb'[q].st = "free"
  <2>1. pcb \in [Conn -> PcbRec] /\ FreePcb.st = "free" /\ None \notin Conn
    BY TypeFacts DEF IInv, TypeOK, FreePcb
  <2>2. d = None => p = None
    BY <1>1 DEF Settled
  <2> QED
    BY <1>3, <2>1, <2>2 DEF Shut
<1>8. Local(s)
  <2>1. p # None => p \in Conn
    BY <1>1, TypeFacts DEF CtrlRec
  <2>2. \A t \in Sess \ {s} : (t \in ctrlConns' <=> t \in ctrlConns)
    BY <1>3
  <2>3. \A x \in Data : data[x].ctrl # s => (x \in dataConns' <=> x \in dataConns)
    BY <1>3, <1>5
  <2> HIDE DEF d
  <2> QED
    BY <1>4, <1>5, <1>6, <1>7, <2>1, <2>2, <2>3 DEF Local
<1>9. Tidy(s)'
  <2>1. None \notin dataConns'
    BY TypeFacts DEF IInv, TypeOK
  <2>2. Settled(s)'
    BY <1>4, <2>1 DEF Settled, Transfer
  <2>3. \A x \in dataConns' : data'[x].ctrl # s
    BY <1>3, <1>5, <1>6, TypeFacts
  <2> QED
    BY <2>2, <2>3 DEF Tidy
<1>10. Told(s)
  BY <1>1, <1>3 DEF Told, TellsWhole, TellsAll, IInv, TypeOK
<1> QED
  BY <1>1, <1>3, <1>8, <1>9, <1>10, LocalStep DEF OInv

\* A step that changes nothing a session is judged by but its state, outside transfers.
LEMMA StateOStep ==
  ASSUME IInv, IInv', OInv, NEW s \in ctrlConns, UNCHANGED <<lists, dataVars, fault, said>>,
         \/ ctrl' = ctrl
         \/ (\E st \in States \ Transfer : SetState(s, st))
         \/ (\E n \in 0..MaxPoll + 1 : ctrl' = [ctrl EXCEPT ![s].timeout = n])
         \/ (\E b \in BOOLEAN : ctrl' = [ctrl EXCEPT ![s].offset = b])
  PROVE  OKept
<1>1. s \in Sess /\ ctrl[s] \in CtrlRec /\ ctrl \in [Sess -> CtrlRec]
  BY TypeFacts DEF IInv, TypeOK
<1>2. /\ \A t \in Sess \ {s} : ctrl'[t] = ctrl[t]
      /\ ctrl'[s].data = ctrl[s].data /\ ctrl'[s].data_pcb = ctrl[s].data_pcb
      /\ ctrl'[s].state = ctrl[s].state \/ ctrl'[s].state \notin Transfer
  BY <1>1 DEF SetState, CtrlRec
<1>3. Settled(s)'
  BY <1>1, <1>2 DEF OInv, Settled, Fits, Transfer, lists, dataVars
<1> QED
  BY <1>1, <1>2, <1>3, TalkOStep DEF OthersSaid, lists

LEMMA PollOStep ==
  ASSUME IInv, IInv', OInv, NEW s \in ctrlConns, Poll(s)
  PROVE  OKept
<1> DEFINE d == ctrl[s].data
           p == ctrl[s].data_pcb
           C == [ctrl EXCEPT ![s].timeout = 1]
<1>1. s \in Sess /\ ctrl[s] \in CtrlRec /\ ctrl \in [Sess -> CtrlRec] /\ Settled(s)
  BY TypeFacts DEF IInv, TypeOK, OInv
<1>2. CASE EndSession(s, Reaped)
  BY <1>2, EndOStep
<1>3. CASE ctrl[s].timeout < MaxPoll /\ Count(s)
  <2>1. ctrl[s].timeout + 1 \in 0..MaxPoll + 1
    BY <1>1, <1>3, FtpsAssumption DEF CtrlRec
  <2>2. ctrl' = [ctrl EXCEPT ![s].timeout = ctrl[s].timeout + 1]
    BY <1>1, <1>3 DEF Count
  <2> QED
    BY <1>3, <2>1, <2>2, StateOStep DEF Count
<1>4. CASE ctrl' = C /\ UNCHANGED <<lists, dataVars, out, fault, said, mute>>
  <2>1. 1 \in 0..MaxPoll + 1
    BY FtpsAssumption
  <2> QED
    BY <1>4, <2>1, StateOStep
<1>5. CASE /\ d # None /\ data[d].conn /\ UNCHANGED <<lists, fault, mute>>
           /\ Progress(d, p, C, data[d], pcb[p])
  <2>1. p # None /\ d \in dataConns /\ pcb[p].st = "open" /\ pcb[p].arg = d
    BY <1>1, <1>5 DEF Settled
  <2>2. p \in Conn /\ pcb[p] \in PcbRec /\ data[d] \in DataRec
    BY <1>1, <2>1, TypeFacts DEF CtrlRec
  <2>3. data[d].ctrl = s /\ ~data[d].stale
    BY <1>5 DEF IInv, Linked, SessionPointsHome
  <2>4. [ctrl[s] EXCEPT !.timeout = 1] \in CtrlRec
    BY <1>1, FtpsAssumption DEF CtrlRec
  <2>5. /\ C \in [Sess -> CtrlRec] /\ \A t \in Sess \ {s} : C[t] = ctrl[t]
        /\ C[s].data = d /\ C[s].data_pcb = p /\ C[s].state = ctrl[s].state
    BY <1>1, <2>4 DEF CtrlRec
  <2>6. Fits(ctrl[s].state, data[d], said[s])
    BY <1>1, <2>1 DEF Settled
  <2> HIDE DEF C
  <2>7. Underway(s, d, p, C, data[d], pcb[p])
    BY <1>5, <2>1, <2>2, <2>3, <2>5, <2>6 DEF Underway, Ready
  <2> HIDE DEF d, p
  <2> QED
    BY <1>1, <1>5, <2>2, <2>7, ProgressOStep
<1>6. d # None /\ data[d].conn => p # None /\ ~Bogus(p)
  BY <1>1 DEF Settled, Bogus
<1>7. ctrl[s].timeout \in Int /\ MaxPoll \in Int
  BY <1>1, FtpsAssumption DEF CtrlRec
<1> HIDE DEF C
<1>8. CASE d = None
  BY <1>2, <1>3, <1>7, <1>8 DEF Poll
<1>9. CASE d # None
  BY <1>4, <1>5, <1>6, <1>9 DEF Poll, C
<1> QED
  BY <1>8, <1>9

LEMMA StayOStep == ASSUME OInv, UNCHANGED vars PROVE OKept
<1>1. OInv'
  BY DEF OInv, Owned, Settled, CallbackArgLive, vars, lists, dataVars
<1>2. \A s \in Sess : Told(s)
  BY DEF Told, TellsWhole, TellsAll, vars
<1> QED
  BY <1>1, <1>2 DEF OKept

LEMMA ControlOStep ==
  ASSUME IInv, IInv', OInv, NEW s \in Sess, Control(s)
  PROVE  OKept
<1>1. CASE Accept(s) /\ s \in ctrlConns'
  <2>1. s \notin ctrlConns /\ ctrlConns' = ctrlConns \cup {s}
        /\ ctrl' = [ctrl EXCEPT ![s] = NewCtrl] /\ UNCHANGED <<dataVars, fault, said>>
    BY <1>1 DEF Accept, lists
  <2>2. ctrl[s].data = None /\ ctrl[s].data_pcb = None
    BY <2>1 DEF OInv, Settled
  <2>3. /\ ctrl'[s].data = None /\ ctrl'[s].data_pcb = None /\ ctrl'[s].state = "IDLE"
        /\ \A t \in Sess \ {s} : ctrl'[t] = ctrl[t]
    BY <2>1 DEF IInv, TypeOK, NewCtrl
  <2>4. Settled(s)'
    <3>1. None \notin dataConns'
      BY TypeFacts DEF IInv, TypeOK
    <3> QED
      BY <2>3, <3>1 DEF Settled, Transfer
  <2> QED
    BY <2>1, <2>2, <2>3, <2>4, TalkOStep DEF OthersSaid
<1>2. CASE CtrlEof(s) \/ CtrlErr(s)
  BY <1>2, EndOStep DEF CtrlEof, CtrlErr, Hears, Usable
<1>3. CASE CtrlSent(s)
  BY <1>3, EndOStep, StateOStep DEF CtrlSent, Hears, Usable
<1>4. CASE Poll(s)
  BY <1>4, PollOStep DEF Poll, Usable
<1>5. CASE Vanish(s)
  BY <1>5, StateOStep DEF Vanish, Hears, Usable
<1>6. CASE Accept(s) /\ s \notin ctrlConns'
  BY <1>6, StayOStep DEF Accept, vars, lists, dataVars
<1> QED
  BY <1>1, <1>2, <1>3, <1>4, <1>5, <1>6 DEF Control

-----------------------------------------------------------------------------
(* The commands.                                                               *)

LEMMA AbrtOStep ==
  ASSUME IInv, IInv', OInv, NEW s \in ctrlConns, CmdAbrt(s)
  PROVE  OKept
<1> DEFINE d == ctrl[s].data
           p == ctrl[s].data_pcb
<1>1. s \in Sess /\ Settled(s) /\ ctrl \in [Sess -> CtrlRec]
  BY TypeFacts DEF IInv, TypeOK, OInv
<1>2. CASE d = None
  BY <1>2, StateOStep DEF CmdAbrt, OnlyCtrl
<1>3. CASE d # None
  <2>1. ~Bogus(p)
    BY <1>1 DEF Bogus, Settled
  <2>2. DataClose(d, p, ctrl) /\ SaysEnd(s, "failed") /\ UNCHANGED <<lists, fault, mute>>
    BY <1>3, <2>1 DEF CmdAbrt
  <2>3. OthersSaid(s)
    BY <2>2 DEF SaysEnd, Says, OthersSaid, IInv, TypeOK
  <2>6. said[s] = "150" => said'[s] = "failed"
    BY <1>1, <2>2 DEF SaysEnd, Says, IInv, TypeOK
  <2>4. CASE d \in dataConns
    <3>1. Ready(s, d, p, ctrl)
      BY <1>1, <1>3, <2>4 DEF Ready, IInv, Linked, SessionPointsHome
    <3>2. Told(s)
      BY <2>6 DEF Told, TellsWhole, TellsAll
    <3> HIDE DEF d, p
    <3> QED
      BY <1>1, <2>2, <2>3, <3>1, <3>2, CloseOStep
  <2>5. CASE d \notin dataConns
    <3>1. p = None
      BY <1>1, <2>5 DEF Settled
    <3>2. UNCHANGED <<ctrl, data, dataConns, dataCnt, leaked, pcb>>
      BY <2>2, <2>5, <3>1 DEF DataClose, Shut
    <3>3. Settled(s)'
      BY <1>1, <2>2, <2>5, <3>2 DEF Settled, lists
    <3> QED
      BY <1>1, <2>2, <2>3, <2>6, <3>2, <3>3, TalkOStep DEF dataVars, lists
  <2> QED
    BY <2>4, <2>5
<1> QED
  BY <1>2, <1>3

\* A fresh block for a session that has none, in data_conns or lost when it cannot listen.
LEMMA LinkOStep ==
  ASSUME IInv, IInv', OInv, NEW s \in ctrlConns, NEW d \in Fresh, NEW D \in DataRec,
         ctrl[s].data = None, said[s] # "150",
         D.ctrl = s, ~D.stale, ~D.conn, D.fp = "none", ~D.dp, ReadOut(D),
         data' = [data EXCEPT ![d] = D],
         ctrl'[s].data = d, ctrl'[s].data_pcb = ctrl[s].data_pcb,
         ctrl'[s].state = ctrl[s].state, \A t \in Sess \ {s} : ctrl'[t] = ctrl[t],
         dataConns' = dataConns \cup {d} \/ UNCHANGED dataConns,
         ~LowMem => leaked' = {},
         UNCHANGED <<lists, fault, said, pcb>>
  PROVE  OKept
<1>1. s \in Sess /\ d \in Data /\ d # None /\ d \notin dataConns
  BY TypeFacts DEF Fresh
<1>2. ctrl[s].data_pcb = None /\ ctrl[s].state \notin Transfer
  BY <1>1 DEF OInv, Settled
<1>3. data'[d] = D /\ \A e \in Data \ {d} : data'[e] = data[e]
  BY <1>1 DEF IInv, TypeOK
<1>4. \A e \in dataConns : data[e].ctrl # s
  BY TypeFacts DEF OInv, Owned
<1>5. Local(s)
  <2>1. \A e \in Data : data[e].ctrl # s /\ e # d =>
          data'[e] = data[e] /\ (e \in dataConns' <=> e \in dataConns)
    BY <1>3
  <2>2. \A e \in dataConns' : data[e].ctrl = s => data'[e].ctrl = s
    BY <1>3, <1>4
  <2> QED
    BY <1>2, <2>1, <2>2 DEF Local, lists
<1>6. Tidy(s)'
  <2>1. Fits(ctrl[s].state, D, said[s])
    BY <1>2 DEF Fits, Transfer
  <2>2. Settled(s)'
    BY <1>1, <1>2, <1>3, <2>1 DEF Settled, lists, DataRec
  <2>3. \A e \in dataConns' : data'[e].ctrl = s => Owned(e)'
    BY <1>3, <1>4, TypeFacts DEF Owned, lists
  <2> QED
    BY <2>2, <2>3 DEF Tidy
<1>7. Told(s)
  BY DEF Told, TellsWhole, TellsAll
<1> QED
  BY <1>1, <1>5, <1>6, <1>7, LocalStep DEF OInv

LEMMA PasvOStep ==
  ASSUME IInv, IInv', OInv, OnePassive, NEW s \in ctrlConns, CmdPasv(s)
  PROVE  OKept
<1>1. /\ ctrl[s].data = None /\ said[s] # "150" /\ UNCHANGED <<lists, fault, said, mute>>
      /\ s \in Sess /\ ctrl[s] \in CtrlRec /\ ctrl \in [Sess -> CtrlRec]
  BY TypeFacts DEF CmdPasv, BetweenTransfers, OnePassive, IInv, TypeOK
<1>2. ASSUME NEW d \in Fresh,
             data' = [data EXCEPT ![d] = [NewData EXCEPT !.ctrl = s, !.listen = TRUE]],
             ctrl' = [ctrl EXCEPT ![s].data = d, ![s].pasv = TRUE],
             dataConns' = dataConns \cup {d}, UNCHANGED <<leaked, pcb>>
      PROVE  OKept
  <2> DEFINE D == [NewData EXCEPT !.ctrl = s, !.listen = TRUE]
  <2>1. D \in DataRec /\ D.ctrl = s /\ ~D.stale
    BY <1>1, OwnedType
  <2>2. ~D.conn /\ D.fp = "none" /\ ~D.dp /\ ReadOut(D)
    BY DEF NewData, ReadOut
  <2>3. /\ ctrl'[s].data = d /\ ctrl'[s].data_pcb = ctrl[s].data_pcb
        /\ ctrl'[s].state = ctrl[s].state /\ \A t \in Sess \ {s} : ctrl'[t] = ctrl[t]
    BY <1>1, <1>2 DEF CtrlRec
  <2>4. ~LowMem => leaked' = {}
    BY <1>2 DEF OInv
  <2> HIDE DEF D
  <2> QED
    BY <1>1, <1>2, <2>1, <2>2, <2>3, <2>4, LinkOStep DEF D
<1>3. ASSUME LowMem, NEW d \in Fresh,
             data' = [data EXCEPT ![d] = [NewData EXCEPT !.ctrl = s]],
             ctrl' = [ctrl EXCEPT ![s].data = d],
             UNCHANGED <<dataConns, pcb>>
      PROVE  OKept
  <2> DEFINE D == [NewData EXCEPT !.ctrl = s]
  <2>1. D \in DataRec /\ D.ctrl = s /\ ~D.stale
    BY <1>1, OwnedType
  <2>2. ~D.conn /\ D.fp = "none" /\ ~D.dp /\ ReadOut(D)
    BY DEF NewData, ReadOut
  <2>3. /\ ctrl'[s].data = d /\ ctrl'[s].data_pcb = ctrl[s].data_pcb
        /\ ctrl'[s].state = ctrl[s].state /\ \A t \in Sess \ {s} : ctrl'[t] = ctrl[t]
    BY <1>1, <1>3 DEF CtrlRec
  <2> HIDE DEF D
  <2> QED
    BY <1>1, <1>3, <2>1, <2>2, <2>3, LinkOStep DEF D
<1>4. CASE ctrl' = [ctrl EXCEPT ![s].data = None] /\ UNCHANGED dataVars
  <2>1. /\ ctrl'[s].data = None /\ ctrl'[s].data_pcb = ctrl[s].data_pcb
        /\ ctrl'[s].state = ctrl[s].state /\ \A t \in Sess \ {s} : ctrl'[t] = ctrl[t]
    BY <1>1, <1>4 DEF CtrlRec
  <2>2. Settled(s)'
    BY <1>1, <1>4, <2>1 DEF OInv, Settled, lists, dataVars
  <2> QED
    BY <1>1, <1>4, <2>1, <2>2, TalkOStep DEF OthersSaid, lists
<1> QED
  BY <1>2, <1>3, <1>4 DEF CmdPasv, Fresh

LEMMA BeginOStep ==
  ASSUME IInv, IInv', OInv, NEW s \in ctrlConns, NEW k \in Transfer, Begin(s, k),
         ctrl[s].pasv, NEW d, d = ctrl[s].data, d # None, said[s] # "150",
         UNCHANGED <<lists, fault>>
  PROVE  OKept
<1>1. /\ s \in Sess /\ ctrl[s] \in CtrlRec /\ ctrl \in [Sess -> CtrlRec] /\ Settled(s)
      /\ d \in Data /\ data[d] \in DataRec /\ data[d].ctrl = s /\ ~data[d].stale
  BY TypeFacts DEF IInv, TypeOK, OInv, Linked, SessionPointsHome
<1>2. /\ SetState(s, k) /\ Says(s, "150") /\ UNCHANGED <<dataConns, dataCnt, leaked, pcb>>
      /\ \E n \in 0..MaxLeft : data' = [data EXCEPT ![d] = Opened(data[d], k, n)]
  BY DEF Begin
<1>3. PICK n \in 0..MaxLeft : data' = [data EXCEPT ![d] = Opened(data[d], k, n)]
  BY <1>2
<1> DEFINE D == Opened(data[d], k, n)
<1>4. D \in DataRec /\ D.ctrl = s /\ ~D.stale
  BY <1>1, OpenedType
<1>5. /\ D.conn = data[d].conn
      /\ data[d].fp = "none" /\ ~data[d].dp /\ ReadOut(data[d]) => Fits(k, D, "150")
  <2>1. CASE k = "LIST"
    BY <1>1, <2>1 DEF Opened, Fits, ReadOut, DataRec
  <2>2. CASE k = "RETR"
    BY <1>1, <2>2 DEF Opened, Fits, ReadOut, DataRec
  <2>3. CASE k = "STOR"
    BY <1>1, <2>3 DEF Opened, Fits, ReadOut, DataRec
  <2> QED
    BY <2>1, <2>2, <2>3 DEF Transfer
<1>6. /\ ctrl'[s].data = d /\ ctrl'[s].data_pcb = ctrl[s].data_pcb /\ ctrl'[s].state = k
      /\ \A t \in Sess \ {s} : ctrl'[t] = ctrl[t]
      /\ said'[s] = "150" /\ \A t \in Sess \ {s} : said'[t] = said[t]
  BY <1>1, <1>2 DEF SetState, Says, CtrlRec, IInv, TypeOK
<1> HIDE DEF D
<1>7. data'[d] = D /\ \A e \in Data \ {d} : data'[e] = data[e]
  BY <1>1, <1>3 DEF IInv, TypeOK, D
<1>8. Local(s)
  BY <1>1, <1>2, <1>4, <1>6, <1>7 DEF Local, lists
<1>9. Tidy(s)'
  <2>1. d \in dataConns => data[d].fp = "none" /\ ~data[d].dp /\ ReadOut(data[d])
    BY <1>1 DEF Settled, Fits
  <2>2. d # None => (data'[d].conn <=> ctrl'[s].data_pcb # None)
    BY <1>1, <1>5, <1>6, <1>7 DEF Settled
  <2>3. d \in dataConns => Fits(k, data'[d], "150")
    BY <1>5, <1>7, <2>1
  <2>4. Settled(s)'
    BY <1>1, <1>2, <1>6, <2>2, <2>3 DEF Settled, lists
  <2>5. \A e \in dataConns : data'[e].ctrl = s => Owned(e)'
    <3>1. \A e \in dataConns : data'[e].ctrl = s => e = d
      BY <1>7, TypeFacts DEF OInv, Owned
    <3>2. Owned(d)'
      BY <1>4, <1>6, <1>7 DEF Owned, lists
    <3> QED
      BY <3>1, <3>2
  <2> QED
    BY <1>2, <2>4, <2>5 DEF Tidy
<1>10. Told(s)
  BY DEF Told, TellsWhole, TellsAll
<1> QED
  BY <1>1, <1>2, <1>8, <1>9, <1>10, LocalStep DEF OInv

LEMMA CommandOStep ==
  ASSUME IInv, IInv', OInv, OnePassive, NEW s \in Sess, Command(s)
  PROVE  OKept
<1>1. s \in ctrlConns
  BY DEF Command, CmdUser, CmdPass, CmdQuit, CmdAbrt, CmdInfo, CmdChdir, CmdDele, CmdMkd,
         CmdRnfr, CmdRnto, CmdRest, CmdPasv, CmdList, CmdRetr, CmdStor, MayBegin, Asks, Hears,
         Usable
<1>2. CASE CmdUser(s) \/ CmdPass(s) \/ CmdQuit(s) \/ CmdRnfr(s) \/ CmdRnto(s)
  <2>1. UNCHANGED <<lists, dataVars, fault, said>>
    BY <1>2 DEF CmdUser, CmdPass, CmdQuit, CmdRnfr, CmdRnto, OnlyCtrl
  <2>2. ctrl' = ctrl \/ \E st \in States \ Transfer : SetState(s, st)
    BY <1>2 DEF CmdUser, CmdPass, CmdQuit, CmdRnfr, CmdRnto, States, Transfer
  <2> QED
    BY <1>1, <2>1, <2>2, StateOStep
<1>3. CASE CmdInfo(s) \/ CmdChdir(s) \/ CmdDele(s) \/ CmdMkd(s) \/ CmdRest(s)
  BY <1>1, <1>3, StateOStep DEF CmdInfo, CmdChdir, CmdDele, CmdMkd, CmdRest, OnlyCtrl
<1>4. ASSUME NEW k, MayBegin(s, k)
      PROVE  ctrl[s].pasv /\ ctrl[s].data # None /\ said[s] # "150"
  BY <1>4 DEF MayBegin, BetweenTransfers, OnePassive
<1>5. ASSUME UNCHANGED <<ctrl, dataVars>>, SaysEnd(s, "failed"), said[s] # "150",
             UNCHANGED <<lists, fault>>
      PROVE  OKept
  <2>1. UNCHANGED said
    BY <1>5 DEF SaysEnd, Says, IInv, TypeOK
  <2> QED
    BY <1>1, <1>5, <2>1, StateOStep
<1>6. CASE CmdList(s)
  BY <1>1, <1>4, <1>5, <1>6, BeginOStep DEF CmdList, NoTransfer, Transfer
<1>7. CASE CmdRetr(s)
  BY <1>1, <1>4, <1>5, <1>7, BeginOStep DEF CmdRetr, NoTransfer, Transfer
<1>8. CASE CmdStor(s)
  BY <1>1, <1>4, <1>5, <1>8, BeginOStep DEF CmdStor, NoTransfer, Transfer
<1> QED
  BY <1>1, <1>2, <1>3, <1>6, <1>7, <1>8, AbrtOStep, PasvOStep DEF Command

-----------------------------------------------------------------------------
(* The data connections.                                                       *)

\* A connection whose callbacks may come belongs to the block that its session has.
LEMMA ArgFacts ==
  ASSUME IInv, OInv, NEW p \in Conn, pcb[p].st # "free", NEW d, d = pcb[p].arg
  PROVE  /\ d \in dataConns /\ data[d].ctrl \in ctrlConns /\ data[d].ctrl \in Sess
         /\ ~data[d].stale /\ data[d].conn /\ pcb[p].st = "open"
         /\ ctrl[data[d].ctrl].data = d /\ ctrl[data[d].ctrl].data_pcb = p
         /\ Ready(data[d].ctrl, d, p, ctrl)
         /\ Underway(data[d].ctrl, d, p, ctrl, data[d], pcb[p])
<1> DEFINE s == data[d].ctrl
<1>1. d \in dataConns /\ ctrl[s].data_pcb = p
  BY DEF OInv, CallbackArgLive
<1>2. s \in ctrlConns /\ ~data[d].stale /\ ctrl[s].data = d
  BY <1>1 DEF OInv, Owned
<1>3. s \in Sess /\ d # None /\ p # None /\ data[d] \in DataRec /\ pcb[p] \in PcbRec
  BY <1>1, <1>2, TypeFacts
<1>4. Settled(s)
  BY <1>3 DEF OInv
<1>5. data[d].conn /\ pcb[p].st = "open" /\ Fits(ctrl[s].state, data[d], said[s])
  BY <1>1, <1>2, <1>3, <1>4 DEF Settled
<1>6. Ready(s, d, p, ctrl)
  BY <1>1, <1>2, <1>3 DEF Ready, IInv, TypeOK
<1> QED
  BY <1>1, <1>2, <1>3, <1>5, <1>6 DEF Underway

LEMMA ConnectOStep ==
  ASSUME IInv, IInv', OInv, OnePassive, NEW d \in Data, NEW p \in Conn, PassiveConnect(d, p)
  PROVE  OKept
<1> DEFINE s == data[d].ctrl
           C == [ctrl EXCEPT ![s].data_pcb = p]
           D == [data[d] EXCEPT !.conn = TRUE]
           P == [FreePcb EXCEPT !.st = "open", !.arg = d]
<1>1. /\ d \in dataConns /\ ~data[d].conn /\ pcb[p].st = "free" /\ Owned(d)
      /\ Connected(d, p, P)
  BY DEF PassiveConnect, OnePassive, OInv
<1>2. s \in ctrlConns /\ s \in Sess /\ ~data[d].stale /\ ctrl[s].data = d /\ d # None
  BY <1>1, TypeFacts DEF Owned
<1>3. Settled(s) /\ ctrl[s] \in CtrlRec /\ ctrl \in [Sess -> CtrlRec] /\ data[d] \in DataRec
  BY <1>2, TypeFacts DEF OInv, IInv, TypeOK
<1>4. ctrl[s].data_pcb = None /\ Fits(ctrl[s].state, data[d], said[s])
  BY <1>1, <1>2, <1>3 DEF Settled
<1>5. [ctrl[s] EXCEPT !.data_pcb = p] \in CtrlRec
  BY <1>3 DEF CtrlRec
<1>6. /\ C \in [Sess -> CtrlRec] /\ \A t \in Sess \ {s} : C[t] = ctrl[t]
      /\ C[s].data = d /\ C[s].data_pcb = p /\ C[s].state = ctrl[s].state
  BY <1>2, <1>3, <1>5 DEF CtrlRec
<1>7. /\ D \in DataRec /\ D.ctrl = s /\ D.conn /\ ~D.stale /\ Fits(ctrl[s].state, D, said[s])
      /\ Done(D) => Done(data[d])
  BY <1>2, <1>3, <1>4 DEF DataRec, Fits, ReadOut, Done
<1>8. P \in PcbRec /\ P.st = "open" /\ P.arg = d
  BY DEF FreePcb, PcbRec
<1>9. Progress(d, p, C, D, P) /\ UNCHANGED <<lists, fault>>
  BY <1>1, <1>2 DEF Connected
<1> HIDE DEF C, D, P
<1>10. Underway(s, d, p, C, D, P)
  BY <1>1, <1>2, <1>4, <1>6, <1>7, <1>8 DEF Underway, Ready
<1> HIDE DEF s
<1> QED
  BY <1>2, <1>7, <1>9, <1>10, ProgressOStep

LEMMA DataOStep ==
  ASSUME IInv, IInv', OInv, OnePassive, NEW p \in Conn, DataCallback(p)
  PROVE  OKept
<1>1. CASE \E d \in Data : PassiveConnect(d, p)
  BY <1>1, ConnectOStep
<1>2. ~ActiveConnect(p) /\ ~ActiveRefused(p)
  BY ArgFacts DEF ActiveConnect, ActiveRefused
<1>3. ASSUME DataSent(p) \/ DataRecv(p) \/ DataEof(p) \/ DataErr(p) PROVE OKept
  <2>1. PICK d : d = pcb[p].arg
    OBVIOUS
  <2>2. pcb[p].st # "free"
    BY <1>3 DEF DataSent, DataRecv, DataEof, DataErr
  <2>3. PICK s : s = data[d].ctrl
    OBVIOUS
  <2>4. /\ d \in dataConns /\ s \in Sess /\ ~data[d].stale
        /\ Ready(s, d, p, ctrl) /\ Underway(s, d, p, ctrl, data[d], pcb[p])
    BY <2>1, <2>2, <2>3, ArgFacts
  <2>5. CASE DataSent(p)
    <3>1. PICK more \in BOOLEAN : Progress(d, p, ctrl, data[d], [pcb[p] EXCEPT !.inFlight = more])
      BY <2>1, <2>4, <2>5 DEF DataSent
    <3>2. UNCHANGED <<lists, fault>>
      BY <2>1, <2>4, <2>5 DEF DataSent
    <3> DEFINE P == [pcb[p] EXCEPT !.inFlight = more]
    <3>3. P \in PcbRec /\ P.st = "open" /\ P.arg = d
      BY <2>4 DEF Underway, PcbRec
    <3> HIDE DEF P
    <3>4. Underway(s, d, p, ctrl, data[d], P)
      BY <2>4, <3>3 DEF Underway
    <3> QED
      BY <2>4, <3>1, <3>2, <3>4, ProgressOStep DEF P
  <2>6. CASE DataRecv(p)
    <3>1. PICK b \in BOOLEAN : data' = [data EXCEPT ![d].sending = b]
      BY <2>1, <2>4, <2>6 DEF DataRecv
    <3>2. UNCHANGED <<ctrl, lists, dataConns, dataCnt, leaked, pcb, out, fault, said>>
      BY <2>1, <2>4, <2>6 DEF DataRecv
    <3> DEFINE D == [data[d] EXCEPT !.sending = b]
    <3>3. D \in DataRec /\ D.ctrl = s /\ D.conn /\ ~D.stale /\ Fits(ctrl[s].state, D, said[s])
      BY <2>4 DEF Underway, DataRec, Fits, ReadOut
    <3>4. data' = [data EXCEPT ![d] = D] /\ pcb' = [pcb EXCEPT ![p] = pcb[p]]
      BY <2>4, <3>1, <3>2, TypeFacts DEF IInv, TypeOK
    <3> HIDE DEF D
    <3>5. Underway(s, d, p, ctrl, D, pcb[p])
      BY <2>4, <3>3 DEF Underway
    <3>6. Keep(d, p, ctrl, D, pcb[p])
      BY <3>2, <3>4 DEF Keep
    <3> QED
      BY <2>4, <3>2, <3>5, <3>6, SendOStep
  <2>7. CASE DataEof(p)
    <3>1. Complete(d, p, ctrl) /\ Done(data[d]) /\ UNCHANGED <<lists, fault>>
      BY <2>1, <2>4, <2>7 DEF DataEof, OnePassive, Done
    <3> QED
      BY <2>4, <3>1, CompleteOStep
  <2>8. CASE DataErr(p)
    <3>1. DataClose(d, p, ctrl) /\ SaysEnd(s, "lost") /\ UNCHANGED <<lists, fault>>
      BY <2>1, <2>4, <2>8 DEF DataErr, Underway, Ready, OInv, Owned
    <3>2. OthersSaid(s) /\ (said[s] = "150" => said'[s] = "lost")
      BY <2>4, <3>1 DEF SaysEnd, Says, OthersSaid, IInv, TypeOK
    <3>3. Told(s)
      BY <3>2 DEF Told, TellsWhole, TellsAll
    <3> QED
      BY <2>4, <3>1, <3>2, <3>3, CloseOStep
  <2> QED
    BY <1>3, <2>5, <2>6, <2>7, <2>8
<1> QED
  BY <1>1, <1>2, <1>3 DEF DataCallback

LEMMA NoMemOStep ==
  ASSUME IInv, IInv', OInv, OnePassive, NEW d \in Data, PassiveNoMem(d)
  PROVE  OKept
<1> DEFINE s == data[d].ctrl
<1>1. d \in dataConns /\ ~data[d].conn /\ Owned(d)
  BY DEF PassiveNoMem, OnePassive, OInv
<1>2. s \in ctrlConns /\ s \in Sess /\ ctrl[s].data = d /\ d # None
  BY <1>1, TypeFacts DEF Owned
<1>3. ctrl[s].data_pcb = None
  BY <1>1, <1>2 DEF OInv, Settled
<1>4. DataClose(d, None, ctrl) /\ UNCHANGED <<lists, fault, said>>
  BY <1>1 DEF PassiveNoMem, Owned
<1>5. Ready(s, d, None, ctrl)
  BY <1>1, <1>2, <1>3 DEF Ready, IInv, TypeOK
<1>6. Told(s)
  BY <1>1, <1>2, <1>4 DEF PassiveNoMem, Told, TellsWhole, TellsAll
<1> HIDE DEF s
<1> QED
  BY <1>2, <1>4, <1>5, <1>6, CloseOStep DEF OthersSaid

-----------------------------------------------------------------------------
(* The invariant and the theorems.                                             *)

LEMMA InitOInv == Init => OInv
<1> SUFFICES ASSUME Init PROVE OInv
  OBVIOUS
<1>1. /\ ~fault /\ dataConns = {} /\ leaked = {} /\ ctrl = [s \in Sess |-> NewCtrl]
      /\ pcb = [p \in Conn |-> FreePcb]
  BY DEF Init
<1>2. \A s \in Sess : Settled(s)
  BY <1>1 DEF Settled, NewCtrl, Transfer
<1>3. CallbackArgLive
  BY <1>1 DEF CallbackArgLive, FreePcb
<1> QED
  BY <1>1, <1>2, <1>3 DEF OInv

LEMMA NextOKept ==
  ASSUME IInv, OInv, OnePassive, [Next]_vars
  PROVE  OKept
<1>1. IInv'
  BY NextIInv
<1>2. CASE UNCHANGED vars
  BY <1>2, StayOStep
<1>3. ASSUME NEW s \in Sess, Control(s) \/ Command(s) PROVE OKept
  BY <1>1, <1>3, ControlOStep, CommandOStep
<1>4. ASSUME NEW p \in Conn, DataCallback(p) PROVE OKept
  BY <1>1, <1>4, DataOStep
<1>5. ASSUME NEW d \in Data, PassiveNoMem(d) PROVE OKept
  BY <1>1, <1>5, NoMemOStep
<1> QED
  BY <1>2, <1>3, <1>4, <1>5 DEF Next, Faulted, OInv

LEMMA NextOInv ==
  ASSUME IInv, OInv, OnePassive, [Next]_vars
  PROVE  OInv'
BY NextOKept DEF OKept

LEMMA OrderlyInductive == ASSUME OnePassive PROVE Spec => [](IInv /\ OInv)
<1>1. Init => IInv /\ OInv
  BY InitIInv, InitOInv
<1>2. IInv /\ OInv /\ [Next]_vars => (IInv /\ OInv)'
  BY NextIInv, NextOInv
<1> QED
  BY <1>1, <1>2, PTL DEF Spec

\* With clients that run one passive transfer at a time no callback of the server follows
\* a pointer that an earlier callback has left to a freed block, also when lwIP runs out
\* of memory and files cannot be read.  (Of what ftps_ctrl_poll_cb writes to the session
\* it has itself just freed it says nothing.)
THEOREM NeverFaults == ASSUME OnePassive PROVE Spec => []NoFault
<1>1. OInv => NoFault
  BY DEF OInv, NoFault
<1> QED
  BY <1>1, OrderlyInductive, PTL

\* Every data connection belongs to a session that knows it, whichever way transfers and
\* sessions end.
THEOREM NoneIsLost == ASSUME OnePassive PROVE Spec => []NoOrphan
<1>1. OInv => NoOrphan
  BY DEF OInv, NoOrphan, Owned
<1> QED
  BY <1>1, OrderlyInductive, PTL

\* What lwIP hands to a callback of a data connection is a block in use, of the session
\* whose data_pcb that connection is.
THEOREM ArgsLive == ASSUME OnePassive PROVE Spec => []CallbackArgLive
<1>1. OInv => CallbackArgLive
  BY DEF OInv
<1> QED
  BY <1>1, OrderlyInductive, PTL

\* A session in a transfer state has the data connection and the open file or directory
\* the transfer needs, if malloc and tcp_listen never fail (a block that could not listen
\* stays with its session for good).
THEOREM TransfersHaveData ==
  ASSUME OnePassive, ~LowMem PROVE Spec => []TransferHasData
<1>1. IInv /\ OInv => TransferHasData
  <2> SUFFICES ASSUME IInv, OInv, NEW s \in ctrlConns, ctrl[s].state \in Transfer
               PROVE  /\ ctrl[s].data # None
                      /\ LET D == data[ctrl[s].data] IN
                         CASE ctrl[s].state = "LIST" -> D.dp /\ D.fp = "none"
                           [] ctrl[s].state = "RETR" -> ~D.dp /\ D.fp \in {"rd", "none"}
                           [] ctrl[s].state = "STOR" -> ~D.dp /\ D.fp = "wr"
    BY DEF TransferHasData
  <2>1. Settled(s) /\ ctrl[s].data # None
    BY TypeFacts DEF OInv, Settled
  <2>2. ctrl[s].data \in dataConns
    BY <2>1 DEF OInv, IInv, Linked, SessionPointsHome
  <2>3. Fits(ctrl[s].state, data[ctrl[s].data], said[s])
    BY <2>1, <2>2 DEF Settled
  <2> QED
    BY <2>1, <2>3 DEF Fits, Transfer
<1> QED
  BY <1>1, OrderlyInductive, PTL

\* If files and directories can be read, "226" ends a download only when the whole file
\* has been read and handed to lwIP, and a listing only when the directory has been read
\* to its end and the last entry handed over, also when lwIP takes writes in part or
\* runs out of memory.
THEOREM TransfersWhole ==
  ASSUME OnePassive, ~DiskErr PROVE Spec => WholeTransfer
<1>1. ASSUME IInv, OInv, [Next]_vars, NEW s \in Sess, said[s] = "150", said'[s] = "226"
      PROVE  LET D == data[ctrl[s].data] IN
             D.fp = "wr" \/ (~D.sending /\ D.dleft = 0 /\ D.fp = "none" /\ D.fleft = 0)
  BY <1>1, NextOKept DEF OKept, Told, TellsWhole, Done
<1>2. IInv /\ OInv /\ [Next]_vars
        => [\A s \in Sess : said[s] = "150" /\ said'[s] = "226" =>
              LET D == data[ctrl[s].data] IN
              D.fp = "wr" \/ (~D.sending /\ D.dleft = 0 /\ D.fp = "none" /\ D.fleft = 0)]_vars
  BY <1>1
<1> QED
  BY <1>2, OrderlyInductive, PTL DEF Spec, WholeTransfer

\* While its session goes on, an announced transfer never loses its data connection in
\* silence: it is answered, or the client has seen the connection reset, or lwIP had no
\* memory to accept it in the first place.
THEOREM DropsAreResets ==
  ASSUME OnePassive PROVE Spec => DroppedOnlyOnReset
<1>1. ASSUME IInv, OInv, [Next]_vars, NEW s \in ctrlConns \cap ctrlConns',
             said[s] = "150", said'[s] = "150", ctrl[s].data # None, ctrl'[s].data = None
      PROVE  LowMem /\ ~data[ctrl[s].data].conn
  <2>1. s \in Sess
    BY <1>1, TypeFacts
  <2> QED
    BY <1>1, <2>1, NextOKept DEF OKept, Told, TellsAll
<1>2. IInv /\ OInv /\ [Next]_vars
        => [\A s \in ctrlConns \cap ctrlConns' :
              said[s] = "150" /\ said'[s] = "150" /\ ctrl[s].data # None /\ ctrl'[s].data = None
              => LowMem /\ ~data[ctrl[s].data].conn]_vars
  BY <1>1
<1> QED
  BY <1>2, OrderlyInductive, PTL DEF Spec, DroppedOnlyOnReset
================================================================================
