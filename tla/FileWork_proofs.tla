------------------------------ MODULE FileWork_proofs ------------------------------
(* Proofs about FileOps when the scan, the deletion and the heap behave: what a   *)
(* job leaves, and what it has done.  First how the tree mirrors the files while  *)
(* it is scanned, copied and deleted (Tidy): no node outlives its job, whatever   *)
(* fails while files are pasted.  Then what the files have to do with the order   *)
(* (Work): with room, a job that ends without an error has done all of it.        *)
EXTENDS FileOps_proofs

\* The scan and the deletion meet no error, and nobody cancels while they run.
Benign == Hidden = {} /\ Faults \cap {"scan", "unlink", "quit", "late"} = {}

\* A cut within a volume takes files from their place while it pastes.
Renames == ft.on /\ ui.main # "delete" /\ ui.cut /\ ~job.cross

\* A node stands for an entry that is where the node says: in the folder of its parent.
Mapped(C) ==
  /\ \A x \in C : /\ Par(x) \in C \cup {Nil} /\ Up[Item(x)] = At(x)
                  /\ At(x) = IF Par(x) = Nil THEN Here ELSE Item(Par(x))
  /\ \A x, y \in C : Item(x) = Item(y) => x = y
  /\ ~Renames => \A x \in C : Item(x) \in disk.home

\* What is still to be collected, and when.
Selected(C) ==
  /\ \A e \in sobj : e \in disk.home /\ Up[e] = Here
  /\ \A x \in C : Item(x) \notin sobj
  /\ ~ft.on /\ ops.st = "init" => \A x \in C : Par(x) = Nil
  /\ ops.st = "init" => scan.st = "cwd"
  /\ ops.on => ui.main # "idle"
  /\ ui.main = "copy" => ops.st = "init"
  /\ ft.on \/ ui.main = "paste" \/ (ops.on /\ ops.st = "read") => sobj = {}
  /\ ui.menu = "paste" /\ ~ops.on => sobj = {}

\* All that is in the folder of x has a node.
Covered(C, x) == \A e \in disk.home : Up[e] = Item(x) => \E y \in C : Item(y) = e

\* The walk, which is at op with A above it, is not past x.
Pending(A, op, x) == x = op \/ Par(x) = op \/ \E y \in A \cup {op} : Par(x) = Par(y) /\ y < x

\* What it is not past has no child and, if it was selected, no destination.
Surveyed(C, A, op) ==
  /\ Path(A, op)
  /\ \A x \in C : Pending(A, op, x) /\ x # op => \A y \in C : Par(y) # x
  /\ \A x \in C : ~Pending(A, op, x) => Covered(C, x)
  /\ ui.main = "paste" => \A x \in C : To(x) = Nil =>
       Par(x) = Nil /\ Pending(A, op, x) /\ (x = op => scan.st = "cwd")

\* The scan of op itself: its entries have a node or are still to be read.
Reads(C, op) ==
  /\ scan.st # "cwd" => Item(op) \in Folder
  /\ scan.st = "init" => cwd = Item(op)
  /\ scan.st # "dir" => \A y \in C : Par(y) # op
  /\ scan.st = "dir" =>
       /\ \A e \in disk.home : Up[e] = Item(op) => e \in scan.todo \/ \E y \in C : Item(y) = e
       /\ \A e \in scan.todo : e \in disk.home /\ Up[e] = Item(op) /\ \A y \in C : Item(y) # e
       /\ ui.main = "paste" => scan.to # Nil

Surveying(C) ==
  ops.on /\ ops.st = "read" =>
    /\ ops.op = Nil =>
         scan.st = "cwd" /\ \A x \in C : Covered(C, x) /\ (ui.main = "paste" => To(x) # Nil)
    /\ ops.op # Nil => Reads(C, ops.op) /\ \E A \in SUBSET C : Surveyed(C, A, ops.op)

\* What the deletion has not come to hangs on what it has not freed.
Rest(C, A, op) ==
  \A x \in C \ (A \cup {op}) : \E y \in C : y < x /\ (NextOf(y) = x \/ (y \notin A /\ Kid(y) = x))

Emptying(C) ==
  /\ ft.on /\ ~Renames => \A x \in C : Covered(C, x)
  /\ ft.on /\ ui.main = "paste" =>
       (\A x \in C : To(x) # Nil) /\ (ft.st # "init" => ft.last \in C \/ ft.op = tree.list)
  /\ Undone => \E A \in SUBSET C : Left(C, A, ft.op) /\ Rest(C, A, ft.op)

\* C are all the nodes there are.
Tidy(C) == Sound(C) /\ C = Live /\ Mapped(C) /\ Selected(C) /\ Surveying(C) /\ Emptying(C)

\* What Tidy is made of.
LEMMA TidyParts ==
  ASSUME NEW C, Tidy(C)
  PROVE  /\ Sound(C) /\ Nodes /\ TypeParts /\ Control /\ Shape(C) /\ C = Live
         /\ Mapped(C) /\ Selected(C) /\ C \in SUBSET Nat /\ Nil \notin C
         /\ \A x \in C : Item(x) \in Entry
         /\ ~Undone => Tree(C)
<1>1. Sound(C) /\ C = Live /\ Mapped(C) /\ Selected(C)
  BY DEF Tidy
<1>2. Nodes /\ TypeParts /\ Control /\ Shape(C)
  BY <1>1, SoundNodes, TypeByPart DEF Sound
<1>3. C \in SUBSET Nat /\ Nil \notin C
  BY <1>1, <1>2, Addresses DEF Nodes
<1>4. \A x \in C : Item(x) \in Entry
  <2>1. \A x \in C : tree.node[x] \in NodeRec
    BY <1>1, <1>2 DEF Nodes
  <2> QED
    BY <2>1 DEF NodeRec, Item
<1> QED
  BY <1>1, <1>2, <1>3, <1>4 DEF Shape

--------------------------------------------------------------------------------
\* The way down to op goes through one node of each list.
LEMMA PathApart ==
  ASSUME NEW A \in SUBSET Nat, NEW op \in Nat, Nil \notin A \cup {op}, Path(A, op),
         NEW x \in A \cup {op}, NEW y \in A \cup {op}, Par(x) = Par(y)
  PROVE  ~(x < y)
<1> SUFFICES ASSUME x < y PROVE FALSE
  OBVIOUS
<1>1. x \in A
  BY DEF Path
<1>2. Par(y) # Nil /\ x <= Par(y) /\ Par(x) # Nil => Par(x) < x
  BY <1>1 DEF Path
<1>3. Par(y) # Nil /\ x <= Par(y) /\ Par(x) < x /\ Par(x) \in A
  BY <1>1, <1>2 DEF Path
<1>4. x \in Nat /\ Par(x) \in Nat /\ Par(x) = Par(y)
  BY <1>1, <1>3
<1> QED
  BY <1>3, <1>4

\* A node that has no child is nobody's parent.
LEMMA NoChild ==
  ASSUME Nodes, NEW C, Tree(C), NEW op \in C, Kid(op) = Nil
  PROVE  \A x \in C : Par(x) # op
<1> DEFINE S == {x \in C : Par(x) = op}
<1>1. C \in SUBSET Nat /\ Nil \notin C
  BY Addresses DEF Tree, Nodes
<1>2. SUFFICES ASSUME S # {} PROVE FALSE
  OBVIOUS
<1>3. PICK m \in S : \A y \in S : m <= y
  <2>1. S \in SUBSET Nat
    BY <1>1
  <2> HIDE DEF S
  <2> QED
    BY <1>2, <2>1, LeastNat
<1>4. m # tree.list
  BY <1>1, <1>3 DEF Tree
<1>5. PICK y \in C : y < m /\ \/ NextOf(y) = m /\ Par(y) = Par(m)
                              \/ Kid(y) = m /\ Par(m) = y
  BY <1>3, <1>4, Before
<1>6. NextOf(y) = m /\ Par(y) = op
  BY <1>1, <1>3, <1>5
<1>7. m <= y
  BY <1>3, <1>6
<1> QED
  BY <1>1, <1>3, <1>5, <1>7

\* The first child comes before the others.
LEMMA FirstChild ==
  ASSUME Nodes, NEW C, Tree(C), NEW op \in C, Kid(op) # Nil, NEW x \in C, Par(x) = op
  PROVE  x = Kid(op) \/ Kid(op) < x
<1> DEFINE S == {z \in C : Par(z) = op}
<1>1. C \in SUBSET Nat /\ Nil \notin C
  BY Addresses DEF Tree, Nodes
<1>2. Kid(op) \in S
  BY DEF Tree, Linked
<1>3. PICK m \in S : \A y \in S : m <= y
  <2>1. S \in SUBSET Nat /\ S # {}
    BY <1>1, <1>2
  <2> HIDE DEF S
  <2> QED
    BY <2>1, LeastNat
<1>4. m # tree.list
  BY <1>1, <1>3 DEF Tree
<1>5. PICK y \in C : y < m /\ \/ NextOf(y) = m /\ Par(y) = Par(m)
                              \/ Kid(y) = m /\ Par(m) = y
  BY <1>3, <1>4, Before
<1>6. ~(Par(y) = op)
  <2>1. Par(y) = op => m <= y
    BY <1>3
  <2> QED
    BY <1>1, <1>3, <1>5, <2>1
<1>7. Kid(op) = m
  BY <1>3, <1>5, <1>6
<1>8. Kid(op) <= x /\ Kid(op) \in Nat /\ x \in Nat
  BY <1>1, <1>2, <1>3, <1>7
<1> QED
  BY <1>8

\* Where the walk goes from op it is past op, and past nothing else that it was not.
LEMMA SurveyGoesOn ==
  ASSUME Nodes, NEW C, Tree(C), NEW op \in C, NEW A \in SUBSET C, Path(A, op),
         \A x \in C : Pending(A, op, x) /\ x # op => \A y \in C : Par(y) # x,
         NEW q, q = Onward(op)
  PROVE  IF q = Nil THEN \A x \in C : Pending(A, op, x) => x = op
         ELSE /\ q \in C
              /\ \E B \in SUBSET C :
                   Path(B, q) /\ \A x \in C : Pending(B, q, x) <=> Pending(A, op, x) /\ x # op
<1>1. C \in SUBSET Nat /\ Nil \notin C
  BY Addresses DEF Tree, Nodes
<1>2. \A x, y \in A \cup {op} : Par(x) = Par(y) => ~(x < y)
  BY <1>1, PathApart
<1>3. CASE Kid(op) # Nil
  <2>1. q = Kid(op) /\ q \in C /\ op < q /\ Par(q) = op /\ Path(A \cup {op}, q)
    BY <1>3, WalkDown DEF Onward
  <2>2. Pending(A, op, q) /\ q # op
    BY <1>1, <2>1 DEF Pending
  <2>3. \A x \in C : Par(x) # q
    BY <2>1, <2>2
  <2>4. \A x \in C : Par(x) = op => x = q \/ q < x
    BY <1>3, <2>1, FirstChild
  <2>5. Par(op) # op
    BY <1>1 DEF Tree
  <2>6. ASSUME NEW x \in C PROVE Pending(A \cup {op}, q, x) <=> Pending(A, op, x) /\ x # op
    <3>1. Pending(A \cup {op}, q, x) => Pending(A, op, x) /\ x # op
      <4>1. CASE x = q
        BY <2>2, <4>1
      <4>2. CASE \E y \in A \cup {op} : Par(x) = Par(y) /\ y < x
        BY <1>2, <4>2 DEF Pending
      <4>3. CASE Par(x) = Par(q) /\ q < x
        BY <2>1, <2>5, <4>3 DEF Pending
      <4> QED
        BY <2>3, <4>1, <4>2, <4>3 DEF Pending
    <3>2. Pending(A, op, x) /\ x # op => Pending(A \cup {op}, q, x)
      BY <2>1, <2>4 DEF Pending
    <3> QED
      BY <3>1, <3>2
  <2>7. A \cup {op} \in SUBSET C /\ q # Nil
    BY <1>3, <2>1
  <2> QED
    BY <2>1, <2>6, <2>7
<1>4. CASE Kid(op) = Nil
  <2>1. \A x \in C : Par(x) # op
    BY <1>4, NoChild
  <2>2. q = NextUp(op)
    BY <1>4 DEF Onward
  <2>3. CASE q = Nil
    <3>0. NextUp(op) = Nil
      BY <2>2, <2>3
    <3>1. \A x \in A \cup {op} : NextOf(x) = Nil
      BY <3>0, Climbs
    <3>2. ASSUME NEW x \in C, Pending(A, op, x), x # op PROVE FALSE
      <4>1. PICK y \in A \cup {op} : Par(x) = Par(y) /\ y < x
        BY <2>1, <3>2 DEF Pending
      <4>2. NextOf(y) # Nil
        BY <4>1, SiblingOrder
      <4> QED
        BY <3>1, <4>2
    <3> QED
      BY <2>3, <3>2
  <2>4. CASE q # Nil
    <3>1. PICK b \in A \cup {op} :
            /\ NextUp(op) = NextOf(b) /\ NextOf(b) \in C /\ b < NextOf(b)
            /\ Par(NextOf(b)) = Par(b)
            /\ \A x \in A \cup {op} : x > b => NextOf(x) = Nil
            /\ Path({x \in A : x < b}, NextOf(b))
      BY <2>2, <2>4, WalkOn
    <3>2. PICK B \in SUBSET C : B = {x \in A : x < b}
      OBVIOUS
    <3>3. q = NextOf(b) /\ Path(B, q) /\ q \in C /\ b < q /\ Par(q) = Par(b) /\ b \in C
      BY <2>2, <3>1, <3>2
    <3>4. \A x \in C : Par(x) = Par(b) /\ b < x => x = q \/ q < x
      <4>1. \A x \in C : Par(b) = Par(x) /\ b < x => q <= x
        BY <3>1, <3>3, SiblingOrder
      <4> QED
        BY <1>1, <3>3, <4>1
    <3>5. q # op
      <4>1. q = op => Par(b) = Par(op) /\ b < op
        BY <3>3
      <4> QED
        BY <1>2, <4>1
    <3>6. Pending(A, op, q)
      BY <3>3 DEF Pending
    <3>7. \A x \in C : Par(x) # q
      BY <3>3, <3>5, <3>6
    <3>8. ASSUME NEW x \in C PROVE Pending(B, q, x) <=> Pending(A, op, x) /\ x # op
      <4>1. ASSUME Pending(B, q, x) PROVE Pending(A, op, x) /\ x # op
        <5>1. CASE x = q
          BY <3>5, <3>6, <5>1
        <5>2. CASE \E y \in B : Par(x) = Par(y) /\ y < x
          BY <1>2, <3>2, <5>2 DEF Pending
        <5>3. CASE Par(x) = Par(q) /\ q < x
          <6>1. b < x
            BY <1>1, <3>3, <5>3
          <6> QED
            BY <1>2, <3>3, <5>3, <6>1 DEF Pending
        <5> QED
          BY <3>7, <4>1, <5>1, <5>2, <5>3 DEF Pending
      <4>2. ASSUME Pending(A, op, x), x # op PROVE Pending(B, q, x)
        <5>1. PICK y \in A \cup {op} : Par(x) = Par(y) /\ y < x
          BY <2>1, <4>2 DEF Pending
        <5>2. NextOf(y) # Nil /\ y \in C
          BY <5>1, SiblingOrder
        <5>3. ~(y > b) /\ y \in Nat /\ b \in Nat
          BY <1>1, <3>1, <3>3, <5>2
        <5>4. CASE y = b
          BY <3>3, <3>4, <5>1, <5>4 DEF Pending
        <5>5. CASE y < b
          <6>1. y \in A
            BY <1>1, <5>1, <5>3, <5>5 DEF Path
          <6> QED
            BY <3>2, <5>1, <5>5, <6>1 DEF Pending
        <5> QED
          BY <5>3, <5>4, <5>5
      <4> QED
        BY <4>1, <4>2
    <3> QED
      BY <2>4, <3>3, <3>8
  <2> QED
    BY <2>3, <2>4
<1> QED
  BY <1>3, <1>4

--------------------------------------------------------------------------------
\* LV_FM_TREE_CLEAN frees every node.
LEMMA CleanAll == ASSUME Nodes, Tree(Live), Clean PROVE Live' = {}
<1> DEFINE R == [a \in Live |-> Links(a) \cap Live]
           S == {tree.list} \cap Live
           D == Reached(S, R)
<1>1. \A x \in Live : Links(x) \subseteq Live
  BY DEF Tree, Linked, Links, NextOf, Kid
<1>2. DOMAIN R = Live /\ \A x \in Live : R[x] = Links(x)
  BY <1>1
<1>3. S \subseteq D /\ D \subseteq Live /\ \A x \in D : R[x] \subseteq D
  <2>1. S \subseteq Live
    OBVIOUS
  <2> HIDE DEF R, S
  <2> QED
    BY <1>1, <1>2, <2>1, ReachedAround
<1>4. tree.list \in D \cup {Nil}
  BY <1>3 DEF Tree
<1>5. \A x \in D : Kid(x) \in D \cup {Nil} /\ NextOf(x) \in D \cup {Nil}
  <2>1. \A x \in D : Links(x) \subseteq D
    BY <1>2, <1>3
  <2> HIDE DEF D
  <2> QED
    BY <2>1 DEF Links, Kid, NextOf
<1>6. Live \subseteq D
  <2> HIDE DEF D
  <2> QED
    BY <1>3, <1>4, <1>5, AllReached
<1>7. Visited = D
  BY DEF Visited
<1>8. tree' = [list |-> Nil, node |-> [a \in Live \ Visited |-> tree.node[a]]]
  BY DEF Clean
<1> QED
  BY <1>6, <1>7, <1>8 DEF Live

--------------------------------------------------------------------------------
\* A job ends, whatever ends it, and no node is left.
LEMMA EndTidy ==
  ASSUME NEW C, Tidy(C), Sound({})', Live' = {}, sobj' = {}, ui'.main = "idle",
         ~ops.on, ~ft'.on, UNCHANGED <<ops, scan>>
  PROVE  Tidy({})'
<1>1. ops.st = "init" /\ scan.st = "cwd"
  BY TidyParts DEF Control, Selected
<1>2. Mapped({})' /\ Surveying({})' /\ Emptying({})'
  BY <1>1 DEF Mapped, Surveying, Emptying, Undone
<1>3. Selected({})'
  BY <1>1 DEF Selected
<1> QED
  BY <1>2, <1>3 DEF Tidy

\* With no task at work no node is left behind.
LEMMA NothingLeft ==
  ASSUME NEW C, Tidy(C), ~ops.on, ~ft.on, ui.menu = "none"
  PROVE  C = {}
BY TidyParts DEF Control, Undone, Tree

\* The buttons.
LEMMA SelectTidy == ASSUME NEW C, Tidy(C), Select PROVE Tidy(C)'
<1>1. Sound(C)'
  BY TidyParts, SelectSound
<1>2. ~ft.on /\ ~ops.on /\ C = {} /\ ui.main = "idle" /\ ops.st = "init" /\ scan.st = "cwd"
      /\ ui \in UiType
  BY TidyParts, NothingLeft DEF Select, Control, Selected, TypeParts
<1>3. PICK S : S \in SUBSET {e \in disk.home \ Hidden : Up[e] = Here} /\ sobj' = S
  BY DEF Select
<1>4. ui'.main = "idle" /\ ui'.menu = "file"
  BY <1>2 DEF Select, UiType
<1>5. UNCHANGED <<disk, ops, scan, ft, tree>> /\ C = Live'
  BY TidyParts, StillTree DEF Select
<1>6. Mapped(C)' /\ Surveying(C)' /\ Emptying(C)'
  BY <1>2, <1>5 DEF Mapped, Surveying, Emptying, Undone
<1>7. Selected(C)'
  BY <1>2, <1>3, <1>4, <1>5 DEF Selected
<1> QED
  BY <1>1, <1>5, <1>6, <1>7 DEF Tidy

\* A button that starts a task, or none.
LEMMA ButtonTidy ==
  ASSUME NEW C, Tidy(C), Sound(C)', UNCHANGED <<tree, disk, sobj, scan, ft>>, ~ops.on, ~ft.on,
         ops'.st = ops.st, ops'.on => ui'.main # "idle",
         ui'.main = "paste" \/ (ui'.menu = "paste" /\ ~ops'.on) => sobj = {}
  PROVE  Tidy(C)'
<1>1. Mapped(C) /\ Selected(C) /\ ops.st = "init" /\ C = Live
  BY TidyParts DEF Control
<1>2. C = Live' /\ \A x : Par(x)' = Par(x) /\ Item(x)' = Item(x) /\ At(x)' = At(x)
  BY <1>1, StillTree, StillNodes
<1>3. Mapped(C)'
  BY <1>1, <1>2 DEF Mapped, Renames
<1>4. Selected(C)'
  BY <1>1, <1>2 DEF Selected
<1>5. Surveying(C)' /\ Emptying(C)'
  BY <1>1 DEF Surveying, Emptying, Undone
<1> QED
  BY <1>2, <1>3, <1>4, <1>5 DEF Tidy

LEMMA CopyOrCutTidy == ASSUME NEW C, Tidy(C), NEW cut \in BOOLEAN, CopyOrCut(cut) PROVE Tidy(C)'
<1>1. Sound(C)' /\ ui \in UiType /\ ops \in OpsType /\ ~ft.on
  BY TidyParts, CopyOrCutSound DEF TypeParts, Control, CopyOrCut
<1>2. ui'.main = "copy" /\ ops'.on /\ ops'.st = ops.st
  BY <1>1 DEF CopyOrCut, UiType, OpsType
<1> QED
  BY <1>1, <1>2, ButtonTidy DEF CopyOrCut

LEMMA PasteTidy == ASSUME NEW C, Tidy(C), NEW cross \in BOOLEAN, Paste(cross) PROVE Tidy(C)'
<1>1. Sound(C)' /\ ui \in UiType /\ ops \in OpsType /\ ~ft.on /\ sobj = {}
  BY TidyParts, PasteSound DEF TypeParts, Control, Selected, Paste
<1>2. ui'.main = "paste" /\ ops'.on /\ ops'.st = ops.st
  BY <1>1 DEF Paste, UiType, OpsType
<1> QED
  BY <1>1, <1>2, ButtonTidy DEF Paste

LEMMA DeleteTidy == ASSUME NEW C, Tidy(C), Delete PROVE Tidy(C)'
<1>1. Sound(C)' /\ ui \in UiType /\ ~ft.on
  BY TidyParts, DeleteSound DEF TypeParts, Control, Delete
<1>2. ui'.main = "delete" /\ ui'.menu = "file" /\ ops' = ops /\ ~ops.on
  BY <1>1 DEF Delete, UiType
<1> QED
  BY <1>1, <1>2, ButtonTidy DEF Delete

LEMMA AnswerTidy == ASSUME NEW C, Tidy(C), NEW ok \in BOOLEAN, Answer(ok) PROVE Tidy(C)'
<1>1. /\ Sound(C)' /\ ui \in UiType /\ ops \in OpsType
      /\ ~ft.on /\ ~ops.on /\ ui.main = "delete" /\ ui.menu = "file"
  BY TidyParts, AnswerSound DEF TypeParts, Control, Answer
<1>2. /\ ui'.main = (IF ok THEN "delete" ELSE "idle") /\ ui'.menu = "file"
      /\ ops'.on = ok /\ ops'.st = ops.st
  BY <1>1 DEF Answer, UiType, OpsType
<1> QED
  BY <1>1, <1>2, ButtonTidy DEF Answer

LEMMA CancelOptionsTidy == ASSUME NEW C, Tidy(C), Benign, CancelOptions PROVE Tidy({})'
<1>1. Sound({})' /\ Nodes /\ C = Live /\ ui \in UiType /\ ~ops.on /\ ~ft.on
  BY TidyParts, CancelOptionsSound DEF CancelOptions, TypeParts, Control, Benign
<1>2. Live' = {}
  BY <1>1, TidyParts, CleanAll DEF CancelOptions, Undone
<1>3. ui'.main = "idle" /\ sobj' = {} /\ UNCHANGED <<ops, scan, ft>>
  BY <1>1 DEF CancelOptions, UiType
<1> QED
  BY <1>1, <1>2, <1>3, EndTidy

\* With the tree and the files, what is covered stays so.
LEMMA StillCovered ==
  ASSUME UNCHANGED <<tree, disk>>
  PROVE  /\ Live' = Live
         /\ \A C : /\ (Renames => Renames') /\ Mapped(C) => Mapped(C)'
                   /\ \A x : Covered(C, x) => Covered(C, x)'
                   /\ \A A, op : Rest(C, A, op) => Rest(C, A, op)'
<1>1. \A x : /\ NextOf(x)' = NextOf(x) /\ Kid(x)' = Kid(x) /\ Par(x)' = Par(x)
             /\ Item(x)' = Item(x) /\ At(x)' = At(x)
  BY StillNodes
<1>2. disk'.home = disk.home /\ Live' = Live
  BY StillTree
<1> QED
  BY <1>1, <1>2 DEF Mapped, Covered, Rest

LEMMA CancelProgressTidy ==
  ASSUME NEW C, Tidy(C), Benign, CancelProgress
  PROVE  Tidy(C)'
<1>1. Sound(C)' /\ ui \in UiType /\ Selected(C) /\ Mapped(C) /\ C = Live /\ Control
  BY TidyParts, CancelProgressSound DEF TypeParts, Benign
<1>2. ft.on /\ ui.main = "paste" /\ UNCHANGED <<disk, sobj, ops, scan, cwd, ft, tree, job>>
  BY DEF CancelProgress, Benign
<1>3. ui'.main = "idle" /\ ui'.menu = ui.menu /\ ui'.cut = ui.cut
  BY <1>1 DEF CancelProgress, UiType
<1>4. Renames' <=> Renames
  BY <1>2, <1>3 DEF Renames
<1>5. Mapped(C)' /\ C = Live' /\ \A x : Covered(C, x) => Covered(C, x)'
  BY <1>1, <1>2, <1>4, StillCovered
<1>6. Selected(C)'
  BY <1>1, <1>2, <1>3, StillNodes DEF Selected, Control
<1>7. Surveying(C)'
  BY <1>1, <1>2 DEF Surveying, Control
<1>8. Emptying(C)'
  BY <1>2, <1>3, <1>4, <1>5 DEF Emptying, Tidy, Undone
<1> QED
  BY <1>1, <1>5, <1>6, <1>7, <1>8 DEF Tidy

--------------------------------------------------------------------------------
\* The task that scans: it does not start with no job.
LEMMA OpsIdleNever == ASSUME NEW C, Tidy(C) PROVE ~OpsIdle
BY TidyParts DEF Selected, OpsIdle

LEMMA CollectTidy ==
  ASSUME NEW C, Tidy(C), Collect, NEW a, a = NewAddress
  PROVE  Tidy(C \cup {a})'
<1>1. /\ Sound(C \cup {a})' /\ Nodes /\ Control /\ ops \in OpsType /\ C = Live /\ Mapped(C)
      /\ Selected(C) /\ ~ft.on /\ Tree(C) /\ sobj \subseteq Entry
  BY TidyParts, CollectSound DEF TypeParts, Control, Collect, Undone
<1>2. PICK e \in sobj :
        /\ tree' = AddNode(tree.node, tree.list, Nil, NewNode(e, Here, Nil, Nil))
        /\ sobj' = sobj \ {e}
        /\ ops' = IF ui.main = "copy" THEN [ops EXCEPT !.total = @ + Size[e]] ELSE ops
  BY DEF Collect
<1>3. ops.on /\ Node \ Live # {} /\ UNCHANGED <<disk, ui, scan, cwd, ft, job>> /\ ops.st = "init"
  BY <1>1 DEF Collect, Collecting, Selected
<1>4. ops'.on /\ ops'.st = "init"
  BY <1>1, <1>2, <1>3 DEF OpsType
<1>5. Adds(C, tree.node, Nil, NewNode(e, Here, Nil, Nil))
  <2>1. NewNode(e, Here, Nil, Nil) \in NodeRec
    BY <1>1, <1>2 DEF NewNode, NodeRec
  <2> QED
    BY <1>1, <1>2, <1>3, <2>1, SameNodes DEF Adds, NewNode, First
<1>6. /\ a \in Node \ Live /\ Live' = Live \cup {a} /\ Par(a)' = Nil /\ Item(a)' = e
      /\ At(a)' = Here
      /\ \A x \in C : Par(x)' = Par(x) /\ Item(x)' = Item(x) /\ At(x)' = At(x)
  BY <1>1, <1>5, AddLinks DEF NewNode, Par, Item, At
<1>7. Up[e] = Here /\ e \in disk.home /\ \A x \in C : Item(x) # e
  BY <1>1, <1>2 DEF Selected
<1>8. Mapped(C \cup {a})'
  <2>1. ~Renames /\ ~Renames'
    BY <1>1, <1>3 DEF Renames
  <2>2. ASSUME NEW x \in C \cup {a}
        PROVE  /\ Par(x)' \in C \cup {a, Nil} /\ Up[Item(x)'] = At(x)'
               /\ At(x)' = IF Par(x)' = Nil THEN Here ELSE Item(Par(x))'
               /\ Item(x)' \in disk.home
    <3>1. CASE x = a
      BY <1>6, <1>7, <3>1
    <3>2. CASE x \in C
      <4>1. /\ Par(x) \in C \cup {Nil} /\ Up[Item(x)] = At(x) /\ Item(x) \in disk.home
            /\ At(x) = IF Par(x) = Nil THEN Here ELSE Item(Par(x))
        BY <1>1, <2>1, <3>2 DEF Mapped
      <4>2. Par(x) # Nil => tree'.node[Par(x)].item = Item(Par(x))
        BY <1>6, <4>1 DEF Item
      <4>3. Item(Par(x))' = tree'.node[Par(x)'].item
        BY DEF Item
      <4> QED
        BY <1>6, <3>2, <4>1, <4>2, <4>3
    <3> QED
      BY <3>1, <3>2
  <2>3. \A x, y \in C \cup {a} : Item(x)' = Item(y)' => x = y
    <3>1. \A x, y \in C : Item(x) = Item(y) => x = y
      BY <1>1 DEF Mapped
    <3> QED
      BY <1>6, <1>7, <3>1
  <2> QED
    BY <1>3, <2>2, <2>3 DEF Mapped
<1>9. Selected(C \cup {a})'
  <2>1. \A x \in C \cup {a} : Par(x)' = Nil /\ Item(x)' \notin sobj'
    BY <1>1, <1>2, <1>3, <1>6 DEF Selected
  <2>2. ui.main # "paste"
    BY DEF Collect, Collecting
  <2> QED
    BY <1>1, <1>2, <1>3, <1>4, <2>1, <2>2 DEF Selected
<1>10. Surveying(C \cup {a})' /\ Emptying(C \cup {a})'
  BY <1>1, <1>3, <1>4 DEF Surveying, Emptying, Undone
<1> QED
  BY <1>1, <1>6, <1>8, <1>9, <1>10 DEF Tidy

LEMMA CollectedTidy == ASSUME NEW C, Tidy(C), Collected PROVE Tidy(C)'
<1>1. /\ Sound(C)' /\ Control /\ ui \in UiType /\ ops \in OpsType /\ Mapped(C) /\ Selected(C)
      /\ C = Live /\ ~ft.on
  BY TidyParts, CollectedSound DEF TypeParts, Control, Collected
<1>2. /\ ui' = [ui EXCEPT !.main = "copy"] /\ ops' = [NoOps EXCEPT !.scan = ops.scan]
      /\ sobj' = {} /\ UNCHANGED <<disk, scan, ft, tree, job>> /\ ops.st = "init"
  BY <1>1 DEF Collected, OpsEnd, Selected, UiType
<1>3. ~ops'.on /\ ops'.st = "init" /\ ui'.main = "copy"
  BY <1>1, <1>2 DEF NoOps, UiType
<1>4. ~Renames /\ ~Renames'
  BY <1>1, <1>2 DEF Renames
<1>5. Mapped(C)' /\ C = Live'
  BY <1>1, <1>2, <1>4, StillNodes, StillTree DEF Mapped
<1>6. Selected(C)'
  BY <1>1, <1>2, <1>3, StillNodes DEF Selected
<1> QED
  BY <1>1, <1>2, <1>3, <1>5, <1>6 DEF Tidy, Surveying, Emptying, Undone

\* The walk starts at the head, with the selected objects alone.
LEMMA OpsStartTidy == ASSUME NEW C, Tidy(C), OpsStart PROVE Tidy(C)'
<1>1. /\ Sound(C)' /\ Nodes /\ Control /\ ops \in OpsType /\ Mapped(C) /\ Selected(C)
      /\ C = Live /\ ~ft.on /\ C \in SUBSET Nat /\ Nil \notin C /\ Tree(C)
  BY TidyParts, OpsStartSound DEF TypeParts, Control, OpsStart, Undone
<1>2. /\ ops.on /\ ops.st = "init" /\ ui.main \in {"paste", "delete"} /\ sobj = {}
      /\ UNCHANGED <<disk, ui, sobj, scan, cwd, ft, tree, job>>
  BY <1>1 DEF OpsStart, Selected
<1>3. PICK q : q = tree.list
  OBVIOUS
<1>4. ops'.on /\ ops'.st = "read" /\ ops'.op = q
  BY <1>1, <1>2, <1>3 DEF OpsStart, OpsType
<1>5. scan.st = "cwd" /\ \A x \in C : Par(x) = Nil
  BY <1>1, <1>2 DEF Selected
<1>6. Mapped(C)' /\ C = Live'
  BY <1>1, <1>2, StillCovered DEF Renames, Mapped
<1>7. Selected(C)'
  BY <1>1, <1>2, <1>4, StillNodes DEF Selected
<1>8. q = Nil => C = {}
  BY <1>1, <1>3 DEF Tree
<1>9. ASSUME q # Nil PROVE Reads(C, q)' /\ Surveyed(C, {}, q)'
  <2>1. q \in C /\ \A x \in C : x = q \/ q < x
    <3>1. q \in C
      BY <1>1, <1>3, <1>9 DEF Tree
    <3>2. ASSUME NEW x \in C PROVE x = q \/ q < x
      <4>1. q <= x
        BY <1>1, <1>3, ListLeast
      <4>2. q \in Nat /\ x \in Nat
        BY <1>1, <3>1
      <4> QED
        BY <4>1, <4>2
    <3> QED
      BY <3>1, <3>2
  <2>2. \A x : Par(x)' = Par(x) /\ To(x)' = To(x) /\ Item(x)' = Item(x)
    BY <1>2, StillNodes
  <2>3. Path({}, q)'
    BY <1>5, <2>1, <2>2 DEF Path
  <2>4. \A x \in C : Pending({}, q, x)' /\ Par(x)' = Nil
    BY <1>5, <2>1, <2>2 DEF Pending
  <2>5. Surveyed(C, {}, q)'
    BY <1>1, <1>2, <1>5, <2>3, <2>4 DEF Surveyed
  <2>6. Reads(C, q)'
    BY <1>1, <1>2, <1>5, <2>1, <2>2 DEF Reads
  <2> QED
    BY <2>5, <2>6
<1>10. Surveying(C)'
  BY <1>2, <1>4, <1>5, <1>8, <1>9 DEF Surveying
<1>11. Emptying(C)'
  BY <1>1, <1>2 DEF Emptying, Undone
<1> QED
  BY <1>1, <1>6, <1>7, <1>10, <1>11 DEF Tidy

--------------------------------------------------------------------------------
\* A tick of the scan that finds nothing: it stays at op, or goes on when op is covered.
LEMMA ReadTidy ==
  ASSUME NEW C, Tidy(C), Sound(C)', Reading, tree' = [list |-> tree.list, node |-> Named],
         NEW st \in {"cwd", "init", "dir"}, Walk(st, 0), scan'.st = st,
         UNCHANGED <<disk, ui, sobj, ft, job>>,
         st = "cwd" => Covered(C, ops.op),
         st # "cwd" => Item(ops.op) \in Folder /\ scan.st # "dir",
         st = "init" => cwd' = Item(ops.op),
         st = "dir" =>
           /\ scan'.todo = {e \in disk.home : Up[e] = Item(ops.op)}
           /\ ui.main = "paste" => scan'.to # Nil
  PROVE  Tidy(C)'
<1>1. /\ Nodes /\ Control /\ ops \in OpsType /\ Mapped(C) /\ Selected(C) /\ C = Live
      /\ ops.on /\ ~ft.on /\ ops.st = "read" /\ ops.op # Nil /\ ui.main \in {"paste", "delete"}
  BY TidyParts DEF TypeParts, Control, Reading
<1>2. /\ Tree(C) /\ ops.op \in C /\ C \in SUBSET Nat /\ Nil \notin C
      /\ \A x \in C : /\ Par(x)' = Par(x) /\ Item(x)' = Item(x) /\ At(x)' = At(x)
                      /\ To(x)' = IF /\ x = ops.op /\ ui.main = "paste" /\ scan.st = "cwd"
                                    /\ Par(x) = Nil
                                 THEN Here ELSE To(x)
  BY TidyParts, ReadTree
<1>3. PICK op \in C : op = ops.op
  BY <1>2
<1>4. Reads(C, op) /\ \E A \in SUBSET C : Surveyed(C, A, op)
  BY <1>1, <1>3 DEF Tidy, Surveying
<1>5. PICK A \in SUBSET C : Surveyed(C, A, op)
  BY <1>4
<1>6. /\ Path(A, op)
      /\ \A x \in C : Pending(A, op, x) /\ x # op => \A y \in C : Par(y) # x
      /\ \A x \in C : ~Pending(A, op, x) => Covered(C, x)
      /\ ui.main = "paste" => \A x \in C : To(x) = Nil =>
           Par(x) = Nil /\ Pending(A, op, x) /\ (x = op => scan.st = "cwd")
  BY <1>5 DEF Surveyed
<1>7. UNCHANGED <<disk, ui, sobj, ft, job>> /\ scan'.st = st
  OBVIOUS
<1>8. /\ ops'.on /\ ops'.st = "read"
      /\ ops'.op = IF st # "cwd" THEN op ELSE Onward(op)
  BY <1>1, <1>2, <1>3, WalkInside DEF Onward
<1>9. C = Live'
  <2>1. SameLinks(Named)
    BY <1>1, <1>2, NamedLinks
  <2> QED
    BY <1>1, <2>1 DEF SameLinks, Live
<1>10. Mapped(C)'
  <2>1. ~Renames /\ ~Renames'
    BY <1>1, <1>7 DEF Renames
  <2>2. \A x \in C : Item(x) \in disk.home
    BY <1>1, <2>1 DEF Mapped
  <2>3. ASSUME NEW x \in C
        PROVE  /\ Par(x)' \in C \cup {Nil} /\ Up[Item(x)'] = At(x)'
               /\ At(x)' = IF Par(x)' = Nil THEN Here ELSE Item(Par(x))'
    <3>1. /\ Par(x) \in C \cup {Nil} /\ Up[Item(x)] = At(x)
          /\ At(x) = IF Par(x) = Nil THEN Here ELSE Item(Par(x))
      BY <1>1 DEF Mapped
    <3>2. Par(x) # Nil => tree'.node[Par(x)].item = Item(Par(x))
      BY <1>2, <3>1 DEF Item
    <3>3. Item(Par(x))' = tree'.node[Par(x)'].item
      BY DEF Item
    <3> QED
      BY <1>2, <3>1, <3>2, <3>3
  <2>4. \A x, y \in C : Item(x)' = Item(y)' => x = y
    BY <1>1, <1>2 DEF Mapped
  <2>5. \A x \in C : Item(x)' \in disk'.home
    BY <1>2, <1>7, <2>2
  <2> QED
    BY <2>3, <2>4, <2>5 DEF Mapped
<1>11. Selected(C)'
  BY <1>1, <1>2, <1>7, <1>8 DEF Selected
<1>12. Emptying(C)'
  BY <1>1, <1>7 DEF Emptying, Undone
<1>13. \A x \in C : Covered(C, x) => Covered(C, x)'
  BY <1>2, <1>7 DEF Covered
<1>14. \A x \in C : ui.main = "paste" /\ To(x)' = Nil => Par(x) = Nil /\ Pending(A, op, x) /\ x # op
  <2>1. Here # Nil
    BY FileOpsAssumption
  <2> QED
    BY <1>2, <1>3, <1>6, <2>1
<1>15. \A B \in SUBSET C, q \in C : (Path(B, q) => Path(B, q)')
                                   /\ \A x \in C : Pending(B, q, x)' <=> Pending(B, q, x)
  <2>1. ASSUME NEW B \in SUBSET C, NEW q \in C PROVE \A y \in B \cup {q} : Par(y)' = Par(y)
    BY <1>2
  <2>2. ASSUME NEW B \in SUBSET C, NEW q \in C, Path(B, q) PROVE Path(B, q)'
    BY <2>1, <2>2 DEF Path
  <2>3. ASSUME NEW B \in SUBSET C, NEW q \in C, NEW x \in C
        PROVE  Pending(B, q, x)' <=> Pending(B, q, x)
    BY <1>2, <2>1 DEF Pending
  <2> QED
    BY <2>2, <2>3
<1>16. CASE st # "cwd"
  <2>1. Surveyed(C, A, op)'
    BY <1>2, <1>6, <1>7, <1>13, <1>14, <1>15 DEF Surveyed
  <2>2. \A y \in C : Par(y) # op
    BY <1>3, <1>4, <1>16 DEF Reads
  <2>3. ASSUME NEW e \in disk.home, Up[e] = Item(op), NEW y \in C, Item(y) = e PROVE FALSE
    <3>1. Up[e] = At(y) /\ At(y) = IF Par(y) = Nil THEN Here ELSE Item(Par(y))
      BY <1>1, <2>3 DEF Mapped
    <3>2. Item(op) # Here
      BY <1>3, TidyParts, FileOpsAssumption
    <3>3. Par(y) \in C /\ Item(Par(y)) = Item(op)
      BY <1>1, <2>3, <3>1, <3>2 DEF Mapped
    <3> QED
      BY <1>1, <2>2, <3>3 DEF Mapped
  <2>4. Reads(C, op)'
    BY <1>2, <1>3, <1>7, <1>16, <2>2, <2>3 DEF Reads
  <2>5. Surveying(C)'
    BY <1>3, <1>8, <1>16, <2>1, <2>4, <1>1 DEF Surveying
  <2> QED
    BY <1>9, <1>10, <1>11, <1>12, <2>5 DEF Tidy
<1>17. CASE st = "cwd"
  <2>1. PICK q : q = Onward(op)
    OBVIOUS
  <2>2. Covered(C, op)
    BY <1>3, <1>17
  <2>3. IF q = Nil THEN \A x \in C : Pending(A, op, x) => x = op
        ELSE /\ q \in C
             /\ \E B \in SUBSET C :
                  Path(B, q) /\ \A x \in C : Pending(B, q, x) <=> Pending(A, op, x) /\ x # op
    <3>1. Nodes /\ Tree(C) /\ Path(A, op)
      BY <1>1, <1>2, <1>6
    <3>2. \A x \in C : Pending(A, op, x) /\ x # op => \A y \in C : Par(y) # x
      BY <1>6
    <3> QED
      BY <2>1, <3>1, <3>2, SurveyGoesOn
  <2>6. ops'.op = q
    BY <1>8, <1>17, <2>1
  <2>4. ASSUME q = Nil PROVE Surveying(C)'
    <3>1. \A x \in C : Covered(C, x)' /\ (ui.main = "paste" => To(x)' # Nil)
      BY <1>6, <1>13, <1>14, <2>2, <2>3, <2>4
    <3>2. scan'.st = "cwd" /\ ops'.op = Nil /\ ui' = ui
      BY <1>7, <1>17, <2>4, <2>6
    <3> QED
      BY <3>1, <3>2 DEF Surveying
  <2>5. ASSUME q # Nil PROVE Surveying(C)'
    <3>1. PICK B \in SUBSET C :
            Path(B, q) /\ \A x \in C : Pending(B, q, x) <=> Pending(A, op, x) /\ x # op
      BY <2>3, <2>5
    <3>2. q \in C
      BY <2>3, <2>5
    <3>3. \A x \in C : Pending(B, q, x)' => \A y \in C : Par(y)' # x
      BY <1>2, <1>6, <1>15, <3>1, <3>2
    <3>4. \A x \in C : ~Pending(B, q, x)' => Covered(C, x)'
      BY <1>6, <1>13, <1>15, <2>2, <3>1, <3>2
    <3>5. \A x \in C : ui.main = "paste" /\ To(x)' = Nil => Par(x)' = Nil /\ Pending(B, q, x)'
      BY <1>2, <1>14, <1>15, <3>1, <3>2
    <3>6. Surveyed(C, B, q)'
      BY <1>7, <1>15, <1>17, <3>1, <3>2, <3>3, <3>4, <3>5 DEF Surveyed
    <3>7. \A y \in C : Par(y)' # q
      <4>1. Pending(B, q, q)
        BY DEF Pending
      <4> QED
        BY <1>15, <3>2, <3>3, <4>1
    <3>8. Reads(C, q)'
      BY <1>17, <3>7 DEF Reads
    <3> QED
      BY <2>5, <2>6, <3>6, <3>8 DEF Surveying
  <2> QED
    BY <1>9, <1>10, <1>11, <1>12, <2>4, <2>5 DEF Tidy
<1> QED
  BY <1>16, <1>17

LEMMA ReadFileTidy == ASSUME NEW C, Tidy(C), ReadFile PROVE Tidy(C)'
<1>1. Sound(C)' /\ Nodes /\ Control /\ disk \in DiskType
  BY TidyParts, ReadFileSound DEF TypeParts
<1>2. Reading /\ Walk("cwd", 0) /\ tree' = [tree EXCEPT !.node = Named] /\ scan' = scan
      /\ ops.scan = "cwd" /\ UNCHANGED <<disk, ui, sobj, ft, job>> /\ Item(ops.op) \notin Folder
  BY DEF ReadFile, Item
<1>3. tree' = [list |-> tree.list, node |-> Named] /\ scan'.st = "cwd"
  BY <1>1, <1>2 DEF Nodes, Control
<1>4. Item(ops.op) # Here
  <2>1. ops.op \in C
    BY <1>2, <1>3, ReadTree, TidyParts
  <2> QED
    BY <2>1, TidyParts, FileOpsAssumption
<1>5. Covered(C, ops.op)
  BY <1>1, <1>2, <1>4, FileOpsAssumption DEF Covered, DiskType
<1> QED
  BY <1>1, <1>2, <1>3, <1>5, ReadTidy

LEMMA ScanEndTidy == ASSUME NEW C, Tidy(C), ScanEnd PROVE Tidy(C)'
<1>1. Sound(C)' /\ Nodes /\ Control /\ scan \in ScanType /\ ui \in UiType
  BY TidyParts, ScanEndSound DEF TypeParts
<1>2. Reading /\ Walk("cwd", 0) /\ tree' = [tree EXCEPT !.node = Named]
      /\ scan' = [scan EXCEPT !.st = "cwd"] /\ UNCHANGED <<disk, ui, sobj, ft, job>>
      /\ scan.st = "dir" /\ scan.todo = {}
  BY DEF ScanEnd
<1>3. tree' = [list |-> tree.list, node |-> Named] /\ scan'.st = "cwd"
  BY <1>1, <1>2 DEF Nodes, ScanType
<1>4. Covered(C, ops.op)
  BY <1>2 DEF Covered, Tidy, Surveying, Reading, Reads
<1> QED
  BY <1>1, <1>2, <1>3, <1>4, ReadTidy

LEMMA ScanCwdTidy ==
  ASSUME NEW C, Tidy(C), Benign, NEW ok \in BOOLEAN, ScanCwd(ok)
  PROVE  Tidy(C)'
<1>1. Sound(C)' /\ Nodes /\ Control /\ scan \in ScanType /\ Mapped(C)
  BY TidyParts, ScanCwdSound DEF TypeParts
<1>2. Reading /\ Walk(scan'.st, 0) /\ tree' = [tree EXCEPT !.node = Named] /\ scan.st = "cwd"
      /\ scan' = [scan EXCEPT !.st = IF ok THEN "init" ELSE "cwd"]
      /\ cwd' = (IF ok THEN Item(ops.op) ELSE cwd)
      /\ (~ok => ~Present(tree.node[ops.op])) /\ UNCHANGED <<disk, ui, sobj, ft, job>>
      /\ Item(ops.op) \in Folder
  BY DEF ScanCwd, Benign, Item
<1>3. tree' = [list |-> tree.list, node |-> Named] /\ scan'.st = IF ok THEN "init" ELSE "cwd"
  BY <1>1, <1>2 DEF Nodes, ScanType
<1>4. ok
  <2>1. ops.op \in C /\ ~Renames
    BY <1>1, <1>2, <1>3, TidyParts, ReadTree DEF Renames, Reading, Control
  <2>2. Present(tree.node[ops.op])
    BY <1>1, <2>1 DEF Mapped, Present, Item, At
  <2> QED
    BY <1>2, <2>2
<1>5. PICK st \in {"cwd", "init", "dir"} : st = "init"
  OBVIOUS
<1> QED
  BY <1>1, <1>2, <1>3, <1>4, <1>5, ReadTidy

LEMMA ScanInitTidy ==
  ASSUME NEW C, Tidy(C), Benign, NEW ok \in BOOLEAN, ScanInit(ok)
  PROVE  Tidy(C)'
<1>1. /\ Sound(C)' /\ Nodes /\ Control /\ Mapped(C) /\ Hidden = {} /\ ok /\ Here # Nil
      /\ ui \in UiType
  BY TidyParts, ScanInitSound, FileOpsAssumption DEF TypeParts, ScanInit, Benign
<1>2. PICK n : n = Named[ops.op]
  OBVIOUS
<1>3. Reading /\ Walk(scan'.st, 0) /\ tree' = [tree EXCEPT !.node = Named] /\ scan.st = "init"
      /\ n.item \in Folder
      /\ scan' = [st |-> "dir", todo |-> Listing(cwd),
                  to |-> IF n.to = Nil THEN Nil ELSE n.item]
      /\ UNCHANGED <<disk, ui, sobj, ft, job>>
  BY <1>1, <1>2 DEF ScanInit
<1>4. tree' = [list |-> tree.list, node |-> Named] /\ scan'.st = "dir" /\ ops.scan = "init"
  BY <1>1, <1>3 DEF Nodes, Control
<1>5. ops.op \in C /\ ops.op # Nil /\ C \subseteq Live
  BY <1>3, <1>4, TidyParts, ReadTree
<1>6. n.item = Item(ops.op) /\ n.to = To(ops.op)
  BY <1>1, <1>2, <1>4, <1>5 DEF Named, Item, To
<1>7. Reads(C, ops.op) /\ \E A \in SUBSET C : Surveyed(C, A, ops.op)
  BY <1>3, <1>5 DEF Tidy, Surveying, Reading
<1>8. Listing(cwd) = {e \in disk.home : Up[e] = Item(ops.op)}
  <2>1. cwd = Item(ops.op) /\ cwd # Away
    BY <1>3, <1>6, <1>7, FileOpsAssumption DEF Reads
  <2> QED
    BY <1>1, <2>1 DEF Listing
<1>9. ui.main = "paste" => scan'.to # Nil
  <2>1. ui.main = "paste" => To(ops.op) # Nil
    BY <1>3, <1>5, <1>7 DEF Surveyed
  <2>2. n.item # Nil
    BY <1>3, FileOpsAssumption
  <2> QED
    BY <1>3, <1>6, <2>1, <2>2
<1>10. PICK st \in {"cwd", "init", "dir"} : st = "dir"
  OBVIOUS
<1>11. Walk(st, 0) /\ scan'.st = st /\ scan'.todo = {e \in disk.home : Up[e] = Item(ops.op)}
  BY <1>3, <1>4, <1>8, <1>10
<1> QED
  BY <1>1, <1>3, <1>4, <1>6, <1>9, <1>10, <1>11, ReadTidy

\* A child of the folder that is scanned is found: a node more and an entry less to read.
LEMMA ScanDirFinds ==
  ASSUME NEW C, Sound(C), NEW ok \in BOOLEAN, ScanDir(ok), NEW a, a = NewAddress
  PROVE  /\ Live' = Live \cup {a} /\ Item(a)' \in scan.todo /\ Kid(a)' = Nil
         /\ scan'.todo = IF ok THEN scan.todo \ {Item(a)'} ELSE {}
<1>1. Nodes /\ TypeParts /\ Tree(C)
  BY SoundNodes, TypeByPart, ScanDirNode DEF Sound
<1>2. PICK e \in scan.todo :
        /\ Adds(C, Named, ops.op, NewNode(e, Item(ops.op), ops.op, scan.to))
        /\ scan' = [scan EXCEPT !.todo = IF ok THEN @ \ {e} ELSE {}]
  BY ScanDirAdds
<1>3. Live' = Live \cup {a} /\ tree'.node[a].item = e /\ tree'.node[a].child = Nil
  BY <1>1, <1>2, AddLinks DEF NewNode
<1> QED
  BY <1>1, <1>2, <1>3 DEF TypeParts, ScanType, Item, Kid

LEMMA ScanDirTidy ==
  ASSUME NEW C, Tidy(C), Benign, NEW ok \in BOOLEAN, ScanDir(ok), NEW a, a = NewAddress
  PROVE  Tidy(C \cup {a})'
<1>0. PICK K : K = C \cup {a}
  OBVIOUS
<1>1. /\ Sound(C) /\ Sound(C \cup {a})' /\ Control /\ Mapped(C) /\ Selected(C) /\ C = Live
      /\ ops.on /\ ~ft.on /\ ops.st = "read" /\ ops.op # Nil /\ ui.main \in {"paste", "delete"}
      /\ Item(ops.op) \in Folder /\ ok
      /\ UNCHANGED <<disk, ui, sobj, cwd, ft, job>>
  BY TidyParts, ScanDirSound DEF TypeParts, Control, Reading, ScanDir, Item, Benign
<1>2. /\ Tree(C) /\ ops.op \in C /\ C \in SUBSET Nat /\ Nil \notin C
      /\ a \in Nat /\ a \notin C /\ a # Nil
      /\ \A x \in C : /\ Par(x)' = Par(x) /\ To(x)' = To(x) /\ Item(x)' = Item(x)
                      /\ At(x)' = At(x)
      /\ Par(a)' = ops.op /\ To(a)' = scan.to /\ At(a)' = Item(ops.op)
      /\ ops'.on = ops.on /\ ops'.st = ops.st /\ ops'.op = ops.op
      /\ scan'.st = "dir" /\ scan.st = "dir" /\ scan'.to = scan.to
  BY <1>1, ScanDirNode
<1>3. PICK op \in C : op = ops.op
  BY <1>2
<1>4. PICK e : e = Item(a)'
  OBVIOUS
<1>5. Live' = K /\ e \in scan.todo /\ scan'.todo = scan.todo \ {e}
  BY <1>0, <1>1, <1>4, ScanDirFinds
<1>6. Reads(C, op) /\ \E A \in SUBSET C : Surveyed(C, A, op)
  BY <1>1, <1>3 DEF Tidy, Surveying
<1>7. PICK A \in SUBSET C : Surveyed(C, A, op)
  BY <1>6
<1>8. /\ \A f \in disk.home : Up[f] = Item(op) => f \in scan.todo \/ \E y \in C : Item(y) = f
      /\ \A f \in scan.todo : f \in disk.home /\ Up[f] = Item(op) /\ \A y \in C : Item(y) # f
      /\ ui.main = "paste" => scan.to # Nil
  BY <1>2, <1>6 DEF Reads
<1>9. e \in disk.home /\ Up[e] = Item(op) /\ \A y \in C : Item(y) # e
  BY <1>5, <1>8
<1>10. Mapped(K)'
  <2>1. ~Renames /\ ~Renames'
    BY <1>1 DEF Renames
  <2>2. ASSUME NEW x \in K
        PROVE  /\ Par(x)' \in K \cup {Nil} /\ Up[Item(x)'] = At(x)'
               /\ At(x)' = IF Par(x)' = Nil THEN Here ELSE Item(Par(x))'
               /\ Item(x)' \in disk'.home
    <3>1. Item(Par(x))' = tree'.node[Par(x)'].item
      BY DEF Item
    <3>2. \A y \in C : tree'.node[y].item = Item(y)
      BY <1>2 DEF Item
    <3>3. CASE x = a
      <4>1. Par(x)' = op /\ At(x)' = Item(op) /\ Item(x)' = e
        BY <1>2, <1>3, <1>4, <3>3
      <4> QED
        BY <1>0, <1>1, <1>2, <1>3, <1>9, <3>1, <3>2, <4>1
    <3>4. CASE x \in C
      <4>1. /\ Par(x) \in C \cup {Nil} /\ Up[Item(x)] = At(x) /\ Item(x) \in disk.home
            /\ At(x) = IF Par(x) = Nil THEN Here ELSE Item(Par(x))
        BY <1>1, <2>1, <3>4 DEF Mapped
      <4> QED
        BY <1>0, <1>1, <1>2, <3>1, <3>2, <3>4, <4>1
    <3> QED
      BY <1>0, <3>3, <3>4
  <2>3. \A x, y \in K : Item(x)' = Item(y)' => x = y
    <3>1. \A x, y \in C : Item(x) = Item(y) => x = y
      BY <1>1 DEF Mapped
    <3> QED
      BY <1>0, <1>2, <1>4, <1>9, <3>1
  <2> QED
    BY <2>2, <2>3 DEF Mapped
<1>11. Selected(K)'
  <2>1. sobj = {}
    BY <1>1 DEF Selected
  <2> QED
    BY <1>1, <1>2, <2>1 DEF Selected
<1>12. Emptying(K)'
  BY <1>1 DEF Emptying, Undone
<1>13. \A x \in K : Par(x)' # a
  <2>1. \A x \in C : Par(x) \in C \cup {Nil}
    BY <1>1 DEF Mapped
  <2> QED
    BY <1>0, <1>2, <2>1
<1>14. Surveyed(K, A, op)'
  <2>1. /\ Path(A, op)
        /\ \A x \in C : Pending(A, op, x) /\ x # op => \A y \in C : Par(y) # x
        /\ \A x \in C : ~Pending(A, op, x) => Covered(C, x)
        /\ ui.main = "paste" => \A x \in C : To(x) = Nil => Par(x) = Nil /\ Pending(A, op, x)
        /\ ui.main = "paste" => To(op) # Nil
    BY <1>2, <1>7 DEF Surveyed
  <2>2. \A y \in A \cup {op} : Par(y)' = Par(y)
    BY <1>2
  <2>3. Path(A, op)'
    BY <2>1, <2>2 DEF Path
  <2>4. \A x \in C : Pending(A, op, x)' <=> Pending(A, op, x)
    BY <1>2, <2>2 DEF Pending
  <2>5. Pending(A, op, a)'
    BY <1>2, <1>3 DEF Pending
  <2>6. \A x \in K : Pending(A, op, x)' /\ x # op => \A y \in K : Par(y)' # x
    BY <1>0, <1>2, <1>3, <1>13, <2>1, <2>4
  <2>7. \A x \in K : ~Pending(A, op, x)' => Covered(K, x)'
    <3>1. \A x \in C : Covered(C, x) => Covered(K, x)'
      BY <1>0, <1>1, <1>2 DEF Covered
    <3> QED
      BY <1>0, <2>1, <2>4, <2>5, <3>1
  <2>8. ui'.main = "paste" =>
          \A x \in K : To(x)' = Nil => Par(x)' = Nil /\ Pending(A, op, x)' /\ x # op
    BY <1>0, <1>1, <1>2, <1>8, <2>1, <2>4
  <2> QED
    BY <2>3, <2>6, <2>7, <2>8 DEF Surveyed
<1>15. Reads(K, op)'
  <2>1. ASSUME NEW f \in disk'.home, Up[f] = Item(op)'
        PROVE  f \in scan'.todo \/ \E y \in K : Item(y)' = f
    <3>1. f \in scan.todo \/ \E y \in C : Item(y) = f
      BY <1>1, <1>2, <1>8, <2>1
    <3>2. CASE f = e
      BY <1>0, <1>4, <3>2
    <3> QED
      BY <1>0, <1>2, <1>5, <3>1, <3>2
  <2>2. \A f \in scan'.todo : f \in disk'.home /\ Up[f] = Item(op)' /\ \A y \in K : Item(y)' # f
    BY <1>0, <1>1, <1>2, <1>4, <1>5, <1>8
  <2>3. Item(op)' \in Folder
    BY <1>1, <1>2, <1>3
  <2> QED
    BY <1>1, <1>2, <1>8, <2>1, <2>2, <2>3 DEF Reads
<1>16. Surveying(K)'
  <2>1. ops'.op = op /\ op # Nil /\ A \in SUBSET K
    BY <1>0, <1>1, <1>2, <1>3
  <2> QED
    BY <1>14, <1>15, <2>1 DEF Surveying
<1> QED
  BY <1>0, <1>1, <1>5, <1>10, <1>11, <1>12, <1>16 DEF Tidy

\* The walk is over: every entry that was selected, or is in one that was, has a node.
LEMMA OpsDoneTidy == ASSUME NEW C, Tidy(C), OpsDone PROVE Tidy(C)'
<1>1. /\ Sound(C)' /\ Control /\ Mapped(C) /\ Selected(C) /\ C = Live /\ ~ft.on /\ ui \in UiType
  BY TidyParts, OpsDoneSound DEF TypeParts, Control, OpsDone
<1>2. /\ \A x \in C : Covered(C, x) /\ (ui.main = "paste" => To(x) # Nil)
      /\ scan.st = "cwd" /\ ui.main \in {"paste", "delete"}
  BY DEF Tidy, Surveying, OpsDone
<1>3. /\ ft' = [NoFile EXCEPT !.on = TRUE] /\ sobj' = {} /\ ops' = [NoOps EXCEPT !.scan = ops.scan]
      /\ UNCHANGED <<disk, scan, tree, job>>
      /\ ui'.main \in {ui.main, "delete"}
  <2>1. PICK full \in Full : OpsEnd(IF full THEN "delete" ELSE ui.main)
    BY DEF OpsDone
  <2>2. PICK main \in {ui.main, "delete"} : OpsEnd(main)
    BY <2>1
  <2> QED
    BY <1>1, <2>2 DEF OpsDone, OpsEnd, UiType
<1>4. ft'.on /\ ft'.st = "init" /\ ~ops'.on /\ ops'.st = "init" /\ ui'.main # "copy"
  BY <1>2, <1>3 DEF NoFile, NoOps
<1>5. C = Live' /\ (~Renames => Mapped(C)') /\ \A x : Covered(C, x) => Covered(C, x)'
  <2>1. \A x : Par(x)' = Par(x) /\ Item(x)' = Item(x) /\ At(x)' = At(x)
    BY <1>3, StillNodes
  <2> QED
    BY <1>1, <1>3, <2>1, StillCovered DEF Mapped
<1>6. Mapped(C)'
  BY <1>1, <1>5 DEF Renames
<1>7. Selected(C)' /\ Surveying(C)'
  BY <1>2, <1>3, <1>4 DEF Selected, Surveying
<1>8. Emptying(C)'
  <2>1. ui'.main = "paste" => ui.main = "paste"
    BY <1>3
  <2>2. \A x : To(x)' = To(x)
    BY <1>3, StillNodes
  <2> QED
    BY <1>2, <1>4, <1>5, <2>1, <2>2 DEF Emptying, Undone
<1> QED
  BY <1>1, <1>5, <1>6, <1>7, <1>8 DEF Tidy

--------------------------------------------------------------------------------
\* What stays when only the file task moves.
LEMMA FileTickTidy ==
  ASSUME NEW C, Tidy(C), ft.on, ft'.on, UNCHANGED <<sobj, ops, scan, job, tree>>,
         ui'.main = ui.main \/ ui'.main = "delete", ui'.cut = ui.cut, ui'.menu = ui.menu
  PROVE  /\ C = Live' /\ Selected(C)' /\ Surveying(C)'
         /\ \A x : /\ Par(x)' = Par(x) /\ To(x)' = To(x) /\ Item(x)' = Item(x) /\ At(x)' = At(x)
                   /\ disk'.home = disk.home => (Covered(C, x) => Covered(C, x)')
         /\ (~Renames' => disk'.home = disk.home /\ ~Renames) => Mapped(C)'
<1>1. Control /\ Mapped(C) /\ Selected(C) /\ C = Live
  BY TidyParts
<1>2. C = Live' /\ \A x : Par(x)' = Par(x) /\ To(x)' = To(x) /\ Item(x)' = Item(x) /\ At(x)' = At(x)
  BY <1>1, StillNodes, StillTree
<1>3. Surveying(C)'
  BY <1>1 DEF Surveying, Control
<1>4. Selected(C)'
  BY <1>1, <1>2 DEF Selected, Control
<1>5. \A x : disk'.home = disk.home => (Covered(C, x) => Covered(C, x)')
  BY <1>2 DEF Covered
<1>6. (~Renames' => disk'.home = disk.home /\ ~Renames) => Mapped(C)'
  BY <1>1, <1>2 DEF Mapped
<1> QED
  BY <1>2, <1>3, <1>4, <1>5, <1>6

LEMMA FileStartTidy == ASSUME NEW C, Tidy(C), FileStart PROVE Tidy(C)'
<1>1. Sound(C)' /\ Nodes /\ ft \in FtType /\ Tree(C)
  BY TidyParts, FileStartSound DEF TypeParts, FileStart, Undone
<1>2. /\ ft.on /\ ft.st = "init" /\ ft' = [ft EXCEPT !.op = tree.list, !.st = "proc"]
      /\ UNCHANGED <<disk, ui, sobj, ops, scan, cwd, tree, job, fault>>
  BY DEF FileStart
<1>3. PICK q : q = tree.list
  OBVIOUS
<1>4. ft'.on /\ ft'.op = q /\ tree'.list = q /\ (Renames' <=> Renames)
  BY <1>1, <1>2, <1>3 DEF FtType, Renames
<1>5. /\ C = Live' /\ Selected(C)' /\ Surveying(C)' /\ Mapped(C)'
      /\ \A x : To(x)' = To(x) /\ (Covered(C, x) => Covered(C, x)')
  BY <1>2, <1>4, FileTickTidy
<1>6. Left(C, {}, q)' /\ Rest(C, {}, q)'
  <2>1. Left(C, {}, q)
    BY <1>1, <1>3, LeftAtStart
  <2>2. Rest(C, {}, q)
    BY <1>1, <1>3 DEF Tree, Rest
  <2> QED
    BY <1>2, <2>1, <2>2, StillTree, StillCovered
<1>7. Emptying(C)'
  BY <1>2, <1>4, <1>5, <1>6 DEF Emptying, Tidy
<1> QED
  BY <1>1, <1>5, <1>7 DEF Tidy

LEMMA PasteObjectTidy == ASSUME NEW C, Tidy(C), PasteObject PROVE Tidy(C)'
<1>1. Sound(C)' /\ ft \in FtType /\ disk \in DiskType /\ Shape(C)
  BY TidyParts, PasteObjectSound DEF TypeParts
<1>2. PICK n : n = tree.node[ft.op]
  OBVIOUS
<1>3. /\ ft.on /\ ui.main = "paste" /\ ft.op # Nil
      /\ disk' = IF Moves(n) THEN Renamed(n) ELSE Created(n)
      /\ UNCHANGED <<ui, sobj, ops, scan, cwd, tree, job, fault>>
  BY <1>2 DEF PasteObject, Pasting
<1>4. PICK op \in C : op = ft.op
  BY <1>1, <1>3 DEF Shape, Cursors
<1>5. ft'.on /\ ft'.last = op
  BY <1>1, <1>4 DEF PasteObject, Pasting, FtType
<1>6. (Renames' <=> Renames) /\ (~Renames => ~Moves(n))
  BY <1>3, <1>5 DEF Renames, Moves, Same
<1>7. ~Renames => disk'.home = disk.home
  BY <1>1, <1>3, <1>6 DEF Created, DiskType
<1>8. /\ C = Live' /\ Selected(C)' /\ Surveying(C)' /\ Mapped(C)'
      /\ \A x : To(x)' = To(x) /\ (~Renames => (Covered(C, x) => Covered(C, x)'))
  BY <1>3, <1>5, <1>6, <1>7, FileTickTidy
<1>9. Emptying(C)'
  BY <1>3, <1>4, <1>5, <1>6, <1>8 DEF Emptying, Tidy, Undone
<1> QED
  BY <1>1, <1>8, <1>9 DEF Tidy

LEMMA PasteBlockTidy == ASSUME NEW C, Tidy(C), PasteBlock PROVE Tidy(C)'
<1>1. Sound(C)' /\ ft \in FtType /\ disk \in DiskType /\ Shape(C)
  BY TidyParts, PasteBlockSound DEF TypeParts
<1>2. /\ ft.on /\ ui.main = "paste" /\ ft.st = "file"
      /\ UNCHANGED <<ui, sobj, ops, scan, cwd, tree, job, fault>>
  BY DEF PasteBlock
<1>3. ft'.on /\ ft'.last = ft.last /\ ft.last \in C
  BY <1>1, <1>2 DEF PasteBlock, FtType, Shape, Cursors
<1>4. disk'.home = disk.home /\ (Renames' <=> Renames)
  BY <1>1, <1>2, <1>3 DEF PasteBlock, DiskType, Renames
<1>5. /\ C = Live' /\ Selected(C)' /\ Surveying(C)' /\ Mapped(C)'
      /\ \A x : To(x)' = To(x) /\ (Covered(C, x) => Covered(C, x)')
  BY <1>2, <1>3, <1>4, FileTickTidy
<1>6. Emptying(C)'
  BY <1>2, <1>3, <1>4, <1>5 DEF Emptying, Tidy, Undone
<1> QED
  BY <1>1, <1>5, <1>6 DEF Tidy

\* A cut that goes on to delete has copied to another volume.
LEMMA PasteDoneTidy ==
  ASSUME NEW C, Tidy(C), PasteDone, ui.cut /\ ~Same(tree.node[ft.last])
  PROVE  Tidy(C)'
<1>1. Sound(C)' /\ ft \in FtType /\ ui \in UiType /\ Tree(C)
  BY TidyParts, PasteDoneSound DEF TypeParts, PasteDone, Undone
<1>2. /\ ft.on /\ ui.main = "paste" /\ ft.st = "proc" /\ ft.op = Nil
      /\ ui' = [ui EXCEPT !.main = "delete"] /\ ft' = [ft EXCEPT !.st = "init"]
      /\ UNCHANGED <<disk, sobj, ops, scan, cwd, tree, job, fault>>
  BY DEF PasteDone
<1>3. ui'.main = "delete" /\ ui'.menu = ui.menu /\ ui'.cut = ui.cut /\ ft'.on /\ ft'.st = "init"
  BY <1>1, <1>2 DEF UiType, FtType
<1>4. C = {} \/ ~Renames
  <2>1. ft.last \in C \/ tree.list = Nil
    BY <1>2 DEF Tidy, Emptying
  <2>2. ft.last \in C => job.cross
    <3>1. \A x \in C : To(x) # Nil
      BY <1>2 DEF Tidy, Emptying
    <3> QED
      BY <3>1 DEF Same, To
  <2> QED
    BY <1>1, <2>1, <2>2 DEF Tree, Renames
<1>5. ~Renames'
  BY <1>3 DEF Renames
<1>6. /\ C = Live' /\ Selected(C)' /\ Surveying(C)' /\ (~Renames => Mapped(C)')
      /\ \A x : Covered(C, x) => Covered(C, x)'
  BY <1>2, <1>3, FileTickTidy
<1>7. Mapped(C)'
  BY <1>4, <1>6 DEF Mapped
<1>8. Emptying(C)'
  BY <1>2, <1>3, <1>4, <1>6 DEF Emptying, Tidy, Undone
<1> QED
  BY <1>1, <1>6, <1>7, <1>8 DEF Tidy

\* The deletion goes down,
LEMMA DescendTidy == ASSUME NEW C, Tidy(C), Descend PROVE Tidy(C)'
<1>1. Sound(C)' /\ ft \in FtType /\ Nodes
  BY TidyParts, DescendSound DEF TypeParts
<1>2. /\ ft.on /\ ui.main = "delete" /\ ft.st = "proc" /\ ft.op # Nil /\ Kid(ft.op) # Nil
      /\ ft' = [ft EXCEPT !.op = Kid(ft.op)]
      /\ UNCHANGED <<disk, ui, sobj, ops, scan, cwd, tree, job, fault>>
  BY DEF Descend, Deleting, Undone, Kid
<1>3. PICK op, q : op = ft.op /\ q = Kid(op)
  OBVIOUS
<1>4. ft'.on /\ ft'.op = q /\ ft'.st = "proc" /\ (Renames' <=> Renames)
  BY <1>1, <1>2, <1>3 DEF FtType, Renames
<1>5. PICK A \in SUBSET C : Left(C, A, op) /\ Rest(C, A, op)
  BY <1>2, <1>3 DEF Tidy, Emptying, Undone
<1>6. PICK B : B = A \cup {op}
  OBVIOUS
<1>7. B \in SUBSET C /\ Left(C, B, q)
  <2>1. op \in C
    BY <1>2, <1>3, <1>5 DEF Left
  <2>2. Left(C, A, op) /\ op # Nil /\ Kid(op) # Nil
    BY <1>2, <1>3, <1>5
  <2>3. Left(C, A \cup {op}, Kid(op))
    BY <1>1, <2>2, LeftBelow
  <2> QED
    BY <1>3, <1>5, <1>6, <2>1, <2>3
<1>8. Rest(C, B, q)
  BY <1>3, <1>5, <1>6 DEF Rest
<1>9. Left(C, B, q)' /\ Rest(C, B, q)'
  BY <1>2, <1>7, <1>8, StillTree, StillCovered
<1>10. /\ C = Live' /\ Selected(C)' /\ Surveying(C)' /\ Mapped(C)'
       /\ \A x : Covered(C, x) => Covered(C, x)'
  BY <1>2, <1>4, FileTickTidy
<1>11. Emptying(C)'
  BY <1>2, <1>4, <1>7, <1>9, <1>10 DEF Emptying, Tidy, Renames
<1> QED
  BY <1>1, <1>10, <1>11 DEF Tidy

\* What it comes to at the bottom is nobody's parent any more,
LEMMA NoChildLeft ==
  ASSUME Nodes, NEW C, NEW A, NEW op, Left(C, A, op), Rest(C, A, op), op # Nil, Kid(op) = Nil
  PROVE  \A x \in C : Par(x) # op
<1> DEFINE S == {x \in C : Par(x) = op}
<1>1. C \subseteq Live /\ Live \subseteq Node /\ op \in C \ A /\ A \subseteq C /\ Path(A, op)
  BY DEF Left, Nodes
<1>2. C \in SUBSET Nat /\ Nil \notin C
  BY <1>1, Addresses
<1>3. SUFFICES ASSUME S # {} PROVE FALSE
  OBVIOUS
<1>4. PICK m \in S : \A y \in S : m <= y
  <2>1. S \in SUBSET Nat
    BY <1>2
  <2> HIDE DEF S
  <2> QED
    BY <1>3, <2>1, LeastNat
<1>5. m \notin A \cup {op}
  BY <1>1, <1>4, Addresses DEF Path
<1>6. PICK y \in C : y < m /\ (NextOf(y) = m \/ (y \notin A /\ Kid(y) = m))
  BY <1>4, <1>5 DEF Rest
<1>7. Par(y) # op
  <2>1. Par(y) = op => m <= y
    BY <1>4
  <2> QED
    BY <1>2, <1>4, <1>6, <2>1
<1>8. NextOf(y) = m => Par(m) = Par(y)
  BY <1>2, <1>4 DEF Left, Linked
<1>9. y \notin A /\ Kid(y) = m => Par(m) = y
  BY <1>2, <1>4 DEF Left, Linked
<1> QED
  BY <1>2, <1>4, <1>6, <1>7, <1>8, <1>9

\* so there is nothing left in it: f_unlink finds an empty folder.
LEMMA UnlinkableLeft ==
  ASSUME NEW C, Tidy(C), Deleting, Kid(ft.op) = Nil
  PROVE  /\ Unlinkable(tree.node[ft.op]) /\ ft.op \in C
         /\ \A x \in C : Par(x) # ft.op
<1>1. Nodes /\ Mapped(C) /\ Undone /\ ~Renames
  BY TidyParts DEF Deleting, Undone, Renames
<1>2. PICK op : op = ft.op
  OBVIOUS
<1>3. op # Nil /\ Kid(op) = Nil /\ \E A \in SUBSET C : Left(C, A, op) /\ Rest(C, A, op)
  BY <1>1, <1>2 DEF Deleting, Undone, Tidy, Emptying
<1>4. op \in C /\ \A x \in C : Par(x) # op
  <2>1. PICK A \in SUBSET C : Left(C, A, op) /\ Rest(C, A, op)
    BY <1>3
  <2>2. op \in C
    BY <1>3, <2>1 DEF Left
  <2> QED
    BY <1>1, <1>3, <2>1, <2>2, NoChildLeft
<1>5. Item(op) \in disk.home /\ Up[Item(op)] = At(op) /\ Covered(C, op) /\ Item(op) # Here
  BY <1>1, <1>4, TidyParts, FileOpsAssumption DEF Mapped, Tidy, Emptying, Deleting, Undone
<1>6. ASSUME NEW e \in disk.home, Up[e] = Item(op) PROVE FALSE
  <2>1. PICK y \in C : Item(y) = e
    BY <1>5, <1>6 DEF Covered
  <2>2. Par(y) \in C /\ Item(Par(y)) = Item(op)
    BY <1>1, <1>5, <1>6, <2>1 DEF Mapped
  <2> QED
    BY <1>1, <1>4, <2>1, <2>2 DEF Mapped
<1> QED
  BY <1>2, <1>4, <1>5, <1>6 DEF Unlinkable, Present, Item, At

LEMMA UnlinkTidy ==
  ASSUME NEW C, Tidy(C), Unlink, NEW op, op = ft.op
  PROVE  Tidy(C \ {op})'
<1>1. /\ Sound(C \ {op})' /\ ft \in FtType /\ disk \in DiskType /\ Nodes /\ Control
      /\ Mapped(C) /\ Selected(C) /\ C = Live
  BY TidyParts, UnlinkSound DEF TypeParts
<1>2. /\ ft.on /\ ui.main = "delete" /\ ft.st = "proc" /\ op # Nil /\ Kid(op) = Nil
      /\ UNCHANGED <<ui, sobj, ops, scan, cwd, job>> /\ op = ft.op
  BY DEF Unlink, Deleting, Undone, Kid
<1>3. PICK q : q = IF NextOf(op) # Nil THEN NextOf(op) ELSE Par(op)
  OBVIOUS
<1>4. op \in C /\ \A x \in C : Par(x) # op
  BY <1>2, UnlinkableLeft DEF Unlink
<1>5. tree' = [tree EXCEPT !.node =
        [a \in Live \ {op} |-> IF NextOf(op) = Nil /\ a = Par(op)
                               THEN [tree.node[a] EXCEPT !.child = Nil] ELSE tree.node[a]]]
  BY <1>2 DEF Unlink, NextOf, Par
<1>6. /\ Live' = Live \ {op}
      /\ \A x \in Live \ {op} :
           /\ tree'.node[x].next = NextOf(x) /\ tree'.node[x].parent = Par(x)
           /\ tree'.node[x].child = IF NextOf(op) = Nil /\ x = Par(op) THEN Nil ELSE Kid(x)
           /\ tree'.node[x].item = Item(x) /\ tree'.node[x].at = At(x)
  <2>1. op \in Live /\ Nodes
    BY <1>1, <1>4
  <2> QED
    BY <1>5, <2>1, Unlinks
<1>7. ft' = [ft EXCEPT !.op = q] /\ disk' = [disk EXCEPT !.home = @ \ {Item(op)}]
  BY <1>2, <1>3 DEF Unlink, NextOf, Par, Item
<1>8. ft'.on /\ ft'.op = q /\ ft'.st = "proc" /\ disk'.home = disk.home \ {Item(op)}
  BY <1>1, <1>2, <1>7 DEF FtType, DiskType
<1>9. PICK A \in SUBSET C : Left(C, A, op) /\ Rest(C, A, op)
  BY <1>2 DEF Tidy, Emptying, Undone
<1>10. PICK K : K = C \ {op}
  OBVIOUS
<1>11. PICK B \in SUBSET K : B \subseteq A /\ A \subseteq B \cup {q} /\ Left(K, B, q)'
  <2>1. Nodes /\ Left(C, A, op) /\ op # Nil /\ Kid(op) = Nil
    BY <1>1, <1>2, <1>9
  <2>2. Frees(op)
    BY <1>6 DEF Frees
  <2>3. Passes(C, A, op, q)
    BY <1>3, <2>1, <2>2, LeftAfter
  <2> QED
    BY <1>10, <2>3 DEF Passes
<1>12. \A x \in K : /\ Item(x)' = Item(x) /\ At(x)' = At(x) /\ Par(x)' = Par(x)
                    /\ NextOf(x)' = NextOf(x)
                    /\ Kid(x)' = IF NextOf(op) = Nil /\ x = Par(op) THEN Nil ELSE Kid(x)
  BY <1>1, <1>6, <1>10 DEF Item, At, Par, NextOf, Kid
<1>13. Mapped(K)'
  <2>1. ~Renames
    BY <1>2 DEF Renames
  <2>2. ASSUME NEW x \in K
        PROVE  /\ Par(x)' \in K \cup {Nil} /\ Up[Item(x)'] = At(x)'
               /\ At(x)' = IF Par(x)' = Nil THEN Here ELSE Item(Par(x))'
               /\ Item(x)' \in disk'.home
    <3>1. /\ Par(x) \in K \cup {Nil} /\ Up[Item(x)] = At(x) /\ Item(x) \in disk.home
          /\ At(x) = IF Par(x) = Nil THEN Here ELSE Item(Par(x))
      BY <1>1, <1>4, <1>10, <2>1 DEF Mapped
    <3>2. Par(x) # Nil => tree'.node[Par(x)].item = Item(Par(x))
      BY <1>12, <3>1 DEF Item
    <3>3. Item(Par(x))' = tree'.node[Par(x)'].item
      BY DEF Item
    <3>4. Item(x) # Item(op)
      BY <1>1, <1>4, <1>10 DEF Mapped
    <3> QED
      BY <1>8, <1>12, <3>1, <3>2, <3>3, <3>4
  <2>3. \A x, y \in K : Item(x)' = Item(y)' => x = y
    BY <1>1, <1>10, <1>12 DEF Mapped
  <2> QED
    BY <2>2, <2>3 DEF Mapped
<1>14. Selected(K)' /\ Surveying(K)'
  <2>1. sobj = {} /\ ~ops.on
    BY <1>1, <1>2 DEF Selected, Control
  <2> QED
    BY <1>1, <1>2, <1>8, <2>1 DEF Selected, Surveying
<1>15. Rest(K, B, q)'
  <2> SUFFICES ASSUME NEW x \in K \ (B \cup {q})
               PROVE  \E y \in K : y < x /\ (NextOf(y)' = x \/ (y \notin B /\ Kid(y)' = x))
    BY DEF Rest
  <2>1. PICK y \in C : y < x /\ (NextOf(y) = x \/ (y \notin A /\ Kid(y) = x))
    BY <1>9, <1>10, <1>11 DEF Rest
  <2>2. x # Nil /\ (NextOf(op) # Nil => x # NextOf(op))
    BY <1>1, <1>3, <1>10, TidyParts
  <2>3. y \in K
    BY <1>2, <1>10, <2>1, <2>2
  <2>4. Par(op) \in A \cup {Nil} /\ y # Nil
    BY <1>1, <1>2, <1>9, TidyParts DEF Left, Path
  <2> QED
    BY <1>11, <1>12, <2>1, <2>3, <2>4
<1>16. Emptying(K)'
  <2>1. \A x \in K : Covered(K, x)'
    <3>1. \A x \in C : Covered(C, x)
      BY <1>2 DEF Tidy, Emptying, Renames
    <3> QED
      BY <1>8, <1>10, <1>12, <3>1 DEF Covered
  <2> QED
    BY <1>2, <1>8, <1>11, <1>15, <2>1 DEF Emptying
<1> QED
  BY <1>1, <1>6, <1>10, <1>13, <1>14, <1>16 DEF Tidy

\* and when it is over nothing is left.
LEMMA DeletedAll ==
  ASSUME NEW C, Tidy(C), Undone, ft.op = Nil
  PROVE  C = {}
<1>1. PICK A \in SUBSET C : Left(C, A, Nil) /\ Rest(C, A, Nil)
  BY DEF Tidy, Emptying
<1>2. A = {} /\ Nil \notin C /\ C \in SUBSET Nat
  BY <1>1, TidyParts DEF Left
<1> SUFFICES ASSUME C # {} PROVE FALSE
  OBVIOUS
<1>3. PICK m \in C : \A y \in C : m <= y
  BY <1>2, LeastNat
<1>4. PICK y \in C : y < m
  BY <1>1, <1>2, <1>3 DEF Rest
<1> QED
  BY <1>2, <1>3, <1>4

\* However a job ends, no node is left.
LEMMA FileEndTidy ==
  ASSUME NEW C, Tidy(C), ft.on, NEW ok \in BOOLEAN, FileEnd(ok),
         UNCHANGED <<disk, sobj, ops, scan, cwd>>, Undone => ft.op = Nil,
         ui.main = "delete" => Undone
  PROVE  Tidy({})'
<1>1. Sound({})' /\ Nodes /\ ui \in UiType /\ sobj = {} /\ ~ops.on /\ C = Live
  BY TidyParts, FileEndSound DEF TypeParts, Selected, Control
<1>2. ui'.main = "idle" /\ ~ft'.on
  BY <1>1 DEF FileEnd, UiType, NoFile
<1>3. Live' = {}
  <2>1. CASE ui.main = "delete"
    <3>1. C = {}
      BY <2>1, DeletedAll
    <3>2. tree' = [list |-> Nil, node |-> tree.node]
      BY <1>1, <2>1 DEF FileEnd, Nodes
    <3> QED
      BY <1>1, <3>1, <3>2 DEF Live
  <2>2. CASE ui.main # "delete"
    BY <1>1, <2>2, TidyParts, CleanAll DEF FileEnd, Undone
  <2> QED
    BY <2>1, <2>2
<1> QED
  BY <1>1, <1>2, <1>3, EndTidy

\* It does not end halfway through a deletion.
LEMMA UnlinkFailsNever == ASSUME NEW C, Tidy(C), Benign PROVE ~UnlinkFails
BY UnlinkableLeft DEF UnlinkFails, Benign, Kid

--------------------------------------------------------------------------------
LEMMA TidyInit == ASSUME Init PROVE Tidy({})
<1>1. Sound({}) /\ tree.node = <<>>
  BY SoundInit DEF Init
<1>2. Live = {}
  BY <1>1 DEF Live
<1> QED
  BY <1>1, <1>2 DEF Tidy, Init, Mapped, Selected, Surveying, Emptying, Undone, NoOps, NoFile

\* Tidy is inductive, whatever fails while files are pasted.
LEMMA TidyStep ==
  ASSUME NEW C, Tidy(C), Next, Benign
  PROVE  \E K : Tidy(K)'
<1>1. CASE Buttons
  <2>1. CASE CancelOptions
    BY <2>1, CancelOptionsTidy
  <2> QED
    BY <1>1, <2>1, SelectTidy, DeleteTidy, CancelProgressTidy, CopyOrCutTidy, PasteTidy,
       AnswerTidy DEF Buttons
<1>2. CASE OpsTick
  <2>1. PICK a : a = NewAddress
    OBVIOUS
  <2>2. CASE Collect
    BY <2>1, <2>2, CollectTidy
  <2>3. CASE \E ok \in BOOLEAN : ScanDir(ok)
    BY <2>1, <2>3, ScanDirTidy
  <2> QED
    BY <1>2, <2>2, <2>3, OpsIdleNever, CollectedTidy, OpsStartTidy, ReadFileTidy, ScanEndTidy,
       OpsDoneTidy, ScanCwdTidy, ScanInitTidy DEF OpsTick
<1>3. CASE FileTick
  <2>1. CASE \E ok \in BOOLEAN : /\ FileEnd(ok) /\ ft.on /\ UNCHANGED <<disk, sobj, ops, scan, cwd>>
                                 /\ (Undone => ft.op = Nil) /\ (ui.main = "delete" => Undone)
    BY <2>1, FileEndTidy
  <2>2. FileStopped \/ PasteFails \/ BlockFails \/ DeleteDone =>
          \E ok \in BOOLEAN : /\ FileEnd(ok) /\ ft.on /\ UNCHANGED <<disk, sobj, ops, scan, cwd>>
                              /\ (Undone => ft.op = Nil) /\ (ui.main = "delete" => Undone)
    BY DEF FileStopped, PasteFails, BlockFails, DeleteDone, Pasting, Undone
  <2>3. CASE PasteDone
    <3>1. ~(ui.cut /\ ~Same(tree.node[ft.last])) =>
            /\ FileEnd(TRUE) /\ ft.on /\ UNCHANGED <<disk, sobj, ops, scan, cwd>>
            /\ (Undone => ft.op = Nil) /\ (ui.main = "delete" => Undone)
      BY <2>3 DEF PasteDone, Undone
    <3> QED
      BY <2>1, <2>3, <3>1, PasteDoneTidy
  <2>4. CASE Unlink
    BY <2>4, UnlinkTidy
  <2> QED
    BY <1>3, <2>1, <2>2, <2>3, <2>4, FileStartTidy, PasteObjectTidy, PasteBlockTidy, DescendTidy,
       UnlinkFailsNever DEF FileTick
<1> QED
  BY <1>1, <1>2, <1>3 DEF Next

LEMMA TidyStutter == ASSUME NEW C, Tidy(C), UNCHANGED vars PROVE Tidy(C)'
<1>1. tree' = tree /\ ft' = ft /\ ui' = ui /\ ops' = ops /\ disk' = disk /\ sobj' = sobj
      /\ scan' = scan /\ cwd' = cwd /\ job' = job
  BY DEF vars
<1>2. Sound(C)' /\ C = Live' /\ Mapped(C)'
  BY <1>1, SoundStutter, TidyParts, StillCovered DEF Renames
<1>3. \A x : /\ NextOf(x)' = NextOf(x) /\ Kid(x)' = Kid(x) /\ Par(x)' = Par(x)
             /\ To(x)' = To(x) /\ Item(x)' = Item(x)
  BY <1>1, StillNodes
<1>4. \A x : Covered(C, x) => Covered(C, x)'
  BY <1>1, StillCovered
<1>5. Selected(C)'
  BY <1>1, <1>3, TidyParts DEF Selected
<1>6. PICK p, q : p = ops.op /\ q = ft.op
  OBVIOUS
<1>7. Surveying(C)'
  <2>1. ASSUME NEW A, Surveyed(C, A, p) PROVE Surveyed(C, A, p)'
    BY <1>1, <1>3, <1>4, <2>1 DEF Surveyed, Path, Pending
  <2>2. Reads(C, p) => Reads(C, p)'
    BY <1>1, <1>3 DEF Reads
  <2> QED
    BY <1>1, <1>3, <1>4, <1>6, <2>1, <2>2 DEF Tidy, Surveying
<1>8. Emptying(C)'
  <2>1. \A A : (Left(C, A, q) => Left(C, A, q)') /\ (Rest(C, A, q) => Rest(C, A, q)')
    BY <1>1, StillTree, StillCovered
  <2> QED
    BY <1>1, <1>3, <1>4, <1>6, <2>1 DEF Tidy, Emptying, Undone, Renames
<1> QED
  BY <1>2, <1>5, <1>7, <1>8 DEF Tidy

\* In every state the nodes there are mirror the files of the job.
THEOREM TreeTidy == Benign => (Spec => [](\E C : Tidy(C)))
<1>1. SUFFICES ASSUME Benign PROVE Spec => [](\E C : Tidy(C))
  OBVIOUS
<1>2. Init => \E C : Tidy(C)
  BY TidyInit
<1>3. (\E C : Tidy(C)) /\ [Next]_vars => (\E C : Tidy(C))'
  BY <1>1, TidyStep, TidyStutter
<1> QED
  BY <1>2, <1>3, PTL DEF Spec

\* NoLeak: as long as the scan and the deletion meet no error and nobody cancels while they
\* run, every node is freed with its job, whatever fails while files are pasted and however
\* little room there is.
THEOREM NoneLeaked == Benign => (Spec => []NoLeak)
<1>1. (\E C : Tidy(C)) => NoLeak
  BY NothingLeft, TidyParts DEF NoLeak
<1> QED
  BY <1>1, TreeTidy, PTL

--------------------------------------------------------------------------------
\* The selected objects that have a node.
Tops == {Item(x) : x \in {y \in Live : Par(y) = Nil}}

\* All of the order that is at home has a node.
Seen == \A e \in job.picked \cap disk.home : \E x \in Live : Item(x) = e

\* The order is what is in the selected objects; until it is moved or deleted it is at home.
Chosen ==
  /\ ui.menu # "none" \/ (ft.on /\ ~Undone) => job.picked \subseteq Under(sobj \cup Tops)
  /\ ~Renames /\ (ui.menu # "none" \/ (ft.on /\ ui.main = "paste")) => job.picked \subseteq disk.home
  /\ Undone => Seen
  /\ \A f \in Folder : disk.got[f] = 0

\* What the file task has come to, copying, is whole at the other end.
Copied ==
  ft.on /\ ui.main = "paste" /\ ~Renames /\ ft.st # "init" =>
    \E A, D \in SUBSET Live :
      /\ ft.op # Nil => Path(A, ft.op)
      /\ Walked(Live, D, A, ft.op)
      /\ \A x \in D : Whole(Item(x)) \/ (ft.st = "file" /\ x = ft.last)

\* What it has come to, renaming, has moved, or its name or one above it was in use.
Moved(e) == Whole(e) /\ e \notin disk.home
Carried(x) == \A e \in Under({Item(x)}) \cap job.picked : Moved(e) \/ e \in Under(job.taken)
Ahead(op, x) == op # Nil /\ op <= x
CarriedTo ==
  /\ ~ft.on /\ ui.main = "paste" => disk.names = job.taken
  /\ Renames /\ ui.main = "paste" =>
       /\ job.taken \subseteq disk.names
       /\ \A e \in job.picked : e \in disk.home \/ Moved(e)
       /\ ft.st = "init" => disk.names = job.taken
       /\ ft.st # "init" =>
            /\ ft.st = "proc" /\ (ft.op # Nil => Par(ft.op) = Nil)
            /\ \A x \in Live : Par(x) = Nil =>
                 IF Ahead(ft.op, x) THEN Item(x) \in disk.names => Item(x) \in job.taken
                 ELSE Carried(x)

\* A deletion was asked for, or is the second half of a cut that has copied everything.
Gone ==
  ft.on /\ ui.main = "delete" =>
    job.kind = "delete" \/ (job.kind = "cut" /\ \A e \in job.picked : Whole(e))

Ended == job.end # "none" => ~ops.on /\ ~ft.on /\ ui.menu = "none" /\ WorkDone

Work == Chosen /\ Copied /\ CarriedTo /\ Gone /\ Ended

\* Both invariants of the tree hold.
Run == Tidy(Live) /\ \E K : Kept(K)

LEMMA RunParts ==
  ASSUME Run
  PROVE  /\ Nodes /\ TypeParts /\ Control /\ Mapped(Live) /\ Selected(Live) /\ OrderFacts
         /\ Surveying(Live) /\ Emptying(Live) /\ Live \in SUBSET Nat /\ Nil \notin Live
         /\ disk.home \subseteq Entry /\ (\A x \in Live : Item(x) \in Entry)
         /\ (~Undone => Tree(Live)) /\ Tops \subseteq Entry /\ sobj \subseteq Entry
<1>1. Tidy(Live) /\ OrderFacts /\ disk.home \subseteq Entry
  BY KeptParts DEF Run
<1>2. TypeParts /\ Selected(Live) /\ \A x \in Live : Item(x) \in Entry
  BY <1>1, TidyParts
<1>3. Tops \subseteq Entry /\ sobj \subseteq Entry
  BY <1>1, <1>2 DEF Tops, Selected
<1> QED
  BY <1>1, <1>3, TidyParts DEF Tidy

--------------------------------------------------------------------------------
\* Under, of nothing, of more, of one by one, and of a selected object.
LEMMA UnderNothing == Under({}) = {}
BY UnderLeast

LEMMA UnderMore ==
  ASSUME NEW S \in SUBSET Entry, NEW T \in SUBSET Entry, S \subseteq T
  PROVE  Under(S) \subseteq Under(T)
<1>1. T \subseteq Under(T) /\ Under(T) \subseteq Entry /\ \A e \in Entry : Up[e] \in Under(T) => e \in Under(T)
  BY UnderClosed
<1> QED
  BY <1>1, UnderLeast

LEMMA UnderEach ==
  ASSUME NEW S \in SUBSET Entry
  PROVE  \A e \in Under(S) : \E s \in S : e \in Under({s})
<1> DEFINE T == {e \in Entry : \E s \in S : e \in Under({s})}
<1>1. \A s \in S : s \in Under({s}) /\ \A e \in Entry : Up[e] \in Under({s}) => e \in Under({s})
  BY UnderClosed
<1>2. S \subseteq T /\ \A e \in Entry : Up[e] \in T => e \in T
  BY <1>1
<1>3. T \subseteq Entry
  OBVIOUS
<1> HIDE DEF T
<1>4. Under(S) \subseteq T
  BY <1>2, <1>3, UnderLeast
<1> QED
  BY <1>4 DEF T

LEMMA UnderTop ==
  ASSUME NEW s \in Entry, NEW t \in Entry, Up[s] = Here, Up[t] = Here, t \in Under({s})
  PROVE  t = s
<1> DEFINE T == {e \in Entry : e = s \/ Up[e] # Here}
<1>1. T \subseteq Entry /\ {s} \subseteq T /\ \A e \in Entry : Up[e] \in T => e \in T
  BY FileOpsAssumption
<1>2. t \in T => t = s
  OBVIOUS
<1> HIDE DEF T
<1>3. Under({s}) \subseteq T
  BY <1>1, UnderLeast
<1> QED
  BY <1>2, <1>3

\* When every folder is covered all of the order at home has a node.
LEMMA AllSeen ==
  ASSUME Run, job.picked \subseteq Under(Tops), \A x \in Live : Covered(Live, x)
  PROVE  Seen
<1> DEFINE T == {e \in Entry : e \in disk.home => \E x \in Live : Item(x) = e}
<1>1. OrderFacts /\ Tops \subseteq Entry
  BY RunParts
<1>2. Tops \subseteq T
  BY <1>1 DEF Tops
<1>3. ASSUME NEW e \in Entry, Up[e] \in T PROVE e \in T
  <2>1. SUFFICES ASSUME e \in disk.home PROVE \E x \in Live : Item(x) = e
    OBVIOUS
  <2>2. Up[e] \in disk.home
    BY <1>1, <1>3, <2>1, FileOpsAssumption DEF OrderFacts
  <2>3. PICK x \in Live : Item(x) = Up[e]
    BY <1>3, <2>2
  <2> QED
    BY <2>1, <2>3 DEF Covered
<1>4. T \subseteq Entry
  OBVIOUS
<1>5. \A e \in T : e \in disk.home => \E x \in Live : Item(x) = e
  OBVIOUS
<1> HIDE DEF T
<1>6. Under(Tops) \subseteq T
  BY <1>1, <1>2, <1>3, <1>4, UnderLeast
<1> QED
  BY <1>5, <1>6 DEF Seen

--------------------------------------------------------------------------------
\* Steps of the buttons and of the scan.

LEMMA TopsStay ==
  ASSUME Live' = Live, \A x \in Live : Item(x)' = Item(x) /\ Par(x)' = Par(x)
  PROVE  Tops' = Tops /\ (disk' = disk /\ job' = job => (Seen => Seen'))
BY DEF Tops, Seen

\* A step before the file task has started.
LEMMA IdleWork ==
  ASSUME Work, ~ft.on, ~ft'.on, ui.menu # "none", disk' = disk,
         job'.picked = job.picked, job'.end = job.end,
         ui'.menu # "none" => (sobj \cup Tops)' = sobj \cup Tops,
         ui'.main = "paste" => disk.names = job'.taken
  PROVE  Work'
<1>1. Chosen /\ Ended
  BY DEF Work
<1>2. ~Renames /\ ~Renames' /\ ~Undone'
  BY DEF Renames, Undone
<1>3. Chosen'
  <2>1. job.picked \subseteq Under(sobj \cup Tops) /\ job.picked \subseteq disk.home
        /\ \A f \in Folder : disk.got[f] = 0
    BY <1>1, <1>2 DEF Chosen
  <2>2. ui'.menu # "none" => job'.picked \subseteq Under((sobj \cup Tops)')
    BY <2>1
  <2> QED
    BY <1>2, <2>1, <2>2 DEF Chosen
<1>4. job'.end = "none"
  BY <1>1 DEF Ended
<1> QED
  BY <1>2, <1>3, <1>4 DEF Work, Copied, CarriedTo, Gone, Ended

\* The same, of a step that leaves the tree.
LEMMA ButtonWork ==
  ASSUME Work, ~ft.on, ~ft'.on, ui.menu # "none", UNCHANGED <<disk, tree, sobj>>,
         job'.picked = job.picked, job'.end = job.end,
         ui'.main = "paste" => disk.names = job'.taken
  PROVE  Work'
<1>1. Tops' = Tops
  BY StillTree, StillNodes, TopsStay
<1>2. (sobj \cup Tops)' = sobj \cup Tops
  BY <1>1
<1> QED
  BY <1>2, IdleWork

LEMMA SelectWork == ASSUME Run, Work, Select PROVE Work'
<1>1. ~ft.on /\ ui.main = "idle" /\ job \in JobType /\ ui \in UiType /\ disk.home \subseteq Entry
  BY RunParts DEF Select, Control, TypeParts
<1>2. PICK S \in SUBSET disk.home :
        /\ sobj' = S
        /\ job' = [NoJob EXCEPT !.picked = Under(S) \cap disk.home, !.doomed = job.doomed,
                                !.n = job.n + 1]
  BY DEF Select
<1>3. /\ job'.picked = Under(S) \cap disk.home /\ job'.end = "none" /\ S \subseteq Entry
      /\ ui'.main = "idle"
  <2>1. ui'.main = "idle"
    BY <1>1 DEF Select, UiType
  <2>2. job' = [kind |-> "none", picked |-> Under(S) \cap disk.home, cross |-> FALSE, taken |-> {},
                doomed |-> job.doomed, end |-> "none", n |-> job.n + 1]
    BY <1>2 DEF NoJob
  <2> QED
    BY <1>1, <2>1, <2>2
<1>4. UNCHANGED <<disk, ft, tree>>
  BY DEF Select
<1>5. ~Undone' /\ ~Renames' /\ ~ft'.on
  BY <1>1, <1>4 DEF Undone, Renames
<1>6. Tops' \subseteq Entry
  <2>1. Tops' = Tops
    BY <1>4, StillTree, StillNodes, TopsStay
  <2> QED
    BY <2>1, RunParts
<1>7. Under(S) \subseteq Under(S \cup Tops')
  BY <1>3, <1>6, UnderMore
<1>8. Chosen'
  <2>1. job'.picked \subseteq Under(sobj' \cup Tops')
    BY <1>2, <1>3, <1>7
  <2>2. \A f \in Folder : disk'.got[f] = 0
    BY <1>4 DEF Work, Chosen
  <2>3. job'.picked \subseteq disk'.home
    BY <1>3, <1>4
  <2> QED
    BY <1>5, <2>1, <2>2, <2>3 DEF Chosen
<1> QED
  BY <1>3, <1>5, <1>8 DEF Work, Copied, CarriedTo, Gone, Ended

LEMMA CopyOrCutWork == ASSUME Run, Work, NEW cut \in BOOLEAN, CopyOrCut(cut) PROVE Work'
<1>1. ~ft.on /\ ui.menu # "none" /\ job \in JobType /\ ui \in UiType
  BY RunParts DEF CopyOrCut, Control, TypeParts
<1>2. job'.picked = job.picked /\ job'.end = job.end /\ ui'.main = "copy" /\ ~ft'.on
  BY <1>1 DEF CopyOrCut, JobType, UiType
<1> QED
  BY <1>1, <1>2, ButtonWork DEF CopyOrCut

LEMMA PasteWork == ASSUME Run, Work, NEW cross \in BOOLEAN, Paste(cross) PROVE Work'
<1>1. ~ft.on /\ ui.menu # "none" /\ job \in JobType
  BY RunParts DEF Paste, Control, TypeParts
<1>2. job'.picked = job.picked /\ job'.end = job.end /\ job'.taken = disk.names /\ ~ft'.on
  BY <1>1 DEF Paste, JobType
<1> QED
  BY <1>1, <1>2, ButtonWork DEF Paste

LEMMA DeleteWork == ASSUME Run, Work, Delete PROVE Work'
<1>1. ~ft.on /\ ui.menu # "none" /\ ui \in UiType
  BY RunParts DEF Delete, Control, TypeParts
<1>2. ui'.main = "delete" /\ ~ft'.on
  BY <1>1 DEF Delete, UiType
<1> QED
  BY <1>1, <1>2, ButtonWork DEF Delete

LEMMA AnswerWork == ASSUME Run, Work, NEW ok \in BOOLEAN, Answer(ok) PROVE Work'
<1>1. ~ft.on /\ ui.menu # "none" /\ job \in JobType /\ ui \in UiType /\ ui.main = "delete"
  BY RunParts DEF Answer, Control, TypeParts
<1>2. job'.picked = job.picked /\ job'.end = job.end /\ ui'.main # "paste" /\ ~ft'.on
  BY <1>1 DEF Answer, JobType, UiType
<1> QED
  BY <1>1, <1>2, ButtonWork DEF Answer

LEMMA CancelOptionsWork == ASSUME Run, Work, CancelOptions PROVE Work'
<1>1. ~ft.on /\ ui.menu # "none" /\ ui \in UiType
  BY RunParts DEF CancelOptions, Control, TypeParts
<1>2. ui'.main = "idle" /\ ui'.menu = "none" /\ ~ft'.on
  BY <1>1 DEF CancelOptions, UiType
<1> QED
  BY <1>1, <1>2, IdleWork DEF CancelOptions

LEMMA CancelProgressWork == ASSUME Run, Work, Benign, CancelProgress PROVE Work'
<1>1. /\ ft.on /\ ui.menu = "none" /\ ui \in UiType /\ ui.main = "paste"
      /\ UNCHANGED <<disk, sobj, ops, ft, tree, job>>
  BY RunParts DEF CancelProgress, Control, TypeParts, Benign
<1>2. ui'.main = "idle" /\ ui'.menu = "none"
  BY <1>1 DEF CancelProgress, UiType
<1>3. ~Undone /\ ~Undone' /\ Tops' = Tops
  BY <1>1, <1>2, StillTree, StillNodes, TopsStay DEF Undone
<1>4. Chosen'
  <2>1. job.picked \subseteq Under(sobj \cup Tops) /\ \A f \in Folder : disk.got[f] = 0
    BY <1>1, <1>3 DEF Work, Chosen
  <2> QED
    BY <1>1, <1>2, <1>3, <2>1 DEF Chosen
<1> QED
  BY <1>1, <1>2, <1>4 DEF Work, Copied, CarriedTo, Gone, Ended

\* A tick of the scan, or of the collection, that goes on.
LEMMA TickWork ==
  ASSUME Run, Work, ops.on, UNCHANGED <<disk, ui, ft, job>>, (sobj \cup Tops)' = sobj \cup Tops
  PROVE  Work'
<1>1. ~ft.on /\ ui.menu # "none" /\ (ui.main = "paste" => disk.names = job.taken)
  BY RunParts DEF Control, Selected, Work, CarriedTo
<1> QED
  BY <1>1, IdleWork

LEMMA CollectWork ==
  ASSUME Run, Work, Collect, NEW a, a = NewAddress
  PROVE  Work'
<1>1. Nodes /\ ~ft.on /\ Tree(Live) /\ sobj \subseteq Entry
  BY RunParts DEF Control, Collect, Undone
<1>2. PICK e \in sobj :
        /\ tree' = AddNode(tree.node, tree.list, Nil, NewNode(e, Here, Nil, Nil))
        /\ sobj' = sobj \ {e}
  BY DEF Collect
<1>3. ops.on /\ Node \ Live # {} /\ UNCHANGED <<disk, ui, ft, job>>
  BY DEF Collect
<1>4. Adds(Live, tree.node, Nil, NewNode(e, Here, Nil, Nil))
  <2>1. NewNode(e, Here, Nil, Nil) \in NodeRec
    BY <1>1, <1>2 DEF NewNode, NodeRec
  <2> QED
    BY <1>1, <1>2, <1>3, <2>1, SameNodes DEF Adds, NewNode, First
<1>5. /\ a \notin Live /\ Live' = Live \cup {a} /\ Par(a)' = Nil /\ Item(a)' = e
      /\ \A x \in Live : Par(x)' = Par(x) /\ Item(x)' = Item(x)
  BY <1>1, <1>4, AddLinks DEF NewNode, Par, Item
<1>6. Tops' = Tops \cup {e}
  BY <1>5 DEF Tops
<1>7. (sobj \cup Tops)' = sobj \cup Tops
  BY <1>2, <1>6
<1> QED
  BY <1>3, <1>7, TickWork

LEMMA ReadWork ==
  ASSUME Run, Work, Reading, tree' = [tree EXCEPT !.node = Named],
         UNCHANGED <<disk, ui, sobj, ft, job>>
  PROVE  Work'
<1>1. Nodes /\ Sound(Live)
  BY RunParts, TidyParts DEF Run
<1>2. tree' = [list |-> tree.list, node |-> Named]
  BY <1>1 DEF Nodes
<1>3. ops.op \in Live /\ \A x \in Live : Item(x)' = Item(x) /\ Par(x)' = Par(x)
  BY <1>1, <1>2, ReadTree
<1>4. Live' = Live
  <2>1. SameLinks(Named)
    BY <1>1, <1>3, NamedLinks
  <2> QED
    BY <1>2, <2>1 DEF SameLinks, Live
<1>5. (sobj \cup Tops)' = sobj \cup Tops
  BY <1>3, <1>4, TopsStay
<1> QED
  BY <1>5, TickWork DEF Reading

LEMMA ScanDirWork ==
  ASSUME Run, Work, NEW ok \in BOOLEAN, ScanDir(ok), NEW a, a = NewAddress
  PROVE  Work'
<1>1. Sound(Live) /\ UNCHANGED <<disk, ui, sobj, ft, job>> /\ ops.on
  BY TidyParts DEF Run, ScanDir, Reading
<1>2. /\ Live' = Live \cup {a} /\ a \notin Live /\ Par(a)' # Nil
      /\ \A x \in Live : Par(x)' = Par(x) /\ Item(x)' = Item(x)
  <2>1. /\ a \notin Live /\ Par(a)' = ops.op /\ ops.op \in Live /\ Nil \notin Live
        /\ \A x \in Live : Par(x)' = Par(x) /\ Item(x)' = Item(x)
    BY <1>1, ScanDirNode
  <2>2. Live' = Live \cup {a}
    BY <1>1, ScanDirFinds
  <2> QED
    BY <2>1, <2>2
<1>3. Tops' = Tops
  BY <1>2 DEF Tops
<1>4. (sobj \cup Tops)' = sobj \cup Tops
  BY <1>1, <1>3
<1> QED
  BY <1>1, <1>4, TickWork

LEMMA CollectedWork == ASSUME Run, Work, Collected PROVE Work'
<1>1. ~ft.on /\ ui.menu # "none" /\ ui \in UiType /\ UNCHANGED <<disk, ft, tree, job>>
  BY RunParts DEF Control, Collected, TypeParts
<1>2. ui'.main = "copy" /\ sobj' = sobj
  BY <1>1 DEF Collected, OpsEnd, UiType
<1> QED
  BY <1>1, <1>2, ButtonWork

LEMMA OpsStartWork == ASSUME Run, Work, OpsStart PROVE Work'
<1>1. ops.on /\ UNCHANGED <<disk, ui, sobj, ft, job, tree>>
  BY DEF OpsStart
<1>2. (sobj \cup Tops)' = sobj \cup Tops
  BY <1>1, StillTree, StillNodes, TopsStay
<1> QED
  BY <1>1, <1>2, TickWork

\* The file task starts: the order is at home, and for a cut no name at the other end is new.
LEMMA OpsDoneWork == ASSUME Run, Work, OpsDone, HasRoom PROVE Work'
<1>1. /\ ~ft.on /\ ui.menu # "none" /\ ui \in UiType /\ sobj = {} /\ ops.on
      /\ UNCHANGED <<disk, tree, job>>
      /\ ui.main \in {"paste", "delete"} /\ TRUE \notin Full
  BY RunParts DEF Control, Selected, OpsDone, TypeParts, HasRoom, Full, Counting, NoSpace
<1>2. /\ ft'.on /\ ft'.st = "init" /\ sobj' = {} /\ ui'.main = ui.main /\ ui'.menu = "none"
      /\ ui'.cut = ui.cut
  <2>1. PICK full \in Full : OpsEnd(IF full THEN "delete" ELSE ui.main)
    BY DEF OpsDone
  <2>2. full = FALSE
    BY <1>1, <2>1 DEF Full, Counting, NoSpace
  <2> QED
    BY <1>1, <2>1, <2>2 DEF OpsDone, OpsEnd, NoFile, UiType
<1>3. ~Undone' /\ ~Renames /\ Tops' = Tops
  BY <1>1, <1>2, StillTree, StillNodes, TopsStay DEF Undone, Renames
<1>4. /\ job.picked \subseteq Under(sobj \cup Tops) /\ job.picked \subseteq disk.home
      /\ \A f \in Folder : disk.got[f] = 0
      /\ job.end = "none" /\ (ui.main = "paste" => disk.names = job.taken)
  BY <1>1, <1>3 DEF Work, Chosen, Ended, CarriedTo
<1>5. Chosen'
  BY <1>1, <1>2, <1>3, <1>4 DEF Chosen
<1>6. CarriedTo'
  BY <1>1, <1>2, <1>4 DEF CarriedTo
<1>7. Gone'
  <2>1. ui.main = "delete" => job.kind = "delete"
    BY <1>1, RunParts DEF OrderFacts
  <2> QED
    BY <1>1, <1>2, <2>1 DEF Gone
<1> QED
  BY <1>1, <1>2, <1>4, <1>5, <1>6, <1>7 DEF Work, Copied, Ended

--------------------------------------------------------------------------------
\* The file task.  Its steps leave the order and the selection alone.
LEMMA FileParts ==
  ASSUME Run, Work, ft.on
  PROVE  /\ Nodes /\ TypeParts /\ ui.menu = "none" /\ sobj = {} /\ ~ops.on /\ job.end = "none"
         /\ Chosen /\ Copied /\ CarriedTo /\ Gone /\ sobj \cup Tops = Tops
         /\ ~Undone => Tree(Live) /\ job.picked \subseteq Under(Tops)
<1>1. sobj = {} /\ Control /\ (~Undone => Tree(Live))
  BY RunParts DEF Selected
<1>2. sobj \cup Tops = Tops
  BY <1>1
<1> QED
  BY <1>1, <1>2, RunParts DEF Control, Work, Chosen, Ended

\* It starts at the first of the list.
LEMMA FileStartWork == ASSUME Run, Work, FileStart PROVE Work'
<1>1. /\ ft.on /\ ft.st = "init" /\ ft' = [ft EXCEPT !.op = tree.list, !.st = "proc"]
      /\ ui.main \in {"paste", "delete"} /\ ~Undone
      /\ UNCHANGED <<disk, ui, sobj, ops, scan, job, tree>>
  BY DEF FileStart, Undone
<1>2. PICK C, q : C = Live /\ q = tree.list
  OBVIOUS
<1>3. /\ ft'.on /\ ft'.st = "proc" /\ ft'.op = q /\ ft'.last = ft.last /\ Live' = C
      /\ \A x : Item(x)' = Item(x) /\ Par(x)' = Par(x)
      /\ (Renames' <=> Renames)
  BY <1>1, <1>2, FileParts, StillTree, StillNodes DEF TypeParts, FtType, Renames
<1>4. Tops' = Tops /\ (Seen => Seen')
  BY <1>1, <1>2, <1>3, TopsStay
<1>5. job.picked \subseteq Under(Tops) /\ Tree(C) /\ Nodes /\ job.end = "none" /\ sobj = {}
      /\ Chosen /\ CarriedTo /\ Gone /\ sobj \cup Tops = Tops
  BY <1>1, <1>2, FileParts
<1>6. ~Renames => Seen
  <2>1. ~Renames => \A x \in Live : Covered(Live, x)
    BY <1>1, RunParts DEF Emptying
  <2> QED
    BY <1>5, <2>1, AllSeen
<1>7. Chosen'
  <2>1. (sobj \cup Tops)' = Tops
    BY <1>1, <1>4, <1>5
  <2>2. Undone' => ~Renames
    BY <1>1 DEF Undone, Renames
  <2>3. job'.picked \subseteq Under((sobj \cup Tops)')
    BY <1>1, <1>5, <2>1
  <2>4. ~Renames' /\ (ui'.menu # "none" \/ (ft'.on /\ ui'.main = "paste")) =>
          job'.picked \subseteq disk'.home
    BY <1>1, <1>3, <1>5 DEF Chosen
  <2> QED
    BY <1>1, <1>4, <1>5, <1>6, <2>2, <2>3, <2>4 DEF Chosen
<1>8. Copied'
  <2>1. q # Nil => Path({}, q)'
    <3>1. q # Nil => Par(q)' = Nil
      BY <1>2, <1>3, <1>5 DEF Tree
    <3> QED
      BY <3>1 DEF Path
  <2>2. Walked(C, {}, {}, q)'
    BY <1>1, <1>2 DEF Walked
  <2> QED
    BY <1>3, <2>1, <2>2 DEF Copied
<1>9. CarriedTo'
  <2>1. ASSUME Renames, ui.main = "paste"
        PROVE  /\ job.taken \subseteq disk.names /\ disk.names = job.taken
               /\ \A e \in job.picked : e \in disk.home \/ Moved(e)
    BY <1>1, <1>5, <2>1 DEF CarriedTo
  <2>2. \A e : Moved(e)' <=> Moved(e)
    BY <1>1 DEF Moved, Whole
  <2>3. q # Nil => Par(q) = Nil
    BY <1>2, <1>5 DEF Tree
  <2>4. \A x \in C : Ahead(q, x)
    BY <1>2, <1>5, ListLeast, RunParts DEF Ahead
  <2> QED
    BY <1>1, <1>3, <2>1, <2>2, <2>3, <2>4 DEF CarriedTo
<1>10. Gone'
  <2>1. \A e : Whole(e)' <=> Whole(e)
    BY <1>1 DEF Whole
  <2> QED
    BY <1>1, <1>5, <2>1 DEF Gone
<1> QED
  BY <1>1, <1>5, <1>7, <1>8, <1>9, <1>10 DEF Work, Ended

\* A block is written.
LEMMA PasteBlockWork == ASSUME Run, Work, PasteBlock, HasRoom PROVE Work'
<1>1. PICK e, K : e = Item(ft.last) /\ Kept(K)
  BY DEF Run
<1>2. /\ ft.on /\ ui.main = "paste" /\ ft.st = "file"
      /\ e \in (disk.home \cap job.picked \cap disk.names) \ Folder
      /\ UNCHANGED <<ui, sobj, ops, scan, cwd, tree, job>>
      /\ disk'.home = disk.home /\ disk'.names = disk.names
      /\ \A f \in Entry \ {e} : disk'.got[f] = disk.got[f]
      /\ ft'.on /\ ft'.op = ft.op /\ ft'.last = ft.last
      /\ (ft'.st = "file" /\ disk'.got[e] = ft'.pos) \/ (ft'.st = "proc" /\ Whole(e)')
      /\ \A f \in Entry : Whole(f) => Whole(f)'
  BY <1>1, BlockWritten
<1>3. /\ Nodes /\ job.end = "none" /\ Chosen /\ Copied /\ CarriedTo /\ sobj \cup Tops = Tops
      /\ job.picked \subseteq Under(Tops) /\ ~Undone
  BY <1>2, FileParts DEF Undone
<1>4. ~Renames
  BY <1>2, <1>3 DEF CarriedTo
<1>5. PICK C, q : C = Live /\ q = ft.op
  OBVIOUS
<1>6. Live' = C /\ \A x : Item(x)' = Item(x) /\ Par(x)' = Par(x)
  BY <1>2, <1>5, StillTree, StillNodes
<1>7. Chosen'
  <2>1. (sobj \cup Tops)' = Tops
    BY <1>2, <1>3, <1>5, <1>6, TopsStay
  <2>2. job'.picked \subseteq Under((sobj \cup Tops)')
    BY <1>2, <1>3, <2>1
  <2>3. job'.picked \subseteq disk'.home /\ ~Undone'
    BY <1>2, <1>3, <1>4 DEF Chosen, Undone
  <2>4. \A f \in Folder : disk'.got[f] = 0
    BY <1>2, <1>3, FileOpsAssumption DEF Chosen
  <2> QED
    BY <2>2, <2>3, <2>4 DEF Chosen
<1>8. Copied'
  <2>1. PICK A, D \in SUBSET C :
          /\ q # Nil => Path(A, q)
          /\ Walked(C, D, A, q)
          /\ \A x \in D : Whole(Item(x)) \/ (ft.st = "file" /\ x = ft.last)
    BY <1>2, <1>3, <1>4, <1>5 DEF Copied
  <2>2. (q # Nil => Path(A, q)') /\ Walked(C, D, A, q)'
    BY <1>2, <2>1 DEF Path, Par, Walked, Kid, NextOf
  <2>3. ASSUME NEW x \in D PROVE Whole(Item(x))' \/ (ft'.st = "file" /\ x = ft'.last)
    <3>1. Item(x) \in Entry
      BY <1>5, <2>1, RunParts
    <3>2. Whole(Item(x)) => Whole(Item(x))'
      BY <1>2, <1>6, <3>1 DEF Whole
    <3>3. x = ft.last /\ Whole(e)' => Whole(Item(x))'
      BY <1>1, <1>6 DEF Whole
    <3> QED
      BY <1>2, <2>1, <3>2, <3>3
  <2> QED
    BY <1>2, <1>5, <1>6, <2>1, <2>2, <2>3 DEF Copied
<1>9. ~Renames'
  BY <1>2, <1>4 DEF Renames
<1> QED
  BY <1>2, <1>3, <1>7, <1>8, <1>9 DEF Work, CarriedTo, Gone, Ended

LEMMA DescendWork == ASSUME Run, Work, Descend PROVE Work'
<1>1. /\ ft.on /\ ui.main = "delete" /\ ft.st = "proc" /\ UNCHANGED <<disk, ui, sobj, ops, job, tree>>
      /\ ft' = [ft EXCEPT !.op = tree.node[@].child]
  BY DEF Descend, Deleting, Undone
<1>2. ft'.on /\ ft'.st = "proc" /\ Undone /\ Undone' /\ ~Renames /\ ~Renames'
  BY <1>1, FileParts DEF TypeParts, FtType, Undone, Renames
<1>3. Seen => Seen'
  BY <1>1, StillTree, StillNodes, TopsStay
<1>4. \A e : Whole(e)' <=> Whole(e)
  BY <1>1 DEF Whole
<1> QED
  BY <1>1, <1>2, <1>3, <1>4, FileParts DEF Work, Chosen, Copied, CarriedTo, Gone, Ended

\* What is deleted is no longer at home.
LEMMA UnlinkWork == ASSUME Run, Work, Unlink PROVE Work'
<1>1. PICK op : op = ft.op
  OBVIOUS
<1>2. /\ ft.on /\ ui.main = "delete" /\ ft.st = "proc" /\ op # Nil /\ Kid(op) = Nil
      /\ UNCHANGED <<ui, sobj, ops, scan, cwd, job>>
      /\ Undone /\ Tidy(Live)
  BY <1>1 DEF Unlink, Deleting, Undone, Kid, Run
<1>3. Nodes /\ TypeParts /\ Chosen /\ Gone /\ job.end = "none" /\ ui.menu = "none"
  BY <1>2, FileParts
<1>4. op \in Live
  BY <1>1, <1>2, UnlinkableLeft DEF Unlink
<1>5. tree' = [tree EXCEPT !.node =
        [a \in Live \ {op} |-> IF NextOf(op) = Nil /\ a = Par(op)
                               THEN [tree.node[a] EXCEPT !.child = Nil] ELSE tree.node[a]]]
  BY <1>1 DEF Unlink, NextOf, Par
<1>6. Live' = Live \ {op} /\ \A x \in Live \ {op} : tree'.node[x].item = Item(x)
  BY <1>3, <1>4, <1>5, Unlinks
<1>7. /\ ft'.on /\ ft'.st = "proc" /\ disk'.home = disk.home \ {Item(op)}
      /\ disk'.names = disk.names /\ disk'.got = disk.got
  BY <1>1, <1>2, <1>3 DEF Unlink, TypeParts, FtType, DiskType, Item
<1>8. Seen'
  <2>1. ASSUME NEW e \in job.picked \cap disk.home, e # Item(op)
        PROVE  \E x \in Live' : Item(x)' = e
    <3>1. PICK x \in Live : Item(x) = e
      BY <1>2, <1>3 DEF Chosen, Seen
    <3>2. x \in Live' /\ Item(x)' = e
      BY <1>6, <2>1, <3>1 DEF Item
    <3> QED
      BY <3>2
  <2>2. \A e \in job'.picked \cap disk'.home : e \in job.picked \cap disk.home /\ e # Item(op)
    BY <1>2, <1>7
  <2> QED
    BY <2>1, <2>2 DEF Seen
<1>9. Undone' /\ ~Renames' /\ \A e : Whole(e)' <=> Whole(e)
  BY <1>2, <1>7 DEF Undone, Renames, Whole
<1> QED
  BY <1>2, <1>3, <1>7, <1>8, <1>9 DEF Work, Chosen, Copied, CarriedTo, Gone, Ended

--------------------------------------------------------------------------------
\* What a job comes to that ends without an error.
Achieved ==
  /\ job.kind = "delete" => job.picked \cap disk.home = {}
  /\ job.kind = "copy" => \A e \in job.picked : Whole(e)
  /\ job.kind = "cut" =>
       \A e \in job.picked : Moved(e) \/ (~job.cross /\ e \in Under(job.taken))

LEMMA FileEndWork ==
  ASSUME Run, Work, ft.on, NEW ok \in BOOLEAN, FileEnd(ok),
         UNCHANGED <<disk, sobj, ops, scan, cwd>>, ok => Achieved
  PROVE  Work'
<1>1. /\ TypeParts /\ ui.menu = "none" /\ ~ops.on /\ Chosen
  BY FileParts
<1>2. /\ ui'.main = "idle" /\ ui'.menu = "none" /\ ~ft'.on /\ ~ops'.on
      /\ job' = [job EXCEPT !.end = IF ok THEN "ok" ELSE "failed"]
  BY <1>1 DEF FileEnd, TypeParts, UiType, NoFile
<1>3. /\ job'.end = (IF ok THEN "ok" ELSE "failed") /\ job'.kind = job.kind
      /\ job'.picked = job.picked /\ job'.cross = job.cross /\ job'.taken = job.taken
  BY <1>1, <1>2 DEF TypeParts, JobType
<1>4. WorkDone'
  <2>1. SUFFICES ASSUME Achieved PROVE WorkDone'
    BY <1>3 DEF WorkDone
  <2>2. \A e : Whole(e)' <=> Whole(e)
    BY DEF Whole
  <2>3. job.picked \ Under(Hidden) \subseteq job.picked
    OBVIOUS
  <2>4. job'.kind = "delete" => job'.picked \cap disk'.home = {}
    BY <1>3, <2>1 DEF Achieved
  <2>5. job'.kind = "copy" => \A e \in job'.picked \ Under(Hidden) : Whole(e)'
    BY <1>3, <2>1, <2>2 DEF Achieved
  <2>6. job'.kind = "cut" =>
          \A e \in job'.picked : \/ Whole(e)' /\ e \notin disk'.home
                                 \/ ~job'.cross /\ e \in Under(job'.taken)
    BY <1>3, <2>1, <2>2 DEF Achieved, Moved
  <2> QED
    BY <2>4, <2>5, <2>6 DEF WorkDone
<1>5. ~Undone' /\ ~Renames'
  BY <1>2 DEF Undone, Renames
<1>6. Chosen'
  BY <1>1, <1>2, <1>5 DEF Chosen
<1> QED
  BY <1>2, <1>4, <1>5, <1>6 DEF Work, Copied, CarriedTo, Gone, Ended

\* A deletion that comes to its end has deleted all.
LEMMA DeletedWork == ASSUME Run, Work, DeleteDone PROVE Work'
<1>1. ft.on /\ Undone /\ ft.op = Nil /\ FileEnd(TRUE) /\ UNCHANGED <<disk, sobj, ops, scan, cwd>>
  BY DEF DeleteDone, Undone
<1>2. Live = {} /\ Chosen /\ Gone
  BY <1>1, DeletedAll, FileParts DEF Run
<1>3. job.picked \cap disk.home = {}
  BY <1>1, <1>2 DEF Chosen, Seen
<1>4. Achieved
  BY <1>1, <1>2, <1>3 DEF Achieved, Gone, Undone, Moved
<1> QED
  BY <1>1, <1>4, FileEndWork

\* At the end of the walk all is copied, or moved but for names in use.
LEMMA PastedAll ==
  ASSUME Run, Work, PasteDone
  PROVE  IF Renames THEN \A e \in job.picked : Moved(e) \/ e \in Under(job.taken)
         ELSE \A e \in job.picked : Whole(e)
<1>1. ft.on /\ ui.main = "paste" /\ ft.st = "proc" /\ ft.op = Nil /\ ~Undone
  BY DEF PasteDone, Undone
<1>2. /\ Nodes /\ Tree(Live) /\ Chosen /\ Copied /\ CarriedTo /\ job.picked \subseteq Under(Tops)
      /\ Tops \subseteq Entry
  BY <1>1, FileParts, RunParts
<1>3. CASE Renames
  <2>1. \A x \in Live : Par(x) = Nil => Carried(x)
    BY <1>1, <1>2, <1>3 DEF CarriedTo, Ahead
  <2>2. ASSUME NEW e \in job.picked PROVE Moved(e) \/ e \in Under(job.taken)
    <3>1. PICK s \in Tops : e \in Under({s})
      BY <1>2, UnderEach
    <3>2. PICK x \in Live : Par(x) = Nil /\ Item(x) = s
      BY DEF Tops
    <3> QED
      BY <2>1, <3>1, <3>2 DEF Carried
  <2> QED
    BY <1>3, <2>2
<1>4. CASE ~Renames
  <2>1. PICK A, D \in SUBSET Live : Walked(Live, D, A, Nil) /\ \A x \in D : Whole(Item(x))
    BY <1>1, <1>2, <1>4 DEF Copied
  <2>2. /\ tree.list \in D \cup {Nil}
        /\ \A x \in D : Kid(x) \in D \cup {Nil} /\ NextOf(x) \in D \cup {Nil}
    BY <2>1 DEF Walked
  <2>3. Live \subseteq D
    BY <1>2, <2>2, AllReached
  <2>4. Seen
    <3>1. \A x \in Live : Covered(Live, x)
      BY <1>1, <1>4, RunParts DEF Emptying
    <3> QED
      BY <1>2, <3>1, AllSeen
  <2>5. job.picked \subseteq disk.home
    BY <1>1, <1>2, <1>4 DEF Chosen
  <2> QED
    BY <1>4, <2>1, <2>3, <2>4, <2>5 DEF Seen
<1> QED
  BY <1>3, <1>4

\* The pasting is over: the job is done, or its second half begins.
LEMMA PasteDoneWork == ASSUME Run, Work, PasteDone PROVE Work'
<1>1. ft.on /\ ui.main = "paste" /\ ft.st = "proc" /\ ft.op = Nil /\ ~Undone
      /\ UNCHANGED <<disk, sobj, ops, scan, cwd>>
  BY DEF PasteDone, Undone
<1>2. /\ Nodes /\ TypeParts /\ Tree(Live) /\ Chosen /\ job.end = "none" /\ ui.menu = "none"
      /\ job.picked \subseteq Under(Tops) /\ sobj \cup Tops = Tops
      /\ job.kind = IF ui.cut THEN "cut" ELSE "copy"
  BY <1>1, FileParts, RunParts DEF OrderFacts
<1>3. CASE ui.cut /\ ~Same(tree.node[ft.last])
  <2>1. /\ ui' = [ui EXCEPT !.main = "delete"] /\ ft' = [ft EXCEPT !.st = "init"]
        /\ UNCHANGED <<job, tree>>
    BY <1>3 DEF PasteDone
  <2>2. ui'.main = "delete" /\ ui'.menu = "none" /\ ft'.on /\ ft'.st = "init"
    BY <1>1, <1>2, <2>1 DEF TypeParts, UiType, FtType
  <2>3. \A e \in job.picked : Whole(e)
    <3>1. CASE Renames
      <4>1. Live = {}
        <5>1. (\A x \in Live : To(x) # Nil) /\ (ft.last \in Live \/ tree.list = Nil)
          BY <1>1, RunParts DEF Emptying
        <5>2. ft.last \notin Live
          BY <1>3, <3>1, <5>1 DEF Same, Renames, To
        <5> QED
          BY <1>2, <5>1, <5>2 DEF Tree
      <4>2. Tops = {}
        BY <4>1 DEF Tops
      <4> QED
        BY <1>2, <4>2, UnderNothing
    <3> QED
      BY <3>1, PastedAll
  <2>4. ~Undone' /\ ~Renames' /\ (sobj \cup Tops)' = Tops
    <3>1. Tops' = Tops
      BY <2>1, StillTree, StillNodes, TopsStay
    <3> QED
      BY <1>1, <1>2, <2>2, <3>1 DEF Undone, Renames
  <2>5. Chosen'
    <3>1. job'.picked \subseteq Under((sobj \cup Tops)')
      BY <1>2, <2>1, <2>4
    <3> QED
      BY <1>1, <1>2, <2>2, <2>4, <3>1 DEF Chosen
  <2>6. Gone'
    <3>1. \A e : Whole(e)' <=> Whole(e)
      BY <1>1 DEF Whole
    <3> QED
      BY <1>2, <1>3, <2>1, <2>3, <3>1 DEF Gone
  <2> QED
    BY <1>2, <2>1, <2>2, <2>4, <2>5, <2>6 DEF Work, Copied, CarriedTo, Ended
<1>4. CASE ~(ui.cut /\ ~Same(tree.node[ft.last]))
  <2>1. FileEnd(TRUE)
    BY <1>4 DEF PasteDone
  <2>2. ui.cut => Renames /\ ~job.cross
    BY <1>1, <1>4 DEF Same, Renames
  <2>3. ~ui.cut => ~Renames
    BY DEF Renames
  <2>4. Achieved
    BY <1>2, <2>2, <2>3, PastedAll DEF Achieved
  <2> QED
    BY <1>1, <2>1, <2>4, FileEndWork
<1> QED
  BY <1>3, <1>4

\* One of the selected objects is renamed: of it all that is ordered has moved now, or its
\* name was in use, as that of any object ahead may be and no other.
LEMMA RenameCarries ==
  ASSUME Run, Work, PasteObject, Renames, NEW n, n = tree.node[ft.op]
  PROVE  CarriedTo' /\ (\A f \in Folder : disk'.got[f] = 0)
<1>1. PICK op, q : op = ft.op /\ q = NextUp(op)
  OBVIOUS
<1>2. /\ ft.on /\ ui.main = "paste" /\ ft.st = "proc" /\ op # Nil /\ Grants(n) /\ n = tree.node[op]
      /\ UNCHANGED <<ui, sobj, ops, scan, cwd, tree, job>> /\ ui.cut /\ ~job.cross /\ ~Undone
  BY <1>1 DEF PasteObject, Pasting, Renames, Undone
<1>3. /\ Nodes /\ TypeParts /\ Tree(Live) /\ CarriedTo /\ Chosen
      /\ Mapped(Live) /\ Emptying(Live) /\ Live \in SUBSET Nat /\ Nil \notin Live
      /\ \A x \in Live : Item(x) \in Entry
  BY <1>2, FileParts, RunParts
<1>4. op \in Live
  <2>1. Shape(Live)
    BY TidyParts DEF Run
  <2> QED
    BY <1>1, <1>2, <2>1 DEF Shape, Cursors
<1>5. Moves(n) /\ n.item = Item(op) /\ Par(op) = Nil
  <2>1. To(op) # Nil
    BY <1>2, <1>3, <1>4 DEF Emptying
  <2>2. Par(op) = Nil
    BY <1>1, <1>2, <1>3 DEF CarriedTo
  <2> QED
    BY <1>2, <2>1, <2>2 DEF Moves, Same, To, Item
<1>6. ft'.on /\ ft'.st = "proc" /\ ft'.op = q
  <2>1. ft' = [ft EXCEPT !.last = op, !.pos = 0, !.st = "proc", !.op = q]
    BY <1>1, <1>2, <1>5 DEF PasteObject
  <2> QED
    BY <1>2, <1>3, <2>1 DEF TypeParts, FtType
<1>7. /\ q = NextOf(op) /\ (q # Nil => q \in Live /\ op < q /\ Par(q) = Nil)
  <2>1. Path({}, op)
    BY <1>5 DEF Path
  <2>2. q = NextOf(op)
    BY <1>1, <1>3, <1>4, <2>1, Climbs
  <2> QED
    BY <1>3, <1>4, <1>5, <2>2 DEF Tree, Linked
<1>8. PICK gone : gone = Under({Item(op)}) \cap disk.home
  OBVIOUS
<1>9. disk' = IF Item(op) \in disk.names THEN disk
              ELSE [disk EXCEPT !.home = @ \ gone, !.names = @ \cup gone,
                                !.got = [e \in Entry |-> IF e \in gone THEN Size[e] ELSE disk.got[e]]]
  BY <1>1, <1>2, <1>5, <1>8 DEF PasteObject, Renamed
<1>10. /\ job.taken \subseteq disk.names
       /\ \A e \in job.picked : e \in disk.home \/ Moved(e)
       /\ \A x \in Live : Par(x) = Nil =>
            IF Ahead(op, x) THEN Item(x) \in disk.names => Item(x) \in job.taken ELSE Carried(x)
  BY <1>1, <1>2, <1>3 DEF CarriedTo
<1>11. disk \in DiskType /\ job.picked \subseteq Entry /\ gone \subseteq Entry /\ job.taken \subseteq Entry
  BY <1>3, <1>8 DEF TypeParts, DiskType, JobType
<1>12. PICK full \in BOOLEAN : full <=> Item(op) \in disk.names
  OBVIOUS
<1>13. /\ disk.names \subseteq disk'.names /\ disk'.home \subseteq disk.home
       /\ disk.home \subseteq disk'.home \cup gone
       /\ full => disk' = disk
       /\ ~full => /\ disk'.home = disk.home \ gone /\ disk'.names = disk.names \cup gone
                   /\ \A e \in Entry : disk'.got[e] = IF e \in gone THEN Size[e] ELSE disk.got[e]
  BY <1>9, <1>11, <1>12 DEF DiskType
<1>14. \A e \in Entry : Moved(e) => Moved(e)'
  BY <1>13 DEF Moved, Whole
<1>15. ~full => \A e \in gone : Moved(e)'
  BY <1>11, <1>13 DEF Moved, Whole
<1>16. \A e \in job'.picked : e \in disk'.home \/ Moved(e)'
  <2>1. \A e \in job.picked : e \in disk'.home \/ e \in gone \/ Moved(e)
    BY <1>10, <1>13
  <2>2. full => \A e \in job.picked : e \in disk'.home \/ Moved(e)
    BY <1>10, <1>13
  <2> QED
    BY <1>2, <1>11, <1>14, <1>15, <2>1, <2>2
<1>17. \A x \in Live : Par(x) = Nil /\ Carried(x) => Carried(x)'
  <2>1. SUFFICES ASSUME NEW x \in Live, Carried(x) PROVE Carried(x)'
    OBVIOUS
  <2>2. Item(x)' = Item(x)
    BY <1>2 DEF Item
  <2>3. \A e \in Under({Item(x)}) \cap job.picked : Moved(e)' \/ e \in Under(job.taken)
    BY <1>11, <1>14, <2>1 DEF Carried
  <2> QED
    BY <1>2, <2>2, <2>3 DEF Carried
<1>18. Carried(op)'
  <2>1. Item(op)' = Item(op)
    BY <1>2 DEF Item
  <2>2. \A e \in Under({Item(op)}) \cap job.picked : Moved(e)' \/ e \in Under(job.taken)
    <3>1. CASE full
      <4>1. Item(op) \in job.taken
        BY <1>3, <1>4, <1>2, <1>5, <1>10, <1>12, <3>1 DEF Ahead
      <4>2. Under({Item(op)}) \subseteq Under(job.taken)
        BY <1>3, <1>4, <1>11, <4>1, UnderMore
      <4> QED
        BY <4>2
    <3>2. CASE ~full
      <4>1. \A e \in Under({Item(op)}) \cap job.picked : e \in gone \/ Moved(e)
        BY <1>8, <1>10
      <4> QED
        BY <1>11, <1>14, <1>15, <3>2, <4>1
    <3> QED
      BY <3>1, <3>2
  <2> QED
    BY <1>2, <2>1, <2>2 DEF Carried
<1>19. ASSUME NEW x \in Live, Par(x) = Nil
       PROVE  IF Ahead(q, x) THEN Item(x) \in disk'.names => Item(x) \in job.taken ELSE Carried(x)'
  <2>1. CASE Ahead(q, x)
    <3>1. Ahead(op, x) /\ x # op
      BY <1>2, <1>3, <1>4, <1>7, <2>1 DEF Ahead
    <3>2. Item(x) \notin gone
      <4>1. Up[Item(x)] = Here /\ Up[Item(op)] = Here /\ Item(x) # Item(op)
        BY <1>3, <1>4, <1>5, <1>19, <3>1 DEF Mapped
      <4> QED
        BY <1>3, <1>4, <1>8, <4>1, UnderTop
    <3> QED
      BY <1>10, <1>13, <1>19, <2>1, <3>1, <3>2
  <2>2. CASE ~Ahead(q, x) /\ Ahead(op, x)
    <3>1. x = op
      <4>1. x # op => op < x
        BY <1>3, <1>4, <2>2 DEF Ahead
      <4>2. op < x => q # Nil /\ q <= x
        BY <1>3, <1>4, <1>5, <1>7, <1>19, SiblingOrder
      <4> QED
        BY <2>2, <4>1, <4>2 DEF Ahead
    <3> QED
      BY <1>18, <2>2, <3>1
  <2>3. CASE ~Ahead(q, x) /\ ~Ahead(op, x)
    BY <1>10, <1>17, <1>19, <2>3
  <2> QED
    BY <2>1, <2>2, <2>3
<1>20. CarriedTo'
  <2>1. Live' = Live /\ \A x : Item(x)' = Item(x) /\ Par(x)' = Par(x)
    BY <1>2, StillTree, StillNodes
  <2>2. q # Nil => Par(q)' = Nil
    BY <1>7, <2>1
  <2>3. ASSUME NEW x \in Live', Par(x)' = Nil
        PROVE  IF Ahead(q, x) THEN Item(x)' \in disk'.names => Item(x)' \in job'.taken
               ELSE Carried(x)'
    BY <1>2, <1>19, <2>1, <2>3
  <2>4. job'.taken \subseteq disk'.names
    BY <1>2, <1>10, <1>13
  <2>5. \A x : Ahead(ft.op, x)' <=> Ahead(q, x)
    BY <1>6 DEF Ahead
  <2> QED
    BY <1>6, <1>16, <2>2, <2>3, <2>4, <2>5 DEF CarriedTo
<1>21. ASSUME NEW f \in Folder PROVE disk'.got[f] = 0
  BY <1>3, <1>13, FileOpsAssumption DEF Chosen
<1> QED
  BY <1>20, <1>21

\* An object is copied: what the walk has passed is whole, or is the file that is written next.
LEMMA CopyGoesOn ==
  ASSUME Run, Work, PasteObject, ~Renames, NEW n, n = tree.node[ft.op]
  PROVE  Copied' /\ disk'.home = disk.home /\ disk'.got = disk.got
<1>1. PICK op, C : op = ft.op /\ C = Live
  OBVIOUS
<1>2. /\ ft.on /\ ui.main = "paste" /\ ft.st = "proc" /\ op # Nil /\ Grants(n) /\ n = tree.node[op]
      /\ UNCHANGED <<ui, sobj, ops, scan, cwd, tree, job>> /\ ~Undone
  BY <1>1 DEF PasteObject, Pasting, Undone
<1>3. /\ Nodes /\ TypeParts /\ Tree(C) /\ Copied /\ Chosen /\ OrderFacts /\ Emptying(C)
      /\ \A x \in C : Item(x) \in Entry
  BY <1>1, <1>2, FileParts, RunParts
<1>4. op \in C
  <2>1. Shape(Live)
    BY TidyParts DEF Run
  <2> QED
    BY <1>1, <1>2, <2>1 DEF Shape, Cursors
<1>5. ~Moves(n) /\ n.to # Nil /\ n.item = Item(op)
  <2>1. To(op) # Nil
    BY <1>2, <1>3, <1>4 DEF Emptying
  <2> QED
    BY <1>2, <2>1 DEF Moves, Same, Renames, To, Item
<1>6. PICK q : q = IF Kid(op) # Nil THEN Kid(op) ELSE NextUp(op)
  OBVIOUS
<1>7. PICK st \in {"proc", "file"} : st = IF Item(op) \in Folder THEN "proc" ELSE "file"
  OBVIOUS
<1>8. ft'.on /\ ft'.st = st /\ ft'.op = q /\ ft'.last = op
  <2>1. ft' = [ft EXCEPT !.last = op, !.pos = 0, !.st = st, !.op = q]
    BY <1>1, <1>2, <1>5, <1>6, <1>7 DEF PasteObject, Kid
  <2> QED
    BY <1>2, <1>3, <2>1 DEF TypeParts, FtType
<1>9. disk' = [disk EXCEPT !.names = @ \cup {Item(op)}]
  BY <1>1, <1>2, <1>5 DEF PasteObject, Created
<1>10. disk'.home = disk.home /\ disk'.names = disk.names \cup {Item(op)} /\ disk'.got = disk.got
  BY <1>3, <1>9 DEF TypeParts, DiskType
<1>11. PICK A, D \in SUBSET C :
         Path(A, op) /\ Walked(C, D, A, op) /\ \A x \in D : Whole(Item(x))
  BY <1>1, <1>2, <1>3 DEF Copied
<1>12. PICK B \in SUBSET C : (q # Nil => Path(B, q)) /\ Walked(C, D \cup {op}, B, q)
  BY <1>3, <1>4, <1>6, <1>11, WalkCopied
<1>13. PICK K \in SUBSET C : K = D \cup {op}
  BY <1>4
<1>14. (q # Nil => Path(B, q)') /\ Walked(C, K, B, q)'
  BY <1>2, <1>12, <1>13 DEF Path, Par, Walked, Kid, NextOf
<1>15. ASSUME NEW x \in K PROVE Whole(Item(x))' \/ (ft'.st = "file" /\ x = ft'.last)
  <2>1. Item(x)' = Item(x)
    BY <1>2 DEF Item
  <2>2. x \in D => Whole(Item(x))'
    BY <1>10, <1>11, <2>1 DEF Whole
  <2>3. x = op /\ Item(op) \in Folder => Whole(Item(x))'
    BY <1>3, <1>10, <2>1, FileOpsAssumption DEF Whole, Chosen
  <2> QED
    BY <1>7, <1>8, <1>13, <2>2, <2>3
<1>16. Live' = C
  BY <1>1, <1>2, StillTree
<1> QED
  BY <1>8, <1>10, <1>14, <1>15, <1>16 DEF Copied

LEMMA PasteObjectWork == ASSUME Run, Work, PasteObject PROVE Work'
<1>1. PICK n : n = tree.node[ft.op]
  OBVIOUS
<1>2. /\ ft.on /\ ui.main = "paste" /\ ~Undone
      /\ UNCHANGED <<ui, sobj, ops, scan, cwd, tree, job>>
  BY DEF PasteObject, Pasting, Undone
<1>3. /\ TypeParts /\ Chosen /\ job.end = "none" /\ ui.menu = "none" /\ sobj \cup Tops = Tops
      /\ job.picked \subseteq Under(Tops)
  BY <1>2, FileParts
<1>4. ft'.on
  BY <1>2, <1>3 DEF PasteObject, TypeParts, FtType
<1>5. ~Undone' /\ (Renames' <=> Renames)
  BY <1>2, <1>4 DEF Undone, Renames
<1>6. job'.picked \subseteq Under((sobj \cup Tops)')
  <2>1. Tops' = Tops
    BY <1>2, StillTree, StillNodes, TopsStay
  <2>2. (sobj \cup Tops)' = Tops
    BY <1>2, <1>3, <2>1
  <2> QED
    BY <1>2, <1>3, <2>2
<1>7. CASE Renames
  <2>1. CarriedTo' /\ \A f \in Folder : disk'.got[f] = 0
    BY <1>1, <1>7, RenameCarries
  <2>2. Chosen'
    BY <1>2, <1>3, <1>5, <1>6, <1>7, <2>1 DEF Chosen
  <2> QED
    BY <1>2, <1>3, <1>5, <1>7, <2>1, <2>2 DEF Work, Copied, Gone, Ended
<1>8. CASE ~Renames
  <2>1. Copied' /\ disk'.home = disk.home /\ disk'.got = disk.got
    BY <1>1, <1>8, CopyGoesOn
  <2>2. Chosen'
    BY <1>2, <1>3, <1>5, <1>6, <1>8, <2>1 DEF Chosen
  <2> QED
    BY <1>2, <1>3, <1>4, <1>5, <1>8, <2>1, <2>2 DEF Work, CarriedTo, Gone, Ended
<1> QED
  BY <1>7, <1>8

--------------------------------------------------------------------------------
LEMMA WorkInit == ASSUME Init PROVE Work
<1>1. disk.got = [e \in Entry |-> 0] /\ job.end = "none" /\ ~ft.on /\ ui.menu = "none"
      /\ ui.main = "idle"
  BY DEF Init, NoJob, NoFile
<1>2. \A f \in Folder : disk.got[f] = 0
  BY <1>1, FileOpsAssumption
<1> QED
  BY <1>1, <1>2 DEF Work, Chosen, Copied, CarriedTo, Gone, Ended, Undone, Renames

\* With what is known of the tree, Work is inductive.
LEMMA WorkStep ==
  ASSUME Run, Work, Next, Benign, HasRoom
  PROVE  Work'
<1>1. CASE Buttons
  BY <1>1, SelectWork, DeleteWork, CancelOptionsWork, CancelProgressWork, CopyOrCutWork, PasteWork,
     AnswerWork DEF Buttons
<1>2. CASE OpsTick
  <2>1. PICK a : a = NewAddress
    OBVIOUS
  <2>2. ~OpsIdle
    BY OpsIdleNever DEF Run
  <2>3. CASE Collect
    BY <2>1, <2>3, CollectWork
  <2>4. CASE \E ok \in BOOLEAN : ScanDir(ok)
    BY <2>1, <2>4, ScanDirWork
  <2>5. CASE ReadFile \/ ScanEnd \/ \E ok \in BOOLEAN : ScanCwd(ok) \/ ScanInit(ok)
    <3>1. /\ Reading /\ tree' = [tree EXCEPT !.node = Named]
          /\ UNCHANGED <<disk, ui, sobj, ft, job>>
      BY <2>5 DEF ReadFile, ScanEnd, ScanCwd, ScanInit
    <3> QED
      BY <3>1, ReadWork
  <2> QED
    BY <1>2, <2>2, <2>3, <2>4, <2>5, CollectedWork, OpsStartWork, OpsDoneWork DEF OpsTick
<1>3. CASE FileTick
  <2>1. CASE FileStopped \/ PasteFails \/ BlockFails
    <3>1. ft.on /\ FileEnd(FALSE) /\ UNCHANGED <<disk, sobj, ops, scan, cwd>>
      BY <2>1 DEF FileStopped, PasteFails, BlockFails, Pasting
    <3> QED
      BY <3>1, FileEndWork
  <2>2. ~UnlinkFails
    BY UnlinkFailsNever DEF Run
  <2> QED
    BY <1>3, <2>1, <2>2, FileStartWork, PasteObjectWork, PasteBlockWork, PasteDoneWork, DescendWork,
       UnlinkWork, DeletedWork DEF FileTick
<1> QED
  BY <1>1, <1>2, <1>3 DEF Next

LEMMA WorkStutter == ASSUME Run, Work, UNCHANGED vars PROVE Work'
<1>1. UNCHANGED <<disk, ui, sobj, ops, ft, tree, job>>
  BY DEF vars
<1>2. /\ Live' = Live /\ Tops' = Tops
      /\ \A x : /\ NextOf(x)' = NextOf(x) /\ Kid(x)' = Kid(x) /\ Par(x)' = Par(x)
                /\ Item(x)' = Item(x)
  BY <1>1, StillTree, StillNodes, TopsStay
<1>3. /\ Undone' <=> Undone
      /\ Renames' <=> Renames
      /\ \A e : (Whole(e)' <=> Whole(e)) /\ (Moved(e)' <=> Moved(e))
      /\ Seen => Seen'
  BY <1>1, <1>2, TopsStay DEF Undone, Renames, Whole, Moved
<1>4. Chosen'
  <2>1. (sobj \cup Tops)' = sobj \cup Tops
    BY <1>1, <1>2
  <2>2. job.picked \subseteq Under(sobj \cup Tops) => job'.picked \subseteq Under((sobj \cup Tops)')
    BY <1>1, <2>1
  <2> QED
    BY <1>1, <1>3, <2>2 DEF Work, Chosen
<1>5. PICK C, q : C = Live /\ q = ft.op
  OBVIOUS
<1>6. Copied'
  <2>1. SUFFICES ASSUME ft.on, ui.main = "paste", ~Renames, ft.st # "init" PROVE Copied'
    BY <1>1, <1>3 DEF Copied
  <2>2. PICK A, D \in SUBSET C :
          /\ q # Nil => Path(A, q)
          /\ Walked(C, D, A, q)
          /\ \A x \in D : Whole(Item(x)) \/ (ft.st = "file" /\ x = ft.last)
    BY <1>5, <2>1 DEF Work, Copied
  <2>3. (q # Nil => Path(A, q)') /\ Walked(C, D, A, q)'
    BY <1>1, <2>2 DEF Path, Par, Walked, Kid, NextOf
  <2>4. \A x \in D : Whole(Item(x))' \/ (ft'.st = "file" /\ x = ft'.last)
    BY <1>1, <1>2, <2>2 DEF Whole
  <2> QED
    BY <1>1, <1>2, <1>5, <2>3, <2>4 DEF Copied
<1>7. CarriedTo'
  <2>1. \A x : Carried(x) => Carried(x)'
    BY <1>1, <1>2, <1>3 DEF Carried
  <2> QED
    BY <1>1, <1>2, <1>3, <2>1 DEF Work, CarriedTo, Ahead
<1>8. Gone'
  BY <1>1, <1>3 DEF Work, Gone
<1>9. Ended'
  BY <1>1, <1>3 DEF Work, Ended, WorkDone, Whole
<1> QED
  BY <1>4, <1>6, <1>7, <1>8, <1>9 DEF Work

\* WorkDone: when the scan and the deletion meet no error, nobody cancels while they run and
\* there is room, a job that ends without an error message has done all of its work, whatever
\* fails while files are pasted; of a cut within a volume, all but the names in use.
THEOREM WorkIsDone == Benign => (Spec /\ []HasRoom => []WorkDone)
<1>1. SUFFICES ASSUME Benign PROVE Spec /\ []HasRoom => []WorkDone
  OBVIOUS
<1>2. Init => Tidy({}) /\ (\E K : Kept(K)) /\ Work
  BY TidyInit, KeptInit, WorkInit
<1>3. (\E C : Tidy(C)) => Tidy(Live)
  BY TidyParts
<1>4. Init => Run /\ Work
  BY <1>2, <1>3 DEF Run
<1>5. Run /\ Work /\ HasRoom /\ [Next]_vars => Run' /\ Work'
  <2>1. SUFFICES ASSUME Run, Work, HasRoom, [Next]_vars PROVE Run' /\ Work'
    OBVIOUS
  <2>2. "late" \notin Faults
    BY <1>1 DEF Benign
  <2>3. (\E C : Tidy(C)') /\ (\E K : Kept(K)')
    BY <1>1, <2>1, <2>2, TidyStep, TidyStutter, KeptStep, KeptStutter DEF Run
  <2>4. \A C : Tidy(C)' => C = Live'
    BY DEF Tidy
  <2>5. Run'
    BY <2>3, <2>4 DEF Run
  <2> QED
    BY <1>1, <2>1, <2>5, WorkStep, WorkStutter
<1>6. Run /\ Work => WorkDone
  BY DEF Work, Ended, WorkDone
<1> QED
  BY <1>4, <1>5, <1>6, PTL DEF Spec
================================================================================
