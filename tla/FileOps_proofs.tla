----------------------------- MODULE FileOps_proofs -----------------------------
(* Proofs about FileOps, for every tree of files, any heap and any number of     *)
(* jobs.  First what holds of the tree that the tasks walk, add to and free      *)
(* (Sound): its type, and that no pointer is stray.  Then what the files have to *)
(* do with the order and with the walks (Kept): while there is room FileOps      *)
(* implements SafeMove.  Last what that is worth to the user.                    *)
EXTENDS FileOps, WellFoundedInduction, TLAPS

\* A set of numbers that is not empty has a least one.
LEMMA LeastNat ==
  ASSUME NEW T \in SUBSET Nat, T # {}
  PROVE  \E x \in T : \A y \in T : x <= y
<1> DEFINE R == OpToRel(<, Nat)
<1>1. IsWellFoundedOn(R, Nat)
  BY NatLessThanWellFounded
<1>2. \A x, y \in Nat : <<x, y>> \in R <=> x < y
  BY DEF OpToRel
<1> HIDE DEF R
<1>3. PICK x \in T : \A y \in T : <<y, x>> \notin R
  BY <1>1, WFMin
<1>4. ASSUME NEW y \in T PROVE x <= y
  <2>1. ~(y < x)
    BY <1>2, <1>3
  <2> QED
    BY <2>1
<1> QED
  BY <1>4

\* A set of addresses that is not empty has a greatest one.
LEMMA GreatestNode ==
  ASSUME NEW T \in SUBSET Node, T # {}
  PROVE  \E x \in T : \A y \in T : y <= x
<1>1. Heap \in Nat /\ \A x \in Node : x \in Nat /\ x <= Heap
  BY FileOpsAssumption DEF Node
<1> DEFINE M == {Heap - x : x \in T}
<1>2. M \in SUBSET Nat /\ M # {}
  BY <1>1
<1>3. PICK m \in M : \A k \in M : m <= k
  <2> HIDE DEF M
  <2> QED BY <1>2, LeastNat
<1>4. PICK x \in T : m = Heap - x
  OBVIOUS
<1>5. ASSUME NEW y \in T PROVE y <= x
  <2>1. m <= Heap - y
    BY <1>3
  <2> QED
    BY <1>1, <1>4, <2>1
<1> QED
  BY <1>5

\* What is reached from S holds S, and no step leaves it.
LEMMA ReachedAround ==
  ASSUME NEW R, NEW S, S \subseteq DOMAIN R, \A x \in DOMAIN R : R[x] \subseteq DOMAIN R
  PROVE  /\ S \subseteq Reached(S, R) /\ Reached(S, R) \subseteq DOMAIN R
         /\ \A x \in Reached(S, R) : R[x] \subseteq Reached(S, R)
BY DEF Reached

\* It is the least such set.
LEMMA ReachedLeast ==
  ASSUME NEW R, NEW S, NEW T \in SUBSET DOMAIN R, S \subseteq T, \A x \in T : R[x] \subseteq T
  PROVE  Reached(S, R) \subseteq T
BY DEF Reached

NextOf(x) == tree.node[x].next
Kid(x) == tree.node[x].child
Par(x) == tree.node[x].parent
To(x) == tree.node[x].to
Item(x) == tree.node[x].item
At(x) == tree.node[x].at

Linked(C, A) ==
  /\ \A x \in C : NextOf(x) # Nil =>
       NextOf(x) \in C /\ NextOf(x) > x /\ Par(NextOf(x)) = Par(x)
  /\ \A x, y \in C : NextOf(x) = NextOf(y) /\ NextOf(x) # Nil => x = y
  /\ \A x \in C \ A : Kid(x) # Nil =>
       Kid(x) \in C /\ Kid(x) > x /\ Par(Kid(x)) = x /\ \A y \in C : NextOf(y) # Kid(x)

Tree(C) ==
  /\ C \subseteq Live /\ Linked(C, {})
  /\ tree.list \in C \cup {Nil} /\ (tree.list = Nil => C = {})
  /\ tree.list # Nil => Par(tree.list) = Nil
  /\ \A x \in C : NextOf(x) # tree.list
  /\ \A x \in C : Par(x) # Nil => Par(x) \in C /\ Par(x) < x
  /\ \A x \in C \ {tree.list} : \E y \in C : y < x /\ x \in {NextOf(y), Kid(y)}
  /\ \A x \in C, y \in Node \ Live : x < y

Nodes ==
  /\ tree = [list |-> tree.list, node |-> tree.node] /\ tree.node \in [Live -> NodeRec]
  /\ Live \subseteq Node /\ tree.list \in Node \cup {Nil}

\* NULL is no address.
LEMMA Addresses == Nil \notin Node /\ \A x \in Node : x \in Nat
  BY FileOpsAssumption DEF Node

\* The list of a node ends, with a sibling of it.
LEMMA EndOfList ==
  ASSUME Nodes, NEW C, Tree(C), NEW head \in C
  PROVE  LET b == EndOf(head) IN b \in C /\ NextOf(b) = Nil /\ Par(b) = Par(head)
<1> DEFINE R == [a \in Live |-> {tree.node[a].next} \cap Live]
           U == Reached({head}, R)
           T == {x \in C : Par(x) = Par(head)}
<1>1. C \subseteq Live /\ Live \subseteq Node
  BY DEF Tree, Nodes
<1>2. \A x \in T : R[x] \subseteq T
  BY <1>1, Addresses DEF Tree, Linked, NextOf
<1>3. DOMAIN R = Live /\ \A x \in Live : R[x] \subseteq Live
  OBVIOUS
<1>4. U \subseteq T
  <2> HIDE DEF R
  <2> QED
    BY <1>1, <1>2, <1>3, ReachedLeast, ZenonT(40)
<1>5. head \in U /\ \A x \in U : R[x] \subseteq U
  <2> HIDE DEF R
  <2> QED
    BY <1>1, <1>3, ReachedAround
<1>6. PICK b \in U : \A y \in U : y <= b
  <2> HIDE DEF U
  <2> QED
    BY <1>1, <1>4, <1>5, GreatestNode
<1>7. tree.node[b].next = Nil
  <2> SUFFICES ASSUME tree.node[b].next # Nil PROVE FALSE
    OBVIOUS
  <2>1. NextOf(b) \in C /\ NextOf(b) > b
    BY <1>4 DEF Tree, Linked, NextOf
  <2>2. NextOf(b) \in U
    BY <1>1, <1>4, <1>5, <2>1 DEF NextOf
  <2>3. b \in Nat /\ NextOf(b) \in Nat
    BY <1>1, <1>4, <2>1, Addresses
  <2> QED
    BY <1>6, <2>1, <2>2, <2>3
<1>8. EndOf(head) \in U /\ tree.node[EndOf(head)].next = Nil
  <2> HIDE DEF U
  <2> QED
    BY <1>7 DEF EndOf, U
<1> QED
  <2> HIDE DEF U
  <2> QED BY <1>4, <1>8 DEF NextOf

--------------------------------------------------------------------------------
\* malloc gives the lowest free address.
LEMMA Allocates ==
  ASSUME Node \ Live # {}
  PROVE  NewAddress \in Node \ Live /\ \A c \in Node \ Live : NewAddress <= c
<1>1. PICK x \in Node \ Live : \A y \in Node \ Live : x <= y
  BY LeastNat, Addresses
<1> QED
  BY <1>1 DEF NewAddress

\* A node n is added under o, or beside the selected objects, and nothing else is changed
\* than where nodes are copied to.
First(o) == IF o = Nil THEN tree.list ELSE Kid(o)
SameLinks(nd) ==
  /\ nd \in [Live -> NodeRec]
  /\ \A x \in Live : /\ nd[x].item = Item(x) /\ nd[x].at = At(x) /\ nd[x].next = NextOf(x)
                     /\ nd[x].child = Kid(x) /\ nd[x].parent = Par(x)
Adds(C, nd, o, n) ==
  /\ Node \ Live # {} /\ SameLinks(nd) /\ o \in C \cup {Nil}
  /\ n \in NodeRec /\ n.next = Nil /\ n.child = Nil /\ n.parent = o
  /\ tree' = AddNode(nd, First(o), o, n)

\* What LV_FM_LL_ADD writes.
LEMMA AddNodeActs ==
  ASSUME Nodes, NEW C, Tree(C), NEW nd, NEW o, NEW n, Adds(C, nd, o, n)
  PROVE  /\ NewAddress \in Node \ Live
         /\ tree'.list = IF tree.list = Nil THEN NewAddress ELSE tree.list
         /\ DOMAIN tree'.node = Live \cup {NewAddress}
         /\ tree'.node[NewAddress] = n
         /\ \A x \in Live :
              /\ First(o) # Nil /\ x = EndOf(First(o)) =>
                   tree'.node[x] = [nd[x] EXCEPT !.next = NewAddress]
              /\ First(o) = Nil /\ x = o => tree'.node[x] = [nd[x] EXCEPT !.child = NewAddress]
              /\ ~(First(o) # Nil /\ x = EndOf(First(o))) /\ ~(First(o) = Nil /\ x = o) =>
                   tree'.node[x] = nd[x]
<1>1. NewAddress \in Node \ Live
  BY Allocates DEF Adds
<1> DEFINE put(b) ==
      IF First(o) # Nil /\ b = EndOf(First(o)) THEN [nd[b] EXCEPT !.next = NewAddress]
      ELSE IF First(o) = Nil /\ b = o THEN [nd[b] EXCEPT !.child = NewAddress]
      ELSE nd[b]
<1>2. tree' = [list |-> IF tree.list = Nil THEN NewAddress ELSE tree.list,
               node |-> [b \in Live \cup {NewAddress} |->
                           IF b = NewAddress THEN n ELSE put(b)]]
  BY DEF Adds, AddNode
<1> HIDE DEF put
<1>3. \A b \in Live : tree'.node[b] = put(b)
  BY <1>1, <1>2
<1>4. /\ tree'.list = IF tree.list = Nil THEN NewAddress ELSE tree.list
      /\ DOMAIN tree'.node = Live \cup {NewAddress} /\ tree'.node[NewAddress] = n
  BY <1>1, <1>2
<1> QED
  BY <1>1, <1>3, <1>4 DEF put

\* AddNode makes a record of a node and a function.
LEMMA AddNodeMakes ==
  ASSUME NEW node, NEW head, NEW o, NEW n, tree' = AddNode(node, head, o, n)
  PROVE  /\ tree' = [list |-> tree'.list, node |-> tree'.node]
         /\ tree'.node = [x \in Live \cup {NewAddress} |-> tree'.node[x]]
<1> DEFINE put(b) ==
      IF b = NewAddress THEN n
      ELSE IF head # Nil /\ b = EndOf(head) THEN [node[b] EXCEPT !.next = NewAddress]
      ELSE IF head = Nil /\ b = o THEN [node[b] EXCEPT !.child = NewAddress]
      ELSE node[b]
<1>1. tree' = [list |-> IF tree.list = Nil THEN NewAddress ELSE tree.list,
               node |-> [b \in Live \cup {NewAddress} |-> put(b)]]
  BY DEF AddNode
<1> HIDE DEF put
<1> QED
  BY <1>1

\* The same, field by field.
LEMMA AddLinks ==
  ASSUME Nodes, NEW C, Tree(C), NEW nd, NEW o, NEW n, Adds(C, nd, o, n)
  PROVE  LET a == NewAddress IN
         /\ a \in Node \ Live /\ Live' = Live \cup {a} /\ Nodes'
         /\ tree'.list = IF tree.list = Nil THEN a ELSE tree.list
         /\ tree'.node[a].next = Nil /\ tree'.node[a].child = Nil /\ tree'.node[a].parent = o
         /\ tree'.node[a].item = n.item /\ tree'.node[a].at = n.at /\ tree'.node[a].to = n.to
         /\ \A x \in Live :
              /\ tree'.node[x].next = IF First(o) # Nil /\ x = EndOf(First(o)) THEN a ELSE NextOf(x)
              /\ tree'.node[x].child = IF First(o) = Nil /\ x = o THEN a ELSE Kid(x)
              /\ tree'.node[x].parent = Par(x) /\ tree'.node[x].item = Item(x)
              /\ tree'.node[x].at = At(x) /\ tree'.node[x].to = nd[x].to
<1> DEFINE a == NewAddress
<1>1. a \in Node \ Live /\ Live' = Live \cup {a} /\ tree'.node[a] = n
  BY AddNodeActs DEF Live
<1>2. n \in NodeRec /\ n.next = Nil /\ n.child = Nil /\ n.parent = o
  BY DEF Adds
<1>3. /\ tree'.node[a].next = Nil /\ tree'.node[a].child = Nil /\ tree'.node[a].parent = o
      /\ tree'.node[a].item = n.item /\ tree'.node[a].at = n.at /\ tree'.node[a].to = n.to
  BY <1>1, <1>2 DEF NextOf, Kid, Par, Item, At, To
<1>4. tree'.list = IF tree.list = Nil THEN a ELSE tree.list
  BY AddNodeActs
<1>5. o \in C \cup {Nil} /\ C \subseteq Live /\ First(o) \in C \cup {Nil}
  BY DEF Adds, Tree, Linked, First
<1>6. First(o) # Nil => NextOf(EndOf(First(o))) = Nil
  BY <1>5, EndOfList
<1> DEFINE grown(x) == First(o) # Nil /\ x = EndOf(First(o))
           parent(x) == First(o) = Nil /\ x = o
<1>9. \A x \in Live : /\ grown(x) => tree'.node[x] = [nd[x] EXCEPT !.next = NewAddress]
                      /\ parent(x) => tree'.node[x] = [nd[x] EXCEPT !.child = NewAddress]
                      /\ ~grown(x) /\ ~parent(x) => tree'.node[x] = nd[x]
  BY AddNodeActs
<1> HIDE DEF grown, parent
<1>7. ASSUME NEW x \in Live
      PROVE  /\ tree'.node[x] \in NodeRec
             /\ tree'.node[x].next = IF First(o) # Nil /\ x = EndOf(First(o)) THEN a ELSE NextOf(x)
             /\ tree'.node[x].child = IF First(o) = Nil /\ x = o THEN a ELSE Kid(x)
             /\ tree'.node[x].parent = Par(x) /\ tree'.node[x].item = Item(x)
             /\ tree'.node[x].at = At(x) /\ tree'.node[x].to = nd[x].to
  <2>1. nd[x] \in NodeRec
    BY DEF Adds, SameLinks
  <2>3. /\ nd[x].next = NextOf(x) /\ nd[x].child = Kid(x) /\ nd[x].parent = Par(x)
        /\ nd[x].item = Item(x) /\ nd[x].at = At(x)
    BY DEF Adds, SameLinks
  <2>5. CASE grown(x)
    <3>1. tree'.node[x] = [nd[x] EXCEPT !.next = a]
      BY <1>9, <2>5
    <3> HIDE DEF a
    <3>2. tree'.node[x] \in NodeRec
      BY <1>1, <2>1, <3>1 DEF NodeRec
    <3>3. /\ tree'.node[x].next = a /\ tree'.node[x].child = nd[x].child
          /\ tree'.node[x].parent = nd[x].parent /\ tree'.node[x].item = nd[x].item
          /\ tree'.node[x].at = nd[x].at /\ tree'.node[x].to = nd[x].to
      BY <2>1, <3>1 DEF NodeRec
    <3> QED
      BY <2>3, <2>5, <3>2, <3>3 DEF grown
  <2>6. CASE parent(x)
    <3>1. tree'.node[x] = [nd[x] EXCEPT !.child = a]
      BY <1>9, <2>6
    <3> HIDE DEF a
    <3>2. tree'.node[x] \in NodeRec
      BY <1>1, <2>1, <3>1 DEF NodeRec
    <3>3. /\ tree'.node[x].child = a /\ tree'.node[x].next = nd[x].next
          /\ tree'.node[x].parent = nd[x].parent /\ tree'.node[x].item = nd[x].item
          /\ tree'.node[x].at = nd[x].at /\ tree'.node[x].to = nd[x].to
      BY <2>1, <3>1 DEF NodeRec
    <3> QED
      BY <2>3, <2>6, <3>2, <3>3 DEF parent
  <2>7. CASE ~grown(x) /\ ~parent(x)
    <3>1. tree'.node[x] = nd[x]
      BY <1>9, <2>7
    <3> QED
      BY <2>1, <2>3, <2>7, <3>1 DEF grown, parent
  <2> QED
    BY <2>5, <2>6, <2>7
<1>8. Nodes'
  <2>1. \A x \in Live \cup {a} : tree'.node[x] \in NodeRec
    BY <1>1, <1>2, <1>7
  <2>2. tree'.node \in [Live' -> NodeRec]
    BY <1>1, <2>1, AddNodeMakes DEF Adds
  <2>3. tree' = [list |-> tree'.list, node |-> tree'.node]
    BY AddNodeMakes DEF Adds
  <2>4. Live' \subseteq Node /\ tree'.list \in Node \cup {Nil}
    BY <1>1, <1>4 DEF Nodes
  <2> QED
    BY <2>2, <2>3, <2>4 DEF Nodes
<1> QED
  BY <1>1, <1>3, <1>4, <1>7, <1>8

\* A node added to a tree makes a tree.
LEMMA AddKeepsTree ==
  ASSUME Nodes, NEW C, Tree(C), NEW nd, NEW o, NEW n, Adds(C, nd, o, n),
         NEW a, a = NewAddress
  PROVE  Tree(C \cup {a})'
<1>0. PICK e : e = EndOf(First(o))
  OBVIOUS
<1> DEFINE K == C \cup {a}
<1>1. /\ a \in Node \ Live /\ Live' = Live \cup {a}
      /\ tree'.list = IF tree.list = Nil THEN a ELSE tree.list
      /\ tree'.node[a].next = Nil /\ tree'.node[a].child = Nil /\ tree'.node[a].parent = o
      /\ \A x \in Live :
           /\ tree'.node[x].next = IF First(o) # Nil /\ x = e THEN a ELSE NextOf(x)
           /\ tree'.node[x].child = IF First(o) = Nil /\ x = o THEN a ELSE Kid(x)
           /\ tree'.node[x].parent = Par(x)
  BY <1>0, AddLinks
<1>2. /\ o \in C \cup {Nil} /\ C \subseteq Live /\ First(o) \in C \cup {Nil}
      /\ First(o) # Nil => Par(First(o)) = o
  BY DEF Adds, Tree, Linked, First
<1>3. First(o) # Nil => e \in C /\ NextOf(e) = Nil /\ Par(e) = o
  BY <1>0, <1>2, EndOfList
<1>4. a # Nil /\ a \notin C /\ Nil \notin C /\ a \in Nat /\ \A x \in C : x \in Nat /\ x < a
  BY <1>1, <1>2, Addresses DEF Tree, Nodes
<1>5. Node \ Live' = (Node \ Live) \ {a} /\ \A c \in Node \ Live' : a < c
  <2>1. \A c \in Node \ Live : a <= c
    BY Allocates DEF Adds
  <2> QED
    BY <1>1, <2>1, <1>4, Addresses
<1>6. Tree(C)
  OBVIOUS
<1>7. Linked(K, {})'
  <2>1. ASSUME NEW x \in K, tree'.node[x].next # Nil
        PROVE  LET y == tree'.node[x].next
               IN  y \in K /\ y > x /\ tree'.node[y].parent = tree'.node[x].parent
    <3>1. CASE First(o) # Nil /\ x = e
      BY <1>1, <1>2, <1>3, <1>4, <3>1 DEF Par, NextOf
    <3>2. CASE x # a /\ ~(First(o) # Nil /\ x = e)
      <4>1. tree'.node[x].next = NextOf(x)
        BY <1>1, <1>2, <3>2 DEF NextOf
      <4>2. NextOf(x) \in C /\ NextOf(x) > x /\ Par(NextOf(x)) = Par(x)
        BY <2>1, <3>2, <4>1 DEF Tree, Linked
      <4> QED
        BY <1>1, <1>2, <3>2, <4>1, <4>2 DEF Par
    <3> QED
      BY <1>1, <2>1, <3>1, <3>2 DEF NextOf
  <2>2. ASSUME NEW x \in K, NEW y \in K, tree'.node[x].next = tree'.node[y].next,
               tree'.node[x].next # Nil
        PROVE  x = y
    <3>1. x # a /\ y # a
      BY <1>1, <2>2 DEF NextOf
    <3>2. NextOf(x) \in C \cup {Nil} /\ NextOf(y) \in C \cup {Nil}
      BY <3>1 DEF Tree, Linked
    <3>3. NextOf(x) = NextOf(y) /\ NextOf(x) # Nil => x = y
      BY <3>1 DEF Tree, Linked
    <3> QED
      BY <1>1, <1>2, <1>4, <2>2, <3>1, <3>2, <3>3 DEF NextOf
  <2>3. ASSUME NEW x \in K, tree'.node[x].child # Nil
        PROVE  LET y == tree'.node[x].child
               IN  /\ y \in K /\ y > x /\ tree'.node[y].parent = x
                   /\ \A z \in K : tree'.node[z].next # y
    <3>1. CASE First(o) = Nil /\ x = o
      <4>1. tree'.node[x].child = a /\ tree'.node[a].parent = x /\ a > x
        BY <1>1, <1>2, <1>4, <3>1 DEF Kid, Par
      <4>2. ASSUME NEW z \in K PROVE tree'.node[z].next # a
        <5>1. z \in C => NextOf(z) \in C \cup {Nil}
          BY DEF Tree, Linked
        <5> QED
          BY <1>1, <1>2, <1>4, <3>1, <5>1 DEF NextOf
      <4> QED
        BY <4>1, <4>2
    <3>2. CASE x # a /\ ~(First(o) = Nil /\ x = o)
      <4>1. tree'.node[x].child = Kid(x)
        BY <1>1, <1>2, <3>2 DEF Kid
      <4>2. Kid(x) \in C /\ Kid(x) > x /\ Par(Kid(x)) = x /\ \A z \in C : NextOf(z) # Kid(x)
        BY <2>3, <3>2, <4>1 DEF Tree, Linked
      <4>3. tree'.node[Kid(x)].parent = x
        BY <1>1, <1>2, <4>2 DEF Par
      <4>4. ASSUME NEW z \in K PROVE tree'.node[z].next # Kid(x)
        BY <1>1, <1>2, <1>4, <4>2 DEF NextOf
      <4> QED
        BY <4>1, <4>2, <4>3, <4>4
    <3> QED
      BY <1>1, <2>3, <3>1, <3>2 DEF Kid
  <2>4. ASSUME NEW x \in K, NextOf(x)' # Nil
        PROVE  (NextOf(x) \in K /\ NextOf(x) > x /\ Par(NextOf(x)) = Par(x))'
    BY <2>1, <2>4 DEF NextOf, Par
  <2>5. ASSUME NEW x \in K, NEW y \in K, (NextOf(x) = NextOf(y) /\ NextOf(x) # Nil)'
        PROVE  x = y
    BY <2>2, <2>5 DEF NextOf
  <2>6. ASSUME NEW x \in K, Kid(x)' # Nil
        PROVE  (Kid(x) \in K /\ Kid(x) > x /\ Par(Kid(x)) = x /\ \A y \in K : NextOf(y) # Kid(x))'
    BY <2>3, <2>6 DEF NextOf, Kid, Par
  <2> HIDE DEF K
  <2> QED
    BY <2>4, <2>5, <2>6 DEF Linked
<1>8. K \subseteq Live' /\ tree'.list \in K /\ tree'.list # Nil
  BY <1>1, <1>2, <1>4 DEF Tree
<1>9. tree'.node[tree'.list].parent = Nil
  <2>1. CASE tree.list = Nil
    <3>1. o = Nil
      BY <1>2, <2>1 DEF Tree
    <3> QED
      BY <1>1, <2>1, <3>1 DEF Par
  <2>2. CASE tree.list # Nil
    BY <1>1, <1>2, <2>2 DEF Tree, Par
  <2> QED
    BY <2>1, <2>2
<1>10. ASSUME NEW x \in K PROVE tree'.node[x].next # tree'.list
  <2>1. CASE tree.list = Nil
    <3>1. C = {} /\ o = Nil /\ First(o) = Nil
      BY <1>2, <2>1 DEF Tree, First
    <3> QED
      BY <1>1, <1>4, <2>1, <3>1 DEF NextOf
  <2>2. CASE tree.list # Nil
    <3>1. tree.list \in C /\ (x \in C => NextOf(x) # tree.list)
      BY <2>2 DEF Tree
    <3> QED
      BY <1>1, <1>2, <1>4, <2>2, <3>1 DEF NextOf
  <2> QED
    BY <2>1, <2>2
<1>11. ASSUME NEW x \in K, tree'.node[x].parent # Nil
       PROVE  tree'.node[x].parent \in K /\ tree'.node[x].parent < x
  <2>1. CASE x = a
    BY <1>1, <1>2, <1>4, <1>11, <2>1 DEF Par
  <2>2. CASE x # a
    BY <1>1, <1>2, <1>11, <2>2 DEF Tree, Par
  <2> QED
    BY <2>1, <2>2
<1>12. ASSUME NEW x \in K \ {tree'.list}
       PROVE  \E y \in K : y < x /\ x \in {tree'.node[y].next, tree'.node[y].child}
  <2>1. CASE x = a
    <3>1. tree.list # Nil
      BY <1>1, <1>12, <2>1
    <3>2. CASE First(o) # Nil
      BY <1>1, <1>2, <1>3, <1>4, <2>1, <3>2 DEF NextOf
    <3>3. CASE First(o) = Nil
      <4>1. o \in C
        BY <1>2, <3>1, <3>3 DEF First
      <4> QED
        BY <1>1, <1>2, <1>4, <2>1, <3>3, <4>1 DEF Kid
    <3> QED
      BY <3>2, <3>3
  <2>2. CASE x # a
    <3>1. x \in C \ {tree.list}
      BY <1>1, <1>12, <2>2 DEF Tree
    <3>2. PICK y \in C : y < x /\ x \in {NextOf(y), Kid(y)}
      BY <3>1 DEF Tree
    <3>3. x = NextOf(y) => tree'.node[y].next = x
      BY <1>1, <1>2, <1>3, <1>4, <3>1 DEF NextOf
    <3>4. x = Kid(y) => tree'.node[y].child = x
      BY <1>1, <1>2, <1>4, <3>1 DEF Kid, First
    <3> QED
      BY <3>2, <3>3, <3>4
  <2> QED
    BY <2>1, <2>2
<1>13. ASSUME NEW x \in K, NEW y \in Node \ Live' PROVE x < y
  <2>1. x \in C => x < y
    BY <1>1, <1>13 DEF Tree
  <2> QED
    BY <1>5, <2>1
<1> QED
  <2> HIDE DEF K
  <2>1. Tree(K)'
    BY <1>7, <1>8, <1>9, <1>10, <1>11, <1>12, <1>13 DEF Tree, Live, NextOf, Kid, Par
  <2> QED
    BY <2>1 DEF K

--------------------------------------------------------------------------------
\* From fm_op_list LV_FM_TREE_CLEAN meets the nodes of the job and no others.
LEMMA VisitedInside == ASSUME Nodes, NEW C, Tree(C) PROVE Visited \subseteq C
<1> DEFINE R == [a \in Live |-> Links(a) \cap Live]
<1>1. C \subseteq Live /\ \A x \in C : Links(x) \subseteq C
  BY DEF Tree, Linked, Links, NextOf, Kid
<1>2. {tree.list} \cap Live \subseteq C
  BY Addresses DEF Tree, Nodes
<1>3. DOMAIN R = Live /\ \A x \in C : R[x] \subseteq C
  BY <1>1
<1> HIDE DEF R
<1>4. Reached({tree.list} \cap Live, R) \subseteq C
  BY <1>1, <1>2, <1>3, ReachedLeast
<1> QED
  BY <1>4 DEF Visited, R

\* LV_FM_TREE_CLEAN frees no node twice and leaves no list.
LEMMA CleanIsSafe ==
  ASSUME Nodes, NEW C, Tree(C), Clean
  PROVE  fault' = FALSE /\ Nodes' /\ tree'.list = Nil /\ Tree({})'
<1>1. \A x \in Visited : Links(x) \subseteq Live
  BY VisitedInside DEF Tree, Linked, Links, NextOf, Kid
<1>2. {tree.list} \ {Nil} \subseteq Live
  BY DEF Tree
<1>3. fault' = FALSE
  BY <1>1, <1>2 DEF Clean
<1>4. tree'.list = Nil /\ tree'.node = [a \in Live \ Visited |-> tree.node[a]]
  BY DEF Clean
<1>5. Nodes'
  <2>1. tree' = [list |-> Nil, node |-> [a \in Live \ Visited |-> tree.node[a]]]
    BY DEF Clean
  <2>2. Live' = Live \ Visited
    BY <2>1 DEF Live
  <2>3. tree'.node \in [Live' -> NodeRec]
    BY <2>1, <2>2 DEF Nodes
  <2> QED
    BY <2>1, <2>2, <2>3 DEF Nodes
<1> QED
  BY <1>3, <1>4, <1>5 DEF Tree, Linked, Live

\* The walk stays in the tree.
LEMMA NextUpInside ==
  ASSUME Nodes, NEW C, Tree(C), NEW op \in C
  PROVE  NextUp(op) \in C \cup {Nil}
<1> DEFINE R == [b \in Live |-> IF tree.node[b].next = Nil
                               THEN {tree.node[b].parent} \cap Live ELSE {}]
           turns == {b \in Reached({op}, R) : tree.node[b].next # Nil}
<1>1. C \subseteq Live /\ \A x \in C : R[x] \subseteq C
  BY Addresses DEF Tree, Nodes, Par
<1>2. Reached({op}, R) \subseteq C
  <2> HIDE DEF R
  <2>1. DOMAIN R = Live
    BY DEF R
  <2> QED
    BY <1>1, <2>1, ReachedLeast
<1>3. \A b \in turns : tree.node[b].next \in C
  BY <1>2 DEF Tree, Linked, NextOf
<1>4. NextUp(op) = IF turns = {} THEN Nil ELSE tree.node[CHOOSE b \in turns : TRUE].next
  BY DEF NextUp
<1> HIDE DEF turns
<1> QED
  BY <1>3, <1>4

--------------------------------------------------------------------------------
\* A is what lies above op in the tree.
Path(A, op) ==
  /\ \A x \in A : x < op
  /\ \A y \in A \cup {op} :
       /\ Par(y) # Nil => Par(y) \in A /\ Par(y) < y
       /\ \A x \in A : x < y => Par(y) # Nil /\ x <= Par(y)

\* The walk goes on at the next node of one on the path below which no node has a next.
LEMMA Climbs ==
  ASSUME Nodes, NEW C, Tree(C), NEW op \in C, NEW A \in SUBSET C, Path(A, op)
  PROVE  \/ NextUp(op) = Nil /\ \A x \in A \cup {op} : NextOf(x) = Nil
         \/ \E b \in A \cup {op} : /\ NextUp(op) = NextOf(b) /\ NextOf(b) # Nil
                                  /\ \A x \in A \cup {op} : x > b => NextOf(x) = Nil
<1> DEFINE R == [b \in Live |-> IF tree.node[b].next = Nil
                               THEN {tree.node[b].parent} \cap Live ELSE {}]
           U == Reached({op}, R)
           P == A \cup {op}
           turns == {b \in U : tree.node[b].next # Nil}
<1>1. C \subseteq Live /\ Live \subseteq Node /\ P \subseteq C /\ Nil \notin Live
  BY Addresses DEF Tree, Nodes
<1>2. \A x \in P : x \in Nat /\ x <= op
  BY <1>1, Addresses DEF Path
<1>3. DOMAIN R = Live /\ \A x \in Live : R[x] \subseteq Live
  OBVIOUS
<1>4. \A x \in Live : R[x] = IF NextOf(x) = Nil THEN {Par(x)} \cap Live ELSE {}
  BY DEF NextOf, Par
<1> HIDE DEF R
<1>5. ASSUME NEW x \in P, NEW y \in R[x]
      PROVE  y \in A /\ y = Par(x) /\ NextOf(x) = Nil /\ y < x
  <2>2. x \in Live
    BY <1>1
  <2>3. y \in IF NextOf(x) = Nil THEN {Par(x)} \cap Live ELSE {}
    BY <1>4, <2>2
  <2>1. x \in Live /\ NextOf(x) = Nil /\ y = Par(x) /\ y \in Live
    BY <2>2, <2>3
  <2> QED
    BY <1>1, <2>1 DEF Path
<1>6. op \in U /\ U \subseteq P /\ \A x \in U : R[x] \subseteq U
  <2>1. \A x \in P : R[x] \subseteq P
    BY <1>5
  <2>2. {op} \subseteq P /\ P \in SUBSET DOMAIN R
    BY <1>1, <1>3
  <2>3. U \subseteq P
    <3> HIDE DEF P
    <3> QED
      BY <2>1, <2>2, ReachedLeast
  <2> QED
    BY <1>1, <1>3, <2>3, ReachedAround
\* Nothing that the climb reaches lies below a node x of the path that has a next, and
\* nothing of the path is left out on the way.
<1>7. ASSUME NEW x \in P, NextOf(x) # Nil PROVE \A y \in U : x <= y
  <2> DEFINE T == {y \in U : x <= y}
  <2>1. op \in T /\ T \in SUBSET Live
    BY <1>1, <1>2, <1>6
  <2>2. ASSUME NEW y \in T PROVE R[y] \subseteq T
    <3>1. SUFFICES ASSUME NEW z \in R[y] PROVE x <= z
      BY <1>6, <2>2
    <3>2. y \in P /\ z = Par(y) /\ NextOf(y) = Nil /\ x # y
      BY <1>5, <1>6, <1>7
    <3>3. x < y /\ x \in A
      BY <1>2, <2>2, <3>2
    <3> QED
      BY <3>2, <3>3 DEF Path
  <2>3. U \subseteq T
    <3> HIDE DEF T
    <3> QED
      BY <1>3, <2>1, <2>2, ReachedLeast
  <2> QED
    BY <2>3
<1>8. ASSUME NEW x \in P, x \notin U PROVE \A y \in U : x < y
  <2> DEFINE T == {y \in U : x < y}
  <2>1. op \in T /\ T \in SUBSET Live /\ x \in A
    BY <1>1, <1>2, <1>6, <1>8 DEF Path
  <2>2. ASSUME NEW y \in T PROVE R[y] \subseteq T
    <3>1. SUFFICES ASSUME NEW z \in R[y] PROVE x < z
      BY <1>6, <2>2
    <3>2. y \in P /\ z = Par(y) /\ z \in U /\ z \in P
      BY <1>5, <1>6, <2>2
    <3>3. x <= z
      BY <2>1, <2>2, <3>2 DEF Path
    <3> QED
      BY <1>2, <1>8, <3>2, <3>3
  <2>3. U \subseteq T
    <3> HIDE DEF T
    <3> QED
      BY <1>3, <2>1, <2>2, ReachedLeast
  <2> QED
    BY <2>3
<1>9. NextUp(op) = IF turns = {} THEN Nil ELSE tree.node[CHOOSE b \in turns : TRUE].next
  BY DEF NextUp, R
<1> HIDE DEF U
<1>10. CASE turns = {}
  <2>1. \A x \in U : NextOf(x) = Nil
    BY <1>10 DEF NextOf
  <2>2. P \subseteq U
    <3> SUFFICES ASSUME NEW x \in P, x \notin U PROVE FALSE
      OBVIOUS
    <3>1. PICK m \in U : \A y \in U : m <= y
      <4>1. U \in SUBSET Nat /\ U # {}
        BY <1>2, <1>6
      <4> QED
        BY <4>1, LeastNat
    <3>2. x < m /\ m \in P
      BY <1>6, <1>8
    <3>3. x \in A
      BY <1>2, <3>2
    <3>4. Par(m) # Nil /\ Par(m) \in A /\ Par(m) < m
      BY <3>2, <3>3 DEF Path
    <3>5. Par(m) \in R[m]
      BY <1>1, <1>4, <1>6, <2>1, <3>1, <3>4, ZenonT(40)
    <3>6. Par(m) \in U
      BY <1>6, <3>5
    <3> QED
      BY <1>2, <1>6, <3>1, <3>4, <3>6
  <2> QED
    BY <1>9, <1>10, <2>1, <2>2
<1>11. CASE turns # {}
  <2>1. PICK b \in turns : NextUp(op) = tree.node[b].next
    <3> HIDE DEF turns
    <3> QED
      BY <1>9, <1>11
  <2>2. b \in U /\ b \in P /\ NextOf(b) # Nil /\ NextUp(op) = NextOf(b)
    BY <1>6, <2>1 DEF NextOf
  <2>3. ASSUME NEW x \in P, x > b PROVE NextOf(x) = Nil
    <3>1. NextOf(x) # Nil => x <= b
      BY <1>7, <2>2
    <3> QED
      BY <1>2, <2>2, <2>3, <3>1
  <2> QED
    BY <2>2, <2>3
<1> QED
  BY <1>10, <1>11

--------------------------------------------------------------------------------
\* A tree whose nodes point where they did is the tree it was.
LEMMA LinksStay ==
  ASSUME Nodes, NEW nd, SameLinks(nd), tree' = [tree EXCEPT !.node = nd]
  PROVE  /\ tree'.list = tree.list /\ tree'.node = nd /\ Live' = Live /\ Nodes'
         /\ \A x \in Live : /\ tree'.node[x].next = NextOf(x) /\ tree'.node[x].child = Kid(x)
                            /\ tree'.node[x].parent = Par(x) /\ tree'.node[x].item = Item(x)
                            /\ tree'.node[x].at = At(x)
<1>1. tree' = [list |-> tree.list, node |-> nd]
  BY DEF Nodes
<1>2. DOMAIN nd = Live /\ \A x \in Live : nd[x] \in NodeRec
  BY DEF SameLinks
<1>3. Live' = Live /\ Nodes'
  <2>1. Live' = Live
    BY <1>1, <1>2 DEF Live
  <2>2. tree'.node \in [Live' -> NodeRec]
    BY <1>1, <2>1 DEF SameLinks
  <2> QED
    BY <1>1, <2>1, <2>2 DEF Nodes
<1> QED
  BY <1>1, <1>3 DEF SameLinks

\* With the links a tree stays a tree.
LEMMA TreeStays ==
  ASSUME Nodes, NEW C, Tree(C), tree'.list = tree.list, Live' = Live,
         \A x \in Live : /\ tree'.node[x].next = NextOf(x) /\ tree'.node[x].child = Kid(x)
                         /\ tree'.node[x].parent = Par(x)
  PROVE  Tree(C)'
<1>1. C \subseteq Live /\ Tree(C)
  BY DEF Tree
<1>2. tree.list # Nil => tree.list \in Live
  BY DEF Tree
<1>3. \A x \in C : NextOf(x) # Nil => NextOf(x) \in C /\ NextOf(x) > x /\ Par(NextOf(x)) = Par(x)
  BY DEF Tree, Linked
<1>4. \A x \in C : Kid(x) # Nil =>
        Kid(x) \in C /\ Kid(x) > x /\ Par(Kid(x)) = x /\ \A y \in C : NextOf(y) # Kid(x)
  BY DEF Tree, Linked
<1>5. \A x, y \in C : NextOf(x) = NextOf(y) /\ NextOf(x) # Nil => x = y
  BY DEF Tree, Linked
<1>6. Linked(C, {})'
  <2>1. \A x \in C : tree'.node[x].next # Nil =>
          LET z == tree'.node[x].next
          IN  z \in C /\ z > x /\ tree'.node[z].parent = tree'.node[x].parent
    BY <1>1, <1>3
  <2>2. \A x, y \in C : tree'.node[x].next = tree'.node[y].next /\ tree'.node[x].next # Nil => x = y
    BY <1>1, <1>5
  <2>3. \A x \in C : tree'.node[x].child # Nil =>
          LET z == tree'.node[x].child
          IN  z \in C /\ z > x /\ tree'.node[z].parent = x /\ \A y \in C : tree'.node[y].next # z
    BY <1>1, <1>4
  <2> QED
    BY <2>1, <2>2, <2>3 DEF Linked, NextOf, Kid, Par
<1>7. \A x \in C \ {tree.list} :
        \E y \in C : y < x /\ x \in {tree'.node[y].next, tree'.node[y].child}
  <2>1. \A x \in C \ {tree.list} : \E y \in C : y < x /\ x \in {NextOf(y), Kid(y)}
    BY DEF Tree
  <2> QED
    BY <1>1, <2>1
<1>8. /\ tree'.list # Nil => tree'.node[tree'.list].parent = Nil
      /\ \A x \in C : tree'.node[x].next # tree'.list
      /\ \A x \in C : tree'.node[x].parent # Nil =>
           tree'.node[x].parent \in C /\ tree'.node[x].parent < x
      /\ tree'.list \in C \cup {Nil} /\ (tree'.list = Nil => C = {})
      /\ \A x \in C, y \in Node \ Live' : x < y
  BY <1>1, <1>2 DEF Tree
<1>9. C \subseteq Live'
  BY <1>1
<1> QED
  BY <1>6, <1>7, <1>8, <1>9 DEF Tree, NextOf, Kid, Par

\* The scan writes in the nodes nothing but where the selected objects go.
LEMMA NamedLinks ==
  ASSUME Nodes, NEW C, C \subseteq Live, ops.op \in C
  PROVE  /\ SameLinks(Named)
         /\ \A x \in Live \ {ops.op} : Named[x].to = To(x)
         /\ Named[ops.op].to = IF ui.main = "paste" /\ ops.scan = "cwd" /\ Par(ops.op) = Nil
                               THEN Here ELSE To(ops.op)
<1> DEFINE nd == [tree.node EXCEPT ![ops.op].to = Here]
<1>0. ops.op \in Live /\ tree.node \in [Live -> NodeRec]
  BY DEF Nodes
<1>1. tree.node[ops.op] \in NodeRec
  BY <1>0
<1>2. nd = [tree.node EXCEPT ![ops.op] = [tree.node[ops.op] EXCEPT !.to = Here]]
  OBVIOUS
<1>3. [tree.node[ops.op] EXCEPT !.to = Here] \in NodeRec
  BY <1>1 DEF NodeRec
<1>4. nd \in [Live -> NodeRec] /\ nd[ops.op] = [tree.node[ops.op] EXCEPT !.to = Here]
      /\ \A x \in Live \ {ops.op} : nd[x] = tree.node[x]
  <2>1. PICK r \in NodeRec : r = [tree.node[ops.op] EXCEPT !.to = Here]
    BY <1>3
  <2>2. nd = [tree.node EXCEPT ![ops.op] = r]
    BY <1>2, <2>1
  <2> HIDE DEF nd
  <2> QED
    BY <1>0, <2>1, <2>2
<1>5. /\ nd[ops.op].item = Item(ops.op) /\ nd[ops.op].at = At(ops.op)
      /\ nd[ops.op].next = NextOf(ops.op) /\ nd[ops.op].child = Kid(ops.op)
      /\ nd[ops.op].parent = Par(ops.op) /\ nd[ops.op].to = Here
  <2> HIDE DEF nd
  <2> QED
    BY <1>1, <1>4 DEF NodeRec, Item, At, NextOf, Kid, Par
<1>6. Named = IF ui.main = "paste" /\ ops.scan = "cwd" /\ Par(ops.op) = Nil THEN nd ELSE tree.node
  BY DEF Named, Par
<1> HIDE DEF nd
<1>7. SameLinks(nd) /\ SameLinks(tree.node)
  BY <1>0, <1>4, <1>5 DEF SameLinks, Item, At, NextOf, Kid, Par
<1> QED
  BY <1>4, <1>5, <1>6, <1>7 DEF To

--------------------------------------------------------------------------------
\* What the deletion has left: A is what lies above op; the nodes of A still count a child
\* that may be gone.
Left(C, A, op) ==
  /\ C \subseteq Live /\ Linked(C, A) /\ A \subseteq C
  /\ op = Nil => A = {}
  /\ op # Nil => op \in C \ A /\ Path(A, op) /\ \A x \in C : NextOf(x) \notin A \cup {op}

\* The deletion starts with a whole tree at its head,
LEMMA LeftAtStart == ASSUME Nodes, NEW C, Tree(C) PROVE Left(C, {}, tree.list)
BY DEF Left, Tree, Path, Linked

\* goes down to a child,
LEMMA LeftBelow ==
  ASSUME Nodes, NEW C, NEW A, NEW op, Left(C, A, op), op # Nil, Kid(op) # Nil
  PROVE  Left(C, A \cup {op}, Kid(op))
<1>1. C \subseteq Live /\ Live \subseteq Node /\ A \subseteq C /\ op \in C \ A /\ Path(A, op)
  BY DEF Left, Nodes
<1>2. /\ Kid(op) \in C /\ Kid(op) > op /\ Par(Kid(op)) = op
      /\ \A y \in C : NextOf(y) # Kid(op) /\ NextOf(y) \notin A \cup {op}
  BY <1>1 DEF Left, Linked
<1>3. \A x \in C : x \in Nat
  BY <1>1, Addresses
<1>4. Kid(op) \notin A \cup {op} /\ \A x \in A \cup {op} : x < Kid(op)
  BY <1>1, <1>2, <1>3 DEF Path
<1>5. Path(A \cup {op}, Kid(op))
  <2>1. ASSUME NEW y \in A \cup {op}
        PROVE  /\ Par(y) # Nil => Par(y) \in A \cup {op} /\ Par(y) < y
               /\ \A x \in A \cup {op} : x < y => Par(y) # Nil /\ x <= Par(y)
    <3>1. Par(y) # Nil => Par(y) \in A /\ Par(y) < y
      BY <1>1 DEF Path
    <3>2. ASSUME NEW x \in A \cup {op}, x < y PROVE Par(y) # Nil /\ x <= Par(y)
      <4>1. x # op
        BY <1>1, <1>3, <3>2 DEF Path
      <4> QED
        BY <1>1, <3>2, <4>1 DEF Path
    <3> QED
      BY <3>1, <3>2
  <2>2. Par(Kid(op)) # Nil /\ \A x \in A \cup {op} : x <= Par(Kid(op))
    BY <1>1, <1>2, <1>3, Addresses DEF Path
  <2> QED
    BY <1>2, <1>4, <2>1, <2>2 DEF Path
<1>6. Linked(C, A \cup {op})
  BY DEF Left, Linked
<1> QED
  BY <1>1, <1>2, <1>4, <1>5, <1>6, Addresses DEF Left

\* The deletion frees a node and takes it out of its parent, if it is the last of its list.
LEMMA Unlinks ==
  ASSUME Nodes, NEW op \in Live,
         tree' = [tree EXCEPT !.node =
           [a \in Live \ {op} |-> IF NextOf(op) = Nil /\ a = Par(op)
                                  THEN [tree.node[a] EXCEPT !.child = Nil] ELSE tree.node[a]]]
  PROVE  /\ Nodes' /\ Live' = Live \ {op} /\ tree'.list = tree.list
         /\ \A x \in Live \ {op} :
              /\ tree'.node[x].next = NextOf(x) /\ tree'.node[x].parent = Par(x)
              /\ tree'.node[x].child = IF NextOf(op) = Nil /\ x = Par(op) THEN Nil ELSE Kid(x)
              /\ tree'.node[x].item = Item(x) /\ tree'.node[x].at = At(x)
              /\ tree'.node[x].to = To(x)
<1>2. \A x \in Live : tree.node[x] \in NodeRec
  BY DEF Nodes
<1>3. tree' = [list |-> tree.list, node |->
        [a \in Live \ {op} |-> IF NextOf(op) = Nil /\ a = Par(op)
                               THEN [tree.node[a] EXCEPT !.child = Nil] ELSE tree.node[a]]]
  BY DEF Nodes
<1>4. Live' = Live \ {op} /\ tree'.list = tree.list
  BY <1>3 DEF Live
<1>5. ASSUME NEW x \in Live \ {op}
      PROVE  /\ tree'.node[x] \in NodeRec
             /\ tree'.node[x].next = NextOf(x) /\ tree'.node[x].parent = Par(x)
             /\ tree'.node[x].child = IF NextOf(op) = Nil /\ x = Par(op) THEN Nil ELSE Kid(x)
             /\ tree'.node[x].item = Item(x) /\ tree'.node[x].at = At(x) /\ tree'.node[x].to = To(x)
  <2>1. tree'.node[x] = IF NextOf(op) = Nil /\ x = Par(op)
                        THEN [tree.node[x] EXCEPT !.child = Nil] ELSE tree.node[x]
    BY <1>3
  <2>2. tree.node[x] \in NodeRec
    BY <1>2
  <2> QED
    BY <2>1, <2>2 DEF NodeRec, NextOf, Par, Kid, Item, At, To
<1>6. Nodes'
  <2>1. tree'.node = [x \in Live' |-> tree'.node[x]]
    BY <1>3, <1>4
  <2>2. tree'.node \in [Live' -> NodeRec]
    BY <1>4, <1>5, <2>1
  <2> QED
    BY <1>3, <1>4, <2>2 DEF Nodes
<1> QED
  BY <1>4, <1>5, <1>6

Frees(op) ==
  /\ Live' = Live \ {op}
  /\ \A x \in Live \ {op} :
       /\ tree'.node[x].next = NextOf(x) /\ tree'.node[x].parent = Par(x)
       /\ tree'.node[x].child = IF NextOf(op) = Nil /\ x = Par(op) THEN Nil ELSE Kid(x)

Passes(C, A, op, q) ==
  \E B \in SUBSET (C \ {op}) :
    B \subseteq A /\ A \subseteq B \cup {q} /\ Left(C \ {op}, B, q)'

\* It goes on with the next of the node or with its parent.
LEMMA LeftAfter ==
  ASSUME Nodes, NEW C, NEW A, NEW op, Left(C, A, op), op # Nil, Kid(op) = Nil, Frees(op),
         NEW q, q = IF NextOf(op) # Nil THEN NextOf(op) ELSE Par(op)
  PROVE  Passes(C, A, op, q)
<1> DEFINE K == C \ {op}
<1>1. C \subseteq Live /\ Live \subseteq Node /\ A \subseteq C /\ op \in C \ A /\ Path(A, op)
      /\ op \in Live /\ \A x \in C : NextOf(x) \notin A \cup {op}
  BY DEF Left, Nodes
<1>2. \A x \in Live : x \in Nat /\ tree.node[x] \in NodeRec /\ x # Nil
  BY <1>1, Addresses DEF Nodes
<1>4. Live' = Live \ {op}
  BY DEF Frees
<1>5. \A x \in Live \ {op} :
           /\ tree'.node[x].next = NextOf(x) /\ tree'.node[x].parent = Par(x)
           /\ tree'.node[x].child = IF NextOf(op) = Nil /\ x = Par(op) THEN Nil ELSE Kid(x)
  BY DEF Frees
<1>7. \A x \in C : NextOf(x) # Nil => NextOf(x) \in C /\ NextOf(x) > x /\ Par(NextOf(x)) = Par(x)
  BY DEF Left, Linked
<1>8. \A x, y \in C : NextOf(x) = NextOf(y) /\ NextOf(x) # Nil => x = y
  BY DEF Left, Linked
<1>9. \A x \in C \ A : Kid(x) # Nil =>
        Kid(x) \in C /\ Kid(x) > x /\ Par(Kid(x)) = x /\ \A y \in C : NextOf(y) # Kid(x)
  BY DEF Left, Linked
<1>10. ASSUME NEW B \in SUBSET K, \A x \in K \ B : tree'.node[x].child # Nil => x \notin A
       PROVE  Linked(K, B)'
  <2>1. ASSUME NEW x \in K, tree'.node[x].next # Nil
        PROVE  LET z == tree'.node[x].next
               IN  z \in K /\ z > x /\ tree'.node[z].parent = tree'.node[x].parent
    BY <1>1, <1>5, <1>7, <2>1
  <2>2. \A x, y \in K : tree'.node[x].next = tree'.node[y].next /\ tree'.node[x].next # Nil => x = y
    BY <1>1, <1>5, <1>8
  <2>3. ASSUME NEW x \in K \ B, tree'.node[x].child # Nil
        PROVE  LET z == tree'.node[x].child
               IN  /\ z \in K /\ z > x /\ tree'.node[z].parent = x
                   /\ \A y \in K : tree'.node[y].next # z
    <3>1. x \in C \ A /\ x \in Live \ {op} /\ tree'.node[x].child = Kid(x) /\ Kid(x) # Nil
      BY <1>1, <1>5, <1>10, <2>3
    <3>2. Kid(x) \in C /\ Kid(x) > x /\ Par(Kid(x)) = x /\ \A y \in C : NextOf(y) # Kid(x)
      BY <1>9, <3>1
    <3>3. Kid(x) # op
      BY <1>1, <1>2, <3>1, <3>2 DEF Path
    <3> QED
      BY <1>1, <1>5, <3>1, <3>2, <3>3
  <2> QED
    BY <2>1, <2>2, <2>3 DEF Linked, NextOf, Kid, Par
<1>11. CASE NextOf(op) # Nil
  <2>1. q = NextOf(op) /\ q \in K /\ q > op /\ Par(q) = Par(op) /\ A \in SUBSET K
    BY <1>1, <1>2, <1>7, <1>11
  <2>2. q \notin A /\ \A x \in A : x < q
    BY <1>1, <1>2, <2>1 DEF Path
  <2>3. \A x \in K : NextOf(x) \notin A \cup {q}
    BY <1>1, <1>8, <1>11, <2>1
  <2>4. \A y \in A \cup {q} : /\ Par(y) # Nil => Par(y) \in A /\ Par(y) < y
                              /\ \A x \in A : x < y => Par(y) # Nil /\ x <= Par(y)
    BY <1>1, <1>2, <2>1, <2>2 DEF Path
  <2>5. Path(A, q)'
    BY <1>1, <1>5, <2>1, <2>2, <2>4 DEF Path, Par
  <2>6. Linked(K, A)'
    BY <1>10, <2>1
  <2>7. \A x \in K : NextOf(x)' \notin A \cup {q}
    BY <1>1, <1>5, <2>3 DEF NextOf
  <2>8. Left(K, A, q)'
    <3> HIDE DEF K
    <3>1. K \subseteq Live' /\ q # Nil
      BY <1>1, <1>2, <1>4, <2>1 DEF K
    <3> QED
      BY <2>1, <2>2, <2>5, <2>6, <2>7, <3>1 DEF Left
  <2> QED
    BY <2>1, <2>8 DEF Passes
<1>12. CASE NextOf(op) = Nil /\ Par(op) # Nil
  <2> DEFINE B == A \ {q}
  <2>1. q = Par(op) /\ q \in A /\ q \in K /\ q < op /\ B \in SUBSET K /\ q \notin B
    BY <1>1, <1>2, <1>12 DEF Path
  <2>2. \A x \in B : x < q
    BY <1>1, <1>2, <2>1 DEF Path
  <2>3. \A x \in K : NextOf(x) \notin B \cup {q}
    BY <1>1, <2>1
  <2>4. \A y \in B \cup {q} : /\ Par(y) # Nil => Par(y) \in B /\ Par(y) < y
                              /\ \A x \in B : x < y => Par(y) # Nil /\ x <= Par(y)
    BY <1>1, <1>2, <2>1, <2>2 DEF Path
  <2>5. \A x \in K \ B : tree'.node[x].child # Nil => x \notin A
    BY <1>1, <1>5, <1>12, <2>1
  <2>0. B \subseteq A /\ A \subseteq B \cup {q}
    OBVIOUS
  <2> HIDE DEF B
  <2>6. Linked(K, B)'
    BY <1>10, <2>1, <2>5
  <2>7. Path(B, q)' /\ \A x \in K : NextOf(x)' \notin B \cup {q}
    BY <1>1, <1>5, <2>1, <2>2, <2>3, <2>4 DEF Path, Par, NextOf
  <2>8. Left(K, B, q)'
    <3> HIDE DEF K
    <3>1. K \subseteq Live' /\ q # Nil
      BY <1>1, <1>2, <1>4, <2>1 DEF K
    <3> QED
      BY <2>1, <2>6, <2>7, <3>1 DEF Left
  <2> QED
    BY <2>0, <2>1, <2>8 DEF Passes
<1>13. CASE NextOf(op) = Nil /\ Par(op) = Nil
  <2>1. A = {} /\ q = Nil
    BY <1>1, <1>13 DEF Path
  <2>2. Linked(K, {})'
    <3>1. {} \in SUBSET K /\ \A x : x \notin A
      BY <2>1
    <3> HIDE DEF K
    <3> QED
      BY <1>10, <3>1
  <2>3. Left(K, {}, q)'
    <3> HIDE DEF K
    <3>1. K \subseteq Live'
      BY <1>1, <1>4 DEF K
    <3> QED
      BY <2>1, <2>2, <3>1 DEF Left
  <2> QED
    BY <2>1, <2>3 DEF Passes
<1> QED
  BY <1>11, <1>12, <1>13

--------------------------------------------------------------------------------
\* The tasks that run point into the tree.
Cursors(C) ==
  /\ ops.on /\ ui.main # "idle" => ops.op \in C \cup {Nil}
  /\ ft.on /\ ui.main # "idle" =>
       ft.op \in C \cup {Nil} /\ (ui.main = "paste" /\ ft.st = "file" => ft.last \in C)

\* The nodes C make the tree of the job, or what is left of it.
Shape(C) ==
  /\ ~Undone => Tree(C)
  /\ Undone => \E A \in SUBSET C : Left(C, A, ft.op)
  /\ Cursors(C)

\* Which of the parties is at work.
Control ==
  /\ ft.on => ~ops.on /\ ui.menu = "none"
  /\ ui.asked => ~ops.on /\ ui.menu = "file" /\ ui.main = "delete"
  /\ ~ft.on => ft = NoFile
  /\ ~ops.on => ops.st = "init"
  /\ ops.st = "init" => ops.op = Nil
  /\ ft.st = "file" => ft.pos = 0 \/ ft.pos < Size[Item(ft.last)]
  /\ ui.menu = "none" /\ ~ft.on => ui.main = "idle" /\ tree.list = Nil
  /\ ops.on /\ ui.main = "idle" => ui.menu = "none"
  /\ ops.scan = scan.st

Sound(C) ==
  /\ ~fault /\ TypeOK /\ tree = [list |-> tree.list, node |-> tree.node]
  /\ Control /\ C \in SUBSET Live /\ Shape(C)

LEMMA SoundNodes == ASSUME NEW C, Sound(C) PROVE Nodes
BY DEF Sound, TypeOK, Nodes

\* Nothing that a step of a button or of the scan does to other variables touches the tree.
LEMMA StillTree ==
  ASSUME tree' = tree, NEW C
  PROVE  /\ Tree(C) => Tree(C)'
         /\ \A A, op : Left(C, A, op) => Left(C, A, op)'
         /\ Live' = Live /\ (Nodes => Nodes')
<1>1. Linked(C, {}) => Linked(C, {})'
  BY DEF Linked, NextOf, Kid, Par
<1>2. Tree(C) => Tree(C)'
  BY <1>1 DEF Tree, NextOf, Kid, Par, Live
<1>3. ASSUME NEW A, NEW op, Left(C, A, op) PROVE Left(C, A, op)'
  <2>1. Linked(C, A)'
    BY <1>3 DEF Left, Linked, NextOf, Kid, Par
  <2>2. op # Nil => Path(A, op)'
    BY <1>3 DEF Left, Path, Par
  <2>3. /\ C \subseteq Live' /\ A \subseteq C /\ (op = Nil => A = {})
        /\ op # Nil => op \in C \ A /\ \A x \in C : NextOf(x)' \notin A \cup {op}
    BY <1>3 DEF Left, Live, NextOf
  <2> QED
    BY <2>1, <2>2, <2>3 DEF Left
<1> QED
  BY <1>2, <1>3 DEF Live, Nodes

LEMMA StillShape ==
  ASSUME NEW C, Shape(C), tree' = tree, ft' = ft, Undone' <=> Undone, Cursors(C)'
  PROVE  Shape(C)'
<1>1. CASE ~Undone
  BY <1>1, StillTree DEF Shape
<1>2. CASE Undone
  BY <1>2, StillTree DEF Shape
<1> QED
  BY <1>1, <1>2

\* TypeOK by variable.
DiskType == [home: SUBSET Entry, names: SUBSET Entry, got: [Entry -> Nat], room: 0..Room]
UiType == [main: {"idle", "copy", "paste", "delete"}, cut: BOOLEAN,
           menu: {"none", "file", "paste"}, asked: BOOLEAN]
OpsType == [on: BOOLEAN, st: {"init", "read"}, op: Node \cup {Nil},
            scan: {"cwd", "init", "dir"}, total: Nat]
ScanType == [st: {"cwd", "init", "dir"}, todo: SUBSET Entry, to: Folder \cup {Here, Nil}]
FtType == [on: BOOLEAN, st: {"init", "proc", "file"}, op: Node \cup {Nil},
           last: Node \cup {Nil}, pos: Nat]
JobType == [kind: {"none", "copy", "cut", "delete"}, picked: SUBSET Entry,
            taken: SUBSET Entry, doomed: SUBSET Entry, cross: BOOLEAN,
            end: {"none", "ok", "failed"}, n: 0..MaxJobs]
TypeParts ==
  /\ disk \in DiskType /\ ui \in UiType /\ sobj \in SUBSET Entry /\ ops \in OpsType
  /\ scan \in ScanType /\ cwd \in Folder \cup {Here, Away} /\ ft \in FtType
  /\ ft.pos > 1 => \E x \in Entry : ft.pos <= Size[x]
  /\ Live \subseteq Node /\ tree.list \in Node \cup {Nil} /\ tree.node \in [Live -> NodeRec]
  /\ job \in JobType /\ fault \in BOOLEAN

\* TypeOK and its parts say the same.
LEMMA TypeByPart == TypeOK <=> TypeParts
BY DEF TypeOK, TypeParts, DiskType, UiType, OpsType, ScanType, FtType, JobType

LEMMA TypeByPartNext == TypeParts' => TypeOK'
BY DEF TypeOK, TypeParts, DiskType, UiType, OpsType, ScanType, FtType, JobType

\* The buttons.
LEMMA SelectSound == ASSUME NEW C, Sound(C), Select PROVE Sound(C)'
<1>1. C \in SUBSET Live /\ Shape(C)
  BY DEF Sound
<1>2. TypeOK /\ TypeParts /\ Control /\ ~fault
  BY TypeByPart DEF Sound
<1>3. TypeOK'
  <2>1. \A S : Under(S) \subseteq Entry
    BY DEF Under, Reached
  <2>2. Live' = Live
    BY DEF Select, Live
  <2>3. PICK S \in SUBSET Entry :
          /\ sobj' = S
          /\ job' = [NoJob EXCEPT !.picked = Under(S) \cap disk.home, !.doomed = job.doomed,
                                  !.n = job.n + 1]
    BY <1>2 DEF Select, TypeParts, DiskType
  <2>4. job' = [kind |-> "none", picked |-> Under(S) \cap disk.home, cross |-> FALSE, taken |-> {},
                doomed |-> job.doomed, end |-> "none", n |-> job.n + 1]
    BY <2>3 DEF NoJob
  <2>5. job' \in JobType
    <3>1. job.n + 1 \in 0..MaxJobs /\ job.doomed \in SUBSET Entry
      BY <1>2, FileOpsAssumption DEF TypeParts, JobType, Select
    <3>2. Under(S) \cap disk.home \in SUBSET Entry
      BY <2>1
    <3> QED
      BY <2>4, <3>1, <3>2 DEF JobType
  <2>6. ui' \in UiType
    BY <1>2 DEF TypeParts, UiType, Select
  <2> QED
    BY <1>2, <2>2, <2>3, <2>5, <2>6, TypeByPartNext DEF TypeParts, Select
<1>4. Control'
  BY <1>2 DEF Control, Select, TypeOK, Item
<1>5. Shape(C)'
  <2>1. Cursors(C)'
    BY <1>1, <1>2 DEF Shape, Cursors, Select, Control, TypeOK
  <2> QED
    BY <1>1, <2>1, StillShape DEF Select, Undone, TypeOK
<1>6. tree' = tree /\ Live' = Live /\ ~fault'
  BY <1>2 DEF Select, Live
<1> QED
  BY <1>3, <1>4, <1>5, <1>6 DEF Sound

LEMMA CopyOrCutSound ==
  ASSUME NEW C, Sound(C), NEW cut \in BOOLEAN, CopyOrCut(cut)
  PROVE  Sound(C)'
<1>1. C \in SUBSET Live /\ Shape(C)
  BY DEF Sound
<1>2. TypeParts /\ Control /\ ~fault /\ tree' = tree /\ Live' = Live /\ ~fault'
  BY TypeByPart DEF Sound, CopyOrCut, Live
<1>3. TypeOK'
  <2>1. ui' \in UiType /\ ops' \in OpsType /\ job' \in JobType
    BY <1>2 DEF TypeParts, UiType, OpsType, JobType, DiskType, CopyOrCut
  <2> QED
    BY <1>2, <2>1, TypeByPartNext DEF TypeParts, CopyOrCut
<1>4. Control'
  BY <1>2 DEF Control, CopyOrCut, TypeParts, UiType, OpsType, Item
<1>5. Shape(C)'
  <2>1. Cursors(C)'
    BY <1>1, <1>2 DEF Shape, Cursors, CopyOrCut, Control, TypeParts, UiType, OpsType
  <2> QED
    BY <1>1, <1>2, <2>1, StillShape DEF CopyOrCut, Undone, Control, TypeParts, UiType
<1> QED
  BY <1>2, <1>3, <1>4, <1>5 DEF Sound

LEMMA PasteSound == ASSUME NEW C, Sound(C), NEW cross \in BOOLEAN, Paste(cross) PROVE Sound(C)'
<1>1. C \in SUBSET Live /\ Shape(C)
  BY DEF Sound
<1>2. TypeParts /\ Control /\ ~fault /\ tree' = tree /\ Live' = Live /\ ~fault'
  BY TypeByPart DEF Sound, Paste, Live
<1>3. TypeOK'
  <2>1. ui' \in UiType /\ ops' \in OpsType /\ job' \in JobType
    BY <1>2 DEF TypeParts, UiType, OpsType, JobType, DiskType, Paste
  <2> QED
    BY <1>2, <2>1, TypeByPartNext DEF TypeParts, Paste
<1>4. Control'
  BY <1>2 DEF Control, Paste, TypeParts, UiType, OpsType, Item
<1>5. Shape(C)'
  <2>1. Cursors(C)'
    BY <1>1, <1>2 DEF Shape, Cursors, Paste, Control, TypeParts, UiType, OpsType
  <2> QED
    BY <1>1, <1>2, <2>1, StillShape DEF Paste, Undone, Control, TypeParts, UiType
<1> QED
  BY <1>2, <1>3, <1>4, <1>5 DEF Sound

LEMMA DeleteSound == ASSUME NEW C, Sound(C), Delete PROVE Sound(C)'
<1>1. C \in SUBSET Live /\ Shape(C)
  BY DEF Sound
<1>2. TypeParts /\ Control /\ ~fault /\ tree' = tree /\ Live' = Live /\ ~fault'
  BY TypeByPart DEF Sound, Delete, Live
<1>3. TypeOK'
  <2>1. ui' \in UiType /\ ops' \in OpsType /\ job' \in JobType
    BY <1>2 DEF TypeParts, UiType, OpsType, JobType, DiskType, Delete
  <2> QED
    BY <1>2, <2>1, TypeByPartNext DEF TypeParts, Delete
<1>4. Control'
  BY <1>2 DEF Control, Delete, TypeParts, UiType, OpsType, Item
<1>5. Shape(C)'
  <2>1. Cursors(C)'
    BY <1>1, <1>2 DEF Shape, Cursors, Delete, Control, TypeParts, UiType, OpsType
  <2> QED
    BY <1>1, <1>2, <2>1, StillShape DEF Delete, Undone, Control, TypeParts, UiType
<1> QED
  BY <1>2, <1>3, <1>4, <1>5 DEF Sound

LEMMA AnswerSound == ASSUME NEW C, Sound(C), NEW ok \in BOOLEAN, Answer(ok) PROVE Sound(C)'
<1>1. C \in SUBSET Live /\ Shape(C)
  BY DEF Sound
<1>2. TypeParts /\ Control /\ ~fault /\ tree' = tree /\ Live' = Live /\ ~fault'
  BY TypeByPart DEF Sound, Answer, Live
<1>3. TypeOK'
  <2>1. ui' \in UiType /\ ops' \in OpsType /\ job' \in JobType
    BY <1>2 DEF TypeParts, UiType, OpsType, JobType, DiskType, Answer
  <2> QED
    BY <1>2, <2>1, TypeByPartNext DEF TypeParts, Answer
<1>4. Control'
  BY <1>2 DEF Control, Answer, TypeParts, UiType, OpsType, Item
<1>5. Shape(C)'
  <2>1. Cursors(C)'
    BY <1>1, <1>2 DEF Shape, Cursors, Answer, Control, TypeParts, UiType, OpsType
  <2> QED
    BY <1>1, <1>2, <2>1, StillShape DEF Answer, Undone, Control, TypeParts, UiType
<1> QED
  BY <1>2, <1>3, <1>4, <1>5 DEF Sound

LEMMA CancelProgressSound ==
  ASSUME NEW C, Sound(C), CancelProgress, "late" \notin Faults
  PROVE  Sound(C)'
<1>1. C \in SUBSET Live /\ Shape(C)
  BY DEF Sound
<1>2. TypeParts /\ Control /\ ~fault /\ tree' = tree /\ Live' = Live /\ ~fault'
  BY TypeByPart DEF Sound, CancelProgress, Live
<1>3. TypeOK'
  <2>1. ui' \in UiType /\ ops' \in OpsType /\ job' \in JobType
    BY <1>2 DEF TypeParts, UiType, OpsType, JobType, DiskType, CancelProgress
  <2> QED
    BY <1>2, <2>1, TypeByPartNext DEF TypeParts, CancelProgress
<1>4. Control'
  BY <1>2 DEF Control, CancelProgress, TypeParts, UiType, OpsType, Item
<1>5. Shape(C)'
  <2>1. Cursors(C)'
    BY <1>1, <1>2 DEF Shape, Cursors, CancelProgress, Control, TypeParts, UiType, OpsType
  <2> QED
    BY <1>1, <1>2, <2>1, StillShape DEF CancelProgress, Undone, Control, TypeParts, UiType
<1> QED
  BY <1>2, <1>3, <1>4, <1>5 DEF Sound

LEMMA CancelOptionsSound == ASSUME NEW C, Sound(C), CancelOptions PROVE Sound({})'
<1>1. C \in SUBSET Live /\ Shape(C)
  BY DEF Sound
<1>2. TypeParts /\ Control /\ ~fault /\ Nodes /\ ~ft.on /\ ~Undone
  BY TypeByPart, SoundNodes DEF Sound, CancelOptions, Control, Undone
<1>3. fault' = FALSE /\ Nodes' /\ tree'.list = Nil /\ Tree({})'
  BY <1>1, <1>2, CleanIsSafe DEF Shape, CancelOptions
<1>4. ui' = [ui EXCEPT !.main = "idle", !.menu = "none"] /\ ft' = ft /\ ops' = ops
      /\ scan' = scan /\ sobj' = {}
  BY DEF CancelOptions
<1>5. ui'.main = "idle" /\ ui'.menu = "none" /\ ui'.asked = FALSE /\ ui' \in UiType
  BY <1>2, <1>4 DEF TypeParts, UiType, CancelOptions
<1>6. TypeOK'
  BY <1>2, <1>3, <1>4, <1>5, TypeByPartNext DEF TypeParts, Nodes, CancelOptions
<1>7. Control'
  BY <1>2, <1>3, <1>4, <1>5 DEF Control, NoFile
<1>8. Shape({})'
  BY <1>2, <1>3, <1>4, <1>5 DEF Shape, Undone, Cursors
<1> QED
  BY <1>3, <1>6, <1>7, <1>8 DEF Sound, Nodes

\* However a job ends, no node of it is in use afterwards, and none is freed twice.
LEMMA FileEndSound ==
  ASSUME NEW C, Sound(C), ft.on, NEW ok \in BOOLEAN, FileEnd(ok),
         UNCHANGED <<disk, sobj, ops, scan, cwd>>
  PROVE  Sound({})'
<1>1. C \in SUBSET Live /\ Shape(C)
  BY DEF Sound
<1>2. TypeParts /\ Control /\ ~fault /\ Nodes
  BY TypeByPart, SoundNodes DEF Sound
<1>3. fault' = FALSE /\ Nodes' /\ tree'.list = Nil /\ Tree({})'
  <2>1. CASE ui.main # "delete"
    <3>1. Tree(C)
      BY <1>1, <2>1 DEF Shape, Undone
    <3>2. Clean
      BY <2>1 DEF FileEnd
    <3> QED
      BY <1>2, <3>1, <3>2, CleanIsSafe
  <2>2. CASE ui.main = "delete"
    <3>0. tree' = [tree EXCEPT !.list = Nil] /\ fault' = fault
      BY <2>2 DEF FileEnd
    <3>1. tree' = [list |-> Nil, node |-> tree.node] /\ fault' = FALSE
      BY <1>2, <3>0 DEF Nodes, TypeParts
    <3>2. Nodes' /\ Live' = Live
      BY <1>2, <3>1 DEF Nodes, Live
    <3> QED
      BY <3>1, <3>2 DEF Tree, Linked
  <2> QED
    BY <2>1, <2>2
<1>4. ui' = [ui EXCEPT !.main = "idle", !.cut = FALSE] /\ ft' = NoFile
      /\ job' = [job EXCEPT !.end = IF ok THEN "ok" ELSE "failed"]
  BY DEF FileEnd
<1>5. ui'.main = "idle" /\ ui'.menu = "none" /\ ui'.asked = FALSE /\ ui' \in UiType
  BY <1>2, <1>4 DEF TypeParts, UiType, Control
<1>6. TypeOK'
  <2>1. job' \in JobType
    BY <1>2, <1>4 DEF TypeParts, JobType
  <2>2. ft' \in FtType /\ ft'.pos = 0
    BY <1>4 DEF NoFile, FtType
  <2> QED
    <3>1. ~(ft'.pos > 1)
      BY <2>2
    <3>2. /\ Live' \subseteq Node /\ tree'.list \in Node \cup {Nil}
          /\ tree'.node \in [Live' -> NodeRec]
      BY <1>3 DEF Nodes
    <3>3. TypeParts'
      BY <1>2, <1>3, <1>5, <2>1, <2>2, <3>1, <3>2 DEF TypeParts
    <3> QED
      BY <3>3, TypeByPartNext
<1>7. Control'
  BY <1>2, <1>3, <1>4, <1>5 DEF Control, NoFile
<1>8. Shape({})'
  BY <1>2, <1>3, <1>4, <1>5 DEF Shape, Undone, Cursors, NoFile, Control
<1> QED
  BY <1>3, <1>6, <1>7, <1>8 DEF Sound, Nodes

\* The task that scans.
LEMMA OpsIdleSound == ASSUME NEW C, Sound(C), OpsIdle PROVE Sound(C)'
<1>1. C \in SUBSET Live /\ Shape(C)
  BY DEF Sound
<1>2. TypeParts /\ Control /\ ~fault /\ tree' = tree /\ Live' = Live /\ ~fault' /\ ft' = ft
  BY TypeByPart DEF Sound, OpsIdle, Live
<1>3. /\ ui.main = "idle" /\ ui.menu = "none" /\ ui' = [ui EXCEPT !.main = "idle", !.menu = "none"]
      /\ sobj' = {} /\ ops' = [NoOps EXCEPT !.scan = ops.scan] /\ ops.on /\ ~ft.on
      /\ tree.list = Nil
  BY <1>2 DEF OpsIdle, OpsEnd, Control
<1>4. ui'.main = "idle" /\ ui'.menu = "none" /\ ui'.asked = ui.asked /\ ui' \in UiType
  BY <1>2, <1>3 DEF TypeParts, UiType
<1>5. ops' = [on |-> FALSE, st |-> "init", op |-> Nil, scan |-> ops.scan, total |-> 0]
  BY <1>3 DEF NoOps
<1>6. ops' \in OpsType
  BY <1>2, <1>5 DEF TypeParts, OpsType
<1>7. TypeOK'
  BY <1>2, <1>3, <1>4, <1>6, TypeByPartNext DEF TypeParts, OpsIdle
<1>8. Control'
  BY <1>2, <1>3, <1>4, <1>5 DEF Control, OpsIdle, Item
<1>9. Shape(C)'
  <2>1. Cursors(C)'
    BY <1>2, <1>4 DEF Cursors, OpsIdle
  <2> QED
    BY <1>1, <1>2, <1>3, <2>1, StillShape DEF Undone
<1> QED
  BY <1>2, <1>7, <1>8, <1>9 DEF Sound

LEMMA SameNodes == ASSUME Nodes PROVE SameLinks(tree.node)
BY DEF Nodes, SameLinks, Item, At, NextOf, Kid, Par

LEMMA CollectSound ==
  ASSUME NEW C, Sound(C), Collect, NEW a, a = NewAddress
  PROVE  Sound(C \cup {a})'
<1>1. C \in SUBSET Live /\ Shape(C)
  BY DEF Sound
<1>2. TypeParts /\ Control /\ ~fault /\ Nodes
  BY TypeByPart, SoundNodes DEF Sound
<1>3. PICK e \in sobj :
        /\ tree' = AddNode(tree.node, tree.list, Nil, NewNode(e, Here, Nil, Nil))
        /\ sobj' = sobj \ {e}
        /\ ops' = IF ui.main = "copy" THEN [ops EXCEPT !.total = @ + Size[e]] ELSE ops
  BY DEF Collect
<1>4. ops.on /\ ~ft.on /\ ui.main # "idle" /\ Tree(C) /\ ui' = ui /\ scan' = scan /\ ft' = ft
      /\ ui.menu # "none" /\ fault' = fault /\ disk' = disk /\ cwd' = cwd /\ job' = job
  BY <1>1, <1>2 DEF Collect, Collecting, Control, Shape, Undone
<1>5. a = NewAddress
  OBVIOUS
<1>6. e \in Entry /\ Size[e] \in Nat
  BY <1>2, FileOpsAssumption DEF TypeParts
<1>7. Adds(C, tree.node, Nil, NewNode(e, Here, Nil, Nil))
  BY <1>2, <1>3, <1>6, SameNodes DEF Adds, Collect, First, NewNode, NodeRec
<1>8. a \in Node \ Live /\ Live' = Live \cup {a} /\ Nodes' /\ Tree(C \cup {a})'
  BY <1>2, <1>4, <1>5, <1>7, AddLinks, AddKeepsTree
<1>9. /\ ops' \in OpsType /\ ops'.on = ops.on /\ ops'.st = ops.st /\ ops'.op = ops.op
      /\ ops'.scan = ops.scan
  BY <1>2, <1>3, <1>6 DEF TypeParts, OpsType
<1>10. TypeOK'
  <2>1. Live' \subseteq Node /\ tree'.list \in Node \cup {Nil} /\ tree'.node \in [Live' -> NodeRec]
    BY <1>8 DEF Nodes
  <2>2. sobj' \in SUBSET Entry
    BY <1>2, <1>3 DEF TypeParts
  <2>3. TypeParts'
    BY <1>2, <1>4, <1>9, <2>1, <2>2 DEF TypeParts
  <2> QED
    BY <2>3, TypeByPartNext
<1>11. Control'
  BY <1>2, <1>4, <1>9 DEF Control, NoFile
<1>12. Shape(C \cup {a})'
  <2>1. PICK K : K = C \cup {a}
    OBVIOUS
  <2>2. Tree(K)' /\ C \subseteq K
    BY <1>8, <2>1
  <2>3. Shape(K)'
    BY <1>1, <1>4, <1>8, <1>9, <2>2 DEF Shape, Undone, Cursors
  <2> QED
    BY <2>1, <2>3
<1>13. C \cup {a} \in SUBSET Live'
  BY <1>1, <1>8
<1> QED
  BY <1>2, <1>4, <1>8, <1>10, <1>11, <1>12, <1>13 DEF Sound, Nodes

LEMMA OpsStartSound == ASSUME NEW C, Sound(C), OpsStart PROVE Sound(C)'
<1>1. C \in SUBSET Live /\ Shape(C)
  BY DEF Sound
<1>2. TypeParts /\ Control /\ ~fault /\ tree' = tree /\ Live' = Live /\ ~fault'
  BY TypeByPart DEF Sound, OpsStart, Live
<1>3. TypeOK'
  <2>1. ui' \in UiType /\ job' \in JobType
    BY <1>2 DEF TypeParts, OpsStart
  <2>2. ops' \in OpsType
    BY <1>2 DEF TypeParts, OpsType, OpsStart
  <2> QED
    BY <1>2, <2>1, <2>2, TypeByPartNext DEF TypeParts, OpsStart
<1>4. Control'
  BY <1>2 DEF Control, OpsStart, TypeParts, UiType, OpsType, Item
<1>5. Shape(C)'
  <2>1. Cursors(C)'
    <3>1. tree.list \in C \cup {Nil} /\ ~ft.on
      BY <1>1, <1>2 DEF Shape, Undone, Tree, Control, OpsStart
    <3> QED
      BY <1>2, <3>1 DEF Cursors, OpsStart, TypeParts, OpsType
  <2> QED
    BY <1>1, <1>2, <2>1, StillShape DEF OpsStart, Undone, Control, TypeParts, UiType
<1> QED
  BY <1>2, <1>3, <1>4, <1>5 DEF Sound

\* The collector and the scan end: the tree is left to the next task.
LEMMA OpsEndSound ==
  ASSUME NEW C, Sound(C), NEW main \in {"copy", "paste", "delete"}, OpsEnd(main), ops.on,
         ui.main # "idle",
         UNCHANGED <<disk, scan, cwd, tree, job, fault>>,
         IF main = "copy" THEN ft' = ft ELSE ft' = [NoFile EXCEPT !.on = TRUE]
  PROVE  Sound(C)'
<1>1. C \in SUBSET Live /\ Shape(C)
  BY DEF Sound
<1>2. TypeParts /\ Control /\ ~fault /\ ~ft.on /\ Tree(C)
  BY <1>1, TypeByPart DEF Sound, Control, Shape, Undone
<1>3. tree' = tree /\ Live' = Live /\ ~fault' /\ disk' = disk /\ scan' = scan /\ cwd' = cwd
      /\ job' = job
  BY <1>2 DEF Live
<1>4. /\ ui' \in UiType /\ ui'.main = main /\ ui'.asked = ui.asked
      /\ ui'.menu = IF main = "copy" THEN ui.menu ELSE "none"
  BY <1>2 DEF TypeParts, UiType, OpsEnd
<1>5. ops' = [on |-> FALSE, st |-> "init", op |-> Nil, scan |-> ops.scan, total |-> 0] /\ sobj' = {}
  BY DEF OpsEnd, NoOps
<1>6. ops' \in OpsType
  BY <1>2, <1>5 DEF TypeParts, OpsType
<1>7. CASE main = "copy"
  <2>1. ft' = ft /\ ft = NoFile
    BY <1>2, <1>7 DEF Control
  <2>2. TypeOK'
    BY <1>2, <1>3, <1>4, <1>5, <1>6, <2>1, TypeByPartNext DEF TypeParts
  <2>3. Control'
    BY <1>2, <1>3, <1>4, <1>5, <1>7, <2>1 DEF Control, NoFile
  <2>4. Shape(C)'
    BY <1>2, <1>3, <1>5, <2>1, StillTree DEF Shape, Undone, Cursors
  <2> QED
    BY <1>3, <2>2, <2>3, <2>4 DEF Sound
<1>8. CASE main # "copy"
  <2>1. ft' = [on |-> TRUE, st |-> "init", op |-> Nil, last |-> Nil, pos |-> 0]
    BY <1>8 DEF NoFile
  <2>2. ft' \in FtType /\ ~(ft'.pos > 1)
    BY <2>1 DEF FtType
  <2>3. TypeOK'
    BY <1>2, <1>3, <1>4, <1>5, <1>6, <2>2, TypeByPartNext DEF TypeParts
  <2>4. Control'
    BY <1>2, <1>3, <1>4, <1>5, <1>8, <2>1 DEF Control, NoFile
  <2>5. Shape(C)'
    BY <1>2, <1>3, <1>5, <2>1, StillTree DEF Shape, Undone, Cursors
  <2> QED
    BY <1>3, <2>3, <2>4, <2>5 DEF Sound
<1> QED
  BY <1>7, <1>8

LEMMA CollectedSound == ASSUME NEW C, Sound(C), Collected PROVE Sound(C)'
<1>1. ft' = ft /\ OpsEnd("copy") /\ ops.on /\ ui.main # "idle"
      /\ UNCHANGED <<disk, scan, cwd, tree, job, fault>>
  BY DEF Collected
<1> QED
  BY <1>1, OpsEndSound

LEMMA OpsDoneSound == ASSUME NEW C, Sound(C), OpsDone PROVE Sound(C)'
<1>1. PICK main \in {"paste", "delete"} : OpsEnd(main)
  <2>1. PICK full \in Full : OpsEnd(IF full THEN "delete" ELSE ui.main)
    BY DEF OpsDone
  <2>2. ui.main \in {"paste", "delete"}
    BY DEF OpsDone
  <2> QED
    BY <2>1, <2>2
<1>2. ft' = [NoFile EXCEPT !.on = TRUE] /\ ops.on /\ ui.main # "idle"
      /\ UNCHANGED <<disk, scan, cwd, tree, job, fault>>
  BY DEF OpsDone
<1> QED
  BY <1>1, <1>2, OpsEndSound

\* The walk of the scan stays in the tree.
LEMMA WalkInside ==
  ASSUME Nodes, NEW C, Tree(C), ops \in OpsType, ops.op \in C, NEW st \in {"cwd", "init", "dir"},
         NEW total \in Nat, Walk(st, total)
  PROVE  /\ ops' \in OpsType /\ ops'.on = ops.on /\ ops'.st = ops.st /\ ops'.scan = st
         /\ ops'.op \in C \cup {Nil}
         /\ ops'.op = IF st # "cwd" THEN ops.op
                      ELSE IF Kid(ops.op) # Nil THEN Kid(ops.op) ELSE NextUp(ops.op)
         /\ ops'.total = ops.total + total
<1>1. C \subseteq Live /\ Live \subseteq Node
  BY DEF Tree, Nodes
<1>2. PICK q : q = IF st # "cwd" THEN ops.op
                   ELSE IF Kid(ops.op) # Nil THEN Kid(ops.op) ELSE NextUp(ops.op)
  OBVIOUS
<1>3. q \in C \cup {Nil}
  BY <1>2, NextUpInside DEF Tree, Linked
<1>4. ops' = [ops EXCEPT !.scan = st, !.total = ops.total + total, !.op = q]
  BY <1>2 DEF Walk, Kid
<1>5. ops' = [on |-> ops.on, st |-> ops.st, op |-> q, scan |-> st, total |-> ops.total + total]
  BY <1>4 DEF OpsType
<1> QED
  BY <1>1, <1>2, <1>3, <1>5 DEF OpsType

\* A tick of the scan that finds nothing.
LEMMA ReadSound ==
  ASSUME NEW C, Sound(C), Reading, NEW st \in {"cwd", "init", "dir"}, Walk(st, 0),
         scan' \in ScanType,
         scan'.st = st, tree' = [tree EXCEPT !.node = Named], cwd' \in Folder \cup {Here, Away},
         UNCHANGED <<disk, ui, sobj, ft, job, fault>>
  PROVE  Sound(C)'
<1>1. C \in SUBSET Live /\ Shape(C)
  BY DEF Sound
<1>2. TypeParts /\ Control /\ ~fault /\ Nodes /\ ops.on /\ ui.main \in {"paste", "delete"}
      /\ ~ft.on /\ ui.menu # "none" /\ ops \in OpsType /\ ops.st = "read"
  BY TypeByPart, SoundNodes DEF Sound, Reading, Control, TypeParts
<1>3. Tree(C) /\ ops.op \in C /\ ops.op # Nil /\ C \subseteq Live
  BY <1>1, <1>2 DEF Shape, Undone, Cursors, Reading
<1>4. /\ ops' \in OpsType /\ ops'.on = ops.on /\ ops'.st = ops.st /\ ops'.scan = st
      /\ ops'.op \in C \cup {Nil}
  BY <1>2, <1>3, WalkInside
<1>5. SameLinks(Named)
  BY <1>2, <1>3, NamedLinks
<1>6. /\ tree'.list = tree.list /\ Live' = Live /\ Nodes'
      /\ \A x \in Live : /\ tree'.node[x].next = NextOf(x) /\ tree'.node[x].child = Kid(x)
                         /\ tree'.node[x].parent = Par(x)
  BY <1>2, <1>5, LinksStay
<1>7. Tree(C)'
  BY <1>2, <1>3, <1>6, TreeStays
<1>8. disk' = disk /\ ui' = ui /\ sobj' = sobj /\ ft' = ft /\ job' = job /\ fault' = fault
  OBVIOUS
<1>9. TypeOK'
  <2>1. Live' \subseteq Node /\ tree'.list \in Node \cup {Nil} /\ tree'.node \in [Live' -> NodeRec]
    BY <1>6 DEF Nodes
  <2>2. TypeParts'
    BY <1>2, <1>4, <1>8, <2>1 DEF TypeParts
  <2> QED
    BY <2>2, TypeByPartNext
<1>10. Control'
  BY <1>2, <1>4, <1>8 DEF Control, NoFile
<1>11. Shape(C)'
  BY <1>2, <1>4, <1>7, <1>8 DEF Shape, Undone, Cursors
<1> QED
  BY <1>2, <1>3, <1>6, <1>8, <1>9, <1>10, <1>11 DEF Sound, Nodes

LEMMA ReadFileSound == ASSUME NEW C, Sound(C), ReadFile PROVE Sound(C)'
<1>1. Reading /\ Walk("cwd", 0) /\ tree' = [tree EXCEPT !.node = Named] /\ scan' = scan
      /\ cwd' = cwd /\ ops.scan = "cwd" /\ UNCHANGED <<disk, ui, sobj, ft, job, fault>>
  BY DEF ReadFile
<1>2. TypeParts /\ scan.st = "cwd"
  BY <1>1, TypeByPart DEF Sound, Control
<1> QED
  BY <1>1, <1>2, ReadSound DEF TypeParts

LEMMA ScanEndSound == ASSUME NEW C, Sound(C), ScanEnd PROVE Sound(C)'
<1>1. Reading /\ Walk("cwd", 0) /\ tree' = [tree EXCEPT !.node = Named]
      /\ scan' = [scan EXCEPT !.st = "cwd"] /\ cwd' = cwd
      /\ UNCHANGED <<disk, ui, sobj, ft, job, fault>>
  BY DEF ScanEnd
<1>2. TypeParts
  BY TypeByPart DEF Sound
<1>3. scan' \in ScanType /\ scan'.st = "cwd"
  BY <1>1, <1>2 DEF TypeParts, ScanType
<1> QED
  BY <1>1, <1>2, <1>3, ReadSound DEF TypeParts

LEMMA ScanCwdSound == ASSUME NEW C, Sound(C), NEW ok \in BOOLEAN, ScanCwd(ok) PROVE Sound(C)'
<1>1. Reading /\ Walk(scan'.st, 0) /\ tree' = [tree EXCEPT !.node = Named]
      /\ scan' = [scan EXCEPT !.st = IF ok THEN "init" ELSE "cwd"]
      /\ cwd' = (IF ok THEN Item(ops.op) ELSE cwd) /\ Item(ops.op) \in Folder
      /\ UNCHANGED <<disk, ui, sobj, ft, job, fault>>
  BY DEF ScanCwd, Item
<1>2. TypeParts
  BY TypeByPart DEF Sound
<1>3. scan' \in ScanType /\ scan'.st \in {"cwd", "init"}
  BY <1>1, <1>2 DEF TypeParts, ScanType
<1>4. PICK st \in {"cwd", "init", "dir"} : st = scan'.st /\ Walk(st, 0)
  BY <1>1, <1>3
<1>5. cwd' \in Folder \cup {Here, Away}
  BY <1>1, <1>2 DEF TypeParts
<1> QED
  BY <1>1, <1>3, <1>4, <1>5, ReadSound

LEMMA ScanInitSound == ASSUME NEW C, Sound(C), NEW ok \in BOOLEAN, ScanInit(ok) PROVE Sound(C)'
<1>1. PICK n : n = Named[ops.op]
  OBVIOUS
<1>2. Reading /\ Walk(scan'.st, 0) /\ tree' = [tree EXCEPT !.node = Named] /\ n.item \in Folder
      /\ scan' = [st |-> IF ok THEN "dir" ELSE "cwd", todo |-> IF ok THEN Listing(cwd) ELSE {},
                  to |-> IF n.to = Nil THEN Nil ELSE n.item]
      /\ cwd' = cwd /\ UNCHANGED <<disk, ui, sobj, ft, job, fault>>
  BY <1>1 DEF ScanInit
<1>3. TypeParts
  BY TypeByPart DEF Sound
<1>4. Listing(cwd) \in SUBSET Entry
  BY <1>3 DEF Listing, TypeParts, DiskType
<1>5. scan' \in ScanType /\ scan'.st \in {"cwd", "dir"}
  BY <1>2, <1>4 DEF ScanType
<1>6. PICK st \in {"cwd", "init", "dir"} : st = scan'.st /\ Walk(st, 0)
  BY <1>2, <1>5
<1> QED
  BY <1>2, <1>3, <1>5, <1>6, ReadSound DEF TypeParts

\* What the scan adds: a child of the folder it reads.
LEMMA ScanDirAdds ==
  ASSUME NEW C, Sound(C), NEW ok \in BOOLEAN, ScanDir(ok)
  PROVE  \E e \in scan.todo :
           /\ Adds(C, Named, ops.op, NewNode(e, Item(ops.op), ops.op, scan.to))
           /\ scan' = [scan EXCEPT !.todo = IF ok THEN @ \ {e} ELSE {}]
           /\ Walk("dir", Size[e]) /\ e \in Entry /\ Size[e] \in Nat
<1>1. PICK e \in scan.todo :
        /\ tree' = AddNode(Named, Kid(ops.op), ops.op, NewNode(e, Item(ops.op), ops.op, scan.to))
        /\ scan' = [scan EXCEPT !.todo = IF ok THEN @ \ {e} ELSE {}]
        /\ Walk("dir", Size[e])
  BY DEF ScanDir, Kid, Item
<1>2. TypeParts /\ Control /\ Nodes /\ C \in SUBSET Live /\ Shape(C)
  BY TypeByPart, SoundNodes DEF Sound
<1>3. ops.op \in C /\ ops.op # Nil /\ Node \ Live # {} /\ Item(ops.op) \in Folder
  BY <1>2 DEF Shape, Undone, Cursors, Reading, ScanDir, Control, Item
<1>4. e \in Entry /\ Size[e] \in Nat /\ scan.to \in Folder \cup {Here, Nil}
  BY <1>2, FileOpsAssumption DEF TypeParts, ScanType
<1>5. ops.op \in Node
  BY <1>2, <1>3 DEF Nodes
<1>6. PICK n : n = NewNode(e, Item(ops.op), ops.op, scan.to)
  OBVIOUS
<1>7. n \in NodeRec /\ n.next = Nil /\ n.child = Nil /\ n.parent = ops.op
  BY <1>3, <1>4, <1>5, <1>6 DEF NewNode, NodeRec
<1>8. SameLinks(Named)
  BY <1>2, <1>3, NamedLinks
<1>9. First(ops.op) = Kid(ops.op)
  BY <1>3 DEF First
<1>10. Adds(C, Named, ops.op, n)
  BY <1>1, <1>3, <1>6, <1>7, <1>8, <1>9 DEF Adds
<1> QED
  BY <1>1, <1>4, <1>6, <1>10

LEMMA ScanDirSound ==
  ASSUME NEW C, Sound(C), NEW ok \in BOOLEAN, ScanDir(ok), NEW a, a = NewAddress
  PROVE  Sound(C \cup {a})'
<1>1. C \in SUBSET Live /\ Shape(C)
  BY DEF Sound
<1>2. TypeParts /\ Control /\ ~fault /\ Nodes /\ ops.on /\ ui.main \in {"paste", "delete"}
      /\ ~ft.on /\ ui.menu # "none" /\ ops \in OpsType /\ ops.st = "read"
  BY TypeByPart, SoundNodes DEF Sound, Reading, Control, TypeParts, ScanDir
<1>3. Tree(C) /\ ops.op \in C /\ ops.op # Nil /\ C \subseteq Live
  BY <1>1, <1>2 DEF Shape, Undone, Cursors, Reading, ScanDir
<1>4. PICK e \in scan.todo :
        /\ Adds(C, Named, ops.op, NewNode(e, Item(ops.op), ops.op, scan.to))
        /\ scan' = [scan EXCEPT !.todo = IF ok THEN @ \ {e} ELSE {}]
        /\ Walk("dir", Size[e]) /\ e \in Entry /\ Size[e] \in Nat
  BY <1>1, ScanDirAdds
<1>5. a = NewAddress
  OBVIOUS
<1>6. a \in Node \ Live /\ Live' = Live \cup {a} /\ Nodes' /\ Tree(C \cup {a})'
  BY <1>2, <1>3, <1>4, <1>5, AddLinks, AddKeepsTree
<1>7. /\ ops' \in OpsType /\ ops'.on = ops.on /\ ops'.st = ops.st /\ ops'.scan = "dir"
      /\ ops'.op \in C \cup {Nil}
  BY <1>2, <1>3, <1>4, WalkInside
<1>8. scan' \in ScanType /\ scan'.st = "dir"
  BY <1>2, <1>4 DEF TypeParts, ScanType, ScanDir
<1>9. disk' = disk /\ ui' = ui /\ sobj' = sobj /\ ft' = ft /\ job' = job /\ fault' = fault
      /\ cwd' = cwd
  BY DEF ScanDir
<1>10. TypeOK'
  <2>1. Live' \subseteq Node /\ tree'.list \in Node \cup {Nil} /\ tree'.node \in [Live' -> NodeRec]
    BY <1>6 DEF Nodes
  <2>2. TypeParts'
    BY <1>2, <1>7, <1>8, <1>9, <2>1 DEF TypeParts
  <2> QED
    BY <2>2, TypeByPartNext
<1>11. Control'
  BY <1>2, <1>7, <1>8, <1>9 DEF Control, NoFile
<1>12. Shape(C \cup {a})'
  <2>1. PICK K : K = C \cup {a}
    OBVIOUS
  <2>2. Tree(K)' /\ C \subseteq K
    BY <1>6, <2>1
  <2>3. Shape(K)'
    BY <1>2, <1>6, <1>7, <1>9, <2>2 DEF Shape, Undone, Cursors
  <2> QED
    BY <2>1, <2>3
<1>13. C \cup {a} \in SUBSET Live'
  BY <1>1, <1>6
<1> QED
  BY <1>2, <1>6, <1>9, <1>10, <1>11, <1>12, <1>13 DEF Sound, Nodes

\* The task that pastes and deletes.
LEMMA FileStartSound == ASSUME NEW C, Sound(C), FileStart PROVE Sound(C)'
<1>1. C \in SUBSET Live /\ Shape(C)
  BY DEF Sound
<1>2. TypeParts /\ Control /\ ~fault /\ tree' = tree /\ Live' = Live /\ ~fault'
  BY TypeByPart DEF Sound, FileStart, Live
<1>3. Nodes /\ Tree(C) /\ ft.on
  BY <1>1, SoundNodes DEF Shape, Undone, FileStart
<1>4. /\ ft' \in FtType /\ ft'.op = tree.list /\ ft'.st = "proc" /\ ft'.on /\ ft'.pos = ft.pos
      /\ tree.list \in C \cup {Nil}
  BY <1>2, <1>3 DEF TypeParts, FtType, FileStart, Tree
<1>5. TypeOK'
  BY <1>2, <1>4, TypeByPartNext DEF TypeParts, FileStart
<1>6. Control'
  BY <1>2, <1>4 DEF Control, FileStart
<1>7. Shape(C)'
  <2>1. PICK q : q = tree.list
    OBVIOUS
  <2>2. Tree(C)' /\ Left(C, {}, q)'
    BY <1>2, <1>3, <2>1, LeftAtStart, StillTree
  <2>3. Cursors(C)'
    BY <1>2, <1>3, <1>4 DEF Cursors, Control, FileStart
  <2> QED
    BY <1>4, <2>1, <2>2, <2>3 DEF Shape
<1> QED
  BY <1>2, <1>5, <1>6, <1>7 DEF Sound

LEMMA PasteObjectSound == ASSUME NEW C, Sound(C), PasteObject PROVE Sound(C)'
<1>1. C \in SUBSET Live /\ Shape(C)
  BY DEF Sound
<1>2. TypeParts /\ Control /\ ~fault /\ tree' = tree /\ Live' = Live /\ ~fault' /\ Nodes
  BY TypeByPart, SoundNodes DEF Sound, PasteObject, Live
<1>3. Tree(C) /\ ft.on /\ ui.main = "paste" /\ ft.op \in C /\ ft.op # Nil /\ ui' = ui
  BY <1>1, <1>2 DEF Shape, Undone, Cursors, PasteObject, Pasting
<1>4. PICK n \in NodeRec : n = tree.node[ft.op]
  BY <1>1, <1>2, <1>3 DEF Nodes
<1>5. PICK q : q = IF n.child # Nil /\ ~Moves(n) THEN n.child ELSE NextUp(ft.op)
  OBVIOUS
<1>6. q \in C \cup {Nil}
  BY <1>2, <1>3, <1>4, <1>5, NextUpInside DEF Tree, Linked, Kid
<1>7. PICK st \in {"proc", "file"} :
        ft' = [ft EXCEPT !.last = ft.op, !.pos = 0, !.st = st, !.op = q]
  BY <1>4, <1>5 DEF PasteObject
<1>8. ft' = [on |-> ft.on, st |-> st, op |-> q, last |-> ft.op, pos |-> 0]
  BY <1>2, <1>7 DEF TypeParts, FtType
<1>9. ft' \in FtType /\ C \subseteq Node
  BY <1>2, <1>3, <1>6, <1>8 DEF TypeParts, FtType, Tree, Nodes
<1>10. disk' \in DiskType
  <2>1. disk' = IF Moves(n) THEN Renamed(n) ELSE Created(n)
    BY <1>4 DEF PasteObject
  <2>2. Created(n) \in DiskType
    BY <1>2, <1>4 DEF TypeParts, DiskType, Created, NodeRec
  <2>3. PICK gone \in SUBSET Entry : gone = Under({n.item}) \cap disk.home
    BY <1>2 DEF TypeParts, DiskType
  <2>4. PICK got \in [Entry -> Nat] :
          got = [e \in Entry |-> IF e \in gone THEN Size[e] ELSE disk.got[e]]
    <3>1. \A e \in Entry : Size[e] \in Nat /\ disk.got[e] \in Nat
      BY <1>2, FileOpsAssumption DEF TypeParts, DiskType
    <3> QED
      BY <3>1
  <2>5. Renamed(n) = IF n.item \in disk.names THEN disk
                     ELSE [disk EXCEPT !.home = disk.home \ gone, !.names = disk.names \cup gone,
                                       !.got = got]
    BY <2>3, <2>4 DEF Renamed
  <2>6. Renamed(n) \in DiskType
    <3>1. disk \in DiskType
      BY <1>2 DEF TypeParts
    <3>2. [disk EXCEPT !.home = disk.home \ gone, !.names = disk.names \cup gone, !.got = got]
            \in DiskType
      BY <3>1 DEF DiskType
    <3> QED
      BY <2>5, <3>1, <3>2
  <2> QED
    BY <2>1, <2>2, <2>6
<1>11. TypeOK'
  <2>1. ~(ft'.pos > 1)
    BY <1>8
  <2>2. TypeParts'
    BY <1>2, <1>3, <1>9, <1>10, <2>1 DEF TypeParts, PasteObject
  <2> QED
    BY <2>2, TypeByPartNext
<1>12. Control'
  BY <1>2, <1>3, <1>8 DEF Control, PasteObject
<1>13. Shape(C)'
  <2>1. Tree(C)' /\ ops' = ops /\ ~ops.on
    BY <1>2, <1>3, StillTree DEF PasteObject, Control
  <2> QED
    BY <1>3, <1>6, <1>8, <2>1 DEF Shape, Undone, Cursors
<1> QED
  BY <1>2, <1>11, <1>12, <1>13 DEF Sound

LEMMA PasteBlockSound == ASSUME NEW C, Sound(C), PasteBlock PROVE Sound(C)'
<1>1. C \in SUBSET Live /\ Shape(C)
  BY DEF Sound
<1>2. TypeParts /\ Control /\ ~fault /\ tree' = tree /\ Live' = Live /\ ~fault' /\ Nodes
  BY TypeByPart, SoundNodes DEF Sound, PasteBlock, Live
<1>3. Tree(C) /\ ft.on /\ ui.main = "paste" /\ ft.st = "file" /\ ft.last \in C /\ ui' = ui
      /\ ft.op \in C \cup {Nil} /\ C \subseteq Live
  BY <1>1, <1>2 DEF Shape, Undone, Cursors, PasteBlock
<1>4. PICK e \in Entry : e = Item(ft.last)
  BY <1>2, <1>3 DEF Nodes, NodeRec, Item
<1>5. PICK fits : fits = IF disk.room > 0 /\ ft.pos < Size[e] THEN 1 ELSE 0
  OBVIOUS
<1>6. /\ disk' = [disk EXCEPT !.got[e] = @ + fits, !.room = @ - fits]
      /\ ft' = [ft EXCEPT !.pos = @ + 1, !.st = IF ft.pos + 1 >= Size[e] THEN "proc" ELSE "file"]
  BY <1>4, <1>5 DEF PasteBlock, Item
<1>7. Size[e] \in Nat /\ ft.pos \in Nat /\ Room \in Nat /\ disk.got[e] \in Nat /\ disk \in DiskType
  BY <1>2, FileOpsAssumption DEF TypeParts, FtType, DiskType
<1>8. disk' \in DiskType
  <2>1. disk.room - fits \in 0..Room /\ disk.got[e] + fits \in Nat
    BY <1>5, <1>7 DEF DiskType
  <2>2. PICK got \in [Entry -> Nat] : got = [disk.got EXCEPT ![e] = @ + fits]
    BY <1>7, <2>1 DEF DiskType
  <2>3. disk' = [disk EXCEPT !.got = got, !.room = disk.room - fits]
    BY <1>6, <2>2
  <2>4. PICK r \in 0..Room : r = disk.room - fits
    BY <2>1
  <2> QED
    BY <1>7, <2>3, <2>4 DEF DiskType
<1>9. /\ ft' \in FtType /\ ft'.on = ft.on /\ ft'.op = ft.op /\ ft'.last = ft.last
      /\ ft'.pos = ft.pos + 1
      /\ ft'.st = IF ft.pos + 1 >= Size[e] THEN "proc" ELSE "file"
  <2>1. ft \in FtType
    BY <1>2 DEF TypeParts
  <2>2. PICK st \in {"proc", "file"} : st = IF ft.pos + 1 >= Size[e] THEN "proc" ELSE "file"
    OBVIOUS
  <2>3. ft' = [ft EXCEPT !.pos = ft.pos + 1, !.st = st]
    BY <1>6, <2>2
  <2>4. ft' = [on |-> ft.on, st |-> st, op |-> ft.op, last |-> ft.last, pos |-> ft.pos + 1]
    BY <2>1, <2>3 DEF FtType
  <2>5. ft' \in FtType
    BY <1>7, <2>1, <2>4 DEF FtType
  <2> QED
    BY <2>2, <2>4, <2>5
<1>10. TypeOK'
  <2>1. ft'.pos > 1 => ft'.pos <= Size[e]
    BY <1>2, <1>3, <1>4, <1>7, <1>9 DEF Control
  <2>2. TypeParts'
    BY <1>2, <1>3, <1>8, <1>9, <2>1 DEF TypeParts, PasteBlock
  <2> QED
    BY <2>2, TypeByPartNext
<1>11. Control'
  <2>1. ft'.st = "file" => ft'.pos < Size[Item(ft'.last)]
    BY <1>4, <1>7, <1>9
  <2>2. ft'.st = "file" => ft'.pos < Size[tree'.node[ft'.last].item]
    BY <1>2, <2>1 DEF Item
  <2> QED
    BY <1>2, <1>3, <1>9, <2>2 DEF Control, PasteBlock, Item
<1>12. Shape(C)'
  <2>1. Tree(C)' /\ ops' = ops /\ ~ops.on
    BY <1>2, <1>3, StillTree DEF PasteBlock, Control
  <2> QED
    BY <1>3, <1>9, <2>1 DEF Shape, Undone, Cursors
<1> QED
  BY <1>2, <1>10, <1>11, <1>12 DEF Sound

LEMMA PasteDoneSound ==
  ASSUME NEW C, Sound(C), PasteDone, ui.cut /\ ~Same(tree.node[ft.last])
  PROVE  Sound(C)'
<1>1. C \in SUBSET Live /\ Shape(C)
  BY DEF Sound
<1>2. TypeParts /\ Control /\ ~fault /\ tree' = tree /\ Live' = Live /\ ~fault' /\ Nodes
  BY <1>1, TypeByPart, SoundNodes DEF Sound, PasteDone, Live
<1>3. Tree(C) /\ ft.on /\ ui.main = "paste" /\ ft.op = Nil
  BY <1>1 DEF Shape, Undone, PasteDone
<1>4. ui' = [ui EXCEPT !.main = "delete"] /\ ft' = [ft EXCEPT !.st = "init"]
      /\ UNCHANGED <<disk, sobj, ops, scan, cwd, job, fault>>
  BY <1>1 DEF PasteDone
<1>5. ui' \in UiType /\ ui'.main = "delete" /\ ui'.menu = ui.menu /\ ui'.asked = ui.asked
  BY <1>2, <1>4 DEF TypeParts, UiType
<1>6. ft' \in FtType /\ ft'.on /\ ft'.op = Nil /\ ft'.st = "init" /\ ft'.pos = ft.pos
  BY <1>2, <1>3, <1>4 DEF TypeParts, FtType
<1>7. TypeOK'
  <2>1. ft'.pos > 1 => \E x \in Entry : ft'.pos <= Size[x]
    BY <1>2, <1>6 DEF TypeParts
  <2>2. TypeParts'
    BY <1>2, <1>4, <1>5, <1>6, <2>1 DEF TypeParts
  <2> QED
    BY <2>2, TypeByPartNext
<1>8. Control'
  BY <1>2, <1>3, <1>4, <1>5, <1>6 DEF Control
<1>9. Shape(C)'
  BY <1>2, <1>3, <1>4, <1>5, <1>6, StillTree DEF Shape, Undone, Cursors, Control
<1> QED
  BY <1>2, <1>7, <1>8, <1>9 DEF Sound

LEMMA DescendSound == ASSUME NEW C, Sound(C), Descend PROVE Sound(C)'
<1>1. C \in SUBSET Live /\ Shape(C)
  BY DEF Sound
<1>2. TypeParts /\ Control /\ ~fault /\ tree' = tree /\ Live' = Live /\ ~fault' /\ Nodes
  BY TypeByPart, SoundNodes DEF Sound, Descend, Live
<1>3. PICK op : op = ft.op
  OBVIOUS
<1>4. PICK A \in SUBSET C : Left(C, A, op)
  BY <1>1, <1>3 DEF Shape, Undone, Descend, Deleting
<1>5. op # Nil /\ Kid(op) # Nil /\ ft.on /\ ui.main = "delete" /\ ui' = ui
  BY <1>3 DEF Descend, Deleting, Undone, Kid
<1>6. PICK q : q = Kid(op)
  OBVIOUS
<1>7. Left(C, A \cup {op}, q) /\ A \cup {op} \in SUBSET C /\ q \in C
  BY <1>2, <1>4, <1>5, <1>6, LeftBelow DEF Left
<1>8. Left(C, A \cup {op}, q)'
  BY <1>2, <1>7, StillTree
<1>9. ft' = [ft EXCEPT !.op = q]
  BY <1>3, <1>6 DEF Descend, Kid
<1>10. ft' \in FtType /\ ft'.on = ft.on /\ ft'.op = q /\ ft'.st = ft.st /\ ft'.pos = ft.pos
       /\ ft'.last = ft.last
  BY <1>1, <1>2, <1>7, <1>9 DEF TypeParts, FtType
<1>11. TypeOK'
  BY <1>2, <1>10, TypeByPartNext DEF TypeParts, Descend
<1>12. Control'
  BY <1>2, <1>5, <1>10 DEF Control, Descend, Deleting, Undone, Item
<1>13. Shape(C)'
  BY <1>2, <1>5, <1>7, <1>8, <1>10 DEF Shape, Undone, Cursors, Control, Descend, Deleting
<1> QED
  BY <1>2, <1>11, <1>12, <1>13 DEF Sound

LEMMA UnlinkSound ==
  ASSUME NEW C, Sound(C), Unlink, NEW op, op = ft.op
  PROVE  Sound(C \ {op})'
<1>1. C \in SUBSET Live /\ Shape(C)
  BY DEF Sound
<1>2. TypeParts /\ Control /\ ~fault /\ ~fault' /\ Nodes
  BY TypeByPart, SoundNodes DEF Sound, Unlink
<1>3. op = ft.op
  OBVIOUS
<1>4. PICK A \in SUBSET C : Left(C, A, op)
  BY <1>1, <1>3 DEF Shape, Undone, Unlink, Deleting
<1>5. op # Nil /\ Kid(op) = Nil /\ ft.on /\ ui.main = "delete" /\ ft.st = "proc" /\ op \in Live
      /\ op \in C
  BY <1>3, <1>4 DEF Unlink, Deleting, Undone, Kid, Left
<1>6. PICK q : q = IF NextOf(op) # Nil THEN NextOf(op) ELSE Par(op)
  OBVIOUS
<1>7. tree' = [tree EXCEPT !.node =
        [a \in Live \ {op} |-> IF NextOf(op) = Nil /\ a = Par(op)
                               THEN [tree.node[a] EXCEPT !.child = Nil] ELSE tree.node[a]]]
  BY <1>3 DEF Unlink, NextOf, Par
<1>8. /\ Nodes' /\ Live' = Live \ {op} /\ tree'.list = tree.list
      /\ \A x \in Live \ {op} :
           /\ tree'.node[x].next = NextOf(x) /\ tree'.node[x].parent = Par(x)
           /\ tree'.node[x].child = IF NextOf(op) = Nil /\ x = Par(op) THEN Nil ELSE Kid(x)
  BY <1>2, <1>5, <1>7, Unlinks
<1>9. PICK B \in SUBSET (C \ {op}) : Left(C \ {op}, B, q)'
  <2>1. Nodes /\ Left(C, A, op) /\ op # Nil /\ Kid(op) = Nil
    BY <1>2, <1>4, <1>5
  <2>2. Frees(op)
    BY <1>8 DEF Frees
  <2>3. Passes(C, A, op, q)
    BY <1>6, <2>1, <2>2, LeftAfter
  <2> QED
    BY <2>3 DEF Passes
<1>10. q \in (C \ {op}) \cup {Nil} /\ C \ {op} \in SUBSET Live'
  BY <1>8, <1>9 DEF Left
<1>11. ft' = [ft EXCEPT !.op = q] /\ disk' = [disk EXCEPT !.home = @ \ {Item(op)}]
       /\ UNCHANGED <<ui, sobj, ops, scan, cwd, job>>
  BY <1>3, <1>6 DEF Unlink, NextOf, Par, Item
<1>12. ft' \in FtType /\ ft'.on = ft.on /\ ft'.op = q /\ ft'.st = "proc" /\ ft'.pos = ft.pos
  BY <1>2, <1>5, <1>8, <1>10, <1>11 DEF TypeParts, FtType, Nodes
<1>13. TypeOK'
  <2>1. disk' \in DiskType
    BY <1>2, <1>11 DEF TypeParts, DiskType
  <2>2. Live' \subseteq Node /\ tree'.list \in Node \cup {Nil} /\ tree'.node \in [Live' -> NodeRec]
    BY <1>8 DEF Nodes
  <2>3. TypeParts'
    BY <1>2, <1>11, <1>12, <2>1, <2>2 DEF TypeParts, Unlink
  <2> QED
    BY <2>3, TypeByPartNext
<1>14. Control'
  BY <1>2, <1>5, <1>8, <1>11, <1>12 DEF Control
<1>15. Shape(C \ {op})'
  BY <1>2, <1>5, <1>9, <1>10, <1>11, <1>12 DEF Shape, Undone, Cursors, Control
<1>16. tree' = [list |-> tree'.list, node |-> tree'.node]
  BY <1>8 DEF Nodes
<1> QED
  BY <1>2, <1>10, <1>13, <1>14, <1>15, <1>16 DEF Sound

\* The start, and a step of none of the three.
LEMMA SoundInit == ASSUME Init PROVE Sound({})
<1>1. /\ disk \in DiskType /\ ui \in UiType /\ ops \in OpsType /\ ft \in FtType
      /\ scan \in ScanType /\ job \in JobType
  BY FileOpsAssumption DEF Init, DiskType, UiType, OpsType, ScanType, FtType, JobType, NoOps,
       NoFile, NoJob
<1>2. tree = [list |-> Nil, node |-> <<>>] /\ ~(ft.pos > 1) /\ fault = FALSE /\ sobj = {}
      /\ cwd = Here
  BY DEF Init, NoFile
<1>3. Live = {} /\ tree.node \in [Live -> NodeRec] /\ tree.list = Nil
  BY <1>2 DEF Live
<1>4. TypeOK
  BY <1>1, <1>2, <1>3, TypeByPart DEF TypeParts
<1>5. Control
  BY <1>3 DEF Init, Control, NoOps, NoFile
<1>6. Shape({})
  BY <1>3 DEF Init, Shape, Undone, Tree, Linked, Cursors, NoOps, NoFile
<1> QED
  BY <1>2, <1>3, <1>4, <1>5, <1>6 DEF Sound

\* The nodes of the job after a step.
LEMMA SoundStep ==
  ASSUME NEW C, Sound(C), Next, "late" \notin Faults
  PROVE  \E K : Sound(K)'
<1>1. CASE Buttons
  <2>1. CASE CancelOptions
    BY <2>1, CancelOptionsSound
  <2> QED
    BY <1>1, <2>1, SelectSound, DeleteSound, CancelProgressSound, CopyOrCutSound, PasteSound,
       AnswerSound DEF Buttons
<1>2. CASE OpsTick
  <2>1. PICK a : a = NewAddress
    OBVIOUS
  <2>2. CASE Collect
    BY <2>1, <2>2, CollectSound
  <2>3. CASE \E ok \in BOOLEAN : ScanDir(ok)
    BY <2>1, <2>3, ScanDirSound
  <2> QED
    BY <1>2, <2>2, <2>3, OpsIdleSound, CollectedSound, OpsStartSound, ReadFileSound, ScanEndSound,
       OpsDoneSound, ScanCwdSound, ScanInitSound DEF OpsTick
<1>3. CASE FileTick
  <2>1. CASE \E ok \in BOOLEAN : FileEnd(ok) /\ ft.on /\ UNCHANGED <<disk, sobj, ops, scan, cwd>>
    BY <2>1, FileEndSound
  <2>2. FileStopped \/ PasteFails \/ BlockFails \/ UnlinkFails \/ DeleteDone =>
          \E ok \in BOOLEAN : FileEnd(ok) /\ ft.on /\ UNCHANGED <<disk, sobj, ops, scan, cwd>>
    BY DEF FileStopped, PasteFails, BlockFails, UnlinkFails, DeleteDone, Pasting, Deleting, Undone
  <2>3. CASE PasteDone
    <3>1. ~(ui.cut /\ ~Same(tree.node[ft.last])) => FileEnd(TRUE) /\ ft.on
                                                   /\ UNCHANGED <<disk, sobj, ops, scan, cwd>>
      BY <2>3 DEF PasteDone
    <3> QED
      BY <2>1, <2>3, <3>1, PasteDoneSound
  <2>4. CASE Unlink
    BY <2>4, UnlinkSound
  <2> QED
    BY <1>3, <2>1, <2>2, <2>3, <2>4, FileStartSound, PasteObjectSound, PasteBlockSound, DescendSound
       DEF FileTick
<1> QED
  BY <1>1, <1>2, <1>3 DEF Next

LEMMA SoundStutter == ASSUME NEW C, Sound(C), UNCHANGED vars PROVE Sound(C)'
<1>1. tree' = tree /\ ft' = ft /\ ui' = ui /\ ops' = ops /\ disk' = disk /\ sobj' = sobj
      /\ scan' = scan /\ cwd' = cwd /\ job' = job /\ fault' = fault
  BY DEF vars
<1>2. C \in SUBSET Live /\ Shape(C)
  BY DEF Sound
<1>3. Shape(C)'
  BY <1>1, <1>2, StillShape DEF Shape, Cursors, Undone
<1>4. TypeOK'
  BY <1>1, TypeByPart, TypeByPartNext DEF Sound, TypeParts, Live
<1>5. Control'
  BY <1>1 DEF Sound, Control, Item
<1> QED
  BY <1>1, <1>2, <1>3, <1>4, <1>5 DEF Sound, Live

\* In every state there is a set of nodes, those of the job, that hang together as the walks
\* and the deletion suppose: what lv_fm_op_list and the cursors of both tasks point to.
THEOREM TreeSound == "late" \notin Faults => (Spec => [](\E C : Sound(C)))
<1>1. SUFFICES ASSUME "late" \notin Faults PROVE Spec => [](\E C : Sound(C))
  OBVIOUS
<1>2. Init => \E C : Sound(C)
  BY SoundInit
<1>3. (\E C : Sound(C)) /\ [Next]_vars => (\E C : Sound(C))'
  BY <1>1, SoundStep, SoundStutter
<1> QED
  BY <1>2, <1>3, PTL DEF Spec

\* TypeOK holds, for any tree of files, any heap and any number of jobs.
THEOREM TypeCorrect == "late" \notin Faults => (Spec => []TypeOK)
<1>1. (\E C : Sound(C)) => TypeOK
  BY DEF Sound
<1> QED
  BY <1>1, TreeSound, PTL

\* What lies above the cursor of a deletion is reached along parent_ll.
LEMMA PathAbove ==
  ASSUME Nodes, NEW C, NEW A, Left(C, A, ft.op), ft.op # Nil
  PROVE  A \subseteq Above
<1> DEFINE op == ft.op
           R == [a \in Live |-> {tree.node[a].parent} \cap Live]
           U == Reached({op} \ {Nil}, R)
<1>1. C \subseteq Live /\ Live \subseteq Node /\ A \subseteq C /\ op \in C \ A /\ Path(A, op)
  BY DEF Left, Nodes
<1>2. op \in U /\ \A x \in U : R[x] \subseteq U
  <2>1. {op} \ {Nil} \subseteq DOMAIN R /\ \A x \in DOMAIN R : R[x] \subseteq DOMAIN R
        /\ op \in {op} \ {Nil}
    BY <1>1
  <2> HIDE DEF R
  <2> QED
    BY <2>1, ReachedAround
<1>3. ASSUME NEW x \in A, x \notin U PROVE FALSE
  <2> HIDE DEF U
  <2> DEFINE T == {y \in A \cup {op} : y \in U /\ x < y}
  <2>1. A \cup {op} \subseteq Nat
    BY <1>1, Addresses
  <2>2. T \in SUBSET Nat /\ op \in T
    BY <1>1, <1>2, <1>3, <2>1 DEF Path
  <2>3. PICK y \in T : \A z \in T : y <= z
    <3> HIDE DEF T
    <3> QED
      BY <2>2, LeastNat
  <2>4. Par(y) # Nil /\ x <= Par(y) /\ Par(y) \in A /\ Par(y) < y
    BY <1>1, <1>3 DEF Path
  <2>5. Par(y) \in U
    BY <1>1, <1>2, <2>4 DEF Par
  <2>6. x < Par(y)
    BY <1>3, <2>1, <2>4, <2>5
  <2>7. y <= Par(y)
    BY <2>3, <2>4, <2>5, <2>6
  <2> QED
    BY <2>1, <2>4, <2>7
<1> QED
  BY <1>1, <1>3 DEF Above

\* All the deletion can still come to is allocated.
LEMMA ToComeInside ==
  ASSUME Nodes, NEW C, NEW A, Left(C, A, ft.op)
  PROVE  \A a \in ToCome : Ways(a) \subseteq Live
<1> DEFINE R == [a \in Live |-> Ways(a) \cap Live]
           Chain(S) == \A y \in S : Par(y) # Nil => Par(y) \in S
           T == {x \in C : \E S \in SUBSET C : x \in S /\ Chain(S)}
<1>1. C \subseteq Live /\ A \subseteq C /\ Linked(C, A)
  BY DEF Left
<1>2. A \subseteq Above
  BY PathAbove DEF Left
<1>3. {ft.op} \ {Nil} \subseteq T
  <2>1. CASE ft.op # Nil
    <3>1. ft.op \in C /\ A \cup {ft.op} \in SUBSET C /\ Chain(A \cup {ft.op})
      BY <1>1, <2>1 DEF Left, Path
    <3> QED
      BY <3>1
  <2> QED
    BY <2>1
<1>4. ASSUME NEW x \in T PROVE Ways(x) \subseteq T
  <2>1. PICK S \in SUBSET C : x \in S /\ Chain(S)
    OBVIOUS
  <2>2. NextOf(x) # Nil => NextOf(x) \in T
    <3>1. SUFFICES ASSUME NextOf(x) # Nil PROVE NextOf(x) \in T
      OBVIOUS
    <3>2. NextOf(x) \in C /\ Par(NextOf(x)) = Par(x)
      BY <1>1, <3>1 DEF Linked
    <3>3. S \cup {NextOf(x)} \in SUBSET C /\ Chain(S \cup {NextOf(x)})
      BY <2>1, <3>2
    <3> QED
      BY <3>2, <3>3
  <2>3. x \notin Above /\ Kid(x) # Nil => Kid(x) \in T
    <3>1. SUFFICES ASSUME x \notin Above, Kid(x) # Nil PROVE Kid(x) \in T
      OBVIOUS
    <3>2. Kid(x) \in C /\ Par(Kid(x)) = x
      BY <1>1, <1>2, <3>1 DEF Linked
    <3>3. S \cup {Kid(x)} \in SUBSET C /\ Chain(S \cup {Kid(x)})
      BY <2>1, <3>2
    <3> QED
      BY <3>2, <3>3
  <2>4. Par(x) # Nil => Par(x) \in T
    BY <2>1
  <2> HIDE DEF T
  <2> QED
    BY <2>2, <2>3, <2>4 DEF Ways, NextOf, Kid, Par
<1>5. T \subseteq Live
  BY <1>1
<1> HIDE DEF T
<1>6. ToCome \subseteq T
  <2>1. DOMAIN R = Live /\ \A x \in T : R[x] \subseteq T
    BY <1>4, <1>5
  <2> HIDE DEF R
  <2>2. Reached({ft.op} \ {Nil}, R) \subseteq T
    BY <1>3, <1>5, <2>1, ReachedLeast
  <2> QED
    BY <2>2 DEF ToCome, R
<1> QED
  BY <1>4, <1>5, <1>6

\* In such a state no pointer is stray.
LEMMA SoundNoStray == ASSUME NEW C, Sound(C) PROVE NoStrayPointer
<1>1. Nodes /\ C \subseteq Live /\ Shape(C) /\ ~fault
  BY SoundNodes DEF Sound
<1>2. /\ ft.on /\ ui.main # "idle" =>
           /\ ft.op \in Live \cup {Nil}
           /\ ui.main = "paste" /\ ft.st = "file" => ft.last \in Live
      /\ ops.on /\ ui.main # "idle" => ops.op \in Live \cup {Nil}
  BY <1>1 DEF Shape, Cursors
<1>3. Undone => \A a \in ToCome : Ways(a) \subseteq Live
  BY <1>1, ToComeInside DEF Shape
<1>4. ASSUME ~Undone
      PROVE  /\ tree.list \in Live \cup {Nil}
             /\ \A a \in Visited : Links(a) \cup ({tree.node[a].parent} \ {Nil}) \subseteq Live
  <2>1. Tree(C) /\ Visited \subseteq C
    BY <1>1, <1>4, VisitedInside DEF Shape
  <2>2. \A a \in C : Links(a) \cup ({tree.node[a].parent} \ {Nil}) \subseteq C
    BY <2>1 DEF Tree, Linked, Links, NextOf, Kid, Par
  <2> QED
    BY <1>1, <2>1, <2>2 DEF Tree
<1> QED
  BY <1>1, <1>2, <1>3, <1>4 DEF NoStrayPointer

\* No node is freed twice, no task and no link that is still to be followed is left pointing
\* to a freed node, whatever fails and whenever the user cancels a scan or the pasting.
THEOREM NoStray == "late" \notin Faults => (Spec => []NoStrayPointer)
<1>1. (\E C : Sound(C)) => NoStrayPointer
  BY SoundNoStray
<1> QED
  BY <1>1, TreeSound, PTL

--------------------------------------------------------------------------------
\* The first of the list is the least of the tree.
LEMMA ListLeast ==
  ASSUME Nodes, NEW C, Tree(C), NEW x \in C
  PROVE  tree.list \in C /\ tree.list <= x
<1>1. C \in SUBSET Nat /\ tree.list \in C
  BY Addresses DEF Tree, Nodes
<1>2. PICK m \in C : \A y \in C : m <= y
  BY <1>1, LeastNat
<1>3. m = tree.list
  <2>1. SUFFICES ASSUME m # tree.list PROVE FALSE
    OBVIOUS
  <2>2. PICK y \in C : y < m
    BY <2>1 DEF Tree
  <2> QED
    BY <1>1, <1>2, <2>2
<1> QED
  BY <1>1, <1>2, <1>3

\* What comes before a node in its list: the node before it, or its parent.
LEMMA Before ==
  ASSUME Nodes, NEW C, Tree(C), NEW x \in C, x # tree.list
  PROVE  \E y \in C : /\ y < x
                      /\ \/ NextOf(y) = x /\ Par(y) = Par(x)
                         \/ Kid(y) = x /\ Par(x) = y
<1>1. PICK y \in C : y < x /\ x \in {NextOf(y), Kid(y)}
  BY DEF Tree
<1>2. x # Nil
  BY Addresses DEF Tree, Nodes
<1>3. NextOf(y) = x => Par(y) = Par(x)
  BY <1>2 DEF Tree, Linked
<1>4. Kid(y) = x => Par(x) = y
  BY <1>2 DEF Tree, Linked
<1> QED
  BY <1>1, <1>3, <1>4

\* Siblings follow one another in the order of their addresses.
LEMMA SiblingOrder ==
  ASSUME Nodes, NEW C, Tree(C), NEW s \in C, NEW t \in C, s < t, Par(s) = Par(t)
  PROVE  NextOf(s) # Nil /\ NextOf(s) <= t
<1>1. C \in SUBSET Nat /\ Nil \notin C
  BY Addresses DEF Tree, Nodes
<1> DEFINE Bad == {y \in C : \E x \in C : x < y /\ Par(x) = Par(y)
                               /\ ~(NextOf(x) # Nil /\ NextOf(x) <= y)}
<1>2. SUFFICES ASSUME Bad # {} PROVE FALSE
  OBVIOUS
<1>3. PICK y \in Bad : \A z \in Bad : y <= z
  <2>1. Bad \in SUBSET Nat
    BY <1>1
  <2> HIDE DEF Bad
  <2> QED
    BY <1>2, <2>1, LeastNat
<1>4. PICK x \in C : x < y /\ Par(x) = Par(y) /\ ~(NextOf(x) # Nil /\ NextOf(x) <= y)
  OBVIOUS
<1>5. \A u, v \in C : u < v /\ v < y /\ Par(u) = Par(v) => NextOf(u) # Nil /\ NextOf(u) <= v
  BY <1>1, <1>3
<1>6. y \in C /\ y # tree.list
  BY <1>1, <1>4, ListLeast
<1>7. PICK p \in C : /\ p < y
                     /\ \/ NextOf(p) = y /\ Par(p) = Par(y)
                        \/ Kid(p) = y /\ Par(y) = p
  BY <1>6, Before
<1>8. CASE NextOf(p) = y /\ Par(p) = Par(y)
  <2>1. p # x
    BY <1>1, <1>4, <1>6, <1>8
  <2>2. CASE p < x
    <3>1. NextOf(p) <= x
      BY <1>4, <1>5, <1>8, <2>2
    <3> QED
      BY <1>1, <1>4, <1>6, <1>8, <3>1
  <2>3. CASE x < p
    <3>1. NextOf(x) # Nil /\ NextOf(x) <= p
      BY <1>4, <1>5, <1>7, <1>8, <2>3
    <3>2. NextOf(x) \in Nat
      BY <1>1, <1>4, <3>1 DEF Tree, Linked
    <3> QED
      BY <1>1, <1>4, <1>6, <1>7, <3>1, <3>2
  <2> QED
    BY <1>1, <2>1, <2>2, <2>3
\* y is the first child of p: nothing of that list is before it.
<1>9. CASE Kid(p) = y /\ Par(y) = p
  <2> DEFINE T == {z \in C : Par(z) = p}
  <2>1. PICK m \in T : \A z \in T : m <= z
    <3>1. T \in SUBSET Nat /\ T # {}
      BY <1>1, <1>6, <1>9
    <3> HIDE DEF T
    <3> QED
      BY <3>1, LeastNat
  <2>2. m <= x /\ m \in C /\ m < y /\ Par(m) = p
    BY <1>1, <1>4, <1>6, <1>9, <2>1
  <2>3. m # tree.list
    BY <1>1, <2>2 DEF Tree
  <2>4. PICK q \in C : /\ q < m
                       /\ \/ NextOf(q) = m /\ Par(q) = Par(m)
                          \/ Kid(q) = m /\ Par(m) = q
    BY <2>2, <2>3, Before
  <2>5. ~(NextOf(q) = m /\ Par(q) = Par(m))
    BY <1>1, <2>1, <2>2, <2>4
  <2> QED
    BY <1>1, <1>6, <1>9, <2>2, <2>4, <2>5
<1> QED
  BY <1>7, <1>8, <1>9

\* What is closed under child and next and holds the head is the whole tree.
LEMMA AllReached ==
  ASSUME Nodes, NEW C, Tree(C), NEW D \in SUBSET C, tree.list \in D \cup {Nil},
         \A x \in D : Kid(x) \in D \cup {Nil} /\ NextOf(x) \in D \cup {Nil}
  PROVE  C \subseteq D
<1>1. C \in SUBSET Nat /\ Nil \notin C
  BY Addresses DEF Tree, Nodes
<1>2. SUFFICES ASSUME C \ D # {} PROVE FALSE
  OBVIOUS
<1>3. PICK x \in C \ D : \A y \in C \ D : x <= y
  BY <1>1, <1>2, LeastNat
<1>4. x # tree.list
  BY <1>1, <1>3
<1>5. PICK y \in C : y < x /\ x \in {NextOf(y), Kid(y)}
  BY <1>4 DEF Tree
<1>6. y \in D
  BY <1>1, <1>3, <1>5
<1> QED
  BY <1>1, <1>3, <1>5, <1>6

--------------------------------------------------------------------------------
\* The way down to a child of op, from the way down to op.
LEMMA PathBelow ==
  ASSUME NEW A \in SUBSET Nat, NEW op \in Nat, NEW k \in Nat, Nil \notin A \cup {op}, Path(A, op),
         op < k, Par(k) = op
  PROVE  Path(A \cup {op}, k)
<1>1. \A x \in A \cup {op} : x < k
  BY DEF Path
<1>2. ASSUME NEW y \in A \cup {op}
      PROVE  /\ Par(y) # Nil => Par(y) \in A \cup {op} /\ Par(y) < y
             /\ \A x \in A \cup {op} : x < y => Par(y) # Nil /\ x <= Par(y)
  <2>1. Par(y) # Nil => Par(y) \in A /\ Par(y) < y
    BY DEF Path
  <2>2. ASSUME NEW x \in A \cup {op}, x < y PROVE Par(y) # Nil /\ x <= Par(y)
    <3>1. x # op
      BY <2>2 DEF Path
    <3> QED
      BY <2>2, <3>1 DEF Path
  <2> QED
    BY <2>1, <2>2
<1>3. \A x \in A \cup {op} : x <= Par(k)
  BY DEF Path
<1> QED
  BY <1>1, <1>2, <1>3 DEF Path

\* The way down to what follows b in its list.
LEMMA PathAside ==
  ASSUME NEW A \in SUBSET Nat, NEW op \in Nat, NEW b \in A \cup {op}, NEW q \in Nat,
         Path(A, op), b < q, Par(q) = Par(b)
  PROVE  Path({x \in A : x < b}, q)
<1> DEFINE B == {x \in A : x < b}
<1>1. b \in Nat /\ A \subseteq Nat /\ \A x \in B : x \in A /\ x < b /\ x < q
  OBVIOUS
<1>2. ASSUME NEW y \in B
      PROVE  /\ Par(y) # Nil => Par(y) \in B /\ Par(y) < y
             /\ \A x \in B : x < y => Par(y) # Nil /\ x <= Par(y)
  <2>1. Par(y) # Nil => Par(y) \in A /\ Par(y) < y
    BY <1>1 DEF Path
  <2>2. Par(y) # Nil => Par(y) < b
    <3>1. y \in Nat /\ y < b /\ b \in Nat
      BY <1>1
    <3>2. Par(y) # Nil => Par(y) \in Nat
      BY <1>1, <2>1
    <3> QED
      BY <2>1, <3>1, <3>2
  <2>3. \A x \in B : x < y => Par(y) # Nil /\ x <= Par(y)
    BY <1>1 DEF Path
  <2> QED
    BY <2>1, <2>2, <2>3
<1>3. /\ Par(q) # Nil => Par(q) \in B /\ Par(q) < q
      /\ \A x \in B : x < q => Par(q) # Nil /\ x <= Par(q)
  <2>1. Par(b) # Nil => Par(b) \in A /\ Par(b) < b
    BY DEF Path
  <2>2. Par(b) # Nil => Par(b) \in Nat /\ Par(b) < q
    BY <1>1, <2>1
  <2>3. \A x \in B : Par(b) # Nil /\ x <= Par(b)
    BY <1>1 DEF Path
  <2> QED
    BY <2>1, <2>2, <2>3
<1> HIDE DEF B
<1>4. Path(B, q)
  BY <1>1, <1>2, <1>3 DEF Path
<1> QED
  BY <1>4 DEF B

\* Every way down starts at a selected object.
LEMMA PathTop ==
  ASSUME NEW A \in SUBSET Nat, NEW op \in Nat, Nil \notin A \cup {op}, Path(A, op)
  PROVE  \E y \in A \cup {op} : Par(y) = Nil
<1>1. PICK y \in A \cup {op} : \A x \in A \cup {op} : y <= x
  <2>1. A \cup {op} \in SUBSET Nat /\ A \cup {op} # {}
    OBVIOUS
  <2> QED
    BY <2>1, LeastNat
<1>2. Par(y) # Nil => Par(y) \in A /\ Par(y) < y /\ y <= Par(y)
  BY <1>1 DEF Path
<1>3. y \in Nat /\ (Par(y) \in A => Par(y) \in Nat)
  OBVIOUS
<1> QED
  BY <1>2, <1>3

\* A step of a walk that goes on after op.
LEMMA WalkOn ==
  ASSUME Nodes, NEW C, Tree(C), NEW op \in C, NEW A \in SUBSET C, Path(A, op), NextUp(op) # Nil
  PROVE  \E b \in A \cup {op} :
           /\ NextUp(op) = NextOf(b) /\ NextOf(b) \in C /\ NextOf(b) # tree.list
           /\ b < NextOf(b) /\ Par(NextOf(b)) = Par(b)
           /\ \A x \in A \cup {op} : x > b => NextOf(x) = Nil
           /\ Path({x \in A : x < b}, NextOf(b))
<1>1. C \in SUBSET Nat
  BY Addresses DEF Tree, Nodes
<1>2. PICK b \in A \cup {op} : /\ NextUp(op) = NextOf(b) /\ NextOf(b) # Nil
                              /\ \A x \in A \cup {op} : x > b => NextOf(x) = Nil
  BY Climbs
<1>3. NextOf(b) \in C /\ b < NextOf(b) /\ Par(NextOf(b)) = Par(b) /\ NextOf(b) # tree.list
  BY <1>2 DEF Tree, Linked
<1>4. Path({x \in A : x < b}, NextOf(b))
  BY <1>1, <1>3, PathAside
<1> QED
  BY <1>2, <1>3, <1>4

\* A step of a walk that goes down from op.
LEMMA WalkDown ==
  ASSUME Nodes, NEW C, Tree(C), NEW op \in C, NEW A \in SUBSET C, Path(A, op), Kid(op) # Nil
  PROVE  /\ Kid(op) \in C /\ op < Kid(op) /\ Par(Kid(op)) = op /\ Kid(op) # tree.list
         /\ Path(A \cup {op}, Kid(op))
<1>1. C \in SUBSET Nat /\ Nil \notin C
  BY Addresses DEF Tree, Nodes
<1>2. Kid(op) \in C /\ op < Kid(op) /\ Par(Kid(op)) = op
  BY DEF Tree, Linked
<1>3. Kid(op) # tree.list
  BY <1>1, <1>2 DEF Tree
<1>4. Path(A \cup {op}, Kid(op))
  BY <1>1, <1>2, PathBelow
<1> QED
  BY <1>2, <1>3, <1>4

--------------------------------------------------------------------------------
\* Where the nodes are copied to: the children of a folder all have a destination or all
\* have none, as the folder has, if it is not one of the selected objects.
SameTo(x, y) == To(x) = Nil <=> To(y) = Nil
Uniform(C) ==
  /\ \A x, y \in C : Par(x) = Par(y) /\ Par(x) # Nil => SameTo(x, y)
  /\ \A x \in C : Par(x) # Nil => (Par(Par(x)) # Nil => SameTo(x, Par(x)))

\* A selected object, not the first, that the scan has not come to.
Unnamed(x) == Par(x) = Nil /\ x # tree.list /\ To(x) = Nil

\* Below a selected object all that is on the way has a destination or nothing has.
LEMMA PathUniform ==
  ASSUME Nodes, NEW C, Tree(C), Uniform(C), NEW op \in C, NEW A \in SUBSET C, Path(A, op),
         NEW x \in A \cup {op}, NEW y \in A \cup {op}, Par(x) # Nil, Par(y) # Nil
  PROVE  SameTo(x, y)
<1>1. C \in SUBSET Nat /\ Nil \notin C
  BY Addresses DEF Tree, Nodes
<1> DEFINE T == {z \in A \cup {op} : Par(z) # Nil}
<1>2. PICK m \in T : \A z \in T : m <= z
  <2>1. T \in SUBSET Nat /\ T # {}
    BY <1>1
  <2> HIDE DEF T
  <2> QED
    BY <2>1, LeastNat
<1> DEFINE Bad == {z \in T : ~SameTo(z, m)}
<1>3. Bad = {}
  <2>1. SUFFICES ASSUME Bad # {} PROVE FALSE
    OBVIOUS
  <2>2. PICK z \in Bad : \A v \in Bad : z <= v
    <3>1. Bad \in SUBSET Nat
      BY <1>1
    <3> HIDE DEF Bad
    <3> QED
      BY <2>1, <3>1, LeastNat
  <2>3. z # m /\ m < z /\ z \in C
    BY <1>1, <1>2, <2>2 DEF SameTo
  <2>4. Par(z) \in A /\ Par(z) < z /\ z \in A \cup {op} /\ z \in Nat /\ Par(z) \in Nat
    BY <1>1, <1>2, <2>2, <2>3 DEF Path
  <2>8. m \in A /\ m <= Par(z)
    <3>1. m \in A
      BY <1>1, <1>2, <2>3, <2>4 DEF Path
    <3> QED
      BY <2>3, <2>4, <3>1 DEF Path
  <2>5. Par(Par(z)) # Nil
    <3>1. CASE m = Par(z)
      BY <1>2, <3>1
    <3>2. CASE m < Par(z)
      BY <2>4, <2>8, <3>2 DEF Path
    <3> QED
      BY <1>1, <2>4, <2>8, <3>1, <3>2
  <2>6. SameTo(z, Par(z))
    BY <2>3, <2>5 DEF Uniform
  <2>7. Par(z) \notin Bad
    BY <1>1, <2>2, <2>3, <2>4
  <2> QED
    BY <2>2, <2>4, <2>5, <2>6, <2>7 DEF SameTo
<1> QED
  BY <1>3 DEF SameTo

--------------------------------------------------------------------------------
\* What the user has asked for, and where the files are.
OrderFacts ==
  /\ \A e \in disk.home : Up[e] \in disk.home \cup {Here}
  /\ \A e \in disk.home : Up[e] \in job.picked => e \in job.picked
  /\ \A e \in Entry \ disk.names : disk.got[e] = 0
  /\ ui.menu = "paste" \/ ui.main \in {"copy", "paste"} =>
       job.kind = IF ui.cut THEN "cut" ELSE "copy"
  /\ ui.main = "delete" /\ ops.on => job.kind = "delete" /\ job.picked \subseteq job.doomed
  /\ ui.main = "copy" => ops.st = "init"
  /\ sobj \subseteq job.picked

\* The nodes stand for what was selected and for what is in it.
Items(C) ==
  /\ \A x \in C : IF At(x) = Here THEN Item(x) \in job.picked ELSE At(x) \in job.picked
  /\ \A x \in C : Par(x) = Nil => At(x) = Here
  /\ ops.on /\ ui.main # "idle" /\ ops.op # Nil /\ scan.st # "cwd" => Item(ops.op) \in job.picked
  /\ ~ft.on /\ ops.st = "init" => \A x \in C : Par(x) = Nil

\* The file that is being written.
Writing ==
  ft.on /\ ui.main = "paste" /\ ft.st = "file" =>
    /\ Item(ft.last) \in (disk.home \cap job.picked \cap disk.names) \ Folder
    /\ disk.got[Item(ft.last)] = ft.pos

\* The scan has come to op: what it has not come to has no children and, if it was selected,
\* no destination; the children of op are those it has found there.
Scanned(C, A, op) ==
  /\ Path(A, op)
  /\ \A x \in C : Unnamed(x) => \A y \in A \cup {op} : Par(y) = Nil =>
       y < x \/ (x = op /\ y = op /\ scan.st = "cwd")
  /\ \A y \in A \cup {op}, z \in C : Par(z) = Par(y) /\ z > y => \A x \in C : Par(x) # z
  /\ \A x \in C : Par(x) = op =>
       scan.st = "dir" /\ (To(x) = Nil <=> scan.to = Nil) /\ \A y \in C : Par(y) # x
  /\ Par(op) # Nil /\ scan.st = "dir" => (scan.to = Nil <=> To(op) = Nil)

Scanning(C) ==
  ops.on /\ ui.main = "paste" /\ ops.st = "read" =>
    /\ Uniform(C)
    /\ ops.op = Nil => \A x \in C : ~Unnamed(x)
    /\ ops.op # Nil => \E A \in SUBSET C : Scanned(C, A, ops.op)

\* A folder is copied by making it, a file by copying all of it.
Done(x) == Item(x) \in Folder \/ Whole(Item(x))

\* The file task has come to op, past the nodes D.
Walked(C, D, A, op) ==
  /\ D \subseteq C /\ A \subseteq D /\ tree.list \in D \cup {op}
  /\ op = Nil => A = {}
  /\ \A x \in D : Kid(x) \in D \cup {op, Nil} /\ (x \notin A => NextOf(x) \in D \cup {op, Nil})

\* A cut either renames, from the first selected object that has a destination on the same
\* volume to the end, or has copied all that it has come to.
Renaming == ft.last # Nil /\ Same(tree.node[ft.last]) /\ (ft.op # Nil => To(ft.op) # Nil)
CopiedTo(C, A, op) ==
  /\ ft.last = Nil \/ ~Same(tree.node[ft.last])
  /\ \E D \in SUBSET C : /\ Walked(C, D, A, op)
                         /\ \A x \in D : Done(x) \/ (ft.st = "file" /\ x = ft.last)

Copying(C) ==
  ft.on /\ ui.main = "paste" =>
    /\ Uniform(C) /\ \A x \in C : ~Unnamed(x)
    /\ ft.st = "init" => ft.last = Nil
    /\ ft.st # "init" /\ ui.cut =>
         \E A \in SUBSET C : /\ ft.op # Nil => Path(A, ft.op)
                             /\ Renaming \/ CopiedTo(C, A, ft.op)

Deletes(C) ==
  ft.on /\ ui.main = "delete" =>
    \/ job.kind = "delete" /\ job.picked \subseteq job.doomed
    \/ job.kind = "cut" /\ \A x \in C : Done(x)

Kept(C) ==
  Sound(C) /\ OrderFacts /\ Items(C) /\ Writing /\ Scanning(C) /\ Copying(C) /\ Deletes(C)

\* There is room: the scanned files fit and are found to, and each block that is written.
HasRoom ==
  /\ ops.on /\ ui.main = "paste" /\ ops.st = "read" /\ ops.op = Nil => TRUE \notin Full
  /\ ft.on /\ ui.main = "paste" /\ ft.st = "file" /\ ft.pos < Size[Item(ft.last)] => disk.room > 0

\* The fields of the nodes, by name.
LEMMA StillNodes ==
  ASSUME tree' = tree
  PROVE  \A x : /\ NextOf(x)' = NextOf(x) /\ Kid(x)' = Kid(x) /\ Par(x)' = Par(x)
                /\ To(x)' = To(x) /\ Item(x)' = Item(x) /\ At(x)' = At(x)
BY DEF NextOf, Kid, Par, To, Item, At

\* Without a task that pastes or deletes there is nothing to keep but the order.
LEMMA IdleKept ==
  ASSUME NEW C, Sound(C)', OrderFacts', Items(C)', ~ft'.on,
         ops'.on => ui'.main # "paste" \/ ops'.st # "read"
  PROVE  Kept(C)'
BY DEF Kept, Writing, Scanning, Copying, Deletes

\* Under is closed under what is in its folders,
LEMMA UnderClosed ==
  ASSUME NEW S \in SUBSET Entry
  PROVE  /\ S \subseteq Under(S) /\ Under(S) \subseteq Entry
         /\ \A e \in Entry : Up[e] \in Under(S) => e \in Under(S)
<1> DEFINE R == [e \in Entry |-> {x \in Entry : Up[x] = e}]
<1>1. DOMAIN R = Entry /\ \A x \in Entry : R[x] \subseteq Entry
  OBVIOUS
<1>2. \A e \in Entry, x \in Entry : Up[x] = e => x \in R[e]
  OBVIOUS
<1> HIDE DEF R
<1>3. /\ S \subseteq Reached(S, R) /\ Reached(S, R) \subseteq Entry
      /\ \A x \in Reached(S, R) : R[x] \subseteq Reached(S, R)
  BY <1>1, ReachedAround
<1>4. ASSUME NEW e \in Entry, Up[e] \in Reached(S, R) PROVE e \in Reached(S, R)
  BY <1>2, <1>3, <1>4
<1> QED
  BY <1>3, <1>4 DEF Under, R

\* and the least set that is.
LEMMA UnderLeast ==
  ASSUME NEW S \in SUBSET Entry, NEW T \in SUBSET Entry, S \subseteq T,
         \A e \in Entry : Up[e] \in T => e \in T
  PROVE  Under(S) \subseteq T
<1> DEFINE R == [e \in Entry |-> {x \in Entry : Up[x] = e}]
<1>1. DOMAIN R = Entry /\ \A x \in T : R[x] \subseteq T
  OBVIOUS
<1> HIDE DEF R
<1>2. Reached(S, R) \subseteq T
  BY <1>1, ReachedLeast
<1> QED
  BY <1>2 DEF Under, R

\* The buttons.
LEMMA SelectKept == ASSUME NEW C, Kept(C), Select PROVE Kept(C)'
<1>1. Sound(C)' /\ Sound(C) /\ TypeParts /\ OrderFacts /\ Control
  BY SelectSound, TypeByPart DEF Kept, Sound
<1>2. C = {} /\ ~ft.on /\ ~ops.on /\ ui.main = "idle"
  BY <1>1 DEF Sound, Control, Shape, Undone, Tree, Select
<1>3. PICK S \in SUBSET disk.home : sobj' = S /\ job'.picked = Under(S) \cap disk.home
  <2>1. PICK S \in SUBSET disk.home :
          /\ sobj' = S
          /\ job' = [NoJob EXCEPT !.picked = Under(S) \cap disk.home, !.doomed = job.doomed,
                                  !.n = job.n + 1]
    BY DEF Select
  <2>2. job' = [kind |-> "none", picked |-> Under(S) \cap disk.home, cross |-> FALSE, taken |-> {},
                doomed |-> job.doomed, end |-> "none", n |-> job.n + 1]
    BY <2>1 DEF NoJob
  <2> QED
    BY <2>1, <2>2
<1>4. /\ ui'.main = "idle" /\ ui'.menu = "file" /\ ops' = ops /\ ft' = ft /\ disk' = disk
  BY <1>1, <1>2 DEF Select, TypeParts, UiType
<1>5. disk.home \subseteq Entry
  BY <1>1 DEF TypeParts, DiskType
<1>6. OrderFacts'
  <2>1. S \subseteq Under(S) /\ \A e \in Entry : Up[e] \in Under(S) => e \in Under(S)
    BY <1>5, UnderClosed
  <2> QED
    BY <1>1, <1>2, <1>3, <1>4, <1>5, <2>1 DEF OrderFacts
<1>7. Items(C)'
  BY <1>2, <1>4 DEF Items
<1> QED
  BY <1>1, <1>2, <1>4, <1>6, <1>7, IdleKept

--------------------------------------------------------------------------------
\* What Kept is made of.
LEMMA KeptParts ==
  ASSUME NEW C, Kept(C)
  PROVE  /\ Sound(C) /\ Nodes /\ TypeParts /\ Control /\ C \in SUBSET Live /\ Shape(C)
         /\ OrderFacts /\ Items(C) /\ disk.home \subseteq Entry
BY SoundNodes, TypeByPart DEF Kept, Sound, TypeParts, DiskType

\* A button that starts a task, or none.
LEMMA ButtonKept ==
  ASSUME NEW C, Kept(C), Sound(C)', UNCHANGED <<tree, disk, sobj, scan, ft>>, ~ops.on,
         ui.menu # "none", ops'.st = ops.st, ops'.op = ops.op, job'.picked = job.picked,
         ui'.menu = "paste" \/ ui'.main \in {"copy", "paste"} =>
           job'.kind = IF ui'.cut THEN "cut" ELSE "copy",
         ui'.main = "delete" /\ ops'.on => job'.kind = "delete" /\ job'.picked \subseteq job'.doomed
  PROVE  Kept(C)'
<1>1. Control /\ OrderFacts /\ Items(C)
  BY KeptParts
<1>2. ops.st = "init" /\ ops.op = Nil /\ ~ft.on
  BY <1>1 DEF Control
<1>3. OrderFacts'
  BY <1>1, <1>2 DEF OrderFacts
<1>4. Items(C)'
  BY <1>1, <1>2, StillNodes DEF Items
<1> QED
  BY <1>2, <1>3, <1>4, IdleKept

LEMMA CopyOrCutKept == ASSUME NEW C, Kept(C), NEW cut \in BOOLEAN, CopyOrCut(cut) PROVE Kept(C)'
<1>1. Sound(C)' /\ TypeParts
  BY KeptParts, CopyOrCutSound
<1>2. /\ ops'.st = ops.st /\ ops'.op = ops.op /\ ui'.main = "copy" /\ ui'.cut = cut
      /\ job'.kind = (IF cut THEN "cut" ELSE "copy") /\ job'.picked = job.picked
  BY <1>1 DEF CopyOrCut, TypeParts, UiType, OpsType, JobType
<1> QED
  BY <1>1, <1>2, ButtonKept DEF CopyOrCut

LEMMA PasteKept == ASSUME NEW C, Kept(C), NEW cross \in BOOLEAN, Paste(cross) PROVE Kept(C)'
<1>1. Sound(C)' /\ TypeParts /\ OrderFacts
  BY KeptParts, PasteSound
<1>2. /\ ops'.st = ops.st /\ ops'.op = ops.op /\ ui'.main = "paste" /\ ui'.cut = ui.cut
      /\ job'.kind = job.kind /\ job'.picked = job.picked /\ ui.menu = "paste"
  BY <1>1 DEF Paste, TypeParts, UiType, OpsType, JobType
<1> QED
  BY <1>1, <1>2, ButtonKept DEF Paste, OrderFacts

LEMMA DeleteKept == ASSUME NEW C, Kept(C), Delete PROVE Kept(C)'
<1>1. Sound(C)' /\ TypeParts
  BY KeptParts, DeleteSound
<1>2. ui'.main = "delete" /\ ui'.menu = "file" /\ ops' = ops /\ job' = job
  BY <1>1 DEF Delete, TypeParts, UiType
<1> QED
  BY <1>1, <1>2, ButtonKept DEF Delete

LEMMA AnswerKept == ASSUME NEW C, Kept(C), NEW ok \in BOOLEAN, Answer(ok) PROVE Kept(C)'
<1>1. Sound(C)' /\ TypeParts /\ Control
  BY KeptParts, AnswerSound
<1>2. ~ops.on /\ ui.menu = "file" /\ ui.main = "delete"
  BY <1>1 DEF Control, Answer
<1>3. /\ ops'.st = ops.st /\ ops'.op = ops.op /\ ops'.on = ok /\ ui'.menu = "file"
      /\ ui'.main = IF ok THEN "delete" ELSE "idle"
  BY <1>1, <1>2 DEF Answer, TypeParts, UiType, OpsType
<1>4. /\ job'.picked = job.picked
      /\ ok => job'.kind = "delete" /\ job'.picked \subseteq job'.doomed
  BY <1>1 DEF Answer, TypeParts, JobType
<1> QED
  BY <1>1, <1>2, <1>3, <1>4, ButtonKept DEF Answer

\* The end of a job, whatever ends it.
LEMMA EndKept ==
  ASSUME NEW C, Kept(C), Sound({})', ui'.main = "idle", ui'.menu # "paste", disk' = disk,
         job'.picked = job.picked, sobj' \subseteq sobj
  PROVE  Kept({})'
<1>1. OrderFacts'
  BY KeptParts DEF OrderFacts
<1>2. Items({})'
  BY DEF Items
<1> QED
  BY <1>1, <1>2 DEF Kept, Writing, Scanning, Copying, Deletes

LEMMA CancelOptionsKept == ASSUME NEW C, Kept(C), CancelOptions PROVE Kept({})'
<1>1. Sound({})' /\ TypeParts
  BY KeptParts, CancelOptionsSound
<1>2. ui'.main = "idle" /\ ui'.menu = "none" /\ disk' = disk /\ job' = job /\ sobj' = {}
  BY <1>1 DEF CancelOptions, TypeParts, UiType
<1> QED
  BY <1>1, <1>2, EndKept

LEMMA FileEndKept ==
  ASSUME NEW C, Kept(C), ft.on, NEW ok \in BOOLEAN, FileEnd(ok),
         UNCHANGED <<disk, sobj, ops, scan, cwd>>
  PROVE  Kept({})'
<1>1. Sound({})' /\ TypeParts /\ Control
  BY KeptParts, FileEndSound
<1>2. ui'.main = "idle" /\ ui'.menu = "none" /\ job'.picked = job.picked
  BY <1>1 DEF FileEnd, TypeParts, UiType, JobType, Control
<1> QED
  BY <1>1, <1>2, EndKept

LEMMA CancelProgressKept ==
  ASSUME NEW C, Kept(C), CancelProgress, "late" \notin Faults
  PROVE  Kept(C)'
<1>1. Sound(C)' /\ TypeParts /\ Control /\ OrderFacts /\ Items(C)
  BY KeptParts, CancelProgressSound
<1>2. /\ ui'.main = "idle" /\ ui'.menu = "none" /\ tree' = tree /\ disk' = disk /\ job' = job
      /\ sobj' = sobj /\ ft' = ft /\ ft.on
  BY <1>1 DEF CancelProgress, TypeParts, UiType, Control
<1>3. OrderFacts'
  BY <1>1, <1>2 DEF OrderFacts
<1>4. Items(C)'
  BY <1>1, <1>2, StillNodes DEF Items
<1> QED
  BY <1>1, <1>2, <1>3, <1>4 DEF Kept, Writing, Scanning, Copying, Deletes

LEMMA OpsIdleKept == ASSUME NEW C, Kept(C), OpsIdle PROVE Kept({})'
<1>1. Sound(C)' /\ TypeParts /\ Control /\ Shape(C)
  BY KeptParts, OpsIdleSound
<1>2. C = {}
  BY <1>1 DEF OpsIdle, Control, Shape, Undone, Tree
<1>3. ui'.main = "idle" /\ ui'.menu = "none" /\ disk' = disk /\ job' = job /\ sobj' = {}
  BY <1>1 DEF OpsIdle, OpsEnd, TypeParts, UiType
<1> QED
  BY <1>1, <1>2, <1>3, EndKept

LEMMA CollectedKept == ASSUME NEW C, Kept(C), Collected PROVE Kept(C)'
<1>1. Sound(C)' /\ TypeParts /\ Control /\ OrderFacts /\ Items(C)
  BY KeptParts, CollectedSound
<1>2. /\ ui'.main = "copy" /\ ui'.menu = ui.menu /\ ui'.cut = ui.cut /\ tree' = tree
      /\ disk' = disk /\ job' = job /\ sobj' = {} /\ ft' = ft /\ ~ft.on /\ ops.st = "init"
  BY <1>1 DEF Collected, OpsEnd, TypeParts, UiType, Control, OrderFacts
<1>3. ~ops'.on /\ ops'.st = "init"
  BY DEF Collected, OpsEnd, NoOps
<1>4. OrderFacts'
  BY <1>1, <1>2, <1>3 DEF OrderFacts, Collected
<1>5. Items(C)'
  BY <1>1, <1>2, <1>3, StillNodes DEF Items
<1> QED
  BY <1>1, <1>2, <1>3, <1>4, <1>5, IdleKept

LEMMA CollectKept ==
  ASSUME NEW C, Kept(C), Collect, NEW a, a = NewAddress
  PROVE  Kept(C \cup {a})'
<1>1. Sound(C \cup {a})' /\ TypeParts /\ Control /\ OrderFacts /\ Items(C) /\ Nodes /\ Shape(C)
  BY KeptParts, CollectSound
<1>2. PICK e \in sobj :
        /\ tree' = AddNode(tree.node, tree.list, Nil, NewNode(e, Here, Nil, Nil))
        /\ sobj' = sobj \ {e}
        /\ ops' = IF ui.main = "copy" THEN [ops EXCEPT !.total = @ + Size[e]] ELSE ops
  BY DEF Collect
<1>3. /\ ~ft.on /\ ops.on /\ ui' = ui /\ ft' = ft /\ disk' = disk /\ job' = job /\ Tree(C)
      /\ ops.st = "init" /\ ops.op = Nil /\ ui.main # "paste"
  BY <1>1 DEF Collect, Collecting, Control, Shape, Undone, OrderFacts
<1>4. ops'.on = ops.on /\ ops'.st = ops.st /\ ops'.op = ops.op
  BY <1>1, <1>2 DEF TypeParts, OpsType
<1>5. Adds(C, tree.node, Nil, NewNode(e, Here, Nil, Nil)) /\ e \in job.picked
  BY <1>1, <1>2, SameNodes DEF Adds, Collect, First, NewNode, NodeRec, TypeParts, OrderFacts
<1>6. /\ C \subseteq Live /\ tree'.node[a].item = e /\ tree'.node[a].at = Here
      /\ tree'.node[a].parent = Nil
      /\ \A x \in Live : /\ tree'.node[x].item = Item(x) /\ tree'.node[x].at = At(x)
                         /\ tree'.node[x].parent = Par(x)
  BY <1>1, <1>3, <1>5, AddLinks DEF Tree, NewNode
<1>7. OrderFacts'
  BY <1>1, <1>2, <1>3, <1>4 DEF OrderFacts
<1>8. Items(C \cup {a})'
  <2>1. \A x \in C \cup {a} : At(x)' = Here /\ Item(x)' \in job.picked /\ Par(x)' = Nil
    BY <1>1, <1>3, <1>5, <1>6 DEF Items, At, Item, Par
  <2>2. PICK K : K = C \cup {a}
    OBVIOUS
  <2>3. Items(K)'
    BY <1>3, <1>4, <2>1, <2>2 DEF Items
  <2> QED
    BY <2>2, <2>3
<1> QED
  BY <1>1, <1>3, <1>4, <1>7, <1>8, IdleKept

--------------------------------------------------------------------------------
\* With the tree and the scan the walk stays as it is.
LEMMA StillScanning ==
  ASSUME NEW C, Scanning(C), tree' = tree, ops' = ops, ui' = ui, scan' = scan
  PROVE  Scanning(C)'
<1>1. ASSUME NEW A, NEW op, Scanned(C, A, op) PROVE Scanned(C, A, op)'
  BY <1>1 DEF Scanned, Unnamed, Path, Par, To
<1>2. Uniform(C) => Uniform(C)'
  BY DEF Uniform, SameTo, Par, To
<1>3. PICK op : op = ops.op
  OBVIOUS
<1> QED
  BY <1>1, <1>2, <1>3 DEF Scanning, Unnamed, Par, To

\* The walk of the scan starts at the head, with the selected objects alone.
LEMMA OpsStartKept == ASSUME NEW C, Kept(C), OpsStart PROVE Kept(C)'
<1>1. Sound(C)' /\ TypeParts /\ Control /\ OrderFacts /\ Items(C) /\ Nodes /\ Shape(C)
  BY KeptParts, OpsStartSound
<1>2. /\ ~ft.on /\ ops.on /\ ui' = ui /\ ft' = ft /\ disk' = disk /\ job' = job /\ Tree(C)
      /\ ops.st = "init" /\ ui.main # "copy" /\ tree' = tree /\ sobj' = sobj /\ scan' = scan
  BY <1>1 DEF OpsStart, Control, Shape, Undone
<1>3. ops'.on = ops.on /\ ops'.st = "read" /\ ops'.op = tree.list
  BY <1>1 DEF OpsStart, TypeParts, OpsType
<1>4. \A x \in C : Par(x) = Nil /\ At(x) = Here /\ Item(x) \in job.picked
  BY <1>1, <1>2 DEF Items
<1>5. tree.list \in C \cup {Nil} /\ C \in SUBSET Nat /\ Nil \notin C
  BY <1>1, <1>2, Addresses DEF Tree, Nodes
<1>6. OrderFacts'
  BY <1>1, <1>2, <1>3 DEF OrderFacts
<1>7. Items(C)'
  BY <1>2, <1>3, <1>4, <1>5, StillNodes DEF Items
<1>8. Scanning(C)'
  <2>1. Uniform(C)
    BY <1>4 DEF Uniform
  <2>2. tree.list = Nil => C = {}
    BY <1>2 DEF Tree
  <2>3. ASSUME tree.list # Nil PROVE Scanned(C, {}, tree.list)
    <3>1. Path({}, tree.list)
      BY <1>4, <1>5, <2>3 DEF Path
    <3>2. ASSUME NEW x \in C, Unnamed(x) PROVE tree.list < x
      <4>0. Nodes /\ Tree(C) /\ x \in C
        BY <1>1, <1>2
      <4>1. tree.list \in C /\ tree.list <= x
        BY <4>0, ListLeast
      <4>2. x # tree.list
        BY <3>2 DEF Unnamed
      <4>3. tree.list \in Nat /\ x \in Nat
        BY <1>5, <4>1
      <4> QED
        BY <4>1, <4>2, <4>3
    <3> QED
      BY <1>4, <1>5, <2>3, <3>1, <3>2 DEF Scanned
  <2>4. PICK q : q = tree.list
    OBVIOUS
  <2>5. Uniform(C)' /\ (q # Nil => Scanned(C, {}, q)')
    BY <1>2, <2>1, <2>3, <2>4 DEF Scanned, Unnamed, Path, Par, To, Uniform, SameTo
  <2> QED
    BY <1>3, <2>2, <2>4, <2>5 DEF Scanning
<1> QED
  BY <1>1, <1>2, <1>6, <1>7, <1>8 DEF Kept, Writing, Copying, Deletes

--------------------------------------------------------------------------------
\* A tick of the scan that finds nothing: it stays at op, or goes on when it is done there.
LEMMA ReadTree ==
  ASSUME NEW C, Sound(C), Reading, tree' = [list |-> tree.list, node |-> Named]
  PROVE  /\ Tree(C) /\ ops.op \in C /\ C \in SUBSET Nat /\ Nil \notin C
         /\ tree'.list = tree.list
         /\ \A x \in C : /\ NextOf(x)' = NextOf(x) /\ Kid(x)' = Kid(x) /\ Par(x)' = Par(x)
                         /\ Item(x)' = Item(x) /\ At(x)' = At(x)
                         /\ To(x)' = IF /\ x = ops.op /\ ui.main = "paste" /\ scan.st = "cwd"
                                       /\ Par(x) = Nil
                                    THEN Here ELSE To(x)
<1>1. Nodes /\ Control /\ Shape(C) /\ C \in SUBSET Live
  BY SoundNodes DEF Sound
<1>2. Tree(C) /\ ops.op \in C
  BY <1>1 DEF Reading, Control, Shape, Undone, Cursors
<1>3. tree' = [list |-> tree.list, node |-> Named] /\ ops.scan = scan.st
  BY <1>1 DEF Control
<1>4. /\ SameLinks(Named)
      /\ \A x \in Live \ {ops.op} : Named[x].to = To(x)
      /\ Named[ops.op].to = IF ui.main = "paste" /\ ops.scan = "cwd" /\ Par(ops.op) = Nil
                            THEN Here ELSE To(ops.op)
  BY <1>1, <1>2, NamedLinks
<1>5. ASSUME NEW x \in C
      PROVE  /\ NextOf(x)' = NextOf(x) /\ Kid(x)' = Kid(x) /\ Par(x)' = Par(x)
             /\ Item(x)' = Item(x) /\ At(x)' = At(x)
             /\ To(x)' = IF /\ x = ops.op /\ ui.main = "paste" /\ scan.st = "cwd"
                           /\ Par(x) = Nil
                        THEN Here ELSE To(x)
  BY <1>1, <1>3, <1>4 DEF SameLinks, NextOf, Kid, Par, Item, At, To
<1>6. C \in SUBSET Nat /\ Nil \notin C /\ tree'.list = tree.list
  BY <1>1, <1>3, Addresses DEF Nodes
<1> QED
  BY <1>2, <1>5, <1>6

--------------------------------------------------------------------------------
\* Where the scan, and the task that copies, go from op.
Onward(op) == IF Kid(op) # Nil THEN Kid(op) ELSE NextUp(op)

\* The scan is done with op: U are the selected objects it has not come to.
Behind(C, A, op, U) ==
  /\ Path(A, op)
  /\ \A x \in U : Par(x) = Nil /\ \A y \in A \cup {op} : Par(y) = Nil => y < x
  /\ \A y \in A \cup {op} : \A z \in C : Par(z) = Par(y) /\ z > y => \A x \in C : Par(x) # z
  /\ \A x \in C : Par(x) = op => \A y \in C : Par(y) # x

\* It has come to q.
Reaching(C, B, q, U) ==
  /\ Path(B, q)
  /\ \A x \in U : \A y \in B \cup {q} : Par(y) = Nil => y < x \/ (x = q /\ y = q)
  /\ \A y \in B \cup {q} : \A z \in C : Par(z) = Par(y) /\ z > y => \A x \in C : Par(x) # z
  /\ \A x \in C : Par(x) # q

\* The scan of op is over, or there was none: the walk goes on.
LEMMA ScanGoesOn ==
  ASSUME Nodes, NEW C, Tree(C), NEW op \in C, NEW A \in SUBSET C, NEW U \in SUBSET C,
         Behind(C, A, op, U)
  PROVE  /\ Onward(op) = Nil => U = {}
         /\ Onward(op) # Nil =>
              Onward(op) \in C /\ \E B \in SUBSET C : Reaching(C, B, Onward(op), U)
<1> SUFFICES ASSUME NEW q, q = Onward(op)
             PROVE  /\ q = Nil => U = {}
                    /\ q # Nil => q \in C /\ \E B \in SUBSET C : Reaching(C, B, q, U)
  OBVIOUS
<1>0. /\ Path(A, op)
      /\ \A x \in U : Par(x) = Nil /\ \A y \in A \cup {op} : Par(y) = Nil => y < x
      /\ \A y \in A \cup {op} : \A z \in C : Par(z) = Par(y) /\ z > y => \A x \in C : Par(x) # z
      /\ \A x \in C : Par(x) = op => \A y \in C : Par(y) # x
  BY DEF Behind
<1>1. C \in SUBSET Nat /\ Nil \notin C
  BY Addresses DEF Tree, Nodes
<1>2. CASE Kid(op) # Nil
  <2>0. q = Kid(op)
    BY <1>2 DEF Onward
  <2>1. q \in C /\ op < q /\ Par(q) = op /\ Path(A \cup {op}, q)
    BY <1>0, <1>2, <2>0, WalkDown
  <2>2. PICK B \in SUBSET C : B = A \cup {op}
    OBVIOUS
  <2>3. \A x \in U : \A y \in B \cup {q} : Par(y) = Nil => y < x
    BY <1>0, <1>1, <2>1, <2>2
  <2>4. ASSUME NEW y \in B \cup {q}, NEW z \in C, Par(z) = Par(y), z > y
        PROVE  \A x \in C : Par(x) # z
    BY <1>0, <2>1, <2>2, <2>4
  <2>5. \A x \in C : Par(x) # q
    BY <1>0, <2>1
  <2> QED
    BY <1>1, <2>1, <2>2, <2>3, <2>4, <2>5 DEF Reaching
<1>3. CASE Kid(op) = Nil /\ NextUp(op) # Nil
  <2>0. q = NextUp(op)
    BY <1>3 DEF Onward
  <2>6. PICK b \in A \cup {op} :
           /\ NextUp(op) = NextOf(b) /\ NextOf(b) \in C /\ b < NextOf(b)
           /\ Par(NextOf(b)) = Par(b) /\ Path({x \in A : x < b}, NextOf(b))
    BY <1>0, <1>3, WalkOn
  <2>1. /\ q = NextOf(b) /\ q \in C /\ b < q /\ Par(q) = Par(b) /\ Path({x \in A : x < b}, q)
    BY <2>0, <2>6
  <2>2. PICK B \in SUBSET C : B = {x \in A : x < b}
    OBVIOUS
  <2>3. ASSUME NEW x \in U, NEW y \in B \cup {q}, Par(y) = Nil
        PROVE  y < x \/ (x = q /\ y = q)
    <3>1. CASE y \in B
      BY <1>0, <2>2, <2>3, <3>1
    <3>2. CASE y = q
      <4>1. Par(b) = Nil /\ b < x /\ Par(x) = Nil /\ x \in C /\ b \in C
        BY <1>0, <2>1, <2>3, <3>2
      <4>2. q <= x
        BY <2>1, <4>1, SiblingOrder
      <4>3. q \in Nat /\ x \in Nat
        BY <1>1, <2>1, <4>1
      <4> QED
        BY <3>2, <4>2, <4>3
    <3> QED
      BY <3>1, <3>2
  <2>4. ASSUME NEW y \in B \cup {q}, NEW z \in C, Par(z) = Par(y), z > y
        PROVE  \A x \in C : Par(x) # z
    <3>1. CASE y \in B
      BY <1>0, <2>2, <2>4, <3>1
    <3>2. CASE y = q
      <4>1. z > b
        <5>1. z \in Nat /\ b \in Nat /\ q \in Nat
          BY <1>1, <2>1
        <5> QED
          BY <2>1, <2>4, <3>2, <5>1
      <4> QED
        BY <1>0, <2>1, <2>4, <3>2, <4>1
    <3> QED
      BY <3>1, <3>2
  <2>5. \A x \in C : Par(x) # q
    <3>1. q > b
      BY <1>1, <2>1
    <3> QED
      BY <1>0, <2>1, <3>1
  <2> QED
    BY <1>1, <2>1, <2>2, <2>3, <2>4, <2>5 DEF Reaching
<1>4. CASE Kid(op) = Nil /\ NextUp(op) = Nil
  <2>1. \A x \in A \cup {op} : NextOf(x) = Nil
    BY <1>0, <1>4, Climbs
  <2>2. PICK y \in A \cup {op} : Par(y) = Nil
    BY <1>0, <1>1, PathTop
  <2>3. ASSUME NEW x \in U PROVE FALSE
    <3>1. y < x /\ Par(x) = Par(y) /\ x \in C /\ y \in C
      BY <1>0, <2>2
    <3>2. NextOf(y) # Nil
      BY <3>1, SiblingOrder
    <3> QED
      BY <2>1, <3>2
  <2> QED
    BY <1>4, <2>3 DEF Onward
<1> QED
  BY <1>2, <1>3, <1>4

\* A tick of the scan that finds nothing.
LEMMA ReadScanning ==
  ASSUME NEW C, Kept(C), Reading, ui.main = "paste", tree' = [list |-> tree.list, node |-> Named],
         NEW st \in {"cwd", "init", "dir"}, Walk(st, 0), scan'.st = st,
         st # "cwd" => scan.st # "dir",
         st = "dir" => (scan'.to = Nil <=> Named[ops.op].to = Nil)
  PROVE  Scanning(C)'
<1>1. Nodes /\ TypeParts /\ Control /\ OrderFacts /\ Items(C) /\ Scanning(C)
  BY KeptParts DEF Kept
<1>2. /\ Tree(C) /\ ops.op \in C /\ C \in SUBSET Nat /\ Nil \notin C /\ tree'.list = tree.list
      /\ \A x \in C : /\ NextOf(x)' = NextOf(x) /\ Kid(x)' = Kid(x) /\ Par(x)' = Par(x)
                      /\ To(x)' = IF x = ops.op /\ scan.st = "cwd" /\ Par(x) = Nil
                                 THEN Here ELSE To(x)
  BY KeptParts, ReadTree
<1>3. PICK op \in C : op = ops.op
  BY <1>2
<1>4. \A x \in C : To(x)' = IF x = op /\ scan.st = "cwd" /\ Par(x) = Nil THEN Here ELSE To(x)
  BY <1>2, <1>3
<1>14. st = "dir" => (scan'.to = Nil <=> To(op)' = Nil)
  <2>1. \A x \in C : To(x)' = Named[x].to
    BY DEF To
  <2>2. st = "dir" => \A x \in C : x = op => (scan'.to = Nil <=> Named[x].to = Nil)
    BY <1>3
  <2> QED
    BY <2>1, <2>2
<1>5. PICK A \in SUBSET C : Scanned(C, A, op)
  BY <1>1, <1>2, <1>3 DEF Scanning, Reading
<1>6. PICK q : q = IF st # "cwd" THEN op ELSE IF Kid(op) # Nil THEN Kid(op) ELSE NextUp(op)
  OBVIOUS
<1>7. ops'.op = q /\ ops'.st = ops.st
  BY <1>1, <1>2, <1>3, <1>6, WalkInside DEF TypeParts
<1> DEFINE U == {x \in C : Unnamed(x)'}
<1>8. Here # Nil
  BY FileOpsAssumption
<1>9. U \in SUBSET C /\ \A x \in U : Unnamed(x) /\ ~(x = op /\ scan.st = "cwd")
  BY <1>2, <1>4, <1>8 DEF Unnamed
<1>10. /\ Path(A, op)
       /\ \A x \in U : Par(x) = Nil /\ \A y \in A \cup {op} : Par(y) = Nil => y < x
       /\ \A y \in A \cup {op} : \A z \in C : Par(z) = Par(y) /\ z > y => \A x \in C : Par(x) # z
       /\ \A x \in C : Par(x) = op => \A y \in C : Par(y) # x
       /\ \A x \in C : Par(x) = op => scan.st = "dir"
  <2> HIDE DEF U
  <2> QED
    BY <1>5, <1>9 DEF Scanned, Unnamed
<1>11. Uniform(C)'
  BY <1>1, <1>2, <1>4 DEF Scanning, Uniform, SameTo, Reading, Tree
<1>12. q = Nil => \A x \in C : ~Unnamed(x)'
  <2>1. q = Nil => st = "cwd"
    BY <1>2, <1>6
  <2>2. q = Nil => U = {}
    <3> HIDE DEF U
    <3>1. q = Nil => q = Onward(op)
      BY <1>6, <2>1 DEF Onward
    <3>2. Behind(C, A, op, U)
      BY <1>10 DEF Behind
    <3> QED
      BY <1>1, <1>2, <1>9, <3>1, <3>2, ScanGoesOn
  <2> QED
    BY <2>2
<1>13. q # Nil => \E B \in SUBSET C : Scanned(C, B, q)'
  <2>1. CASE st # "cwd"
    <3>1. Path(A, op)' /\ q = op
      <4>1. q = op
        BY <1>6, <2>1
      <4>2. \A y \in A \cup {op} : Par(y)' = Par(y)
        BY <1>2
      <4>3. Path(A, op)
        BY <1>10
      <4> QED
        BY <4>1, <4>2, <4>3 DEF Path
    <3>2. /\ \A x \in C : Unnamed(x)' => \A y \in A \cup {op} : Par(y)' = Nil => y < x
          /\ \A y \in A \cup {op} : \A z \in C :
               Par(z)' = Par(y)' /\ z > y => \A x \in C : Par(x)' # z
          /\ \A x \in C : Par(x)' # op
      BY <1>2, <1>10, <2>1
    <3>3. scan'.st = "dir" => (scan'.to = Nil <=> To(op)' = Nil)
      BY <1>14
    <3>4. Scanned(C, A, op)'
      BY <3>1, <3>2, <3>3 DEF Scanned
    <3> QED
      BY <3>1, <3>4
  <2>2. CASE st = "cwd"
    <3>1. ASSUME q # Nil PROVE q \in C /\ \E B \in SUBSET C : Reaching(C, B, q, U)
      <4> HIDE DEF U
      <4>1. q = Onward(op)
        BY <1>6, <2>2 DEF Onward
      <4>2. Behind(C, A, op, U)
        BY <1>10 DEF Behind
      <4> QED
        BY <1>1, <1>2, <1>9, <3>1, <4>1, <4>2, ScanGoesOn
    <3> SUFFICES ASSUME q # Nil PROVE \E B \in SUBSET C : Scanned(C, B, q)'
      OBVIOUS
    <3>2. q \in C
      BY <3>1
    <3>3. PICK B \in SUBSET C : Reaching(C, B, q, U)
      BY <3>1
    <3>4. Path(B, q)'
      <4>1. \A y \in B \cup {q} : Par(y)' = Par(y)
        BY <1>2, <3>2
      <4>2. Path(B, q)
        BY <3>3 DEF Reaching
      <4> QED
        BY <4>1, <4>2 DEF Path
    <3>5. \A x \in C : Unnamed(x)' => \A y \in B \cup {q} : Par(y)' = Nil =>
            y < x \/ (x = q /\ y = q /\ scan'.st = "cwd")
      <4>1. \A x \in C : Unnamed(x)' => x \in U
        OBVIOUS
      <4>2. \A y \in B \cup {q} : Par(y)' = Par(y)
        BY <1>2, <3>2
      <4> HIDE DEF U
      <4>3. \A x \in U : \A y \in B \cup {q} : Par(y) = Nil => y < x \/ (x = q /\ y = q)
        BY <3>3 DEF Reaching
      <4> QED
        BY <2>2, <4>1, <4>2, <4>3
    <3>6. /\ \A y \in B \cup {q}, z \in C :
               Par(z)' = Par(y)' /\ z > y => \A x \in C : Par(x)' # z
          /\ \A x \in C : Par(x)' # q
      <4>1. \A y \in B \cup {q} : y \in C
        BY <3>2
      <4>2. /\ \A y \in B \cup {q} : \A z \in C :
                 Par(z) = Par(y) /\ z > y => \A x \in C : Par(x) # z
            /\ \A x \in C : Par(x) # q
        BY <3>3 DEF Reaching
      <4>3. \A x \in C : Par(x)' = Par(x)
        BY <1>2
      <4> QED
        BY <4>1, <4>2, <4>3
    <3>7. scan'.st # "dir"
      BY <2>2
    <3>8. Scanned(C, B, q)'
      BY <3>4, <3>5, <3>6, <3>7 DEF Scanned
    <3> QED
      BY <3>8
  <2> QED
    BY <2>1, <2>2
<1> QED
  BY <1>7, <1>11, <1>12, <1>13 DEF Scanning

--------------------------------------------------------------------------------
LEMMA ReadKept ==
  ASSUME NEW C, Kept(C), Sound(C)', Reading, tree' = [list |-> tree.list, node |-> Named],
         NEW st \in {"cwd", "init", "dir"}, Walk(st, 0), scan'.st = st,
         UNCHANGED <<disk, ui, sobj, ft, job>>,
         st # "cwd" => scan.st # "dir" /\ Item(ops.op) \in job.picked,
         st = "dir" => (scan'.to = Nil <=> Named[ops.op].to = Nil)
  PROVE  Kept(C)'
<1>1. Nodes /\ TypeParts /\ Control /\ OrderFacts /\ Items(C)
  BY KeptParts
<1>2. /\ Tree(C) /\ ops.op \in C
      /\ \A x \in C : Item(x)' = Item(x) /\ At(x)' = At(x) /\ Par(x)' = Par(x)
  BY KeptParts, ReadTree
<1>3. disk' = disk /\ ui' = ui /\ sobj' = sobj /\ ft' = ft /\ job' = job /\ ~ft.on
  BY <1>1 DEF Control, Reading
<1>4. /\ ops'.on = ops.on /\ ops'.st = "read" /\ ops'.op \in C \cup {Nil}
      /\ st # "cwd" => ops'.op = ops.op
  BY <1>1, <1>2, WalkInside DEF TypeParts, Reading
<1>5. OrderFacts'
  BY <1>1, <1>3, <1>4 DEF OrderFacts, Reading
<1>6. Items(C)'
  <2>1. \A x \in C : IF At(x)' = Here THEN Item(x)' \in job'.picked ELSE At(x)' \in job'.picked
    BY <1>1, <1>2, <1>3 DEF Items
  <2>2. \A x \in C : Par(x)' = Nil => At(x)' = Here
    BY <1>1, <1>2 DEF Items
  <2>3. PICK q : q = ops'.op
    OBVIOUS
  <2>4. q \in C /\ scan'.st # "cwd" => Item(q)' \in job'.picked
    <3>1. \A x \in C : x = ops.op /\ st # "cwd" => Item(x)' \in job.picked
      BY <1>2
    <3> QED
      BY <1>3, <1>4, <2>3, <3>1
  <2> QED
    BY <1>4, <2>1, <2>2, <2>3, <2>4 DEF Items
<1>7. Scanning(C)'
  <2>1. CASE ui.main = "paste"
    BY <2>1, ReadScanning
  <2> QED
    BY <1>3, <2>1 DEF Scanning
<1> QED
  BY <1>3, <1>5, <1>6, <1>7 DEF Kept, Writing, Copying, Deletes

LEMMA ReadFileKept == ASSUME NEW C, Kept(C), ReadFile PROVE Kept(C)'
<1>1. Sound(C)' /\ TypeParts /\ Control /\ Nodes
  BY KeptParts, ReadFileSound
<1>2. Reading /\ Walk("cwd", 0) /\ tree' = [tree EXCEPT !.node = Named] /\ scan' = scan
      /\ ops.scan = "cwd" /\ UNCHANGED <<disk, ui, sobj, ft, job>>
  BY DEF ReadFile
<1>3. tree' = [list |-> tree.list, node |-> Named] /\ scan'.st = "cwd"
  BY <1>1, <1>2 DEF Nodes, Control
<1> QED
  BY <1>1, <1>2, <1>3, ReadKept

LEMMA ScanEndKept == ASSUME NEW C, Kept(C), ScanEnd PROVE Kept(C)'
<1>1. Sound(C)' /\ TypeParts /\ Control /\ Nodes
  BY KeptParts, ScanEndSound
<1>2. Reading /\ Walk("cwd", 0) /\ tree' = [tree EXCEPT !.node = Named]
      /\ scan' = [scan EXCEPT !.st = "cwd"] /\ UNCHANGED <<disk, ui, sobj, ft, job>>
  BY DEF ScanEnd
<1>3. tree' = [list |-> tree.list, node |-> Named] /\ scan'.st = "cwd"
  BY <1>1, <1>2 DEF Nodes, TypeParts, ScanType
<1> QED
  BY <1>1, <1>2, <1>3, ReadKept

\* What a folder holds that is where a node says it is was selected with it.
LEMMA PresentPicked ==
  ASSUME OrderFacts, NEW C, Items(C), NEW x \in C, Present(tree.node[x])
  PROVE  Item(x) \in job.picked /\ Item(x) \in disk.home
<1>1. Item(x) \in disk.home /\ Up[Item(x)] = At(x)
  BY DEF Present, Item, At
<1>2. IF At(x) = Here THEN Item(x) \in job.picked ELSE At(x) \in job.picked
  BY DEF Items
<1> QED
  BY <1>1, <1>2 DEF OrderFacts

LEMMA ScanCwdKept == ASSUME NEW C, Kept(C), NEW ok \in BOOLEAN, ScanCwd(ok) PROVE Kept(C)'
<1>1. Sound(C)' /\ TypeParts /\ Control /\ Nodes /\ OrderFacts /\ Items(C)
  BY KeptParts, ScanCwdSound
<1>2. Reading /\ Walk(scan'.st, 0) /\ tree' = [tree EXCEPT !.node = Named] /\ scan.st = "cwd"
      /\ scan' = [scan EXCEPT !.st = IF ok THEN "init" ELSE "cwd"]
      /\ (ok => Present(tree.node[ops.op])) /\ UNCHANGED <<disk, ui, sobj, ft, job>>
  BY DEF ScanCwd
<1>3. tree' = [list |-> tree.list, node |-> Named] /\ scan'.st = IF ok THEN "init" ELSE "cwd"
  BY <1>1, <1>2 DEF Nodes, TypeParts, ScanType
<1>4. PICK st \in {"cwd", "init", "dir"} : st = (IF ok THEN "init" ELSE "cwd")
  OBVIOUS
<1>5. ops.op \in C
  BY <1>2, <1>3, KeptParts, ReadTree
<1>6. st # "cwd" => Item(ops.op) \in job.picked
  BY <1>1, <1>2, <1>4, <1>5, PresentPicked
<1>7. Walk(st, 0) /\ scan'.st = st /\ st # "dir" /\ (st # "cwd" => scan.st # "dir")
  BY <1>2, <1>3, <1>4
<1> QED
  BY <1>1, <1>2, <1>3, <1>6, <1>7, ReadKept

LEMMA ScanInitKept == ASSUME NEW C, Kept(C), NEW ok \in BOOLEAN, ScanInit(ok) PROVE Kept(C)'
<1>1. Sound(C)' /\ TypeParts /\ Control /\ Nodes /\ OrderFacts /\ Items(C)
  BY KeptParts, ScanInitSound
<1>2. PICK n : n = Named[ops.op]
  OBVIOUS
<1>3. Reading /\ Walk(scan'.st, 0) /\ tree' = [tree EXCEPT !.node = Named] /\ scan.st = "init"
      /\ n.item \in Folder
      /\ scan' = [st |-> IF ok THEN "dir" ELSE "cwd", todo |-> IF ok THEN Listing(cwd) ELSE {},
                  to |-> IF n.to = Nil THEN Nil ELSE n.item]
      /\ UNCHANGED <<disk, ui, sobj, ft, job>>
  BY <1>2 DEF ScanInit
<1>4. /\ tree' = [list |-> tree.list, node |-> Named]
      /\ scan'.st = (IF ok THEN "dir" ELSE "cwd") /\ (scan'.to = Nil <=> n.to = Nil)
  BY <1>1, <1>3, FileOpsAssumption DEF Nodes
<1>5. PICK st \in {"cwd", "init", "dir"} : st = (IF ok THEN "dir" ELSE "cwd")
  OBVIOUS
<1>6. ops.op \in C /\ ops.op # Nil
  BY <1>3, <1>4, KeptParts, ReadTree
<1>7. Item(ops.op) \in job.picked
  BY <1>1, <1>3, <1>6 DEF Items, Reading
<1>8. Walk(st, 0) /\ scan'.st = st
  BY <1>3, <1>4, <1>5
<1> QED
  BY <1>1, <1>2, <1>3, <1>4, <1>7, <1>8, ReadKept

--------------------------------------------------------------------------------
\* A child of the folder that is scanned is found.
LEMMA ScanDirNode ==
  ASSUME NEW C, Sound(C), NEW ok \in BOOLEAN, ScanDir(ok), NEW a, a = NewAddress
  PROVE  /\ Tree(C) /\ ops.op \in C /\ C \in SUBSET Nat /\ Nil \notin C
         /\ a \in Nat /\ a \notin C /\ a # Nil /\ tree'.list = tree.list
         /\ \A x \in C : /\ x < a /\ Par(x)' = Par(x) /\ To(x)' = To(x) /\ Item(x)' = Item(x)
                         /\ At(x)' = At(x)
         /\ Par(a)' = ops.op /\ To(a)' = scan.to /\ At(a)' = Item(ops.op) /\ At(a)' \in Folder
         /\ ops'.on = ops.on /\ ops'.st = ops.st /\ ops'.op = ops.op
         /\ scan'.st = "dir" /\ scan.st = "dir" /\ scan'.to = scan.to
<1>1. Nodes /\ TypeParts /\ Control /\ Shape(C) /\ C \in SUBSET Live
  BY SoundNodes, TypeByPart DEF Sound
<1>2. Tree(C) /\ ops.op \in C /\ C \in SUBSET Nat /\ Nil \notin C
  BY <1>1, Addresses DEF Reading, Control, Shape, Undone, Cursors, ScanDir, Nodes
<1>3. PICK e \in scan.todo :
        /\ Adds(C, Named, ops.op, NewNode(e, Item(ops.op), ops.op, scan.to))
        /\ scan' = [scan EXCEPT !.todo = IF ok THEN @ \ {e} ELSE {}]
        /\ Walk("dir", Size[e]) /\ e \in Entry /\ Size[e] \in Nat
  BY <1>1, ScanDirAdds
<1>4. scan'.st = "dir" /\ scan.st = "dir" /\ scan'.to = scan.to /\ ops.scan = "dir"
  BY <1>1, <1>3 DEF TypeParts, ScanType, ScanDir, Control
<1>5. /\ a \in Node \ Live /\ (tree.list # Nil => tree'.list = tree.list)
      /\ tree'.node[a].parent = ops.op /\ tree'.node[a].at = Item(ops.op)
      /\ tree'.node[a].to = scan.to
      /\ \A x \in Live : /\ tree'.node[x].parent = Par(x) /\ tree'.node[x].item = Item(x)
                         /\ tree'.node[x].at = At(x) /\ tree'.node[x].to = Named[x].to
  BY <1>1, <1>2, <1>3, AddLinks DEF NewNode
<1>6. \A x \in Live : Named[x].to = To(x)
  BY <1>4 DEF Named, To
<1>7. tree.list # Nil
  BY <1>2 DEF Tree
<1>8. a \in Nat /\ a \notin C /\ a # Nil /\ \A x \in C : x < a
  BY <1>1, <1>2, <1>5, Addresses DEF Tree
<1>9. /\ ops'.on = ops.on /\ ops'.st = ops.st /\ ops'.op = ops.op
  BY <1>1, <1>2, <1>3, WalkInside DEF TypeParts
<1>10. Item(ops.op) \in Folder
  BY DEF ScanDir, Item
<1>11. \A x \in C : /\ Par(x)' = Par(x) /\ To(x)' = To(x) /\ Item(x)' = Item(x)
                    /\ At(x)' = At(x)
  BY <1>1, <1>5, <1>6 DEF Par, To, Item, At
<1>12. Par(a)' = ops.op /\ To(a)' = scan.to /\ At(a)' = Item(ops.op)
  BY <1>5 DEF Par, To, At
<1> QED
  BY <1>2, <1>4, <1>5, <1>7, <1>8, <1>9, <1>10, <1>11, <1>12

LEMMA ScanDirKept ==
  ASSUME NEW C, Kept(C), NEW ok \in BOOLEAN, ScanDir(ok), NEW a, a = NewAddress
  PROVE  Kept(C \cup {a})'
<1>0. PICK K : K = C \cup {a}
  OBVIOUS
<1>1. Sound(C \cup {a})' /\ TypeParts /\ Control /\ OrderFacts /\ Items(C) /\ Scanning(C)
  BY KeptParts, ScanDirSound DEF Kept
<1>2. /\ Tree(C) /\ ops.op \in C /\ C \in SUBSET Nat /\ Nil \notin C
      /\ a \in Nat /\ a \notin C /\ a # Nil /\ tree'.list = tree.list
      /\ \A x \in C : /\ x < a /\ Par(x)' = Par(x) /\ To(x)' = To(x) /\ Item(x)' = Item(x)
                      /\ At(x)' = At(x)
      /\ Par(a)' = ops.op /\ To(a)' = scan.to /\ At(a)' = Item(ops.op) /\ At(a)' \in Folder
      /\ ops'.on = ops.on /\ ops'.st = ops.st /\ ops'.op = ops.op
      /\ scan'.st = "dir" /\ scan.st = "dir" /\ scan'.to = scan.to
  <2>1. Sound(C)
    BY KeptParts
  <2> QED
    BY <2>1, ScanDirNode
<1>3. PICK op \in C : op = ops.op
  BY <1>2
<1>4. Par(a)' = op /\ ops'.op = op
  BY <1>2, <1>3
<1>5. disk' = disk /\ ui' = ui /\ sobj' = sobj /\ ft' = ft /\ job' = job /\ ~ft.on /\ ops.on
      /\ ops.st = "read" /\ ui.main \in {"paste", "delete"}
  BY <1>1 DEF Control, Reading, ScanDir
<1>6. OrderFacts'
  BY <1>1, <1>2, <1>5 DEF OrderFacts
<1>7. Items(K)'
  <2>1. Item(op) \in job.picked
    BY <1>1, <1>2, <1>3, <1>5 DEF Items
  <2>2. At(a)' \in job.picked /\ At(a)' # Here
    BY <1>2, <1>3, <2>1, FileOpsAssumption
  <2>3. \A x \in K : IF At(x)' = Here THEN Item(x)' \in job.picked ELSE At(x)' \in job.picked
    BY <1>0, <1>1, <1>2, <2>2 DEF Items
  <2>4. \A x \in K : Par(x)' = Nil => At(x)' = Here
    BY <1>0, <1>1, <1>2, <1>4 DEF Items
  <2>5. Item(op)' \in job.picked
    BY <1>2, <2>1
  <2> QED
    BY <1>2, <1>4, <1>5, <2>3, <2>4, <2>5 DEF Items
<1>8. Scanning(K)'
  <2>1. SUFFICES ASSUME ui.main = "paste" PROVE Scanning(K)'
    BY <1>5 DEF Scanning
  <2>2. PICK A \in SUBSET C : Scanned(C, A, op)
    BY <1>1, <1>2, <1>3, <1>5, <2>1 DEF Scanning
  <2>3. Uniform(C)
    BY <1>1, <1>5, <2>1 DEF Scanning
  <2>4. \A x \in C : Par(x) \in C \cup {Nil} /\ Par(x) # x
    BY <1>2 DEF Tree
  <2>5. \A x \in C : Par(x) = op => (To(x) = Nil <=> scan.to = Nil)
    BY <2>2 DEF Scanned
  <2>6. Par(op) # Nil => (scan.to = Nil <=> To(op) = Nil)
    BY <1>2, <2>2 DEF Scanned
  <2>7. Uniform(K)'
    <3>1. ASSUME NEW x \in K, NEW y \in K, Par(x)' = Par(y)', Par(x)' # Nil
          PROVE  To(x)' = Nil <=> To(y)' = Nil
      BY <1>0, <1>2, <1>4, <2>3, <2>5, <3>1 DEF Uniform, SameTo
    <3>2. ASSUME NEW x \in K, NEW p \in C, p = Par(x)', Par(p)' # Nil
          PROVE  To(x)' = Nil <=> To(p)' = Nil
      BY <1>0, <1>2, <1>4, <2>3, <2>6, <3>2 DEF Uniform, SameTo
    <3>3. \A x \in K : Par(x)' \in C \cup {Nil}
      BY <1>0, <1>2, <1>4, <2>4
    <3> QED
      BY <1>2, <3>1, <3>2, <3>3 DEF Uniform, SameTo
  <2>8. Scanned(K, A, op)'
    <3>1. Path(A, op) /\ A \cup {op} \subseteq C /\ \A x \in A : x < op
      BY <2>2 DEF Scanned, Path
    <3>2. Path(A, op)'
      BY <1>2, <3>1 DEF Path
    <3>3. \A x \in K : Unnamed(x)' => x \in C /\ Unnamed(x)
      BY <1>0, <1>2, <1>4 DEF Unnamed
    <3>4. \A x \in K : Unnamed(x)' => \A y \in A \cup {op} : Par(y)' = Nil =>
            y < x \/ (x = op /\ y = op /\ scan'.st = "cwd")
      BY <1>2, <2>2, <3>1, <3>3 DEF Scanned
    <3>5. ASSUME NEW y \in A \cup {op}, NEW z \in K, Par(z)' = Par(y)', z > y
          PROVE  \A x \in K : Par(x)' # z
      <4>1. y \in C /\ Par(y)' = Par(y) /\ Par(y) # op
        <5>1. y \in A => Par(y) # op
          BY <1>2, <3>1 DEF Path
        <5> QED
          BY <1>2, <2>4, <3>1, <5>1
      <4>2. z # a /\ z \in C /\ Par(z) = Par(y)
        BY <1>0, <1>2, <1>4, <3>5, <4>1
      <4>3. \A x \in C : Par(x) # z
        BY <2>2, <3>5, <4>2 DEF Scanned
      <4>4. z # op
        <5>1. ASSUME z = op PROVE FALSE
          <6>1. y \in A /\ y < op /\ Par(op) = Par(y)
            BY <1>2, <3>1, <3>5, <4>2, <5>1
          <6>2. Par(op) # Nil /\ y <= Par(op)
            BY <3>1, <6>1 DEF Path
          <6>3. Par(y) # Nil => Par(y) < y /\ Par(y) \in C
            BY <1>2, <4>1 DEF Tree
          <6>4. y \in Nat /\ Par(y) \in Nat
            BY <1>2, <4>1, <6>1, <6>2, <6>3
          <6> QED
            BY <6>1, <6>2, <6>3, <6>4
        <5> QED
          BY <5>1
      <4> QED
        BY <1>0, <1>2, <1>4, <4>3, <4>4
    <3>6. ASSUME NEW x \in K, Par(x)' = op
          PROVE  (To(x)' = Nil <=> scan'.to = Nil) /\ \A y \in K : Par(y)' # x
      <4>1. CASE x = a
        BY <1>0, <1>2, <1>4, <2>4, <4>1
      <4>2. CASE x \in C
        <5>1. Par(x) = op /\ x # op
          BY <1>2, <2>4, <3>6, <4>2
        <5>2. (To(x) = Nil <=> scan.to = Nil) /\ \A y \in C : Par(y) # x
          BY <2>2, <4>2, <5>1 DEF Scanned
        <5> QED
          BY <1>0, <1>2, <1>4, <4>2, <5>1, <5>2
      <4> QED
        BY <1>0, <4>1, <4>2
    <3>7. Par(op)' # Nil => (scan'.to = Nil <=> To(op)' = Nil)
      BY <1>2, <2>6
    <3> QED
      BY <1>2, <3>2, <3>4, <3>5, <3>6, <3>7 DEF Scanned
  <2>9. A \in SUBSET K
    BY <1>0
  <2>10. op # Nil
    BY <1>2
  <2> QED
    BY <1>4, <2>7, <2>8, <2>9, <2>10 DEF Scanning
<1>9. Kept(K)'
  BY <1>0, <1>1, <1>5, <1>6, <1>7, <1>8 DEF Kept, Writing, Copying, Deletes
<1> QED
  BY <1>0, <1>9

--------------------------------------------------------------------------------
\* The walk of the scan is over: the file task starts, and there is room for what it copies.
LEMMA OpsDoneKept == ASSUME NEW C, Kept(C), OpsDone, HasRoom PROVE Kept(C)'
<1>1. Sound(C)' /\ TypeParts /\ Control /\ OrderFacts /\ Items(C) /\ Scanning(C)
  BY KeptParts, OpsDoneSound DEF Kept
<1>2. /\ ops.on /\ ops.st = "read" /\ ops.op = Nil /\ ui.main \in {"paste", "delete"}
      /\ tree' = tree /\ disk' = disk /\ job' = job /\ scan' = scan /\ sobj' = {} /\ ~ft.on
  BY <1>1 DEF OpsDone, OpsEnd, Control
<1>3. ui'.main = ui.main /\ ui'.cut = ui.cut /\ ui'.menu = "none"
  <2>1. TRUE \notin Full
    BY <1>2 DEF HasRoom, Full, Counting, NoSpace
  <2>2. PICK full \in Full : OpsEnd(IF full THEN "delete" ELSE ui.main)
    BY DEF OpsDone
  <2>3. full = FALSE
    BY <2>1 DEF Full, Counting, NoSpace
  <2> QED
    BY <1>1, <1>2, <2>2, <2>3 DEF OpsEnd, TypeParts, UiType
<1>4. ft' = [on |-> TRUE, st |-> "init", op |-> Nil, last |-> Nil, pos |-> 0]
  BY DEF OpsDone, NoFile
<1>5. ~ops'.on /\ ops'.st = "init" /\ ops'.op = Nil
  BY DEF OpsDone, OpsEnd, NoOps
<1>6. OrderFacts'
  BY <1>1, <1>2, <1>3, <1>5 DEF OrderFacts
<1>7. Items(C)'
  BY <1>1, <1>2, <1>3, <1>4, <1>5, StillNodes DEF Items
<1>8. Copying(C)'
  <2>1. CASE ui.main = "paste"
    <3>1. Uniform(C) /\ \A x \in C : ~Unnamed(x)
      BY <1>1, <1>2, <2>1 DEF Scanning
    <3>2. Uniform(C)' /\ \A x \in C : ~Unnamed(x)'
      BY <1>2, <3>1, StillNodes DEF Uniform, SameTo, Unnamed
    <3> QED
      BY <1>4, <3>2 DEF Copying
  <2> QED
    BY <1>2, <1>3, <2>1 DEF Copying
<1>9. Deletes(C)'
  BY <1>1, <1>2, <1>3 DEF Deletes, OrderFacts
<1> QED
  BY <1>1, <1>4, <1>5, <1>6, <1>7, <1>8, <1>9 DEF Kept, Writing, Scanning

\* What stays when only the file task moves.
LEMMA FileTickKept ==
  ASSUME NEW C, Kept(C), ft.on, ft'.on, UNCHANGED <<ui, sobj, ops, scan, job, disk, tree>>
  PROVE  /\ OrderFacts' /\ Items(C)' /\ Scanning(C)'
         /\ \A x \in C : Done(x)' <=> Done(x)
<1>1. Control /\ OrderFacts /\ Items(C)
  BY KeptParts
<1>2. Items(C)'
  BY <1>1, StillNodes DEF Items, Control
<1>3. OrderFacts' /\ Scanning(C)'
  BY <1>1 DEF OrderFacts, Scanning, Control
<1> QED
  BY <1>2, <1>3 DEF Done, Whole, Item

\* The file task starts at the head.
LEMMA FileStartKept == ASSUME NEW C, Kept(C), FileStart PROVE Kept(C)'
<1>1. Sound(C)' /\ TypeParts /\ Control /\ Nodes /\ Shape(C) /\ Copying(C) /\ Deletes(C)
  BY KeptParts, FileStartSound DEF Kept
<1>2. ft.on /\ ft.st = "init" /\ ft' = [ft EXCEPT !.op = tree.list, !.st = "proc"]
      /\ UNCHANGED <<ui, sobj, ops, scan, job, disk, tree>>
  BY DEF FileStart
<1>3. ft'.on /\ ft'.st = "proc" /\ ft'.op = tree.list /\ ft'.last = ft.last
  BY <1>1, <1>2 DEF TypeParts, FtType
<1>4. OrderFacts' /\ Items(C)' /\ Scanning(C)' /\ \A x \in C : Done(x)' <=> Done(x)
  BY <1>2, <1>3, FileTickKept
<1>5. Copying(C)'
  <2>1. CASE ui.main = "paste"
    <3>1. Uniform(C) /\ (\A x \in C : ~Unnamed(x)) /\ ft.last = Nil
      BY <1>1, <1>2, <2>1 DEF Copying
    <3>2. Uniform(C)' /\ \A x \in C : ~Unnamed(x)'
      BY <1>2, <3>1, StillNodes DEF Uniform, SameTo, Unnamed
    <3>3. PICK q : q = tree.list
      OBVIOUS
    <3>4. q # Nil => Par(q)' = Nil
      BY <1>1, <1>2, <3>3, StillNodes DEF Shape, Undone, Tree
    <3>5. (q # Nil => Path({}, q)') /\ CopiedTo(C, {}, q)'
      <4>1. q # Nil => Path({}, q)'
        BY <3>4 DEF Path
      <4>2. Walked(C, {}, {}, q)'
        BY <1>2, <3>3 DEF Walked
      <4>3. ft'.last = Nil
        BY <1>3, <3>1
      <4> QED
        BY <4>1, <4>2, <4>3 DEF CopiedTo
    <3> QED
      BY <1>2, <1>3, <3>1, <3>2, <3>3, <3>5 DEF Copying
  <2> QED
    BY <1>2, <2>1 DEF Copying
<1>6. Deletes(C)'
  BY <1>1, <1>2, <1>3, <1>4 DEF Deletes
<1> QED
  BY <1>1, <1>3, <1>4, <1>5, <1>6 DEF Kept, Writing

\* All is copied: what was cut may be deleted.
LEMMA PasteDoneKept ==
  ASSUME NEW C, Kept(C), PasteDone, ui.cut /\ ~Same(tree.node[ft.last])
  PROVE  Kept(C)'
<1>1. Sound(C)' /\ TypeParts /\ Control /\ Nodes /\ Shape(C) /\ Copying(C) /\ OrderFacts
  BY KeptParts, PasteDoneSound DEF Kept
<1>2. /\ ft.on /\ ft.st = "proc" /\ ft.op = Nil /\ ui.main = "paste"
      /\ ui' = [ui EXCEPT !.main = "delete"] /\ ft' = [ft EXCEPT !.st = "init"]
      /\ UNCHANGED <<sobj, ops, scan, job, disk, tree>>
  BY DEF PasteDone
<1>3. ft'.on /\ ft'.st = "init" /\ ui'.main = "delete" /\ ui'.menu = "none" /\ ~ops.on
  BY <1>1, <1>2 DEF TypeParts, FtType, UiType, Control
<1>4. \A x \in C : Done(x)
  <2>1. PICK A \in SUBSET C : CopiedTo(C, A, Nil)
    BY <1>1, <1>2 DEF Copying, Renaming
  <2>2. PICK D \in SUBSET C : Walked(C, D, A, Nil) /\ \A x \in D : Done(x)
    BY <1>2, <2>1 DEF CopiedTo
  <2>3. /\ tree.list \in D \cup {Nil}
        /\ \A x \in D : Kid(x) \in D \cup {Nil} /\ NextOf(x) \in D \cup {Nil}
    BY <2>2 DEF Walked
  <2>4. Tree(C)
    BY <1>1, <1>2 DEF Shape, Undone
  <2> QED
    BY <1>1, <2>2, <2>3, <2>4, AllReached
<1>5. \A x \in C : Done(x)'
  BY <1>2, <1>4 DEF Done, Whole, Item
<1>6. OrderFacts'
  BY <1>1, <1>2, <1>3 DEF OrderFacts
<1>7. Items(C)'
  BY <1>2, <1>3, StillNodes, KeptParts DEF Items
<1>8. job.kind = "cut"
  BY <1>1, <1>2 DEF OrderFacts
<1> QED
  BY <1>1, <1>2, <1>3, <1>5, <1>6, <1>7, <1>8 DEF Kept, Writing, Scanning, Copying, Deletes

\* The deletion goes down,
LEMMA DescendKept == ASSUME NEW C, Kept(C), Descend PROVE Kept(C)'
<1>1. Sound(C)' /\ TypeParts /\ Deletes(C)
  BY KeptParts, DescendSound DEF Kept
<1>2. PICK q : q = Kid(ft.op)
  OBVIOUS
<1>3. ft.on /\ ui.main = "delete" /\ ft' = [ft EXCEPT !.op = q]
      /\ UNCHANGED <<ui, sobj, ops, scan, job, disk, tree>>
  BY <1>2 DEF Descend, Deleting, Undone, Kid
<1>4. ft'.on
  BY <1>1, <1>3 DEF TypeParts, FtType
<1>5. OrderFacts' /\ Items(C)' /\ Scanning(C)' /\ \A x \in C : Done(x)' <=> Done(x)
  BY <1>3, <1>4, FileTickKept
<1>6. Deletes(C)'
  BY <1>1, <1>3, <1>5 DEF Deletes
<1> QED
  BY <1>1, <1>3, <1>5, <1>6 DEF Kept, Writing, Copying

\* and unlinks what has no child left.
LEMMA UnlinkKept ==
  ASSUME NEW C, Kept(C), Unlink, NEW op, op = ft.op
  PROVE  Kept(C \ {op})'
<1>0. PICK K : K = C \ {op}
  OBVIOUS
<1>1. /\ Sound(C \ {op})' /\ TypeParts /\ Nodes /\ Shape(C) /\ OrderFacts /\ Items(C)
      /\ Deletes(C) /\ Control /\ C \in SUBSET Live
  BY KeptParts, UnlinkSound DEF Kept
<1>2. /\ ft.on /\ ui.main = "delete" /\ ft.st = "proc" /\ ft.op # Nil
      /\ Unlinkable(tree.node[ft.op])
      /\ UNCHANGED <<ui, sobj, ops, scan, job>> /\ ~ops.on
  BY <1>1 DEF Unlink, Deleting, Undone, Control
<1>3. op \in Live
  BY <1>1, <1>2 DEF Shape, Cursors
<1>4. tree' = [tree EXCEPT !.node =
        [a \in Live \ {op} |-> IF NextOf(op) = Nil /\ a = Par(op)
                               THEN [tree.node[a] EXCEPT !.child = Nil] ELSE tree.node[a]]]
  BY DEF Unlink, NextOf, Par
<1>5. \A x \in K : Item(x)' = Item(x) /\ At(x)' = At(x) /\ Par(x)' = Par(x)
  BY <1>0, <1>1, <1>3, <1>4, Unlinks DEF Item, At, Par
<1>6. /\ disk'.home = disk.home \ {Item(op)} /\ disk'.names = disk.names /\ disk'.got = disk.got
      /\ ft'.on
  BY <1>1, <1>2 DEF Unlink, TypeParts, DiskType, FtType, Item
<1>7. \A e \in disk.home : Up[e] # Item(op)
  BY <1>2 DEF Unlinkable, Item
<1>8. OrderFacts'
  BY <1>1, <1>2, <1>6, <1>7 DEF OrderFacts
<1>9. Items(K)'
  BY <1>0, <1>1, <1>2, <1>5, <1>6 DEF Items
<1>10. Deletes(K)'
  <2>1. \A x \in K : Done(x) => Done(x)'
    BY <1>5, <1>6 DEF Done, Whole
  <2> QED
    BY <1>0, <1>1, <1>2, <2>1 DEF Deletes
<1>11. Kept(K)'
  BY <1>0, <1>1, <1>2, <1>8, <1>9, <1>10 DEF Kept, Writing, Scanning, Copying
<1> QED
  BY <1>0, <1>11

--------------------------------------------------------------------------------
\* A block is written: the file grows by it, or is complete.
LEMMA BlockWritten ==
  ASSUME NEW C, Kept(C), PasteBlock, HasRoom, NEW e, e = Item(ft.last)
  PROVE  /\ ft.on /\ ui.main = "paste" /\ ft.st = "file" /\ ft.last \in C
         /\ e \in (disk.home \cap job.picked \cap disk.names) \ Folder
         /\ UNCHANGED <<ui, sobj, ops, scan, cwd, tree, job>>
         /\ disk'.home = disk.home /\ disk'.names = disk.names
         /\ \A f \in Entry \ {e} : disk'.got[f] = disk.got[f]
         /\ ft'.on /\ ft'.op = ft.op /\ ft'.last = ft.last
         /\ (ft'.st = "file" /\ disk'.got[e] = ft'.pos) \/ (ft'.st = "proc" /\ Whole(e)')
         /\ \A f \in Entry : Whole(f) => Whole(f)'
         /\ \A f \in Entry \ {e} : Whole(f)' => Whole(f)
<1>1. TypeParts /\ Control /\ Writing /\ Shape(C) /\ C \in SUBSET Live
  BY KeptParts DEF Kept
<1>2. /\ ft.on /\ ui.main = "paste" /\ ft.st = "file" /\ ft.last \in C
      /\ UNCHANGED <<ui, sobj, ops, scan, cwd, tree, job>>
  BY <1>1 DEF PasteBlock, Shape, Cursors
<1>3. e \in (disk.home \cap job.picked \cap disk.names) \ Folder /\ disk.got[e] = ft.pos
  BY <1>1, <1>2 DEF Writing
<1>4. e \in Entry /\ Size[e] \in Nat /\ ft.pos \in Nat /\ disk.got \in [Entry -> Nat]
  BY <1>1, <1>3, FileOpsAssumption DEF TypeParts, DiskType, FtType
<1>5. PICK fits \in {0, 1} : fits = IF disk.room > 0 /\ ft.pos < Size[e] THEN 1 ELSE 0
  OBVIOUS
<1>6. /\ disk' = [disk EXCEPT !.got[e] = @ + fits, !.room = @ - fits]
      /\ ft' = [ft EXCEPT !.pos = @ + 1, !.st = IF ft.pos + 1 >= Size[e] THEN "proc" ELSE "file"]
  BY <1>5 DEF PasteBlock, Item
<1>7. /\ disk'.home = disk.home /\ disk'.names = disk.names
      /\ disk'.got = [disk.got EXCEPT ![e] = @ + fits]
  BY <1>1, <1>6 DEF TypeParts, DiskType
<1>8. /\ ft'.on /\ ft'.op = ft.op /\ ft'.last = ft.last /\ ft'.pos = ft.pos + 1
      /\ ft'.st = IF ft.pos + 1 >= Size[e] THEN "proc" ELSE "file"
  <2>1. PICK st \in {"proc", "file"} : st = IF ft.pos + 1 >= Size[e] THEN "proc" ELSE "file"
    OBVIOUS
  <2>2. ft' = [ft EXCEPT !.pos = ft.pos + 1, !.st = st]
    BY <1>6, <2>1
  <2> QED
    BY <1>1, <1>2, <2>1, <2>2 DEF TypeParts, FtType
<1>9. disk'.got[e] = ft.pos + fits /\ \A f \in Entry \ {e} : disk'.got[f] = disk.got[f]
  BY <1>3, <1>4, <1>7
<1>10. fits = IF ft.pos < Size[e] THEN 1 ELSE 0
  BY <1>2, <1>5 DEF HasRoom
<1>11. ft.pos = 0 \/ ft.pos < Size[e]
  BY <1>1, <1>2 DEF Control
<1>12. (ft'.st = "file" /\ disk'.got[e] = ft'.pos) \/ (ft'.st = "proc" /\ Whole(e)')
  <2>1. CASE ft.pos + 1 >= Size[e]
    <3>1. ft.pos + fits = Size[e]
      BY <1>4, <1>10, <1>11, <2>1
    <3>2. Whole(e)'
      BY <1>3, <1>7, <1>9, <3>1 DEF Whole
    <3> QED
      BY <1>8, <2>1, <3>2
  <2>2. CASE ~(ft.pos + 1 >= Size[e])
    <3>1. fits = 1
      BY <1>4, <1>10, <2>2
    <3>2. ft'.st = "file"
      BY <1>8, <2>2
    <3>3. disk'.got[e] = ft'.pos
      BY <1>8, <1>9, <3>1
    <3> QED
      BY <3>2, <3>3
  <2> QED
    BY <2>1, <2>2
<1>13. Whole(e) => Whole(e)'
  BY <1>3, <1>4, <1>7, <1>9, <1>10 DEF Whole
<1>14. \A f \in Entry \ {e} : Whole(f)' <=> Whole(f)
  BY <1>7, <1>9 DEF Whole
<1> QED
  BY <1>2, <1>3, <1>7, <1>8, <1>9, <1>12, <1>13, <1>14

LEMMA PasteBlockKept == ASSUME NEW C, Kept(C), PasteBlock, HasRoom PROVE Kept(C)'
<1>1. /\ Sound(C)' /\ TypeParts /\ Nodes /\ OrderFacts /\ Items(C) /\ Copying(C) /\ Control
      /\ C \in SUBSET Live
  BY KeptParts, PasteBlockSound DEF Kept
<1>2. PICK e : e = Item(ft.last)
  OBVIOUS
<1>3. /\ ft.on /\ ui.main = "paste" /\ ft.st = "file" /\ ft.last \in C
      /\ e \in (disk.home \cap job.picked \cap disk.names) \ Folder
      /\ UNCHANGED <<ui, sobj, ops, scan, cwd, tree, job>>
      /\ disk'.home = disk.home /\ disk'.names = disk.names
      /\ \A f \in Entry \ {e} : disk'.got[f] = disk.got[f]
      /\ ft'.on /\ ft'.op = ft.op /\ ft'.last = ft.last
      /\ (ft'.st = "file" /\ disk'.got[e] = ft'.pos) \/ (ft'.st = "proc" /\ Whole(e)')
      /\ \A f \in Entry : Whole(f) => Whole(f)'
  BY <1>2, BlockWritten
<1>4. OrderFacts'
  BY <1>1, <1>3 DEF OrderFacts
<1>5. Items(C)'
  BY <1>1, <1>3, StillNodes DEF Items
<1>6. Writing'
  <2>1. Item(ft.last)' = e
    BY <1>2, <1>3 DEF Item
  <2> QED
    BY <1>3, <2>1 DEF Writing
<1>7. \A x \in C : Item(x) \in Entry
  BY <1>1 DEF Nodes, NodeRec, Item
<1>8. ASSUME NEW x \in C, Done(x) \/ (ft.st = "file" /\ x = ft.last)
      PROVE  Done(x)' \/ (ft'.st = "file" /\ x = ft'.last)
  <2>1. Done(x) => Done(x)'
    BY <1>3, <1>7 DEF Done, Whole, Item
  <2>2. x = ft.last => Item(x) = e
    BY <1>2
  <2>3. Item(x)' = Item(x)
    BY <1>3 DEF Item
  <2>4. Item(x)' = e /\ Whole(e)' => Done(x)'
    BY <1>3 DEF Done
  <2> QED
    BY <1>3, <1>8, <2>1, <2>2, <2>3, <2>4
<1>9. Copying(C)'
  <2>1. Uniform(C) /\ \A x \in C : ~Unnamed(x)
    BY <1>1, <1>3 DEF Copying
  <2>2. Uniform(C)' /\ \A x \in C : ~Unnamed(x)'
    BY <1>3, <2>1, StillNodes DEF Uniform, SameTo, Unnamed
  <2>3. PICK q : q = ft.op
    OBVIOUS
  <2>4. ASSUME ui.cut
        PROVE  \E A \in SUBSET C : (q # Nil => Path(A, q)') /\ (Renaming' \/ CopiedTo(C, A, q)')
    <3>1. PICK A \in SUBSET C : (q # Nil => Path(A, q)) /\ (Renaming \/ CopiedTo(C, A, q))
      BY <1>1, <1>3, <2>3, <2>4 DEF Copying
    <3>2. q # Nil => Path(A, q)'
      BY <1>3, <3>1 DEF Path, Par
    <3>3. Renaming => Renaming'
      BY <1>3 DEF Renaming, Same, To
    <3>4. ASSUME CopiedTo(C, A, q) PROVE CopiedTo(C, A, q)'
      <4>1. PICK D \in SUBSET C : /\ Walked(C, D, A, q)
                                  /\ \A x \in D : Done(x) \/ (ft.st = "file" /\ x = ft.last)
        BY <3>4 DEF CopiedTo
      <4>2. Walked(C, D, A, q)'
        BY <1>3, <4>1 DEF Walked, Kid, NextOf
      <4>3. \A x \in D : Done(x)' \/ (ft'.st = "file" /\ x = ft'.last)
        BY <1>8, <4>1
      <4>4. ft'.last = Nil \/ ~Same(tree.node[ft.last])'
        BY <1>3, <3>4 DEF CopiedTo, Same
      <4> QED
        BY <1>3, <4>2, <4>3, <4>4 DEF CopiedTo
    <3> QED
      BY <3>1, <3>2, <3>3, <3>4
  <2> QED
    BY <1>3, <2>2, <2>3, <2>4 DEF Copying
<1>10. Scanning(C)' /\ Deletes(C)'
  BY <1>1, <1>3 DEF Control, Scanning, Deletes
<1> QED
  BY <1>1, <1>4, <1>5, <1>6, <1>9, <1>10 DEF Kept

--------------------------------------------------------------------------------
\* The walk past a node that is copied.
LEMMA WalkCopied ==
  ASSUME Nodes, NEW C, Tree(C), NEW op \in C, NEW A \in SUBSET C, Path(A, op),
         NEW D \in SUBSET C, Walked(C, D, A, op),
         NEW q, q = IF Kid(op) # Nil THEN Kid(op) ELSE NextUp(op)
  PROVE  \E B \in SUBSET C : (q # Nil => Path(B, q)) /\ Walked(C, D \cup {op}, B, q)
<1>1. C \in SUBSET Nat /\ Nil \notin C
  BY Addresses DEF Tree, Nodes
<1>2. /\ A \subseteq D /\ tree.list \in D \cup {op}
      /\ \A x \in D : Kid(x) \in D \cup {op, Nil} /\ (x \notin A => NextOf(x) \in D \cup {op, Nil})
  BY DEF Walked
<1>3. CASE Kid(op) # Nil
  <2>1. q \in C /\ Path(A \cup {op}, q)
    BY <1>3, WalkDown
  <2>2. Walked(C, D \cup {op}, A \cup {op}, q)
    BY <1>1, <1>2, <1>3, <2>1 DEF Walked
  <2> QED
    BY <2>1, <2>2
<1>4. CASE Kid(op) = Nil /\ NextUp(op) # Nil
  <2>1. PICK b \in A \cup {op} :
          /\ q = NextOf(b) /\ q \in C
          /\ \A x \in A \cup {op} : x > b => NextOf(x) = Nil
          /\ Path({x \in A : x < b}, q)
    BY <1>4, WalkOn
  <2>2. PICK B : B = {x \in A : x < b}
    OBVIOUS
  <2>3. ASSUME NEW x \in D \cup {op}, x \notin B PROVE NextOf(x) \in D \cup {op, q, Nil}
    <3>1. x \in Nat /\ b \in Nat /\ (x \notin A \cup {op} \/ x = b \/ x > b)
      BY <1>1, <2>2, <2>3 DEF Path
    <3> QED
      BY <1>2, <2>1, <3>1
  <2>4. B \in SUBSET C /\ B \subseteq D \cup {op} /\ q # Nil
    BY <1>1, <1>2, <2>1, <2>2
  <2>5. Walked(C, D \cup {op}, B, q)
    BY <1>2, <1>4, <2>3, <2>4 DEF Walked
  <2> QED
    BY <2>1, <2>2, <2>4, <2>5
<1>5. CASE Kid(op) = Nil /\ NextUp(op) = Nil
  <2>1. \A x \in A \cup {op} : NextOf(x) = Nil
    <3>1. ASSUME NEW b \in A \cup {op}, NextUp(op) = NextOf(b), NextOf(b) # Nil PROVE FALSE
      BY <1>5, <3>1
    <3> QED
      BY <3>1, Climbs
  <2>2. Walked(C, D \cup {op}, {}, q)
    BY <1>2, <1>5, <2>1 DEF Walked
  <2> QED
    BY <1>5, <2>2
<1> QED
  BY <1>3, <1>4, <1>5

\* Past one that is renamed it goes on with one that has a destination too.
LEMMA WalkRenamed ==
  ASSUME Nodes, NEW C, Tree(C), Uniform(C), \A x \in C : ~Unnamed(x),
         NEW op \in C, NEW A \in SUBSET C, Path(A, op), To(op) # Nil,
         NEW q, q = NextUp(op), q # Nil
  PROVE  To(q) # Nil /\ \E B \in SUBSET C : Path(B, q)
<1>1. C \in SUBSET Nat /\ Nil \notin C
  BY Addresses DEF Tree, Nodes
<1>2. PICK b \in A \cup {op} : /\ q = NextOf(b) /\ q \in C /\ q # tree.list /\ Par(q) = Par(b)
                              /\ Path({x \in A : x < b}, q)
  <2>1. NextUp(op) # Nil
    OBVIOUS
  <2>2. PICK b \in A \cup {op} :
          /\ NextUp(op) = NextOf(b) /\ NextOf(b) \in C /\ NextOf(b) # tree.list
          /\ b < NextOf(b) /\ Par(NextOf(b)) = Par(b)
          /\ \A x \in A \cup {op} : x > b => NextOf(x) = Nil
          /\ Path({x \in A : x < b}, NextOf(b))
    BY <2>1, WalkOn
  <2> QED
    BY <2>2
<1>3. ASSUME Par(q) = Nil PROVE To(q) # Nil
  BY <1>2, <1>3 DEF Unnamed
<1>4. ASSUME Par(q) # Nil PROVE To(q) # Nil
  <2>1. SameTo(q, b)
    BY <1>2, <1>4 DEF Uniform
  <2>2. CASE b = op
    BY <2>1, <2>2 DEF SameTo
  <2>3. CASE b # op
    <3>1. Par(op) # Nil
      BY <1>2, <2>3 DEF Path
    <3>2. SameTo(b, op)
      BY <1>2, <1>4, <3>1, PathUniform
    <3> QED
      BY <2>1, <3>2 DEF SameTo
  <2> QED
    BY <2>2, <2>3
<1>5. {x \in A : x < b} \in SUBSET C
  OBVIOUS
<1> QED
  BY <1>2, <1>3, <1>4, <1>5

\* What is in what the user has selected, and is still at home, was selected with it.
LEMMA UnderPicked ==
  ASSUME OrderFacts, disk.home \subseteq Entry, NEW e \in job.picked, e \in disk.home
  PROVE  Under({e}) \cap disk.home \subseteq job.picked
<1> DEFINE T == {x \in Entry : x \in disk.home => x \in job.picked}
<1>1. ASSUME NEW x \in Entry, Up[x] \in T PROVE x \in T
  <2>1. x \in disk.home => Up[x] \in disk.home
    BY <1>1, FileOpsAssumption DEF OrderFacts
  <2> QED
    BY <1>1, <2>1 DEF OrderFacts
<1>2. {e} \subseteq T /\ T \in SUBSET Entry /\ {e} \in SUBSET Entry
  OBVIOUS
<1> HIDE DEF T
<1>3. Under({e}) \subseteq T
  BY <1>1, <1>2, UnderLeast
<1> QED
  BY <1>3 DEF T

\* An object is pasted: "gone" moves with all that is in it, "made" is opened or made.
Pastes(n, gone, made) ==
  /\ gone \subseteq disk.home \cap job.picked /\ (gone # {} => Moves(n))
  /\ made \subseteq {n.item} /\ (made # {} => ~Moves(n))
  /\ ~Moves(n) /\ n.item \notin Folder =>
       made = {n.item} /\ n.item \in (disk.home \cap job.picked) \ disk.names
  /\ \A e \in disk.home \ gone : Up[e] \notin gone
  /\ disk'.home = disk.home \ gone /\ disk'.names = disk.names \cup gone \cup made
  /\ \A e \in Entry : disk'.got[e] = IF e \in gone THEN Size[e] ELSE disk.got[e]

LEMMA PasteActs ==
  ASSUME NEW C, Kept(C), PasteObject, NEW n, n = tree.node[ft.op]
  PROVE  \E gone, made \in SUBSET Entry : Pastes(n, gone, made)
<1>1. TypeParts /\ OrderFacts /\ Items(C) /\ Shape(C) /\ Nodes /\ C \in SUBSET Live
  BY KeptParts
<1>2. /\ ft.op \in C /\ Grants(n) /\ disk' = (IF Moves(n) THEN Renamed(n) ELSE Created(n))
      /\ n \in NodeRec
  BY <1>1 DEF PasteObject, Pasting, Shape, Cursors, Nodes
<1>3. disk \in DiskType /\ disk.home \subseteq Entry
  BY <1>1 DEF TypeParts, DiskType
<1>4. Present(n) => n.item \in job.picked \cap disk.home
  BY <1>1, <1>2, PresentPicked DEF Item
<1>5. CASE Moves(n)
  <2>1. Present(n) /\ n.item \in job.picked \cap disk.home
    BY <1>2, <1>4, <1>5 DEF Grants
  <2>2. CASE n.item \in disk.names
    <3>1. disk' = disk
      BY <1>2, <1>5, <2>2 DEF Renamed
    <3>2. Pastes(n, {}, {})
      BY <1>5, <3>1 DEF Pastes
    <3> QED
      BY <3>2
  <2>3. CASE n.item \notin disk.names
    <3>1. PICK gone \in SUBSET Entry : gone = Under({n.item}) \cap disk.home
      BY <1>3
    <3>2. gone \subseteq disk.home \cap job.picked
      BY <1>1, <1>3, <2>1, <3>1, UnderPicked
    <3>3. \A e \in disk.home \ gone : Up[e] \notin gone
      <4>1. {n.item} \in SUBSET Entry
        BY <1>3, <2>1
      <4>2. \A e \in Entry : Up[e] \in Under({n.item}) => e \in Under({n.item})
        BY <4>1, UnderClosed
      <4> QED
        BY <1>3, <3>1, <4>2
    <3>4. PICK got : got = [e \in Entry |-> IF e \in gone THEN Size[e] ELSE disk.got[e]]
      OBVIOUS
    <3>5. disk' = [disk EXCEPT !.home = disk.home \ gone, !.names = disk.names \cup gone,
                               !.got = got]
      BY <1>2, <1>5, <2>3, <3>1, <3>4 DEF Renamed
    <3>6. /\ disk'.home = disk.home \ gone /\ disk'.names = disk.names \cup gone /\ disk'.got = got
      BY <1>3, <3>5 DEF DiskType
    <3>7. Pastes(n, gone, {})
      BY <1>5, <3>2, <3>3, <3>4, <3>6 DEF Pastes
    <3> QED
      BY <3>7
  <2> QED
    BY <2>2, <2>3
<1>6. CASE ~Moves(n)
  <2>1. PICK made \in SUBSET Entry : made = IF n.to = Nil THEN {} ELSE {n.item}
    BY <1>2 DEF NodeRec
  <2>2. /\ disk'.home = disk.home /\ disk'.names = disk.names \cup made /\ disk'.got = disk.got
    BY <1>2, <1>3, <1>6, <2>1 DEF Created, DiskType
  <2>3. n.item \notin Folder => n.to # Nil /\ n.item \in (disk.home \cap job.picked) \ disk.names
    BY <1>2, <1>4, <1>6 DEF Grants
  <2>4. Pastes(n, {}, made)
    BY <1>6, <2>1, <2>2, <2>3 DEF Pastes
  <2> QED
    BY <2>4
<1> QED
  BY <1>5, <1>6

--------------------------------------------------------------------------------
\* The walk goes on past what is pasted.
LEMMA PasteObjectKept == ASSUME NEW C, Kept(C), PasteObject PROVE Kept(C)'
<1>1. /\ Sound(C)' /\ TypeParts /\ Nodes /\ OrderFacts /\ Items(C) /\ Copying(C) /\ Control
      /\ C \in SUBSET Live /\ Shape(C)
  BY KeptParts, PasteObjectSound DEF Kept
<1>2. PICK op : op = ft.op
  OBVIOUS
<1>3. PICK n : n = tree.node[op]
  OBVIOUS
<1>4. PICK q : q = IF n.child # Nil /\ ~Moves(n) THEN n.child ELSE NextUp(op)
  OBVIOUS
<1>5. /\ ft.on /\ ui.main = "paste" /\ ft.st = "proc" /\ op # Nil /\ op \in C /\ Tree(C)
      /\ UNCHANGED <<ui, sobj, ops, scan, cwd, tree, job>> /\ ~ops.on
  BY <1>1, <1>2 DEF PasteObject, Pasting, Shape, Undone, Cursors, Control
<1>6. PICK st \in {"proc", "file"} : st = IF Moves(n) \/ n.item \in Folder THEN "proc" ELSE "file"
  OBVIOUS
<1>7. ft'.on /\ ft'.st = st /\ ft'.op = q /\ ft'.last = op /\ ft'.pos = 0
  <2>1. ft' = [ft EXCEPT !.last = op, !.pos = 0, !.st = st, !.op = q]
    BY <1>2, <1>3, <1>4, <1>6 DEF PasteObject
  <2> QED
    BY <1>1, <1>5, <2>1 DEF TypeParts, FtType
<1>8. PICK gone, made \in SUBSET Entry : Pastes(n, gone, made)
  BY <1>2, <1>3, PasteActs
<1>9. \A x \in C : Item(x) \in Entry
  BY <1>1 DEF Nodes, NodeRec, Item
<1>10. OrderFacts'
  <2>1. \A e \in disk'.home : Up[e] \in disk'.home \cup {Here}
    BY <1>1, <1>8 DEF OrderFacts, Pastes
  <2>2. \A e \in Entry \ disk'.names : disk'.got[e] = 0
    BY <1>1, <1>8 DEF OrderFacts, Pastes
  <2>3. disk'.home \subseteq disk.home
    BY <1>8 DEF Pastes
  <2> QED
    BY <1>1, <1>5, <2>1, <2>2, <2>3 DEF OrderFacts
<1>11. Items(C)'
  BY <1>1, <1>5, <1>7, StillNodes DEF Items
<1>12. Writing'
  <2>1. CASE st = "file"
    <3>1. ~Moves(n) /\ n.item \notin Folder
      BY <1>6, <2>1
    <3>2. n.item \in (disk.home \cap job.picked) \ disk.names /\ made = {n.item} /\ gone = {}
      BY <1>8, <3>1 DEF Pastes
    <3>3. /\ n.item \in (disk'.home \cap job.picked \cap disk'.names) \ Folder
          /\ disk'.got[n.item] = 0
      BY <1>1, <1>8, <3>1, <3>2 DEF Pastes, OrderFacts
    <3>4. Item(ft.last)' = n.item
      BY <1>3, <1>5, <1>7 DEF Item
    <3> QED
      BY <1>5, <1>7, <3>3, <3>4 DEF Writing
  <2> QED
    BY <1>7, <2>1 DEF Writing
<1>13. \A f \in Entry : Whole(f) => Whole(f)'
  BY <1>8 DEF Pastes, Whole
<1>14. Uniform(C) /\ \A x \in C : ~Unnamed(x)
  BY <1>1, <1>5 DEF Copying
<1>15. ASSUME ui.cut
       PROVE  \E A \in SUBSET C : (q # Nil => Path(A, q)) /\ (Renaming' \/ CopiedTo(C, A, q)')
  <2>1. PICK A \in SUBSET C : Path(A, op) /\ (Renaming \/ CopiedTo(C, A, op))
    BY <1>1, <1>2, <1>5, <1>15 DEF Copying
  <2>2. CASE Moves(n)
    <3>1. To(op) # Nil /\ q = NextUp(op)
      BY <1>3, <1>4, <2>2 DEF Moves, Same, To
    <3>2. q # Nil => To(q) # Nil /\ \E B \in SUBSET C : Path(B, q)
      BY <1>1, <1>5, <1>14, <2>1, <3>1, WalkRenamed
    <3>3. Renaming'
      BY <1>3, <1>5, <1>7, <2>2, <3>2 DEF Renaming, Moves, Same, To
    <3> QED
      BY <3>2, <3>3
  <2>3. CASE ~Moves(n)
    <3>1. ~Same(n)
      BY <1>15, <2>3 DEF Moves
    <3>2. ~Renaming
      BY <1>2, <1>3, <1>5, <3>1 DEF Renaming, Same, To
    <3>3. PICK D \in SUBSET C : Walked(C, D, A, op) /\ \A x \in D : Done(x)
      BY <1>5, <2>1, <3>2 DEF CopiedTo
    <3>4. q = IF Kid(op) # Nil THEN Kid(op) ELSE NextUp(op)
      BY <1>3, <1>4, <2>3 DEF Kid
    <3>5. PICK B \in SUBSET C : (q # Nil => Path(B, q)) /\ Walked(C, D \cup {op}, B, q)
      BY <1>1, <1>5, <2>1, <3>3, <3>4, WalkCopied
    <3>6. PICK K \in SUBSET C : K = D \cup {op}
      BY <1>5
    <3>7. Walked(C, K, B, q)'
      BY <1>5, <3>5, <3>6 DEF Walked, Kid, NextOf
    <3>8. ASSUME NEW x \in K PROVE Done(x)' \/ (ft'.st = "file" /\ x = ft'.last)
      <4>1. Item(x)' = Item(x) /\ Item(x) \in Entry
        BY <1>5, <1>9 DEF Item
      <4>2. x \in D => Done(x)'
        BY <1>13, <3>3, <4>1 DEF Done, Whole
      <4>3. x = op => Item(x) = n.item
        BY <1>3 DEF Item
      <4>4. x = op /\ n.item \in Folder => Done(x)'
        BY <4>1, <4>3 DEF Done
      <4> QED
        BY <1>6, <1>7, <2>3, <3>6, <4>2, <4>4
    <3>9. ~Same(tree.node[ft.last])'
      BY <1>3, <1>5, <1>7, <3>1 DEF Same
    <3>10. CopiedTo(C, B, q)'
      BY <3>7, <3>8, <3>9 DEF CopiedTo
    <3> QED
      BY <3>5, <3>10
  <2> QED
    BY <2>2, <2>3
<1>16. Copying(C)'
  <2>1. Uniform(C)' /\ \A x \in C : ~Unnamed(x)'
    BY <1>5, <1>14, StillNodes DEF Uniform, SameTo, Unnamed
  <2>2. \A A : Path(A, q) => Path(A, q)'
    BY <1>5 DEF Path, Par
  <2> QED
    BY <1>5, <1>6, <1>7, <1>15, <2>1, <2>2 DEF Copying
<1>17. Scanning(C)' /\ Deletes(C)'
  BY <1>1, <1>5 DEF Scanning, Deletes
<1> QED
  BY <1>1, <1>10, <1>11, <1>12, <1>16, <1>17 DEF Kept

--------------------------------------------------------------------------------
\* At the start nothing is selected.
LEMMA KeptInit == ASSUME Init PROVE Kept({})
<1>1. Sound({})
  BY SoundInit
<1>2. OrderFacts
  BY FileOpsAssumption DEF Init, OrderFacts, NoJob, NoOps
<1> QED
  BY <1>1, <1>2 DEF Init, Kept, Items, Writing, Scanning, Copying, Deletes, NoOps, NoFile

\* Kept is inductive while there is room.
LEMMA KeptStep ==
  ASSUME NEW C, Kept(C), Next, HasRoom, "late" \notin Faults
  PROVE  \E K : Kept(K)'
<1>1. CASE Buttons
  <2>1. CASE CancelOptions
    BY <2>1, CancelOptionsKept
  <2> QED
    BY <1>1, <2>1, SelectKept, DeleteKept, CancelProgressKept, CopyOrCutKept, PasteKept,
       AnswerKept DEF Buttons
<1>2. CASE OpsTick
  <2>1. PICK a : a = NewAddress
    OBVIOUS
  <2>2. CASE Collect
    BY <2>1, <2>2, CollectKept
  <2>3. CASE \E ok \in BOOLEAN : ScanDir(ok)
    BY <2>1, <2>3, ScanDirKept
  <2> QED
    BY <1>2, <2>2, <2>3, OpsIdleKept, CollectedKept, OpsStartKept, ReadFileKept, ScanEndKept,
       OpsDoneKept, ScanCwdKept, ScanInitKept DEF OpsTick
<1>3. CASE FileTick
  <2>1. CASE \E ok \in BOOLEAN : FileEnd(ok) /\ ft.on /\ UNCHANGED <<disk, sobj, ops, scan, cwd>>
    BY <2>1, FileEndKept
  <2>2. FileStopped \/ PasteFails \/ BlockFails \/ UnlinkFails \/ DeleteDone =>
          \E ok \in BOOLEAN : FileEnd(ok) /\ ft.on /\ UNCHANGED <<disk, sobj, ops, scan, cwd>>
    BY DEF FileStopped, PasteFails, BlockFails, UnlinkFails, DeleteDone, Pasting, Deleting, Undone
  <2>3. CASE PasteDone
    <3>1. ~(ui.cut /\ ~Same(tree.node[ft.last])) => FileEnd(TRUE) /\ ft.on
                                                   /\ UNCHANGED <<disk, sobj, ops, scan, cwd>>
      BY <2>3 DEF PasteDone
    <3> QED
      BY <2>1, <2>3, <3>1, PasteDoneKept
  <2>4. CASE Unlink
    BY <2>4, UnlinkKept
  <2> QED
    BY <1>3, <2>1, <2>2, <2>3, <2>4, FileStartKept, PasteObjectKept, PasteBlockKept, DescendKept
       DEF FileTick
<1> QED
  BY <1>1, <1>2, <1>3 DEF Next

LEMMA KeptStutter == ASSUME NEW C, Kept(C), UNCHANGED vars PROVE Kept(C)'
<1>1. tree' = tree /\ ft' = ft /\ ui' = ui /\ ops' = ops /\ disk' = disk /\ sobj' = sobj
      /\ scan' = scan /\ cwd' = cwd /\ job' = job /\ fault' = fault
  BY DEF vars
<1>2. Sound(C)' /\ OrderFacts' /\ Items(C)'
  BY <1>1, SoundStutter DEF Kept, OrderFacts, Items, Item, At, Par
<1>3. Writing' /\ Scanning(C)'
  BY <1>1, StillScanning DEF Kept, Writing, Item
<1>4. Deletes(C)'
  BY <1>1 DEF Kept, Deletes, Done, Whole, Item
<1>5. ASSUME NEW A, NEW op, CopiedTo(C, A, op) PROVE CopiedTo(C, A, op)'
  BY <1>1, <1>5 DEF CopiedTo, Walked, Done, Whole, Same, Item, Kid, NextOf
<1>6. \A A, op : Path(A, op) => Path(A, op)'
  BY <1>1 DEF Path, Par
<1>7. (Renaming => Renaming') /\ (Uniform(C) => Uniform(C)') /\ \A x : Unnamed(x)' <=> Unnamed(x)
  BY <1>1 DEF Renaming, Same, To, Uniform, SameTo, Par, Unnamed
<1>8. Copying(C)'
  <2>1. PICK q : q = ft.op
    OBVIOUS
  <2> QED
    BY <1>1, <1>5, <1>6, <1>7, <2>1 DEF Kept, Copying
<1> QED
  BY <1>2, <1>3, <1>4, <1>8 DEF Kept

--------------------------------------------------------------------------------
\* A step that touches neither the files nor the order is none to SafeMove.
LEMMA NoPromise ==
  ASSUME disk'.home \ Folder = disk.home \ Folder, \A f \in Entry \ Folder : Whole(f)' <=> Whole(f),
         job'.kind = job.kind, job'.picked = job.picked, job'.doomed = job.doomed
  PROVE  UNCHANGED Promise!vars
BY DEF Promise!vars

LEMMA IdlePromise ==
  ASSUME disk' = disk, job'.kind = job.kind, job'.picked = job.picked, job'.doomed = job.doomed
  PROVE  UNCHANGED Promise!vars
BY NoPromise DEF Whole

\* The steps of SafeMove, one by one.
LEMMA SelectPromise == ASSUME NEW C, Kept(C), Select PROVE Promise!Pick
<1>1. disk.home \subseteq Entry
  BY KeptParts
<1>2. PICK S : job' = [NoJob EXCEPT !.picked = Under(S) \cap disk.home, !.doomed = job.doomed,
                                    !.n = job.n + 1]
  BY DEF Select
<1>3. job'.kind = "none" /\ job'.picked \subseteq disk.home /\ job'.doomed = job.doomed
  BY <1>2 DEF NoJob
<1>4. disk' = disk
  BY DEF Select
<1>5. job'.picked \ Folder \in SUBSET (disk.home \ Folder)
  BY <1>3
<1> QED
  BY <1>3, <1>4, <1>5 DEF Promise!Pick, Whole

LEMMA DecidePromise ==
  ASSUME disk' = disk, NEW kind, job'.kind = kind, job'.picked = job.picked,
         job'.doomed = IF kind = "delete" THEN job.doomed \cup job.picked ELSE job.doomed
  PROVE  Promise!Decide(kind)
<1>1. {f \in Entry \ Folder : Whole(f)}' = {f \in Entry \ Folder : Whole(f)}
  BY DEF Whole
<1> QED
  BY <1>1 DEF Promise!Decide

LEMMA PasteObjectPromise ==
  ASSUME NEW C, Kept(C), PasteObject
  PROVE  [Promise!Next]_(Promise!vars)
<1>1. TypeParts /\ OrderFacts
  BY KeptParts
<1>2. PICK n : n = tree.node[ft.op]
  OBVIOUS
<1>3. PICK gone, made \in SUBSET Entry : Pastes(n, gone, made)
  BY <1>2, PasteActs
<1>4. job' = job /\ job.kind = IF ui.cut THEN "cut" ELSE "copy"
  BY <1>1 DEF PasteObject, Pasting, OrderFacts
<1>5. CASE Moves(n)
  <2>1. job.kind = "cut" /\ made = {} /\ gone \subseteq disk.home \cap job.picked
    BY <1>3, <1>4, <1>5 DEF Moves, Pastes
  <2>2. PICK S : S = gone \ Folder
    OBVIOUS
  <2>3. disk'.home \ Folder = (disk.home \ Folder) \ S
    BY <1>3, <2>2 DEF Pastes
  <2>4. {f \in Entry \ Folder : Whole(f)}' = {f \in Entry \ Folder : Whole(f)} \cup S
    BY <1>3, <2>1, <2>2 DEF Pastes, Whole
  <2>5. S \in SUBSET ((job.picked \ Folder) \cap (disk.home \ Folder))
    BY <2>1, <2>2
  <2> QED
    BY <1>4, <2>1, <2>3, <2>4, <2>5 DEF Promise!Moved, Promise!Next
<1>6. CASE ~Moves(n)
  <2>1. gone = {} /\ disk'.home = disk.home /\ disk'.names = disk.names \cup made
        /\ \A e \in Entry : disk'.got[e] = disk.got[e]
    BY <1>3, <1>6 DEF Pastes
  <2>2. CASE made \subseteq Folder
    <3>1. \A f \in Entry \ Folder : Whole(f)' <=> Whole(f)
      BY <2>1, <2>2 DEF Whole
    <3> QED
      BY <1>4, <2>1, <3>1, NoPromise
  <2>3. CASE ~(made \subseteq Folder)
    <3>1. /\ made = {n.item} /\ n.item \in Entry \ Folder
          /\ n.item \in (disk.home \cap job.picked) \ disk.names
      BY <1>3, <1>6, <2>3 DEF Pastes
    <3>2. disk.got[n.item] = 0
      BY <1>1, <3>1 DEF OrderFacts
    <3>3. \A f \in (Entry \ Folder) \ {n.item} : Whole(f)' <=> Whole(f)
      BY <2>1, <3>1 DEF Whole
    <3>4. ~Whole(n.item) /\ (Whole(n.item)' <=> Size[n.item] = 0)
      BY <2>1, <3>1, <3>2 DEF Whole
    <3>5. CASE Size[n.item] = 0
      <4>1. {f \in Entry \ Folder : Whole(f)}' = {f \in Entry \ Folder : Whole(f)} \cup {n.item}
        BY <3>1, <3>3, <3>4, <3>5
      <4>2. Promise!Copied(n.item)
        BY <1>4, <2>1, <3>1, <4>1 DEF Promise!Copied
      <4> QED
        BY <3>1, <4>2 DEF Promise!Next
    <3>6. CASE Size[n.item] # 0
      BY <1>4, <2>1, <3>3, <3>4, <3>6, NoPromise
    <3> QED
      BY <3>5, <3>6
  <2> QED
    BY <2>2, <2>3
<1> QED
  BY <1>5, <1>6

LEMMA PasteBlockPromise ==
  ASSUME NEW C, Kept(C), PasteBlock, HasRoom
  PROVE  [Promise!Next]_(Promise!vars)
<1>1. PICK e : e = Item(ft.last)
  OBVIOUS
<1>2. /\ ui.main = "paste" /\ job' = job
      /\ e \in (disk.home \cap job.picked \cap disk.names) \ Folder
      /\ disk'.home = disk.home
      /\ Whole(e) => Whole(e)'
      /\ \A f \in Entry \ {e} : Whole(f)' <=> Whole(f)
  <2>1. disk.home \subseteq Entry
    BY KeptParts
  <2> QED
    BY <1>1, <2>1, BlockWritten
<1>3. e \in Entry \ Folder /\ job.kind \in {"copy", "cut"}
  BY <1>2, KeptParts DEF OrderFacts
<1>4. CASE Whole(e)'
  <2>1. {f \in Entry \ Folder : Whole(f)}' = {f \in Entry \ Folder : Whole(f)} \cup {e}
    BY <1>2, <1>3, <1>4
  <2>2. Promise!Copied(e)
    BY <1>2, <1>3, <2>1 DEF Promise!Copied
  <2> QED
    BY <1>3, <2>2 DEF Promise!Next
<1>5. CASE ~Whole(e)'
  BY <1>2, <1>5, NoPromise
<1> QED
  BY <1>4, <1>5

LEMMA UnlinkPromise ==
  ASSUME NEW C, Kept(C), Unlink
  PROVE  [Promise!Next]_(Promise!vars)
<1>1. PICK op : op = ft.op
  OBVIOUS
<1>2. PICK f : f = Item(op)
  OBVIOUS
<1>3. TypeParts /\ OrderFacts /\ Items(C) /\ Deletes(C) /\ Shape(C)
  BY KeptParts DEF Kept
<1>4. /\ ft.on /\ ui.main = "delete" /\ op \in C /\ Present(tree.node[op]) /\ job' = job
  BY <1>1, <1>3 DEF Unlink, Deleting, Undone, Unlinkable, Shape, Cursors
<1>5. f \in job.picked /\ f \in disk.home /\ f \in Entry
  BY <1>2, <1>3, <1>4, PresentPicked DEF TypeParts, DiskType
<1>6. /\ disk'.home = disk.home \ {f} /\ disk'.names = disk.names /\ disk'.got = disk.got
  BY <1>1, <1>2, <1>3 DEF Unlink, TypeParts, DiskType, Item
<1>7. \A g \in Entry \ Folder : Whole(g)' <=> Whole(g)
  BY <1>6 DEF Whole
<1>8. CASE f \in Folder
  BY <1>4, <1>6, <1>7, <1>8, NoPromise
<1>9. CASE f \notin Folder
  <2>1. job.kind \in {"cut", "delete"} /\ (Whole(f) \/ f \in job.doomed)
    BY <1>2, <1>3, <1>4, <1>5, <1>9 DEF Deletes, Done
  <2>2. {g \in Entry \ Folder : Whole(g)}' = {g \in Entry \ Folder : Whole(g)}
    BY <1>7
  <2>3. Promise!Removed(f)
    BY <1>4, <1>5, <1>6, <1>9, <2>1, <2>2 DEF Promise!Removed
  <2> QED
    BY <1>5, <1>9, <2>3 DEF Promise!Next
<1> QED
  BY <1>8, <1>9

--------------------------------------------------------------------------------
LEMMA InitPromise == ASSUME Init PROVE Promise!Init
<1>1. /\ disk.home = Entry /\ job.kind = "none" /\ job.picked = {} /\ job.doomed = {}
  BY DEF Init, NoJob
<1> QED
  BY <1>1 DEF Promise!Init

\* Every step is one of SafeMove, or none.
LEMMA PromiseStep ==
  ASSUME NEW C, Kept(C), Next, HasRoom
  PROVE  [Promise!Next]_(Promise!vars)
<1>1. TypeParts
  BY KeptParts
<1>2. CASE /\ disk' = disk /\ job'.kind = job.kind /\ job'.picked = job.picked
           /\ job'.doomed = job.doomed
  BY <1>2, IdlePromise
<1>3. CASE \E ok \in BOOLEAN : FileEnd(ok) /\ disk' = disk
  <2>1. job'.kind = job.kind /\ job'.picked = job.picked /\ job'.doomed = job.doomed
    BY <1>1, <1>3 DEF FileEnd, TypeParts, JobType
  <2> QED
    BY <1>2, <1>3, <2>1
<1>4. CASE Buttons
  <2>1. CASE Select
    BY <2>1, SelectPromise DEF Promise!Next
  <2>2. ASSUME NEW cut \in BOOLEAN, CopyOrCut(cut) PROVE [Promise!Next]_(Promise!vars)
    <3>1. PICK kind \in {"copy", "cut"} : kind = IF cut THEN "cut" ELSE "copy"
      OBVIOUS
    <3>2. disk' = disk /\ job'.kind = kind /\ job'.picked = job.picked /\ job'.doomed = job.doomed
      BY <1>1, <2>2, <3>1 DEF CopyOrCut, TypeParts, JobType
    <3>3. Promise!Decide(kind)
      BY <3>2, DecidePromise
    <3> QED
      BY <3>3 DEF Promise!Next
  <2>3. ASSUME NEW cross \in BOOLEAN, Paste(cross) PROVE [Promise!Next]_(Promise!vars)
    <3>1. /\ disk' = disk /\ job'.kind = job.kind /\ job'.picked = job.picked
          /\ job'.doomed = job.doomed
      BY <1>1, <2>3 DEF Paste, TypeParts, JobType
    <3> QED
      BY <1>2, <3>1
  <2>4. ASSUME NEW ok \in BOOLEAN, Answer(ok) PROVE [Promise!Next]_(Promise!vars)
    <3>1. CASE ok
      <4>1. /\ disk' = disk /\ job'.kind = "delete" /\ job'.picked = job.picked
            /\ job'.doomed = job.doomed \cup job.picked
        BY <1>1, <2>4, <3>1 DEF Answer, TypeParts, JobType
      <4>2. Promise!Decide("delete")
        BY <4>1, DecidePromise
      <4> QED
        BY <4>2 DEF Promise!Next
    <3>2. CASE ~ok
      <4>1. disk' = disk /\ job' = job
        BY <2>4, <3>2 DEF Answer
      <4> QED
        BY <1>2, <4>1
    <3> QED
      BY <3>1, <3>2
  <2>5. CASE Delete \/ CancelOptions \/ CancelProgress
    BY <1>2, <2>5 DEF Delete, CancelOptions, CancelProgress
  <2> QED
    BY <1>4, <2>1, <2>2, <2>3, <2>4, <2>5 DEF Buttons
<1>5. CASE OpsTick
  <2>1. disk' = disk /\ job' = job
    BY <1>5 DEF OpsTick, OpsIdle, Collect, Collected, OpsStart, ReadFile, ScanEnd, OpsDone, ScanCwd,
       ScanInit, ScanDir
  <2> QED
    BY <1>2, <2>1
<1>6. CASE FileTick
  <2>1. CASE PasteObject
    BY <2>1, PasteObjectPromise
  <2>2. CASE PasteBlock
    BY <2>2, PasteBlockPromise
  <2>3. CASE Unlink
    BY <2>3, UnlinkPromise
  <2>4. CASE FileStart \/ Descend
    BY <1>2, <2>4 DEF FileStart, Descend
  <2>5. CASE PasteDone
    <3>1. (FileEnd(TRUE) /\ disk' = disk) \/ (disk' = disk /\ job' = job)
      BY <2>5 DEF PasteDone
    <3> QED
      BY <1>2, <1>3, <3>1
  <2>6. CASE FileStopped \/ PasteFails \/ BlockFails \/ UnlinkFails \/ DeleteDone
    BY <1>3, <2>6 DEF FileStopped, PasteFails, BlockFails, UnlinkFails, DeleteDone
  <2> QED
    BY <1>6, <2>1, <2>2, <2>3, <2>4, <2>5, <2>6 DEF FileTick
<1> QED
  BY <1>4, <1>5, <1>6 DEF Next

LEMMA PromiseStutter == ASSUME UNCHANGED vars PROVE UNCHANGED Promise!vars
BY IdlePromise DEF vars

\* While there is room for what is copied, FileOps implements SafeMove: whatever fails and
\* whenever the user cancels a scan or the pasting, no step takes a file from its place, or
\* fills one at the other end, that the promise does not allow to.
THEOREM KeepsIt == "late" \notin Faults => (Spec /\ []HasRoom => KeepsPromise)
<1>1. SUFFICES ASSUME "late" \notin Faults PROVE Spec /\ []HasRoom => KeepsPromise
  OBVIOUS
<1> DEFINE Inv == \E C : Kept(C)
<1>2. Init => Inv /\ Promise!Init
  BY KeptInit, InitPromise
<1>3. Inv /\ HasRoom /\ [Next]_vars => Inv'
  BY <1>1, KeptStep, KeptStutter
<1>4. Inv /\ HasRoom /\ [Next]_vars => [Promise!Next]_(Promise!vars)
  BY PromiseStep, PromiseStutter
<1> HIDE DEF Inv
<1> QED
  BY <1>2, <1>3, <1>4, PTL DEF Spec, KeepsPromise, Promise!Spec

--------------------------------------------------------------------------------
File == Entry \ Folder

LEMMA InitKeeps == Promise!Init => NothingLost
  BY DEF Promise!Init, NothingLost

LEMMA StepKeeps ==
  ASSUME NothingLost, [Promise!Next]_(Promise!vars)
  PROVE  NothingLost'
<1>1. SUFFICES ASSUME NEW f \in File PROVE f \in disk'.home \/ Whole(f)' \/ f \in job'.doomed
  BY DEF File, NothingLost
<1> DEFINE home == disk.home \ Folder
           there == {g \in Entry \ Folder : Whole(g)}
           doomed == job.doomed \ Folder
<1>2. f \in home \/ f \in there \/ f \in doomed
  BY DEF NothingLost, File
<1>3. SUFFICES f \in home' \/ f \in there' \/ f \in doomed'
  OBVIOUS
<1>4. CASE Promise!Moved
  BY <1>2, <1>4 DEF Promise!Moved
<1>5. CASE \E g \in Entry \ Folder : Promise!Removed(g)
  <2>1. PICK g \in Entry \ Folder : Promise!Removed(g)
    BY <1>5
  <2>2. g \in there \cup doomed /\ home' = home \ {g} /\ there' = there /\ doomed' = doomed
    BY <2>1 DEF Promise!Removed
  <2> HIDE DEF home, there, doomed
  <2> QED
    BY <1>2, <2>2
<1>6. CASE home' = home /\ there \subseteq there' /\ doomed \subseteq doomed'
  <2> HIDE DEF home, there, doomed
  <2> QED
    BY <1>2, <1>6
<1>7. CASE Promise!Pick
  BY <1>6, <1>7 DEF Promise!Pick
<1>8. CASE \E kind \in {"copy", "cut", "delete"} : Promise!Decide(kind)
  BY <1>6, <1>8 DEF Promise!Decide
<1>9. CASE \E g \in Entry \ Folder : Promise!Copied(g)
  BY <1>6, <1>9 DEF Promise!Copied
<1>10. CASE UNCHANGED Promise!vars
  BY <1>6, <1>10 DEF Promise!vars
<1> QED
  BY <1>4, <1>5, <1>7, <1>8, <1>9, <1>10 DEF Promise!Next

\* Who keeps SafeMove's promise loses no file: one the user has not asked to delete is
\* at home or complete at the other end, whatever fails and whenever the user cancels.
THEOREM PromiseSuffices == KeepsPromise => []NothingLost
<1>1. NothingLost /\ [Promise!Next]_(Promise!vars) => NothingLost'
  BY StepKeeps
<1> QED
  BY InitKeeps, <1>1, PTL DEF KeepsPromise, Promise!Spec

\* NothingLost: as long as there is room for what is copied no file is lost, whatever fails
\* and whenever the user cancels a scan or the pasting.
THEOREM NoneLost == "late" \notin Faults => (Spec /\ []HasRoom => []NothingLost)
BY KeepsIt, PromiseSuffices, PTL
================================================================================
