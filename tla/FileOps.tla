---------------------------------- MODULE FileOps ----------------------------------
(*****************************************************************************)
(* Copying, moving and deleting local files (Common/Src/lv_file_manager.c).   *)
(*                                                                           *)
(* Three parties share the variable main_state and a tree of lv_fm_op_t       *)
(* nodes: the buttons, the task lv_fm_local_obj_ops_task, which collects the  *)
(* selected objects and scans their folders into the tree, and the task       *)
(* lv_fm_local_file_task, which walks the tree and does the work.  LVGL runs  *)
(* one callback at a time, so a button or one tick of a task is one action.   *)
(*                                                                           *)
(* Entries have distinct names; the user picks in the folder Here and pastes  *)
(* in the folder Away, of the same volume or of another.  A file is counted   *)
(* in blocks of the copy buffer.                                              *)
(*                                                                           *)
(* Operators whose comment starts with "Variant" are used by no action.       *)
(*****************************************************************************)
EXTENDS Naturals

CONSTANTS
  Entry,      (* all entries                                                   *)
  Folder,     (* those that are folders                                        *)
  Up,         (* the folder an entry is in                                     *)
  Here,       (* the folder the user selects in                                *)
  Away,       (* the folder the user pastes in                                 *)
  Size,       (* blocks of an entry, 0 for folders                             *)
  Hidden,     (* entries whose attributes the scan passes over                 *)
  Taken,      (* names in use below Away at the start                          *)
  Room,       (* blocks that fit at the destination                            *)
  Heap,       (* the number of nodes that fit in the heap                      *)
  Nil,        (* the NULL pointer                                              *)
  MaxJobs,    (* selections the user makes                                     *)
  Faults      (* what may go wrong, of FaultKinds                              *)

Node == 1..Heap     \* heap addresses

\* io: FatFs fails to open, make, rename, read or write.  scan, unlink: it fails there.
\* getfree: f_getfree fails.
\* quit: Cancel of the options while a scan runs.  stop: Cancel of the progress bar
\* while files are pasted.  late: the same while they are deleted.
FaultKinds == {"io", "scan", "unlink", "getfree", "quit", "stop", "late"}

ASSUME FileOpsAssumption ==
  /\ Here # Away /\ Here \notin Entry /\ Away \notin Entry
  /\ Folder \subseteq Entry /\ Hidden \subseteq Entry /\ Taken \subseteq Entry
  /\ Up \in [Entry -> Folder \cup {Here}]
  /\ Size \in [Entry -> Nat] /\ \A e \in Folder : Size[e] = 0
  /\ Room \in Nat /\ MaxJobs \in Nat /\ Heap \in Nat /\ Nil \notin Node \cup Entry \cup {Here}
  /\ Faults \subseteq FaultKinds

VARIABLES
  disk,       (* entries at home, names in use and blocks copied at the other end *)
  ui,         (* main_state, flag_cut, the options list, the question box      *)
  sobj,       (* fm_sobj_list, the selected objects                            *)
  ops,        (* op_task: alive, op_state, op, scan_state, total_size          *)
  scan,       (* the static variables of _lv_fm_local_folder_scan              *)
  cwd,        (* current directory of FatFs                                    *)
  ft,         (* file_task: alive, file_task_state, op, last_op, position      *)
  tree,       (* fm_op_list and the allocated nodes                            *)
  job,        (* history: what the user asked for and how it ended             *)
  fault       (* history: a node was freed twice                               *)

vars == <<disk, ui, sobj, ops, scan, cwd, ft, tree, job, fault>>

-----------------------------------------------------------------------------
\* Where the steps of R, a function to sets, lead from S: the least set around S that
\* no step of R leaves.
Reached(S, R) ==
  LET closed == {T \in SUBSET DOMAIN R : S \subseteq T /\ \A x \in T : R[x] \subseteq T}
  IN  {b \in DOMAIN R : \A T \in closed : b \in T}

\* The entries of S and all that is in them.
Under(S) == Reached(S, [e \in Entry |-> {x \in Entry : Up[x] = e}])

Live == DOMAIN tree.node
Whole(e) == e \in disk.names /\ disk.got[e] = Size[e]
Same(n) == n.to # Nil /\ ~job.cross     \* src_path[0] == dst_path[0]
Present(n) == n.item \in disk.home /\ Up[n.item] = n.at
Reachable(to) == to = Here \/ to \in disk.names  \* f_chdir below the destination

NewNode(e, at, up, to) == [item |-> e, at |-> at, to |-> to, child |-> Nil, parent |-> up,
                           next |-> Nil]
NodeRec == [item: Entry, at: Folder \cup {Here}, to: Folder \cup {Here, Nil},
            child: Node \cup {Nil}, parent: Node \cup {Nil}, next: Node \cup {Nil}]
NoOps == [on |-> FALSE, st |-> "init", op |-> Nil, scan |-> "cwd", total |-> 0]
NoFile == [on |-> FALSE, st |-> "init", op |-> Nil, last |-> Nil, pos |-> 0]
NoJob == [kind |-> "none", picked |-> {}, cross |-> FALSE, taken |-> {}, doomed |-> {},
          end |-> "none", n |-> 0]

TypeOK ==
  /\ disk \in [home: SUBSET Entry, names: SUBSET Entry, got: [Entry -> Nat], room: 0..Room]
  /\ ui \in [main: {"idle", "copy", "paste", "delete"}, cut: BOOLEAN,
             menu: {"none", "file", "paste"}, asked: BOOLEAN]
  /\ sobj \in SUBSET Entry
  /\ ops \in [on: BOOLEAN, st: {"init", "read"}, op: Node \cup {Nil},
              scan: {"cwd", "init", "dir"}, total: Nat]
  /\ scan \in [st: {"cwd", "init", "dir"}, todo: SUBSET Entry, to: Folder \cup {Here, Nil}]
  /\ cwd \in Folder \cup {Here, Away}
  /\ ft \in [on: BOOLEAN, st: {"init", "proc", "file"}, op: Node \cup {Nil},
             last: Node \cup {Nil}, pos: Nat]
  /\ ft.pos > 1 => \E x \in Entry : ft.pos <= Size[x]
  /\ Live \subseteq Node /\ tree.list \in Node \cup {Nil}
  /\ tree.node \in [Live -> NodeRec]
  /\ job \in [kind: {"none", "copy", "cut", "delete"}, picked: SUBSET Entry,
               taken: SUBSET Entry, doomed: SUBSET Entry, cross: BOOLEAN,
               end: {"none", "ok", "failed"}, n: 0..MaxJobs]
  /\ fault \in BOOLEAN

Init ==
  /\ disk = [home |-> Entry, names |-> Taken, got |-> [e \in Entry |-> 0], room |-> Room]
  /\ ui = [main |-> "idle", cut |-> FALSE, menu |-> "none", asked |-> FALSE]
  /\ sobj = {} /\ ops = NoOps /\ ft = NoFile /\ cwd = Here
  /\ scan = [st |-> "cwd", todo |-> {}, to |-> Nil]
  /\ tree = [list |-> Nil, node |-> <<>>]
  /\ job = NoJob /\ fault = FALSE

-----------------------------------------------------------------------------
(* The tree.                                                                  *)

\* The last node of the list that starts at head.
EndOf(head) ==
  CHOOSE b \in Reached({head}, [a \in Live |-> {tree.node[a].next} \cap Live]) :
    tree.node[b].next = Nil

\* The address malloc gives.
NewAddress == CHOOSE b \in Node \ Live : \A c \in Node \ Live : b <= c

\* LV_FM_LL_ADD: a new node n at the end of the list that starts at "head", which is
\* fm_op_list or the children of o.
AddNode(node, head, o, n) ==
  LET a == NewAddress
  IN  [list |-> IF tree.list = Nil THEN a ELSE tree.list,
       node |-> [b \in Live \cup {a} |->
                  IF b = a THEN n
                  ELSE IF head # Nil /\ b = EndOf(head) THEN [node[b] EXCEPT !.next = a]
                  ELSE IF head = Nil /\ b = o THEN [node[b] EXCEPT !.child = a]
                  ELSE node[b]]]

\* Variant: looks one level up and no further.
NextUpOnce(a) ==
  IF tree.node[a].next # Nil THEN tree.node[a].next
  ELSE IF tree.node[a].parent = Nil THEN Nil ELSE tree.node[tree.node[a].parent].next

\* The next sibling of a, or of the nearest of its parents that has one.
NextUp(a) ==
  LET onlyUp == [b \in Live |-> IF tree.node[b].next = Nil
                                THEN {tree.node[b].parent} \cap Live ELSE {}]
      turns == {b \in Reached({a}, onlyUp) : tree.node[b].next # Nil}
  IN  IF turns = {} THEN Nil ELSE tree.node[CHOOSE b \in turns : TRUE].next

\* What LV_FM_TREE_CLEAN meets from fm_op_list on, along child and next.
Links(a) == {tree.node[a].child, tree.node[a].next} \ {Nil}
Visited == Reached({tree.list} \cap Live, [a \in Live |-> Links(a) \cap Live])

\* LV_FM_TREE_CLEAN(fm_op_list).  Of each node it has freed it reads the links, to find
\* the next one: free writes to a block's first words and the links are its last, so
\* within this call they are as they were.
Clean == /\ fault' = ~({tree.list} \ {Nil} \subseteq Live /\ \A a \in Visited : Links(a) \subseteq Live)
         /\ tree' = [list |-> Nil, node |-> [a \in Live \ Visited |-> tree.node[a]]]

-----------------------------------------------------------------------------
(* The buttons.  A user does not press a second button of the options list    *)
(* while the task of the first runs, Cancel excepted.                         *)

\* A long press and clicks on the list, with no job under way: the options appear.
Select ==
  /\ ui.menu = "none" /\ ~ui.asked /\ ~ops.on /\ ~ft.on /\ job.n < MaxJobs
  /\ \E S \in SUBSET {e \in disk.home \ Hidden : Up[e] = Here} \ {{}} :
       /\ sobj' = S
       /\ job' = [NoJob EXCEPT !.picked = Under(S) \cap disk.home, !.doomed = job.doomed,
                               !.n = job.n + 1]
  /\ ui' = [ui EXCEPT !.menu = "file"] /\ cwd' = Here
  /\ UNCHANGED <<disk, ops, scan, ft, tree, fault>>

CopyOrCut(cut) ==
  /\ ui.menu = "file" /\ ~ui.asked /\ ~ops.on
  /\ ui' = [ui EXCEPT !.main = "copy", !.cut = cut, !.menu = "paste"]
  /\ ops' = [ops EXCEPT !.on = TRUE]
  /\ job' = [job EXCEPT !.kind = IF cut THEN "cut" ELSE "copy"]
  /\ UNCHANGED <<disk, sobj, scan, cwd, ft, tree, fault>>

Paste(cross) ==
  /\ ui.menu = "paste" /\ ~ops.on
  /\ ui' = [ui EXCEPT !.main = "paste"] /\ ops' = [ops EXCEPT !.on = TRUE] /\ cwd' = Away
  /\ job' = [job EXCEPT !.cross = cross, !.taken = disk.names]
  /\ UNCHANGED <<disk, sobj, scan, ft, tree, fault>>

Delete ==
  /\ ui.menu = "file" /\ ~ui.asked /\ ~ops.on
  /\ ui' = [ui EXCEPT !.main = "delete", !.asked = TRUE]
  /\ UNCHANGED <<disk, sobj, ops, scan, cwd, ft, tree, job, fault>>

\* "Confirm Delete."
Answer(ok) ==
  /\ ui.asked
  /\ ui' = [ui EXCEPT !.asked = FALSE, !.main = IF ok THEN @ ELSE "idle"]
  /\ ops' = [ops EXCEPT !.on = ok]
  /\ job' = IF ok THEN [job EXCEPT !.kind = "delete", !.doomed = @ \cup job.picked] ELSE job
  /\ UNCHANGED <<disk, sobj, scan, cwd, ft, tree, fault>>

CancelOptions ==
  /\ ui.menu # "none" /\ ~ui.asked /\ (ops.on => "quit" \in Faults)
  /\ ui' = [ui EXCEPT !.main = "idle", !.menu = "none"]
  /\ Clean /\ sobj' = {}
  /\ UNCHANGED <<disk, ops, scan, cwd, ft, job>>

CancelProgress ==
  /\ ft.on
  /\ \/ ui.main = "paste" /\ "stop" \in Faults
     \/ ui.main = "delete" /\ "late" \in Faults
  /\ ui' = [ui EXCEPT !.main = "idle"]
  /\ UNCHANGED <<disk, sobj, ops, scan, cwd, ft, tree, job, fault>>

-----------------------------------------------------------------------------
(* lv_fm_local_obj_ops_task.                                                  *)

\* end: leaves scan_state, and the static variables of the scan, as they are.
OpsEnd(main) ==
  /\ ui' = [ui EXCEPT !.main = main, !.menu = IF main = "copy" THEN @ ELSE "none"]
  /\ sobj' = {} /\ ops' = [NoOps EXCEPT !.scan = ops.scan]

OpsIdle ==
  /\ ops.on /\ ui.main = "idle" /\ OpsEnd("idle")
  /\ UNCHANGED <<disk, scan, cwd, ft, tree, job, fault>>

Collecting == ui.main = "copy" \/ (ui.main = "delete" /\ ops.st = "init")

Collect ==
  /\ ops.on /\ Collecting /\ Node \ Live # {}
  /\ \E e \in sobj :
       /\ tree' = AddNode(tree.node, tree.list, Nil, NewNode(e, Here, Nil, Nil))
       /\ sobj' = sobj \ {e}
       /\ ops' = IF ui.main = "copy" THEN [ops EXCEPT !.total = @ + Size[e]] ELSE ops
  /\ UNCHANGED <<disk, ui, scan, cwd, ft, job, fault>>

Collected ==
  /\ ops.on /\ ui.main = "copy" /\ sobj = {} /\ OpsEnd("copy")
  /\ UNCHANGED <<disk, scan, cwd, ft, tree, job, fault>>

OpsStart ==
  /\ ops.on /\ ops.st = "init"
  /\ ui.main = "paste" \/ (ui.main = "delete" /\ sobj = {})
  /\ ops' = [ops EXCEPT !.op = tree.list, !.st = "read"]
  /\ UNCHANGED <<disk, ui, sobj, scan, cwd, ft, tree, job, fault>>

Reading == ops.on /\ ui.main \in {"paste", "delete"} /\ ops.st = "read" /\ ops.op # Nil

\* A selected object gets its destination when the walk comes to it between two scans.
Named == IF ui.main = "paste" /\ ops.scan = "cwd" /\ tree.node[ops.op].parent = Nil
         THEN [tree.node EXCEPT ![ops.op].to = Here] ELSE tree.node

\* What the tick does with the result of the scan: go on only at 0, SCAN_CWD.
Walk(st, total) ==
  ops' = [ops EXCEPT !.scan = st, !.total = @ + total,
                     !.op = IF st # "cwd" THEN @
                            ELSE IF tree.node[@].child # Nil THEN tree.node[@].child
                            ELSE NextUp(@)]

ReadFile ==
  /\ Reading /\ tree.node[ops.op].item \notin Folder /\ ops.scan = "cwd"
  /\ tree' = [tree EXCEPT !.node = Named] /\ Walk("cwd", 0)
  /\ UNCHANGED <<disk, ui, sobj, scan, cwd, ft, job, fault>>

\* SCAN_CWD: a folder that cannot be entered counts as scanned.
ScanCwd(ok) ==
  LET n == tree.node[ops.op] IN
  /\ Reading /\ n.item \in Folder /\ scan.st = "cwd"
  /\ ok => Present(n)
  /\ ~ok => ~Present(n) \/ "scan" \in Faults
  /\ scan' = [scan EXCEPT !.st = IF ok THEN "init" ELSE "cwd"]
  /\ cwd' = IF ok THEN n.item ELSE cwd
  /\ tree' = [tree EXCEPT !.node = Named] /\ Walk(scan'.st, 0)
  /\ UNCHANGED <<disk, ui, sobj, ft, job, fault>>

Listing(d) == IF d = Away THEN {e \in disk.names : Up[e] = Here}
              ELSE {e \in disk.home \ Hidden : Up[e] = d}

\* SCAN_INIT: f_findfirst lists the current directory.
ScanInit(ok) ==
  LET n == Named[ops.op] IN
  /\ Reading /\ n.item \in Folder /\ scan.st = "init" /\ (~ok => "scan" \in Faults)
  /\ scan' = [st |-> IF ok THEN "dir" ELSE "cwd", todo |-> IF ok THEN Listing(cwd) ELSE {},
              to |-> IF n.to = Nil THEN Nil ELSE n.item]
  /\ tree' = [tree EXCEPT !.node = Named] /\ Walk(scan'.st, 0)
  /\ UNCHANGED <<disk, ui, sobj, cwd, ft, job, fault>>

\* SCAN_DIR: a child for the entry found, and f_findnext.
ScanDir(ok) ==
  LET n == tree.node[ops.op] IN
  /\ Reading /\ n.item \in Folder /\ scan.st = "dir" /\ Node \ Live # {}
  /\ ~ok => "scan" \in Faults
  /\ \E e \in scan.todo :
       /\ tree' = AddNode(Named, n.child, ops.op, NewNode(e, n.item, ops.op, scan.to))
       /\ scan' = [scan EXCEPT !.todo = IF ok THEN @ \ {e} ELSE {}]
       /\ Walk("dir", Size[e])
  /\ UNCHANGED <<disk, ui, sobj, cwd, ft, job, fault>>

\* Variant: waits for an error from f_findnext at the end of the folder.
ScanEndStays ==
  /\ Reading /\ tree.node[ops.op].item \in Folder /\ scan.st = "dir" /\ scan.todo = {}
  /\ UNCHANGED vars

ScanEnd ==
  /\ Reading /\ tree.node[ops.op].item \in Folder /\ scan.st = "dir" /\ scan.todo = {}
  /\ scan' = [scan EXCEPT !.st = "cwd"]
  /\ tree' = [tree EXCEPT !.node = Named] /\ Walk("cwd", 0)
  /\ UNCHANGED <<disk, ui, sobj, cwd, ft, job, fault>>

\* What comes of f_getfree: whether the scanned files are taken not to fit.  Nobody looks
\* at its result; when it fails the code compares with what is on the stack.
Counting == ui.main = "paste" /\ job.cross
NoSpace == Counting /\ ops.total > disk.room
Full == IF Counting /\ "getfree" \in Faults THEN BOOLEAN ELSE {NoSpace}

\* The walk is over: the file task starts.  When the files do not fit the job becomes a
\* deletion.
OpsDone ==
  /\ ops.on /\ ui.main \in {"paste", "delete"} /\ ops.st = "read" /\ ops.op = Nil
  /\ ft' = [NoFile EXCEPT !.on = TRUE]
  /\ \E full \in Full : OpsEnd(IF full THEN "delete" ELSE ui.main)
  /\ UNCHANGED <<disk, scan, cwd, tree, job, fault>>

-----------------------------------------------------------------------------
(* lv_fm_local_file_task.                                                     *)

\* Variant: frees the tree after a deletion too.
FileEndCleans(ok) ==
  /\ ui' = [ui EXCEPT !.main = "idle", !.cut = FALSE] /\ ft' = NoFile
  /\ job' = [job EXCEPT !.end = IF ok THEN "ok" ELSE "failed"] /\ Clean

\* end: after a deletion the tree is taken as freed.
FileEnd(ok) ==
  /\ ui' = [ui EXCEPT !.main = "idle", !.cut = FALSE] /\ ft' = NoFile
  /\ job' = [job EXCEPT !.end = IF ok THEN "ok" ELSE "failed"]
  /\ IF ui.main # "delete" THEN Clean
     ELSE tree' = [tree EXCEPT !.list = Nil] /\ UNCHANGED fault

FileStopped ==
  /\ ft.on /\ ui.main = "idle" /\ FileEnd(FALSE)
  /\ UNCHANGED <<disk, sobj, ops, scan, cwd>>

FileStart ==
  /\ ft.on /\ ui.main \in {"paste", "delete"} /\ ft.st = "init"
  /\ ft' = [ft EXCEPT !.op = tree.list, !.st = "proc"]
  /\ UNCHANGED <<disk, ui, sobj, ops, scan, cwd, tree, job, fault>>

Pasting == ft.on /\ ui.main = "paste" /\ ft.st = "proc" /\ ft.op # Nil
Moves(n) == ui.cut /\ Same(n)

\* What the file system answers to one object: f_rename within a volume, f_mkdir for a
\* folder, f_open twice for a file.  FR_EXIST passes for the first two.
Renamed(n) == LET gone == Under({n.item}) \cap disk.home IN
  IF n.item \in disk.names THEN disk
  ELSE [disk EXCEPT !.home = @ \ gone, !.names = @ \cup gone,
                    !.got = [e \in Entry |-> IF e \in gone THEN Size[e] ELSE disk.got[e]]]
Created(n) == IF n.to = Nil THEN disk ELSE [disk EXCEPT !.names = @ \cup {n.item}]
Grants(n) == IF Moves(n) THEN Present(n) /\ Reachable(n.to)
             ELSE IF n.item \in Folder THEN n.to = Nil \/ Reachable(n.to)
             ELSE Present(n) /\ n.to # Nil /\ Reachable(n.to) /\ n.item \notin disk.names

PasteObject ==
  LET n == tree.node[ft.op] IN
  /\ Pasting /\ Grants(n)
  /\ disk' = IF Moves(n) THEN Renamed(n) ELSE Created(n)
  /\ ft' = [ft EXCEPT !.last = ft.op, !.pos = 0,
                      !.st = IF Moves(n) \/ n.item \in Folder THEN "proc" ELSE "file",
                      !.op = IF n.child # Nil /\ ~Moves(n) THEN n.child ELSE NextUp(@)]
  /\ UNCHANGED <<ui, sobj, ops, scan, cwd, tree, job, fault>>

\* Variant: the error is not looked at.
PasteFailsUnseen ==
  /\ Pasting /\ (Grants(tree.node[ft.op]) => "io" \in Faults)
  /\ ft' = [ft EXCEPT !.last = ft.op, !.op = NextUp(@)]
  /\ UNCHANGED <<disk, ui, sobj, ops, scan, cwd, tree, job, fault>>

PasteFails ==
  /\ Pasting /\ (Grants(tree.node[ft.op]) => "io" \in Faults) /\ FileEnd(FALSE)
  /\ UNCHANGED <<disk, sobj, ops, scan, cwd>>

\* Variant: takes a full block for one more to come.
PasteBlockMore ==
  LET e == tree.node[ft.last].item
      fits == IF disk.room > 0 /\ ft.pos < Size[e] THEN 1 ELSE 0 IN
  /\ ft.on /\ ui.main = "paste" /\ ft.st = "file"
  /\ disk' = [disk EXCEPT !.got[e] = @ + fits, !.room = @ - fits]
  /\ ft' = [ft EXCEPT !.pos = @ + 1, !.st = IF ft.pos + 1 > Size[e] THEN "proc" ELSE "file"]
  /\ UNCHANGED <<ui, sobj, ops, scan, cwd, tree, job, fault>>

\* A block is read and written; nobody looks at how much f_write has written.  The short
\* block is the last.
PasteBlock ==
  LET e == tree.node[ft.last].item
      fits == IF disk.room > 0 /\ ft.pos < Size[e] THEN 1 ELSE 0 IN
  /\ ft.on /\ ui.main = "paste" /\ ft.st = "file"
  /\ disk' = [disk EXCEPT !.got[e] = @ + fits, !.room = @ - fits]
  /\ ft' = [ft EXCEPT !.pos = @ + 1, !.st = IF ft.pos + 1 >= Size[e] THEN "proc" ELSE "file"]
  /\ UNCHANGED <<ui, sobj, ops, scan, cwd, tree, job, fault>>

BlockFails ==
  /\ ft.on /\ ui.main = "paste" /\ ft.st = "file" /\ "io" \in Faults /\ FileEnd(FALSE)
  /\ UNCHANGED <<disk, sobj, ops, scan, cwd>>

\* Variant: a copy to another volume deletes its source as well.
PasteDoneMoves ==
  /\ ft.on /\ ui.main = "paste" /\ ft.st = "proc" /\ ft.op = Nil
  /\ IF ~Same(tree.node[ft.last])
     THEN /\ ui' = [ui EXCEPT !.main = "delete"] /\ ft' = [ft EXCEPT !.st = "init"]
          /\ UNCHANGED <<tree, job, fault>>
     ELSE FileEnd(TRUE)
  /\ UNCHANGED <<disk, sobj, ops, scan, cwd>>

\* Variant: the deletion does not start at the head of the tree.
PasteDoneKeepsState ==
  /\ ft.on /\ ui.main = "paste" /\ ft.st = "proc" /\ ft.op = Nil
  /\ IF ui.cut /\ ~Same(tree.node[ft.last])
     THEN ui' = [ui EXCEPT !.main = "delete"] /\ UNCHANGED <<tree, job, fault, ft>>
     ELSE FileEnd(TRUE)
  /\ UNCHANGED <<disk, sobj, ops, scan, cwd>>

\* All is pasted: a cut to another volume goes on to delete what it has copied.
PasteDone ==
  /\ ft.on /\ ui.main = "paste" /\ ft.st = "proc" /\ ft.op = Nil
  /\ IF ui.cut /\ ~Same(tree.node[ft.last])
     THEN /\ ui' = [ui EXCEPT !.main = "delete"] /\ ft' = [ft EXCEPT !.st = "init"]
          /\ UNCHANGED <<tree, job, fault>>
     ELSE FileEnd(TRUE)
  /\ UNCHANGED <<disk, sobj, ops, scan, cwd>>

\* The tree is being freed node by node.
Undone == ft.on /\ ui.main = "delete" /\ ft.st = "proc"
Deleting == Undone /\ ft.op # Nil
Unlinkable(n) == Present(n) /\ ~\E e \in disk.home : Up[e] = n.item

Descend ==
  /\ Deleting /\ tree.node[ft.op].child # Nil
  /\ ft' = [ft EXCEPT !.op = tree.node[@].child]
  /\ UNCHANGED <<disk, ui, sobj, ops, scan, cwd, tree, job, fault>>

\* Variant: the parent keeps its link to the child.
UnlinkKeepsChild ==
  LET n == tree.node[ft.op] IN
  /\ Deleting /\ n.child = Nil /\ Unlinkable(n)
  /\ disk' = [disk EXCEPT !.home = @ \ {n.item}]
  /\ tree' = [tree EXCEPT !.node = [a \in Live \ {ft.op} |-> tree.node[a]]]
  /\ ft' = [ft EXCEPT !.op = IF n.next # Nil THEN n.next ELSE n.parent]
  /\ UNCHANGED <<ui, sobj, ops, scan, cwd, job, fault>>

\* The object is unlinked, its node freed, and its links are read once more to go on.
\* Nothing is allocated between the two: the links are those of before, as in Clean.
Unlink ==
  LET n == tree.node[ft.op] IN
  /\ Deleting /\ n.child = Nil /\ Unlinkable(n)
  /\ disk' = [disk EXCEPT !.home = @ \ {n.item}]
  /\ tree' = [tree EXCEPT !.node =
       [a \in Live \ {ft.op} |-> IF n.next = Nil /\ a = n.parent
                                 THEN [tree.node[a] EXCEPT !.child = Nil] ELSE tree.node[a]]]
  /\ ft' = [ft EXCEPT !.op = IF n.next # Nil THEN n.next ELSE n.parent]
  /\ UNCHANGED <<ui, sobj, ops, scan, cwd, job, fault>>

UnlinkFails ==
  LET n == tree.node[ft.op] IN
  /\ Deleting /\ n.child = Nil /\ (Unlinkable(n) => "unlink" \in Faults) /\ FileEnd(FALSE)
  /\ UNCHANGED <<disk, sobj, ops, scan, cwd>>

DeleteDone ==
  /\ ft.on /\ ui.main = "delete" /\ ft.st = "proc" /\ ft.op = Nil /\ FileEnd(TRUE)
  /\ UNCHANGED <<disk, sobj, ops, scan, cwd>>

-----------------------------------------------------------------------------
Buttons ==
  \/ Select \/ Delete \/ CancelOptions \/ CancelProgress
  \/ \E b \in BOOLEAN : CopyOrCut(b) \/ Paste(b) \/ Answer(b)

OpsTick == \/ OpsIdle \/ Collect \/ Collected \/ OpsStart \/ ReadFile \/ ScanEnd \/ OpsDone
           \/ \E ok \in BOOLEAN : ScanCwd(ok) \/ ScanInit(ok) \/ ScanDir(ok)

FileTick == \/ FileStopped \/ FileStart \/ PasteObject \/ PasteFails \/ PasteBlock
            \/ BlockFails \/ PasteDone \/ Descend \/ Unlink \/ UnlinkFails \/ DeleteDone

\* After a double free nothing is known.
Next == ~fault /\ (Buttons \/ OpsTick \/ FileTick)

Spec == Init /\ [][Next]_vars

\* LVGL runs both tasks again and again.
FairSpec == Spec /\ WF_vars(~fault /\ OpsTick) /\ WF_vars(~fault /\ FileTick)

-----------------------------------------------------------------------------
\* A file the user has not asked to delete is at home or wholly at the other end:
\* whatever fails and whenever the user cancels, a cut deletes only what it has copied.
NothingLost ==
  \A f \in Entry \ Folder : f \in disk.home \/ Whole(f) \/ f \in job.doomed

\* The promise of SafeMove, of the files alone.
Promise == INSTANCE SafeMove WITH
  File <- Entry \ Folder,
  home <- disk.home \ Folder,
  there <- {f \in Entry \ Folder : Whole(f)},
  order <- [kind |-> job.kind, picked |-> job.picked \ Folder],
  doomed <- job.doomed \ Folder

\* Each step of the buttons and of the two tasks is one that SafeMove allows, or none:
\* a copy takes nothing away from its source, a cut only what it has copied whole, and
\* no job takes or copies anything that was not selected for it; what is complete at the
\* other end stays so.
KeepsPromise == Promise!Spec

\* What the deletion can still come to from its cursor, and the links it follows from
\* there.  Those to a child of the nodes above it lead back to nodes that are freed; the
\* walk clears each one when it is back at it.
Above == Reached({ft.op} \ {Nil}, [a \in Live |-> {tree.node[a].parent} \cap Live]) \ {ft.op}
Ways(a) == ({tree.node[a].next, tree.node[a].parent}
              \cup IF a \in Above THEN {} ELSE {tree.node[a].child}) \ {Nil}
ToCome == Reached({ft.op} \ {Nil}, [a \in Live |-> Ways(a) \cap Live])

\* The tree is freed node by node by the deletion, as a whole otherwise, from four places:
\* no node is freed twice, no task and no link of a node in use that is still to be
\* followed is left pointing to a freed node.  (The links of the node a call has itself
\* just freed it reads in this call: Unlink, Clean.)
NoStrayPointer ==
  /\ ~fault
  /\ Undone => \A a \in ToCome : Ways(a) \subseteq Live
  /\ ~Undone => /\ tree.list \in Live \cup {Nil}
                /\ \A a \in Visited :
                     Links(a) \cup ({tree.node[a].parent} \ {Nil}) \subseteq Live
  /\ ft.on /\ ui.main # "idle" =>
       /\ ft.op \in Live \cup {Nil}
       /\ ui.main = "paste" /\ ft.st = "file" => ft.last \in Live
  /\ ops.on /\ ui.main # "idle" => ops.op \in Live \cup {Nil}

\* When no job is under way no node is left.
NoLeak == ~ops.on /\ ~ft.on /\ ui.menu = "none" => Live = {}

\* A job that ends without an error message has done all of its work; of a cut within a
\* volume, all but the names that were in use at the destination.
WorkDone ==
  LET seen == job.picked \ Under(Hidden)
      moved(e) == Whole(e) /\ e \notin disk.home IN
  job.end = "ok" =>
    /\ job.kind = "delete" => job.picked \cap disk.home = {}
    /\ job.kind = "copy" => \A e \in seen : Whole(e)
    /\ job.kind = "cut" =>
         \A e \in job.picked : moved(e) \/ (~job.cross /\ e \in Under(job.taken))

\* Each of the two tasks comes to its end.
TasksEnd == (ops.on ~> ~ops.on) /\ (ft.on ~> ~ft.on)
================================================================================
