-------------------------------- MODULE SafeMove --------------------------------
(* What copying, moving and deleting promise the user, whatever fails and        *)
(* whenever the user cancels: a file leaves its place only if the user has asked *)
(* for it, and then only if it is complete at the other end or was to be deleted.*)
(* FileOps implements it.                                                        *)
CONSTANT File

VARIABLES
  home,     \* the files at their old place
  there,    \* the files that are complete at the other end
  order,    \* the user's last selection, and what is to be done with it
  doomed    \* the files the user has confirmed to be deleted, now or before

vars == <<home, there, order, doomed>>

Orders == [kind: {"none", "copy", "cut", "delete"}, picked: SUBSET File]

Init ==
  /\ home = File /\ there \in SUBSET File
  /\ order = [kind |-> "none", picked |-> {}]
  /\ doomed = {}

Pick ==
  /\ \E S \in SUBSET home : order' = [kind |-> "none", picked |-> S]
  /\ UNCHANGED <<home, there, doomed>>

\* The user says what is to be done with the selection.
Decide(kind) ==
  /\ order' = [order EXCEPT !.kind = kind]
  /\ doomed' = IF kind = "delete" THEN doomed \cup order.picked ELSE doomed
  /\ UNCHANGED <<home, there>>

Copied(f) ==
  /\ order.kind \in {"copy", "cut"} /\ f \in order.picked \cap home
  /\ there' = there \cup {f}
  /\ UNCHANGED <<home, order, doomed>>

\* A folder is renamed with all that is in it.
Moved ==
  /\ order.kind = "cut"
  /\ \E S \in SUBSET (order.picked \cap home) :
       home' = home \ S /\ there' = there \cup S
  /\ UNCHANGED <<order, doomed>>

Removed(f) ==
  /\ order.kind \in {"cut", "delete"} /\ f \in order.picked \cap home
  /\ f \in there \cup doomed
  /\ home' = home \ {f}
  /\ UNCHANGED <<there, order, doomed>>

Next ==
  \/ Pick
  \/ \E kind \in {"copy", "cut", "delete"} : Decide(kind)
  \/ \E f \in File : Copied(f) \/ Removed(f)
  \/ Moved

Spec == Init /\ [][Next]_vars
================================================================================
