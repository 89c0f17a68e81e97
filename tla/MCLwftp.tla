--------------------------------- MODULE MCLwftp --------------------------------
(* Instances of Lwftp for TLC.  pcb blocks of one kind are interchangeable.     *)
EXTENDS Lwftp, TLC

Blocks == Permutations(Ctl) \cup Permutations(Dat)
=================================================================================
