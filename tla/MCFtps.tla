--------------------------------- MODULE MCFtps ---------------------------------
(* Instances of Ftps for TLC.  Blocks of one kind are interchangeable.          *)
EXTENDS Ftps, TLC

Blocks == Permutations(Sess) \cup Permutations(Data) \cup Permutations(Conn)
=================================================================================
