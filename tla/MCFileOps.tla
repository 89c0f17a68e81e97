------------------------------- MODULE MCFileOps -------------------------------
(* Instances of FileOps for TLC: a folder with a file and a folder with a file  *)
(* in it, and a file beside the folder.                                         *)
EXTENDS FileOps, TLC

CONSTANTS dir, inner, sub, deep, beside

MCEntry == {dir, inner, sub, deep, beside}
MCFolder == {dir, sub}
MCUp == dir :> Here @@ inner :> dir @@ sub :> dir @@ deep :> sub @@ beside :> Here
MCSize == dir :> 0 @@ inner :> 1 @@ sub :> 0 @@ deep :> 1 @@ beside :> 2
================================================================================
