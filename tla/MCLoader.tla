-------------------------------- MODULE MCLoader --------------------------------
(* An instance of Loader for TLC.  Two versions of an application, which begin   *)
(* with the same word; the first fills the buffer twice, the second is one word  *)
(* and a tail; and an empty file, a file that is too large, and one whose vector *)
(* table has no entry.                                                           *)
EXTENDS Loader, TLC

CONSTANTS long, short, empty, large, blank

MCFile == {long, short, empty, large, blank}
MCLength == long :> 4 @@ short :> 2 @@ empty :> 0 @@ large :> 6 @@ blank :> 1
MCWhole == long :> 4 @@ short :> 1 @@ empty :> 0 @@ large :> 6 @@ blank :> 1
MCImage == long :> <<1, 2, 1, 2>> @@ short :> <<1, 3>> @@ empty :> <<>>
             @@ large :> <<1, 1, 1, 1, 1, 1>> @@ blank :> <<3>>
================================================================================
