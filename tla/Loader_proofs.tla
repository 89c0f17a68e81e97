---------------------------- MODULE Loader_proofs -----------------------------
(* What holds of the loader for any files, any bank, any buffer size and any     *)
(* content the bank starts with.  The invariant that is inductive says what a    *)
(* copy has done so far: up to cpy_addr the bank is the file's, beyond it is     *)
(* erased, and the file has been read as far as the bank has been written.       *)
EXTENDS Loader, TLAPS

CopySoFar ==
  copying =>
    /\ hloader.fp \in File /\ Length[hloader.fp] <= Mem
    /\ hloader.fptr = hloader.cpy /\ hloader.cpy <= Whole[hloader.fp]
    /\ Holds(hloader.fp, hloader.cpy)
    /\ \A i \in (hloader.cpy + 1)..Mem : flash[i] = Erased
    /\ app = None

IInv == TypeOK /\ CopySoFar /\ LockedAtRest

USE LoaderAssumption

--------------------------------------------------------------------------------
\* The sizes of a file, as numbers.
LEMMA Sizes ==
  ASSUME NEW f \in File
  PROVE  /\ Length[f] \in Nat /\ Whole[f] \in Nat /\ Whole[f] <= Length[f]
         /\ Image[f] \in [1..Length[f] -> Word]
  OBVIOUS

\* What may be stored in the handle.
LEMMA ErrUpdate ==
  ASSUME NEW h \in Handles, NEW e \in Errors
  PROVE  [h EXCEPT !.err = e] \in Handles /\ [h EXCEPT !.err = e].err = e
  BY DEF Handles

LEMMA PtrUpdate ==
  ASSUME NEW h \in Handles, NEW n \in Nat
  PROVE  [h EXCEPT !.fptr = n] \in Handles
  BY DEF Handles

LEMMA CopyUpdate ==
  ASSUME NEW h \in Handles, NEW n \in Nat, NEW c, h.cpy + c \in 0..Mem, NEW e \in Errors
  PROVE  LET g == [h EXCEPT !.fptr = n, !.cpy = @ + c, !.err = e]
         IN g \in Handles /\ g.fp = h.fp /\ g.fptr = n /\ g.cpy = h.cpy + c /\ g.err = e
  BY DEF Handles

\* A handle as lv_fm_loader_init begins with.
LEMMA FirstHandle ==
  ASSUME NEW f \in File \cup {None}
  PROVE  [fp |-> f, fptr |-> 0, cpy |-> 0, err |-> "no"] \in Handles
  BY DEF Handles, Errors

\* A call of the task reads no more than the file has and the bank can take, and
\* what it reads short of a full buffer is the last of the file.
LEMMA Reads ==
  ASSUME IInv, copying
  PROVE  /\ hloader.fp \in File /\ hloader.cpy \in Nat /\ hloader.fptr = hloader.cpy
         /\ Read \in Nat /\ hloader.cpy + Read <= Whole[hloader.fp]
         /\ Whole[hloader.fp] <= Mem
         /\ ReadTo \in Nat
         /\ ~LastRead => ReadTo = hloader.cpy + Read
         /\ LastRead => hloader.cpy + Read = Whole[hloader.fp]
  <1> DEFINE f == hloader.fp
             c == hloader.cpy
  <1>1. /\ f \in File /\ Length[f] <= Mem /\ hloader.fptr = c /\ c <= Whole[f]
        /\ c \in Nat
    BY DEF IInv, CopySoFar, TypeOK, Handles
  <1>2. Length[f] \in Nat /\ Whole[f] \in Nat /\ Whole[f] <= Length[f]
    BY <1>1, Sizes
  <1>3. Left \in Nat /\ Left = Whole[f] - c
    BY <1>1, <1>2 DEF Left
  <1>4. Read \in Nat /\ Read <= Left /\ (LastRead <=> Read < Chunk) /\ Read <= Chunk
        /\ (LastRead => Read = Left)
    BY <1>3 DEF Read, Least, LastRead
  <1>5. ReadTo \in Nat /\ (~LastRead => ReadTo = c + Chunk)
    BY <1>1, <1>2, <1>3, <1>4 DEF ReadTo, Least, LastRead
  <1> QED
    BY <1>1, <1>2, <1>3, <1>4, <1>5

\* Programming n of the words read keeps the bank a bank, extends the part that is
\* the file's by n words, and leaves the rest as it was.
LEMMA Programming ==
  ASSUME IInv, copying, NEW n \in Nat, n <= Read
  PROVE  /\ Programmed(n) \in [1..Mem -> Word]
         /\ \A i \in 1..(hloader.cpy + n) : Programmed(n)[i] = Image[hloader.fp][i]
         /\ \A i \in (hloader.cpy + n + 1)..Mem : Programmed(n)[i] = Erased
         /\ \A i \in (hloader.cpy + 1)..(hloader.cpy + n) : i \in 1..Mem
         /\ Programs(n)
  <1> DEFINE f == hloader.fp
             c == hloader.cpy
  <1>1. /\ f \in File /\ c \in Nat /\ hloader.fptr = c /\ Read \in Nat
        /\ c + Read <= Whole[f] /\ Whole[f] <= Mem
    BY Reads
  <1>2. Whole[f] \in Nat /\ Length[f] \in Nat /\ Whole[f] <= Length[f]
        /\ Image[f] \in [1..Length[f] -> Word]
    BY <1>1, Sizes
  <1>3. c + n <= Mem /\ c + n <= Length[f]
    BY <1>1, <1>2
  <1>4. flash \in [1..Mem -> Word]
        /\ (\A i \in 1..c : flash[i] = Image[f][i])
        /\ (\A i \in (c + 1)..Mem : flash[i] = Erased)
    BY DEF IInv, TypeOK, CopySoFar, Holds
  <1>5. \A i \in (c + 1)..(c + n) : i \in 1..Mem /\ i \in 1..Length[f]
    BY <1>1, <1>2, <1>3
  <1>6. \A i \in (c + 1)..(c + n) : hloader.fptr + i - c = i
    BY <1>1
  <1>7. \A i \in 1..Mem : Programmed(n)[i] = IF i \in (c + 1)..(c + n) THEN Image[f][i]
                                             ELSE flash[i]
    BY <1>6 DEF Programmed
  <1>8. \A i \in 1..Mem : Programmed(n)[i] \in Word
    BY <1>2, <1>4, <1>5, <1>7
  <1>9. Programmed(n) \in [1..Mem -> Word]
    BY <1>8 DEF Programmed
  <1>10. \A i \in 1..(c + n) : Programmed(n)[i] = Image[f][i]
    <2> TAKE i \in 1..(c + n)
    <2>1. i \in 1..Mem /\ (i \in (c + 1)..(c + n) \/ i \in 1..c)
      BY <1>1, <1>3
    <2> QED
      BY <2>1, <1>4, <1>7
  <1>11. \A i \in (c + n + 1)..Mem : Programmed(n)[i] = Erased
    <2> TAKE i \in (c + n + 1)..Mem
    <2>1. i \in 1..Mem /\ i \notin (c + 1)..(c + n) /\ i \in (c + 1)..Mem
      BY <1>1
    <2> QED
      BY <2>1, <1>4, <1>7
  <1>12. Programs(n)
    BY <1>4, <1>5, <1>1, <1>3 DEF Programs
  <1> QED
    BY <1>5, <1>9, <1>10, <1>11, <1>12

--------------------------------------------------------------------------------
LEMMA InvInit == Init => IInv
  <1> SUFFICES ASSUME Init PROVE IInv
    OBVIOUS
  <1>1. hloader \in Handles
    BY FirstHandle DEF Init, Idle
  <1> QED
    BY <1>1 DEF Init, IInv, TypeOK, CopySoFar, LockedAtRest

\* A click, whatever it comes to.
LEMMA ClickKeeps ==
  ASSUME IInv, NEW f \in File, TooLarge(f) \/ AlreadyLoaded(f) \/ Reload(f) \/ EraseFails(f)
  PROVE  IInv'
  <1> USE DEF IInv
  <1>1. /\ Length[f] \in Nat
        /\ Opened(f) = [fp |-> f, fptr |-> 0, cpy |-> 0, err |-> "no"]
        /\ Opened(f) \in Handles
        /\ {"size", "memory", "erase", "no", "read", "write"} \subseteq Errors
    BY Sizes, FirstHandle DEF Opened, Idle, Errors
  <1>2. CASE TooLarge(f)
    <2>1. ~copying /\ UNCHANGED <<flash, locked, copying, app>>
          /\ hloader' = [Opened(f) EXCEPT !.err = "size"]
      BY <1>2 DEF TooLarge, Clicked
    <2>2. hloader' \in Handles
      BY <1>1, <2>1, ErrUpdate
    <2> QED
      BY <2>1, <2>2 DEF TypeOK, CopySoFar, LockedAtRest
  <1>3. CASE AlreadyLoaded(f)
    <2>1. /\ ~copying /\ UNCHANGED <<flash, locked, copying>>
          /\ app' \in {app, f}
      BY <1>3 DEF AlreadyLoaded, Clicked, Start
    <2>2. [Opened(f) EXCEPT !.fptr = Length[f]] \in Handles
      BY <1>1, PtrUpdate
    <2>3. hloader' \in Handles
      <3>1. CASE flash[1] \in NoEntry
        <4>1. hloader' = [[Opened(f) EXCEPT !.fptr = Length[f]] EXCEPT !.err = "memory"]
          BY <1>3, <3>1 DEF AlreadyLoaded, Start
        <4> QED
          BY <1>1, <2>2, <4>1, ErrUpdate
      <3>2. CASE flash[1] \notin NoEntry
        BY <1>3, <2>2, <3>2 DEF AlreadyLoaded, Start
      <3> QED
        BY <3>1, <3>2
    <2> QED
      BY <2>1, <2>3 DEF TypeOK, CopySoFar, LockedAtRest
  <1>4. CASE Reload(f)
    <2>1. /\ app = None /\ app' = app /\ Length[f] <= Mem
          /\ flash' = [i \in 1..Mem |-> Erased]
          /\ locked' = FALSE /\ copying' = TRUE
          /\ hloader' = [fp |-> f, fptr |-> 0, cpy |-> 0, err |-> "no"]
      BY <1>1, <1>4 DEF Reload, Clicked
    <2>2. TypeOK'
      BY <2>1, FirstHandle DEF TypeOK
    <2>3. CopySoFar'
      BY <2>1, Sizes DEF CopySoFar, Holds
    <2> QED
      BY <2>1, <2>2, <2>3 DEF LockedAtRest
  <1>5. CASE EraseFails(f)
    <2>1. /\ ~copying /\ UNCHANGED <<copying, app>> /\ locked' = TRUE
          /\ hloader' = [Opened(f) EXCEPT !.err = "erase"]
      BY <1>5 DEF EraseFails, Clicked
    <2>2. flash' \in [1..Mem -> Word]
      BY <1>5 DEF EraseFails, TypeOK
    <2>3. hloader' \in Handles
      BY <1>1, <2>1, ErrUpdate
    <2> QED
      BY <2>1, <2>2, <2>3 DEF TypeOK, CopySoFar, LockedAtRest
  <1> QED
    BY <1>2, <1>3, <1>4, <1>5

\* A call of the task, and what ends the copy from outside.
LEMMA TaskKeeps ==
  ASSUME IInv, CopyTask \/ Cancel \/ Reset
  PROVE  IInv'
  <1> USE DEF IInv
  <1>0. hloader \in Handles /\ {"no", "read", "write"} \subseteq Errors
    BY DEF TypeOK, Errors
  <1>1. CASE CopyChunk
    <2>1. /\ copying /\ ~LastRead /\ flash' = Programmed(Read)
          /\ hloader' = [hloader EXCEPT !.fptr = ReadTo, !.cpy = @ + Read, !.err = "no"]
          /\ UNCHANGED <<locked, copying, app>>
      BY <1>1 DEF CopyChunk
    <2>2. /\ hloader.fp \in File /\ hloader.cpy \in Nat /\ Read \in Nat
          /\ hloader.cpy + Read <= Whole[hloader.fp] /\ Whole[hloader.fp] <= Mem
          /\ ReadTo \in Nat /\ ReadTo = hloader.cpy + Read
      BY <2>1, Reads
    <2>3. hloader.cpy + Read \in 0..Mem
      BY <2>2, Sizes
    <2>4. /\ hloader' \in Handles
          /\ hloader'.fp = hloader.fp /\ hloader'.fptr = ReadTo
          /\ hloader'.cpy = hloader.cpy + Read
      <3>1. ReadTo \in Nat /\ Read \in Nat
        BY <2>2
      <3>2. hloader' = [hloader EXCEPT !.fptr = ReadTo, !.cpy = @ + Read, !.err = "no"]
        BY <2>1
      <3>3. LET g == [hloader EXCEPT !.fptr = ReadTo, !.cpy = @ + Read, !.err = "no"]
            IN g \in Handles /\ g.fp = hloader.fp /\ g.fptr = ReadTo
               /\ g.cpy = hloader.cpy + Read
        <4>1. "no" \in Errors
          BY <1>0
        <4>2. ASSUME NEW n \in Nat, NEW c \in Nat, hloader.cpy + c \in 0..Mem
              PROVE  LET g == [hloader EXCEPT !.fptr = n, !.cpy = @ + c, !.err = "no"]
                     IN g \in Handles /\ g.fp = hloader.fp /\ g.fptr = n
                        /\ g.cpy = hloader.cpy + c
          BY <1>0, <4>1, <4>2 DEF Handles
        <4> QED
          BY <2>3, <3>1, <4>2, Zenon
      <3> QED
        BY <3>2, <3>3, Zenon
    <2>5. /\ flash' \in [1..Mem -> Word]
          /\ \A i \in 1..(hloader.cpy + Read) : flash'[i] = Image[hloader.fp][i]
          /\ \A i \in (hloader.cpy + Read + 1)..Mem : flash'[i] = Erased
      BY <2>1, <2>2, Programming
    <2>6. TypeOK'
      BY <2>1, <2>4, <2>5 DEF TypeOK
    <2>7. CopySoFar'
      BY <2>1, <2>2, <2>4, <2>5 DEF CopySoFar, Holds
    <2> QED
      BY <2>1, <2>6, <2>7 DEF LockedAtRest
  <1>2. CASE CopyLast
    <2>1. /\ copying /\ flash' = Programmed(Read)
          /\ copying' = FALSE /\ locked' = TRUE
          /\ app' \in {app, hloader.fp}
          /\ \E e \in Errors :
               hloader' = [hloader EXCEPT !.fptr = ReadTo, !.cpy = @ + Read, !.err = e]
      BY <1>0, <1>2 DEF CopyLast, Kill, Start, Errors
    <2>2. /\ hloader.fp \in File /\ hloader.cpy \in Nat /\ Read \in Nat
          /\ hloader.cpy + Read <= Whole[hloader.fp] /\ Whole[hloader.fp] <= Mem
          /\ ReadTo \in Nat
      BY <2>1, Reads
    <2>3. hloader.cpy + Read \in 0..Mem
      BY <2>2, Sizes
    <2>4. hloader' \in Handles
      <3>1. ReadTo \in Nat /\ Read \in Nat
        BY <2>2
      <3>2. PICK e \in Errors :
              hloader' = [hloader EXCEPT !.fptr = ReadTo, !.cpy = @ + Read, !.err = e]
        BY <2>1
      <3> QED
        BY <1>0, <2>3, <3>1, <3>2, CopyUpdate
    <2>5. flash' \in [1..Mem -> Word]
      BY <2>1, <2>2, Programming
    <2> QED
      BY <2>1, <2>2, <2>4, <2>5 DEF TypeOK, CopySoFar, LockedAtRest
  <1>3. CASE ReadFails
    <2>1. /\ copying' = FALSE /\ locked' = TRUE /\ UNCHANGED <<flash, app>>
          /\ hloader' = [hloader EXCEPT !.err = "read"]
      BY <1>3 DEF ReadFails, Kill
    <2>2. hloader' \in Handles
      BY <1>0, <2>1, ErrUpdate
    <2> QED
      BY <2>1, <2>2 DEF TypeOK, CopySoFar, LockedAtRest
  <1>4. CASE WriteFails
    <2>1. PICK n \in 0..(Read - 1), w \in Word :
            /\ flash' = [Programmed(n) EXCEPT ![hloader.cpy + n + 1] = w]
            /\ hloader' = [hloader EXCEPT !.fptr = ReadTo, !.cpy = @ + n, !.err = "write"]
      BY <1>4 DEF WriteFails
    <2>2. copying /\ copying' = FALSE /\ locked' = TRUE /\ app' = app
      BY <1>4 DEF WriteFails, Kill
    <2>3. /\ hloader.cpy \in Nat /\ Read \in Nat /\ ReadTo \in Nat
          /\ hloader.fp \in File
          /\ hloader.cpy + Read <= Whole[hloader.fp] /\ Whole[hloader.fp] <= Mem
      BY <2>2, Reads
    <2>4. hloader.cpy + n \in 0..Mem /\ n \in Nat /\ n <= Read
      BY <2>3, Sizes
    <2>5. hloader' \in Handles
      BY <1>0, <2>1, <2>3, <2>4, CopyUpdate
    <2>6. Programmed(n) \in [1..Mem -> Word]
      BY <2>2, <2>4, Programming
    <2>7. flash' \in [1..Mem -> Word]
      BY <2>1, <2>6
    <2> QED
      BY <2>2, <2>5, <2>7 DEF TypeOK, CopySoFar, LockedAtRest
  <1>5. CASE Cancel
    BY <1>5 DEF Cancel, Kill, TypeOK, CopySoFar, LockedAtRest
  <1>6. CASE Reset
    <2>1. /\ copying' = FALSE /\ locked' = TRUE /\ app' = None /\ flash' = flash
          /\ hloader' = [fp |-> None, fptr |-> 0, cpy |-> 0, err |-> "no"]
      BY <1>6 DEF Reset, Idle
    <2>2. hloader' \in Handles
      BY <2>1, FirstHandle
    <2> QED
      BY <2>1, <2>2 DEF TypeOK, CopySoFar, LockedAtRest
  <1> QED
    BY <1>1, <1>2, <1>3, <1>4, <1>5, <1>6 DEF CopyTask

LEMMA InvStep == IInv /\ [Next]_vars => IInv'
  <1> SUFFICES ASSUME IInv, [Next]_vars PROVE IInv'
    OBVIOUS
  <1>1. CASE \E f \in File : TooLarge(f) \/ AlreadyLoaded(f) \/ Reload(f) \/ EraseFails(f)
    BY <1>1, ClickKeeps
  <1>2. CASE CopyTask \/ Cancel \/ Reset
    BY <1>2, TaskKeeps
  <1>3. CASE UNCHANGED vars
    BY <1>3 DEF vars, IInv, TypeOK, CopySoFar, LockedAtRest, Holds
  <1> QED
    BY <1>1, <1>2, <1>3 DEF Next

\* The invariant holds throughout.
LEMMA Invariant == Spec => []IInv
  BY InvInit, InvStep, PTL DEF Spec

\* Type correctness: no address of a copy leaves the bank, for any files, buffer
\* and bank sizes.
THEOREM TypeCorrect == Spec => []TypeOK
  BY Invariant, PTL DEF IInv

\* Whichever of its exits a copy takes, the flash is locked afterwards.
THEOREM Locked == Spec => []LockedAtRest
  BY Invariant, PTL DEF IInv

--------------------------------------------------------------------------------
\* A step starts an application only on its own image.
LEMMA StartStep ==
  ASSUME "verify" \notin Faults, IInv, StartsTheFile, [Next]_vars
  PROVE  StartsTheFile'
  <1>1. CASE \E f \in File : TooLarge(f) \/ AlreadyLoaded(f) \/ Reload(f) \/ EraseFails(f)
    <2>1. PICK f \in File : TooLarge(f) \/ AlreadyLoaded(f) \/ Reload(f) \/ EraseFails(f)
      BY <1>1
    <2>2. CASE AlreadyLoaded(f)
      <3>1. app = None /\ app' \in {app, f} /\ flash' = flash /\ Holds(f, Length[f])
        BY <2>2 DEF AlreadyLoaded, Clicked, Start, Compared
      <3>2. Holds(f, Whole[f])
        BY <3>1, Sizes DEF Holds
      <3> QED
        BY <3>1, <3>2 DEF StartsTheFile, Holds
    <2>3. CASE TooLarge(f) \/ Reload(f) \/ EraseFails(f)
      BY <2>3 DEF TooLarge, Reload, EraseFails, Clicked, StartsTheFile
    <2> QED
      BY <2>1, <2>2, <2>3
  <1>2. CASE CopyLast
    <2>1. /\ copying /\ LastRead /\ flash' = Programmed(Read)
          /\ app' \in {app, hloader.fp}
      BY <1>2 DEF CopyLast, Start
    <2>2. /\ app = None /\ Read \in Nat
          /\ hloader.cpy + Read = Whole[hloader.fp]
      BY <2>1, Reads DEF IInv, CopySoFar
    <2>3. \A i \in 1..Whole[hloader.fp] : flash'[i] = Image[hloader.fp][i]
      BY <2>1, <2>2, Programming
    <2> QED
      BY <2>1, <2>2, <2>3 DEF StartsTheFile, Holds
  <1>3. CASE CopyChunk \/ ReadFails \/ WriteFails \/ Cancel
    <2>1. copying /\ app' = app
      BY <1>3 DEF CopyChunk, ReadFails, WriteFails, Cancel
    <2> QED
      BY <2>1 DEF IInv, CopySoFar, StartsTheFile
  <1>4. CASE Reset
    BY <1>4 DEF Reset, StartsTheFile
  <1>5. CASE UNCHANGED vars
    BY <1>5 DEF vars, StartsTheFile, Holds
  <1> QED
    BY <1>1, <1>2, <1>3, <1>4, <1>5 DEF Next, CopyTask

\* While no read fails during the comparison (lv_fm_loader_init takes a failed read
\* for the end of the file), an application is started only when the bank holds
\* every complete flash word of its file, whatever faults have gone before.
THEOREM StartedIsLoaded == "verify" \notin Faults /\ Spec => []StartsTheFile
  <1> SUFFICES ASSUME "verify" \notin Faults PROVE Spec => []StartsTheFile
    OBVIOUS
  <1>1. Init => StartsTheFile
    BY DEF Init, StartsTheFile
  <1>2. IInv /\ StartsTheFile /\ [Next]_vars => StartsTheFile'
    BY StartStep
  <1> QED
    BY <1>1, <1>2, Invariant, PTL DEF Spec

\* A copy that fails to write met a fault of the flash: it never programs a word
\* that is not erased, though cancelled and broken copies leave the bank and the
\* handle in any state.
THEOREM ErrorsAreReal == Spec => []WriteErrorIsReal
  <1>1. Init => WriteErrorIsReal
    BY DEF Init, Idle, WriteErrorIsReal
  <1>2. ASSUME IInv, WriteErrorIsReal, [Next]_vars
        PROVE  WriteErrorIsReal'
    <2>1. CASE WriteFails
      <3>1. PICK n \in 0..(Read - 1) :
              "program" \in Faults \/ flash[hloader.cpy + n + 1] # Erased
        BY <2>1 DEF WriteFails
      <3>2. copying
        BY <2>1 DEF WriteFails
      <3>3. /\ Read \in Nat /\ hloader.cpy \in Nat /\ hloader.fp \in File
            /\ hloader.cpy + Read <= Whole[hloader.fp] /\ Whole[hloader.fp] <= Mem
        BY <1>2, <3>2, Reads
      <3>4. Whole[hloader.fp] \in Nat
        BY <3>3, Sizes
      <3>5. hloader.cpy + n + 1 \in (hloader.cpy + 1)..Mem
        BY <3>3, <3>4
      <3>6. flash[hloader.cpy + n + 1] = Erased
        BY <1>2, <3>2, <3>5 DEF IInv, CopySoFar
      <3> QED
        BY <3>1, <3>6 DEF WriteErrorIsReal
    <2>2. CASE UNCHANGED hloader
      BY <1>2, <2>2 DEF WriteErrorIsReal
    <2>3. ASSUME ~WriteFails, hloader' # hloader
          PROVE  hloader'.err # "write"
      <3>0. hloader \in Handles
        BY <1>2 DEF IInv, TypeOK
      <3>1. \A f \in File : TooLarge(f) \/ AlreadyLoaded(f) \/ Reload(f) \/ EraseFails(f)
                            => hloader'.err # "write"
        BY DEF TooLarge, AlreadyLoaded, Reload, EraseFails, Start, Opened, Idle
      <3>2. CopyChunk => hloader'.err # "write"
        BY <3>0 DEF CopyChunk, Handles
      <3>3. ReadFails => hloader'.err # "write"
        BY <3>0 DEF ReadFails, Handles
      <3>4. Reset => hloader'.err # "write"
        BY DEF Reset, Idle
      <3>5. CopyLast => hloader'.err # "write"
        BY <3>0 DEF CopyLast, Start, Handles
      <3> QED
        BY <1>2, <2>3, <3>1, <3>2, <3>3, <3>4, <3>5 DEF Next, CopyTask, Cancel, vars
    <2> QED
      BY <2>1, <2>2, <2>3 DEF WriteErrorIsReal
  <1> QED
    BY <1>1, <1>2, Invariant, PTL DEF Spec
================================================================================
