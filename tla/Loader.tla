--------------------------------- MODULE Loader ---------------------------------
(* The application loader (lv_file_loader.c): a click on a .bin file compares    *)
(* bank 2 of the flash with the file; if they agree the application there is     *)
(* started, otherwise the bank is erased and a task copies the file to it, one   *)
(* buffer at a time, and then starts it.  The user may cancel, the media may be  *)
(* removed, the flash may fail, and the power may go: the bank keeps what is     *)
(* then in it, and the next click meets that.                                    *)
(*                                                                               *)
(* The unit is the flash word, 32 bytes, the least that HAL_FLASH_Program        *)
(* writes.  The last unit of a file whose length is no multiple of it is its     *)
(* tail.  The click and each call of the task are one action; while the loader's *)
(* bar is shown (loader_h) no list takes a click, so there is one copy at a time.*)
(*                                                                               *)
(* Operators whose comment starts with "Variant" are used by no action: each is  *)
(* the operator after it with a slip the code could have had.                    *)
EXTENDS Integers

CONSTANTS
  File,      \* the .bin files
  None,
  Word,      \* what a flash word may hold
  Erased,    \* a flash word after HAL_FLASHEx_Erase
  NoEntry,   \* first flash words whose second entry, the start address, is 0
  Length,    \* [File -> Nat], in flash words, a tail counted as one
  Whole,     \* [File -> Nat], complete flash words
  Image,     \* the file's words
  Mem,       \* LV_FM_LOADER_MEMORY_SIZE
  Chunk,     \* the size of cpy_buf
  Faults     \* what may happen: "verify" a read fails while the bank is compared,
             \* "read" one fails in the task, "erase" and "program" the flash fails,
             \* "cancel" the user does, "cut" the power goes during a copy

ASSUME LoaderAssumption ==
  /\ None \notin File
  /\ Erased \in Word /\ NoEntry \subseteq Word
  /\ Mem \in Nat \ {0} /\ Chunk \in Nat \ {0}
  /\ Length \in [File -> Nat] /\ Whole \in [File -> Nat]
  /\ \A f \in File : /\ Whole[f] <= Length[f] /\ Length[f] <= Whole[f] + 1
                     /\ Image[f] \in [1..Length[f] -> Word]

VARIABLES
  flash,    \* bank 2
  locked,   \* HAL_FLASH_Lock, HAL_FLASH_Unlock
  hloader,  \* fp, cpy_addr and err of the handle, and fptr of the file
  copying,  \* the copy task and loader_h exist
  app       \* the application that runs, after which the firmware is gone

vars == <<flash, locked, hloader, copying, app>>

Errors == {"no", "read", "write", "memory", "size", "erase"}
Handles == [fp: File \cup {None}, fptr: Nat, cpy: 0..Mem, err: Errors]

TypeOK ==
  /\ flash \in [1..Mem -> Word]
  /\ locked \in BOOLEAN /\ copying \in BOOLEAN
  /\ hloader \in Handles
  /\ app \in File \cup {None}

Idle == [fp |-> None, fptr |-> 0, cpy |-> 0, err |-> "no"]

Init ==
  /\ flash \in [1..Mem -> Word]      \* whatever was loaded before
  /\ locked = TRUE /\ copying = FALSE
  /\ hloader = Idle
  /\ app = None

--------------------------------------------------------------------------------
(* lv_fm_loader_start: the entry of the vector table is looked at, and the      *)
(* application takes the machine.                                               *)

Start(f, h, bank) ==
  IF bank[1] \in NoEntry
  THEN hloader' = [h EXCEPT !.err = "memory"] /\ UNCHANGED app
  ELSE hloader' = h /\ app' = f

--------------------------------------------------------------------------------
(* A click on a file: lv_fm_loader_init.                                        *)

Clicked(f) == ~copying /\ app = None

Opened(f) == [Idle EXCEPT !.fp = f]

TooLarge(f) ==
  /\ Clicked(f) /\ Length[f] > Mem
  /\ hloader' = [Opened(f) EXCEPT !.err = "size"]
  /\ UNCHANGED <<flash, locked, copying, app>>

\* The bank holds the first n words of the file.
Holds(f, n) == \A i \in 1..n : flash[i] = Image[f][i]

\* Variant: the last word is not compared.
ComparedShort(f) == Holds(f, Length[f] - 1)

\* The loop over f_read ends without a difference: at the end of the file, or
\* where a read fails, which reads nothing and looks like the end.
Compared(f) ==
  \/ Holds(f, Length[f])
  \/ "verify" \in Faults /\ \E n \in 0..(Length[f] - 1) : Holds(f, n)

Differs(f) == ~Holds(f, Length[f])

AlreadyLoaded(f) ==
  /\ Clicked(f) /\ Length[f] <= Mem /\ Compared(f)
  /\ Start(f, [Opened(f) EXCEPT !.fptr = Length[f]], flash)
  /\ UNCHANGED <<flash, locked, copying>>

\* Another image: the bank is erased, sector by sector, and the task created.
Reload(f) ==
  /\ Clicked(f) /\ Length[f] <= Mem /\ Differs(f)
  /\ flash' = [i \in 1..Mem |-> Erased]
  /\ locked' = FALSE /\ copying' = TRUE
  /\ hloader' = Opened(f)
  /\ UNCHANGED app

EraseFails(f) ==
  /\ "erase" \in Faults
  /\ Clicked(f) /\ Length[f] <= Mem /\ Differs(f)
  /\ \E n \in 0..(Mem - 1) :
       flash' = [i \in 1..Mem |-> IF i <= n THEN Erased ELSE flash[i]]
  /\ locked' = TRUE
  /\ hloader' = [Opened(f) EXCEPT !.err = "erase"]
  /\ UNCHANGED <<copying, app>>

--------------------------------------------------------------------------------
(* lv_fm_loader_copy_task: one buffer is read and its whole flash words are     *)
(* programmed; a read that does not fill the buffer is the last one.            *)

Least(m, n) == IF m <= n THEN m ELSE n

\* What f_read has left: nothing at the end of the file, else its whole words.
Left == IF hloader.fptr = Length[hloader.fp] THEN 0 ELSE Whole[hloader.fp] - hloader.fptr
\* size / 32 of the buffer just read
Read == Least(Chunk, Left)
ReadTo == Least(hloader.fptr + Chunk, Length[hloader.fp])

\* Variant: an empty read does not end the copy.
LastReadNonempty == Left < Chunk /\ hloader.fptr < Length[hloader.fp]
\* bytesread != cpy_size
LastRead == Left < Chunk

\* Variant: the flash stays unlocked.
KillUnlocked == copying' = FALSE /\ UNCHANGED locked
\* lv_fm_loader_copy_task_kill
Kill == copying' = FALSE /\ locked' = TRUE

\* The buffer goes to the words after cpy_addr, n of them programmed and read
\* back; a word that is not erased cannot be programmed.
Programs(n) == \A i \in (hloader.cpy + 1)..(hloader.cpy + n) : flash[i] = Erased
Programmed(n) ==
  [i \in 1..Mem |-> IF i \in (hloader.cpy + 1)..(hloader.cpy + n)
                    THEN Image[hloader.fp][hloader.fptr + i - hloader.cpy] ELSE flash[i]]

\* Variant: the address is advanced by bytes, as if it were not a pointer to words.
CopyChunkBytes ==
  /\ copying /\ Programs(Read) /\ ~LastRead
  /\ flash' = Programmed(Read)
  /\ hloader' = [hloader EXCEPT !.fptr = ReadTo, !.cpy = @ + 4 * Read, !.err = "no"]
  /\ UNCHANGED <<locked, copying, app>>

CopyChunk ==
  /\ copying /\ Programs(Read) /\ ~LastRead
  /\ flash' = Programmed(Read)
  /\ hloader' = [hloader EXCEPT !.fptr = ReadTo, !.cpy = @ + Read, !.err = "no"]
  /\ UNCHANGED <<locked, copying, app>>

CopyLast ==
  /\ copying /\ Programs(Read) /\ LastRead
  /\ flash' = Programmed(Read)
  /\ Kill
  /\ Start(hloader.fp, [hloader EXCEPT !.fptr = ReadTo, !.cpy = @ + Read,
                                       !.err = "no"], flash')

\* f_read fails, as it does once the media is gone.
ReadFails ==
  /\ copying /\ "read" \in Faults
  /\ Kill
  /\ hloader' = [hloader EXCEPT !.err = "read"]
  /\ UNCHANGED <<flash, app>>

\* A word cannot be programmed, or reads back as something else.
WriteFails ==
  /\ copying
  /\ \E n \in 0..(Read - 1) : \E w \in Word :
       LET at == hloader.cpy + n + 1 IN
       /\ Programs(n) /\ ("program" \in Faults \/ flash[at] # Erased)
       /\ flash' = [Programmed(n) EXCEPT ![at] = w]
       /\ hloader' = [hloader EXCEPT !.fptr = ReadTo,
                                     !.cpy = @ + n, !.err = "write"]
  /\ Kill
  /\ UNCHANGED app

CopyTask == CopyChunk \/ CopyLast \/ ReadFails \/ WriteFails

--------------------------------------------------------------------------------
\* lv_fm_loader_copying_btn_event_cb
Cancel ==
  /\ copying /\ "cancel" \in Faults
  /\ Kill
  /\ UNCHANGED <<flash, hloader, app>>

\* The board is reset, which also ends an application, or its power goes.
Reset ==
  /\ app # None \/ (copying /\ "cut" \in Faults)
  /\ locked' = TRUE /\ copying' = FALSE
  /\ hloader' = Idle /\ app' = None
  /\ UNCHANGED flash

Next ==
  \/ \E f \in File : TooLarge(f) \/ AlreadyLoaded(f) \/ Reload(f) \/ EraseFails(f)
  \/ CopyTask
  \/ Cancel
  \/ Reset

Spec == Init /\ [][Next]_vars
\* LVGL calls the task every millisecond; nothing makes a call fail.
FairSpec == Spec /\ WF_vars(CopyChunk \/ CopyLast)

--------------------------------------------------------------------------------
(* What makes it correct                                                        *)

\* An application is started only when the bank holds all complete flash words
\* of its file (lv_fm_loader_start), whatever earlier clicks have left there:
\* copies that were cancelled, cut off by a reset, or ended by an error.  It does
\* not say so of the tail, which mem_write never writes.
StartsTheFile == app # None => Holds(app, Whole[app])

\* Outside a copy the flash is locked, by whichever of its exits the copy ended.
LockedAtRest == ~copying => locked

\* Programming never meets a word that is not erased: a new copy starts where the
\* erased bank does, whatever the one before it has left in the handle.  So a copy
\* fails to write only when the flash itself fails.
WriteErrorIsReal == hloader.err = "write" => "program" \in Faults

\* A copy comes to an end, for any length of the file.
CopyEnds == copying ~> ~copying
================================================================================
