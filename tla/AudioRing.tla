------------------------------- MODULE AudioRing -------------------------------
(* The local music player (lv_file_player.c) with the WAV library (wav_lib.c).  *)
(*                                                                              *)
(* The file is read into a ring, the read buffer, by lv_fm_player_local_buffer_ *)
(* task, one half of it at a time; wav_lib_process copies from the ring into an *)
(* audio buffer, one half of it at a time; the DMA sends the audio buffer round *)
(* and round, and interrupts when it has sent a half.  The two tasks and the    *)
(* buttons take turns in the main loop; the interrupt comes at any time, also   *)
(* in the middle of lib_process.  They share hlib, whose playback_state all of  *)
(* them write, and none of it is guarded.                                       *)
(*                                                                              *)
(* Sizes are in samples, the unit in which positions are told apart; what the   *)
(* ring and the audio buffer hold is the position in the file it was read from. *)
(* The header counts as read at position 0.  Both tests for an empty read       *)
(* ("if(!bytesread)") are left out: a read that is waited for has read          *)
(* something, since it starts before the end of the file.                       *)
(*                                                                              *)
(* Operators whose comment starts with "Variant" are used by no action: each is *)
(* the operator after it with a slip the code could have had.                   *)
EXTENDS Integers, Sequences, FiniteSetsExt

CONSTANTS
  Ring,        \* size of the read buffer: WAV_LIB_READBUFF_SIZE
  Half,        \* half the audio buffer: WAV_LIB_AUDIOBUF_SIZE / 2
  Chunk,       \* AUDIO_LIB_MIN_READSIZE
  FileSize,
  ByteRate,    \* samples per second, for elapsed_time and total_time
  MaxSongs,    \* bound: songs played
  MaxClicks,   \* bound: pauses and seeks
  Faults       \* what may happen: "io" a read or the codec fails, "reseek" the
               \* slider is moved again while the buffer is being filled

ASSUME SizesAssumption ==
  /\ Ring \in Nat /\ Half \in Nat \ {0} /\ Chunk \in Nat \ {0} /\ FileSize \in Nat
  /\ ByteRate \in Nat \ {0} /\ MaxSongs \in Nat /\ MaxClicks \in Nat
  /\ Ring % 2 = 0 /\ (Ring \div 2) % Chunk = 0 /\ 2 * Half < Ring
  /\ Faults \subseteq {"io", "reseek"}

VARIABLES
  hlib,   \* playback_state, active, err, and state of the audio buffer
  lib,    \* wav_lib_state and read_state of wav_lib.c
  loc,    \* hlib->local: the ring's indices and the read under way
  ring,   \* what the ring holds
  audio,  \* what the halves of the audio buffer hold
  fptr,   \* fptr of the file
  dma,    \* the SAI's DMA, and the half it is sending
  ui,     \* alive: the player's tasks exist; made: ui_created; spin: the spinner; icon
  pc,     \* how far lv_fm_player_process_task is
  past    \* history: next sample to be heard, whether an interrupt came too soon, and
          \* cut: an error or a click had ended the song when the tick found its end

vars == <<hlib, lib, loc, ring, audio, fptr, dma, ui, pc, past>>

H == Ring \div 2
Nothing == -1
Position == 0..FileSize
\* what half an audio buffer may hold
Samples == [1..Half -> {Nothing} \cup Position]

TypeOK ==
  /\ hlib \in [pb: {"idle", "wait", "play", "stop", "pause", "resume"},
               active: BOOLEAN, err: BOOLEAN, evt: {"none", "half", "full"}]
  /\ lib \in [st: {"header", "fill", "play"}, rd: {"req", "wait"}]
  /\ loc \in [playCur: 0..(FileSize + 2 * Half), rptr: 0..(Ring - 1), br: 0..Ring,
              btr: {0, H, Ring}, base: {0, H}, rd: {"req", "wait"}, empty: BOOLEAN,
              state: {"none", "half", "full"}, last: {"none", "half", "full"}]
  /\ ring \in [0..(Ring - 1) -> {Nothing} \cup Position]
  /\ audio \in [{"half", "full"} -> Samples]
  /\ fptr \in Position
  /\ dma \in [st: {"off", "on", "paused"}, at: {"half", "full"}]
  /\ ui \in [alive: BOOLEAN, made: BOOLEAN, spin: BOOLEAN, icon: {"play", "pause"},
             songs: 0..MaxSongs, clicks: 0..MaxClicks]
  /\ pc \in {"idle", "clear", "tail"}
  /\ past \in [heard: 0..FileSize, late: BOOLEAN, cut: BOOLEAN]

Init ==
  /\ hlib = [pb |-> "idle", active |-> FALSE, err |-> FALSE, evt |-> "none"]
  /\ lib = [st |-> "header", rd |-> "req"]
  /\ loc = [playCur |-> 0, rptr |-> 0, br |-> 0, btr |-> 0, base |-> 0, rd |-> "req",
            empty |-> FALSE, state |-> "none", last |-> "none"]
  /\ ring = [i \in 0..(Ring - 1) |-> Nothing]
  /\ audio = [h \in {"half", "full"} |-> [i \in 1..Half |-> Nothing]]
  /\ fptr = 0
  /\ dma = [st |-> "off", at |-> "half"]
  /\ ui = [alive |-> FALSE, made |-> FALSE, spin |-> FALSE, icon |-> "pause",
           songs |-> 0, clicks |-> 0]
  /\ pc = "idle"
  /\ past = [heard |-> 0, late |-> FALSE, cut |-> FALSE]

--------------------------------------------------------------------------------
(* Reading the file: f_read of a chunk to the place of the read under way       *)

Reads(n) ==
  /\ n = Min({Chunk, FileSize - fptr})
  /\ ring' = [i \in 0..(Ring - 1) |->
                IF i \in (loc.base + loc.br)..(loc.base + loc.br + n - 1)
                THEN fptr + (i - loc.base - loc.br) ELSE ring[i]]
  /\ fptr' = fptr + n

Fails == "io" \in Faults /\ hlib' = [hlib EXCEPT !.err = TRUE]

--------------------------------------------------------------------------------
(* lv_fm_player_process_task: one call of lib_process, then the tail            *)

Processing(st) == ui.alive /\ pc = "idle" /\ lib.st = st

\* WAV_LIB_READ_HEADER: allocates the buffers and reads the header
ReadHeader ==
  /\ Processing("header")
  /\ \/ lib' = [st |-> "fill", rd |-> "req"] /\ UNCHANGED hlib
     \/ Fails /\ UNCHANGED lib
  /\ pc' = "tail"
  /\ UNCHANGED <<loc, ring, audio, fptr, dma, ui, past>>

\* WAV_LIB_FILL_READBUFF, read requested: everything starts again from fptr
FillStart ==
  /\ Processing("fill") /\ lib.rd = "req"
  /\ hlib' = [hlib EXCEPT !.evt = "none"]
  /\ loc' = [loc EXCEPT !.playCur = fptr, !.rd = "req", !.rptr = 0, !.state = "none",
                        !.last = "none", !.base = 0, !.btr = Ring, !.br = 0]
  /\ lib' = [lib EXCEPT !.rd = "wait"]
  /\ pc' = "tail"
  /\ UNCHANGED <<ring, audio, fptr, dma, ui, past>>

\* Variant: one chunk too many.
MoreToFillYet == loc.br <= loc.btr /\ fptr < FileSize

Filling == Processing("fill") /\ lib.rd = "wait"
MoreToFill == loc.br < loc.btr /\ fptr < FileSize

FillRead ==
  /\ Filling /\ MoreToFill
  /\ \/ \E n \in 1..Chunk : Reads(n) /\ loc' = [loc EXCEPT !.br = @ + n] /\ UNCHANGED hlib
     \/ Fails /\ UNCHANGED <<ring, fptr, loc>>
  /\ pc' = "tail"
  /\ UNCHANGED <<lib, audio, dma, ui, past>>

\* the ring is full: the audio buffer gets its first samples and the DMA starts
FillDone ==
  /\ Filling /\ ~MoreToFill
  /\ audio' = [h \in {"half", "full"} |->
                 [i \in 1..Half |-> ring[IF h = "half" THEN i - 1 ELSE Half + i - 1]]]
  /\ loc' = [loc EXCEPT !.empty = FALSE, !.rptr = @ + 2 * Half, !.playCur = @ + 2 * Half]
  /\ \/ /\ hlib' = [hlib EXCEPT !.pb = "play"]
        /\ dma' = [st |-> "on", at |-> "half"]
        /\ lib' = [st |-> "play", rd |-> "req"]
        /\ past' = [heard |-> loc.playCur, late |-> FALSE, cut |-> FALSE]
     \/ Fails /\ UNCHANGED <<dma, lib, past>>
  /\ pc' = "tail"
  /\ UNCHANGED <<ring, fptr, ui>>

\* Variants: the position does not wrap; the last samples read are copied at once.
ReadFrameFlat(h) ==
  IF loc.playCur + Half >= fptr
  THEN loc' = [loc EXCEPT !.empty = TRUE] /\ UNCHANGED audio
  ELSE /\ audio' = [audio EXCEPT ![h] = [i \in 1..Half |-> ring[(loc.rptr + i - 1) % Ring]]]
       /\ loc' = [loc EXCEPT !.rptr = @ + Half, !.playCur = @ + Half]

ReadFrameGreedy(h) ==
  IF loc.playCur + Half > fptr
  THEN loc' = [loc EXCEPT !.empty = TRUE] /\ UNCHANGED audio
  ELSE /\ audio' = [audio EXCEPT ![h] = [i \in 1..Half |-> ring[(loc.rptr + i - 1) % Ring]]]
       /\ loc' = [loc EXCEPT !.rptr = (@ + Half) % Ring, !.playCur = @ + Half]

\* WAV_ReadFrame: the next samples of the ring into half h, if they are all there
\* and at least one more
ReadFrame(h) ==
  IF loc.playCur + Half >= fptr
  THEN loc' = [loc EXCEPT !.empty = TRUE] /\ UNCHANGED audio
  ELSE /\ audio' = [audio EXCEPT ![h] = [i \in 1..Half |-> ring[(loc.rptr + i - 1) % Ring]]]
       /\ loc' = [loc EXCEPT !.rptr = (@ + Half) % Ring, !.playCur = @ + Half]

AtEnd == loc.playCur \div ByteRate >= FileSize \div ByteRate

\* WAV_LIB_PROC_SAMPLES, playing: up to the store that clears the event
PlayTick ==
  /\ Processing("play") /\ hlib.pb = "play"
  /\ hlib' = [hlib EXCEPT !.pb = IF AtEnd THEN "stop" ELSE @]
  /\ IF hlib.evt = "none"
     THEN pc' = "tail" /\ UNCHANGED <<loc, audio>>
     ELSE pc' = "clear" /\ ReadFrame(hlib.evt)
  /\ past' = [past EXCEPT !.cut = AtEnd /\ (hlib.err \/ ~hlib.active)]
  /\ UNCHANGED <<lib, ring, fptr, dma, ui>>

ClearEvent ==
  /\ pc = "clear"
  /\ hlib' = [hlib EXCEPT !.evt = "none"]
  /\ pc' = "tail"
  /\ UNCHANGED <<lib, loc, ring, audio, fptr, dma, ui, past>>

\* Variant: BSP_AUDIO_OUT_Play where BSP_AUDIO_OUT_Resume belongs.
OtherTickPlay ==
  /\ Processing("play") /\ hlib.pb \in {"stop", "pause", "resume", "wait"}
  /\ hlib' = [hlib EXCEPT !.active = @ /\ hlib.pb # "stop",
                          !.pb = CASE @ = "pause" -> "wait" [] @ = "resume" -> "play" [] OTHER -> @]
  /\ dma' = CASE hlib.pb = "stop" -> [dma EXCEPT !.st = "off"]
             [] hlib.pb = "pause" -> [dma EXCEPT !.st = IF @ = "on" THEN "paused" ELSE @]
             [] hlib.pb = "resume" -> [st |-> "on", at |-> "half"]
             [] OTHER -> dma
  /\ pc' = "tail"
  /\ UNCHANGED <<lib, loc, ring, audio, fptr, ui, past>>

\* Variant: BSP_AUDIO_OUT_Stop is left out.
OtherTickUnstopped ==
  /\ Processing("play") /\ hlib.pb \in {"stop", "pause", "resume", "wait"}
  /\ hlib' = [hlib EXCEPT !.active = @ /\ hlib.pb # "stop",
                          !.pb = CASE @ = "pause" -> "wait" [] @ = "resume" -> "play" [] OTHER -> @]
  /\ dma' = CASE hlib.pb = "pause" -> [dma EXCEPT !.st = IF @ = "on" THEN "paused" ELSE @]
             [] hlib.pb = "resume" -> [dma EXCEPT !.st = IF @ = "paused" THEN "on" ELSE @]
             [] OTHER -> dma
  /\ pc' = "tail"
  /\ UNCHANGED <<lib, loc, ring, audio, fptr, ui, past>>

\* the other playback states; BSP_AUDIO_OUT_Pause and _Resume act on a running DMA
OtherTick ==
  /\ Processing("play")
  /\ \/ /\ hlib.pb = "stop"
        /\ dma' = [dma EXCEPT !.st = "off"]
        /\ hlib' = [hlib EXCEPT !.active = FALSE]
     \/ /\ hlib.pb = "pause"
        /\ dma' = [dma EXCEPT !.st = IF @ = "on" THEN "paused" ELSE @]
        /\ hlib' = [hlib EXCEPT !.pb = "wait"]
     \/ /\ hlib.pb = "resume"
        /\ dma' = [dma EXCEPT !.st = IF @ = "paused" THEN "on" ELSE @]
        /\ hlib' = [hlib EXCEPT !.pb = "play"]
     \/ hlib.pb = "wait" /\ UNCHANGED <<dma, hlib>>
  /\ pc' = "tail"
  /\ UNCHANGED <<lib, loc, ring, audio, fptr, ui, past>>

\* the rest of the task: the player's screen and spinner, while it goes on
TaskEnd ==
  /\ pc = "tail" /\ hlib.active /\ ~hlib.err
  /\ LET new == hlib.pb = "play" /\ ~ui.made
         read == ui.made /\ (loc.br >= loc.btr \/ fptr = FileSize)
     IN  ui' = [ui EXCEPT !.made = @ \/ new, !.spin = @ /\ ~read,
                          !.icon = IF new THEN "pause" ELSE @]
  /\ pc' = "idle"
  /\ UNCHANGED <<hlib, lib, loc, ring, audio, fptr, dma, past>>

\* Variant: BSP_AUDIO_OUT_Stop is left out.
PlayerDeleteOnly ==
  /\ pc = "tail" /\ (~hlib.active \/ hlib.err)
  /\ hlib' = [hlib EXCEPT !.pb = "idle", !.active = FALSE]
  /\ lib' = [st |-> "header", rd |-> "req"]
  /\ ui' = [ui EXCEPT !.alive = FALSE, !.made = FALSE, !.spin = FALSE]
  /\ pc' = "idle"
  /\ UNCHANGED <<loc, ring, audio, fptr, dma, past>>

\* lv_fm_player_delete, at the end of the task
PlayerDelete ==
  /\ pc = "tail" /\ (~hlib.active \/ hlib.err)
  /\ dma' = [dma EXCEPT !.st = IF hlib.pb = "play" THEN "off" ELSE @]
  /\ hlib' = [hlib EXCEPT !.pb = "idle", !.active = FALSE]
  /\ lib' = [st |-> "header", rd |-> "req"]
  /\ ui' = [ui EXCEPT !.alive = FALSE, !.made = FALSE, !.spin = FALSE]
  /\ pc' = "idle"
  /\ UNCHANGED <<loc, ring, audio, fptr, past>>

--------------------------------------------------------------------------------
(* lv_fm_player_local_buffer_task                                               *)

\* Variant: last_state is not looked at.
HalfDueAgain == loc.rptr >= H

HalfDue == loc.rptr >= H /\ loc.last \in {"none", "full"}
FullDue == loc.rptr < H /\ loc.last = "half"
Due == IF HalfDue THEN "half" ELSE IF FullDue THEN "full" ELSE loc.state

\* the tests at the top of the task; underrun: it pauses until more has been read
Buffering == ui.alive /\ pc = "idle" /\ hlib.pb # "idle" /\ fptr # FileSize
Underrun == loc.empty /\ hlib.pb = "play"
Paused(h) == [h EXCEPT !.pb = IF Underrun THEN "pause" ELSE @]

RefillRequest ==
  /\ Buffering /\ loc.rd = "req"
  /\ loc' = IF Due = "none" THEN loc
            ELSE [loc EXCEPT !.state = Due, !.base = IF Due = "half" THEN 0 ELSE H,
                             !.btr = H, !.br = 0, !.rd = "wait", !.last = Due]
  /\ hlib' = Paused(hlib)
  /\ ui' = [ui EXCEPT !.spin = @ \/ Underrun]
  /\ UNCHANGED <<lib, ring, audio, fptr, dma, pc, past>>

RefillRead ==
  /\ Buffering /\ loc.rd = "wait" /\ loc.br < loc.btr
  /\ \/ /\ \E n \in 1..Chunk : Reads(n) /\ loc' = [loc EXCEPT !.br = @ + n, !.state = Due]
        /\ hlib' = Paused(hlib)
     \/ /\ "io" \in Faults
        /\ hlib' = [Paused(hlib) EXCEPT !.err = TRUE]
        /\ loc' = [loc EXCEPT !.state = Due]
        /\ UNCHANGED <<ring, fptr>>
  /\ ui' = [ui EXCEPT !.spin = @ \/ Underrun]
  /\ UNCHANGED <<lib, audio, dma, pc, past>>

RefillDone ==
  /\ Buffering /\ loc.rd = "wait" /\ loc.br >= loc.btr
  /\ loc' = [loc EXCEPT !.state = "none", !.rd = "req", !.empty = FALSE]
  /\ hlib' = [hlib EXCEPT !.pb = IF loc.empty THEN "resume" ELSE @]
  /\ ui' = [ui EXCEPT !.spin = @ /\ ~loc.empty]
  /\ UNCHANGED <<lib, ring, audio, fptr, dma, pc, past>>

--------------------------------------------------------------------------------
(* The interrupt: BSP_AUDIO_OUT_HalfTransfer_CallBack and _TransferComplete_    *)

\* Variant: the two callbacks are mixed up.
InterruptMixed ==
  /\ dma.st = "on"
  /\ dma' = [dma EXCEPT !.at = IF @ = "half" THEN "full" ELSE "half"]
  /\ hlib' = [hlib EXCEPT !.evt = IF hlib.pb = "play" THEN dma'.at ELSE @]
  /\ past' = [past EXCEPT !.heard = Max({@, audio[dma.at][Half] + 1}),
                          !.late = @ \/ hlib.evt # "none" \/ pc = "clear"]
  /\ UNCHANGED <<lib, loc, ring, audio, fptr, ui, pc>>

Interrupt ==
  /\ dma.st = "on"
  /\ hlib' = [hlib EXCEPT !.evt = IF hlib.pb = "play" THEN dma.at ELSE @]
  /\ dma' = [dma EXCEPT !.at = IF @ = "half" THEN "full" ELSE "half"]
  /\ past' = [past EXCEPT !.heard = Max({@, audio[dma.at][Half] + 1}),
                          !.late = @ \/ hlib.evt # "none" \/ pc = "clear"]
  /\ UNCHANGED <<lib, loc, ring, audio, fptr, ui, pc>>

--------------------------------------------------------------------------------
(* The user                                                                     *)

Click == ui.alive /\ pc = "idle"
Counted == ui.clicks < MaxClicks

\* lv_fm_local_player_start, from the list or from autoplay
Start ==
  /\ ~ui.alive /\ ui.songs < MaxSongs
  /\ hlib' = [hlib EXCEPT !.active = TRUE, !.err = FALSE]
  /\ fptr' = 0
  /\ ui' = [ui EXCEPT !.alive = TRUE, !.spin = TRUE, !.songs = @ + 1]
  /\ UNCHANGED <<lib, loc, ring, audio, dma, pc, past>>

\* the play/pause button, and a long press on the screen, which pauses only
PlayPause ==
  /\ Click /\ ui.made
  /\ \/ /\ ui.icon = "play"
        /\ hlib' = [hlib EXCEPT !.pb = "resume"]
        /\ ui' = [ui EXCEPT !.icon = "pause"]
     \/ /\ ui.icon = "pause" /\ Counted
        /\ hlib' = [hlib EXCEPT !.pb = "pause"]
        /\ ui' = [ui EXCEPT !.icon = "play", !.clicks = @ + 1]
  /\ UNCHANGED <<lib, loc, ring, audio, fptr, dma, pc, past>>

LongPress ==
  /\ Click /\ ui.made /\ Counted /\ hlib.pb = "play"
  /\ hlib' = [hlib EXCEPT !.pb = "pause"]
  /\ ui' = [ui EXCEPT !.icon = "play", !.clicks = @ + 1]
  /\ UNCHANGED <<lib, loc, ring, audio, fptr, dma, pc, past>>

\* a click on the screen while it waits, and one on the spinner, end the song
Close ==
  /\ Click
  /\ \/ ui.made /\ hlib.pb = "wait" /\ hlib' = [hlib EXCEPT !.pb = "stop"]
     \/ ui.spin /\ hlib' = [hlib EXCEPT !.active = FALSE]
  /\ UNCHANGED <<lib, loc, ring, audio, fptr, dma, ui, pc, past>>

\* the slider: wav_lib_seek, to a multiple of the audio buffer
Seek ==
  /\ Click /\ ui.made /\ Counted
  /\ lib.st = "fill" => "reseek" \in Faults
  /\ \E n \in 0..(FileSize \div (2 * Half)) : fptr' = n * 2 * Half
  /\ dma' = [dma EXCEPT !.st = "off"]
  /\ lib' = [lib EXCEPT !.st = "fill"]
  /\ ui' = [ui EXCEPT !.spin = TRUE, !.clicks = @ + 1]
  /\ UNCHANGED <<hlib, loc, ring, audio, pc, past>>

--------------------------------------------------------------------------------
ProcessTask == ReadHeader \/ FillStart \/ FillRead \/ FillDone \/ PlayTick \/ ClearEvent
               \/ OtherTick \/ TaskEnd \/ PlayerDelete
BufferTask == RefillRequest \/ RefillRead \/ RefillDone

Next == ProcessTask \/ BufferTask \/ Interrupt
        \/ Start \/ PlayPause \/ LongPress \/ Close \/ Seek

Spec == Init /\ [][Next]_vars

\* The main loop calls both tasks every millisecond, and a running DMA goes on.
\* Strong fairness for the second task: the first is at work in between.
FairSpec == Spec /\ WF_vars(ProcessTask) /\ SF_vars(BufferTask) /\ WF_vars(Interrupt)

--------------------------------------------------------------------------------
(* Properties                                                                   *)

\* f_read stays inside the read buffer, and inside the half it was asked to
\* refill: reads are whole chunks until the file ends.  The exception is a seek
\* that the process task has not taken up yet: read_state may still be WAIT from
\* the last, short refill, and goes on in the middle of a chunk.
ReadsInside ==
  [][loc'.br > loc.br /\ lib # [st |-> "fill", rd |-> "req"] =>
       loc'.br <= loc.btr /\ loc.base + loc'.br <= Ring]_vars

\* What WAV_ReadFrame puts into the audio buffer are the samples that follow
\* those it put there before: the refill of the ring never runs over samples
\* that were not copied yet, and never lags behind, in whatever order the two
\* tasks and the interrupt come.
InOrder ==
  [][\A h \in {"half", "full"} : audio'[h] # audio[h] /\ lib.st = "play" =>
       audio'[h] = [i \in 1..Half |-> loc.playCur + i - 1]]_vars

\* WAV_ReadFrame never writes into the half the DMA is sending, unless the main
\* loop was late: an interrupt came before the one before it was dealt with.
CopiesBehindDma ==
  [][\A h \in {"half", "full"} : audio'[h] # audio[h] /\ lib.st = "play" =>
       dma.at # h \/ past.late]_vars

\* No sample is passed over: the half the DMA goes on with begins at the next
\* sample to be heard, or repeats samples heard before.  Pauses, underruns and
\* events lost in between may repeat a half, not skip one.
NothingSkipped ==
  lib.st = "play" /\ dma.st # "off" /\ ~past.late => audio[dma.at][1] <= past.heard

\* However a song ends, by itself, by a click or by an error, the DMA is stopped or
\* paused when lv_fm_player_delete frees the audio buffer it sends.  The exception
\* (past.cut) is the song that an error or a click on the spinner had ended when
\* the tick before the deletion found the end of the file as well: the tick sets
\* STOP, which lv_fm_player_delete takes for stopped, and the DMA goes on.  It does
\* so until the next song plays, so one that is deleted before that is excepted too.
NoDmaFromFreed ==
  [][ui.alive /\ ~ui'.alive => dma'.st # "on" \/ past.cut]_vars

\* The wait a song is left in when the ring runs empty during the last refill.
Stalled == hlib.pb = "wait" /\ loc.empty /\ fptr = FileSize

\* Every song comes to its end by itself, unless the user paused it or the ring
\* ran empty during the last refill: a refill is always requested before the
\* ring is empty for good, and what an underrun paused is resumed.
Ends == []<>(~ui.alive \/ ui.icon = "play" \/ Stalled)
================================================================================
