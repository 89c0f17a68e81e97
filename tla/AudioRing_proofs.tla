---------------------------- MODULE AudioRing_proofs ----------------------------
(* Proofs about AudioRing, for a ring, an audio buffer, chunks and a file of any   *)
(* size the assumption allows, for any number of songs and clicks, for an          *)
(* interrupt at any time and reads that fail - but no second seek while the ring   *)
(* is being filled for the first.                                                  *)
EXTENDS AudioRing, TLAPS

Handles == [pb: {"idle", "wait", "play", "stop", "pause", "resume"},
            active: BOOLEAN, err: BOOLEAN, evt: {"none", "half", "full"}]
Libs == [st: {"header", "fill", "play"}, rd: {"req", "wait"}]
Cursors == 0..(FileSize + 2 * Half)
Places == 0..(Ring - 1)
Counts == 0..Ring
Locals == [playCur: Cursors, rptr: Places, br: Counts, btr: {0, H, Ring}, base: {0, H},
           rd: {"req", "wait"}, empty: BOOLEAN,
           state: {"none", "half", "full"}, last: {"none", "half", "full"}]
Dmas == [st: {"off", "on", "paused"}, at: {"half", "full"}]
Songs == 0..MaxSongs
Clicks == 0..MaxClicks
Uis == [alive: BOOLEAN, made: BOOLEAN, spin: BOOLEAN, icon: {"play", "pause"},
        songs: Songs, clicks: Clicks]
Pasts == [heard: Position, late: BOOLEAN, cut: BOOLEAN]

\* What the buffers hold was read, so it lies before the end of the file.
Sample == Nothing..(FileSize - 1)
Readable ==
  /\ ring \in [Places -> Sample]
  /\ audio \in [{"half", "full"} -> [1..Half -> Sample]]

Typed ==
  /\ hlib \in Handles /\ lib \in Libs /\ loc \in Locals /\ fptr \in Position
  /\ dma \in Dmas /\ ui \in Uis /\ pc \in {"idle", "clear", "tail"} /\ past \in Pasts

RingFilling == lib.st = "fill" /\ lib.rd = "wait"

\* While the ring is being filled nothing else moves it.  (After an error in the tick
\* that ends the fill nothing is known; the same tick takes the player away.)
FillSound ==
  RingFilling /\ (pc = "idle" \/ ~hlib.err) =>
    /\ loc.rptr = 0 /\ loc.playCur \in Position /\ loc.base = 0 /\ loc.btr = Ring
    /\ loc.rd = "req" /\ loc.state = "none" /\ loc.last = "none"
    /\ hlib.evt = "none"

\* A read under way has read whole chunks, or up to the end of the file.
Chunks(n) == \E k \in Nat : n = k * Chunk
ReadSound ==
  /\ loc.rd = "wait" => loc.btr = H
  /\ RingFilling \/ (lib.st = "play" /\ loc.rd = "wait") =>
       loc.br <= loc.btr /\ (fptr = FileSize \/ Chunks(loc.br))

\* What the playback state says of the player and of the DMA.
PlaySound ==
  /\ lib.st # "fill" => lib.rd = "req"
  /\ ~ui.alive => lib.st = "header" /\ pc = "idle"
  /\ lib.st = "header" => hlib.pb = "idle"
  /\ hlib.pb = "idle" => ~ui.made
  /\ dma.st = "on" => hlib.pb # "wait" /\ (lib.st = "play" \/ hlib.pb = "idle")
  /\ lib.st = "play" /\ pc # "idle" => hlib.pb \notin {"pause", "resume"}

\* An event that was not late names the half the DMA has left.
EventSound == lib.st = "play" /\ hlib.evt # "none" /\ ~past.late => dma.at # hlib.evt

IInv == Typed /\ Readable /\ FillSound /\ ReadSound /\ PlaySound /\ EventSound

--------------------------------------------------------------------------------
(* Numbers.                                                                     *)

LEMMA Numbers ==
  /\ Ring \in Nat /\ H \in Nat \ {0} /\ Half \in Nat \ {0} /\ Chunk \in Nat \ {0}
  /\ FileSize \in Nat /\ ByteRate \in Nat \ {0} /\ Ring = H + H /\ 2 * Half < Ring
  /\ MaxSongs \in Nat /\ MaxClicks \in Nat
  /\ Chunks(H) /\ Chunks(Ring)
<1>1. /\ Ring \in Nat /\ H \in Nat \ {0} /\ Half \in Nat \ {0} /\ Chunk \in Nat \ {0}
      /\ FileSize \in Nat /\ ByteRate \in Nat \ {0} /\ Ring = H + H /\ 2 * Half < Ring
      /\ MaxSongs \in Nat /\ MaxClicks \in Nat
  BY SizesAssumption DEF H
<1>2. H % Chunk = 0
  BY SizesAssumption DEF H
<1>3. H = (H \div Chunk) * Chunk /\ H \div Chunk \in Nat
  BY <1>1, <1>2
<1>4. Chunks(H)
  BY <1>3 DEF Chunks
<1>5. Ring = (H \div Chunk + H \div Chunk) * Chunk
  BY <1>1, <1>3
<1>6. Chunks(Ring)
  BY <1>3, <1>5 DEF Chunks
<1> QED
  BY <1>1, <1>4, <1>6

\* There is room for a chunk behind whole chunks.
LEMMA RoomForChunk ==
  ASSUME NEW a \in Nat, NEW b \in Nat, Chunks(a), Chunks(b), a < b
  PROVE  a + Chunk <= b /\ Chunks(a + Chunk)
<1>1. PICK k \in Nat, m \in Nat : a = k * Chunk /\ b = m * Chunk
  BY DEF Chunks
<1>2. Chunk \in Nat \ {0}
  BY Numbers
<1>3. k < m
  BY <1>1, <1>2
<1>4. (k + 1) * Chunk = a + Chunk /\ (k + 1) * Chunk <= m * Chunk
  BY <1>1, <1>2, <1>3
<1> QED
  BY <1>1, <1>4 DEF Chunks

LEMMA MinOfTwo ==
  ASSUME NEW a \in Nat, NEW b \in Nat
  PROVE  Min({a, b}) = IF a <= b THEN a ELSE b
<1> DEFINE m == IF a <= b THEN a ELSE b
<1>1. m \in {a, b} /\ \A y \in {a, b} : m <= y
  OBVIOUS
<1>2. \A x \in {a, b} : (\A y \in {a, b} : x <= y) => x = m
  OBVIOUS
<1> QED
  BY <1>1, <1>2 DEF Min

LEMMA MaxOfTwo ==
  ASSUME NEW a \in Nat, NEW b \in Nat
  PROVE  Max({a, b}) = IF a <= b THEN b ELSE a
<1> DEFINE m == IF a <= b THEN b ELSE a
<1>1. m \in {a, b} /\ \A y \in {a, b} : m >= y
  OBVIOUS
<1>2. \A x \in {a, b} : (\A y \in {a, b} : x >= y) => x = m
  OBVIOUS
<1> QED
  BY <1>1, <1>2 DEF Max

\* f_read gives a chunk, or what is left of the file.
LEMMA ReadsFacts ==
  ASSUME IInv, NEW n \in 1..Chunk, Reads(n)
  PROVE  /\ fptr' = fptr + n /\ fptr' \in Position
         /\ n = Chunk \/ fptr' = FileSize
         /\ ring' \in [Places -> Sample]
<1>1. fptr \in Nat /\ fptr <= FileSize /\ FileSize \in Nat /\ Chunk \in Nat /\ loc.base \in Nat
      /\ loc.br \in Nat
  BY Numbers DEF IInv, Typed, Position, Locals, Counts
<1>2. FileSize - fptr \in Nat
  BY <1>1
<1>3. n = IF Chunk <= FileSize - fptr THEN Chunk ELSE FileSize - fptr
  BY <1>1, <1>2, MinOfTwo DEF Reads
<1>4. fptr' = fptr + n
  BY DEF Reads
<1>5. \A i \in Places : i \in (loc.base + loc.br)..(loc.base + loc.br + n - 1) =>
                      fptr + (i - loc.base - loc.br) \in Sample
  BY <1>1, <1>3, Numbers DEF Sample, Nothing, Places
<1>6. ring \in [Places -> Sample]
  BY DEF IInv, Readable
<1>7. ring' \in [Places -> Sample]
  BY <1>5, <1>6 DEF Reads, Places
<1> QED
  BY <1>1, <1>3, <1>4, <1>7 DEF Position

LEMMA Ranges ==
  /\ 0 \in Places /\ 0 \in Counts /\ Chunks(0) /\ 0 \in Position /\ Position \subseteq Cursors
  /\ 2 * Half \in Places
  /\ \A n \in Songs : n < MaxSongs => n + 1 \in Songs
  /\ \A n \in Clicks : n < MaxClicks => n + 1 \in Clicks
<1>1. Chunks(0)
  <2>1. 0 = 0 * Chunk
    BY Numbers
  <2> QED
    BY <2>1 DEF Chunks
<1> QED
  BY <1>1, Numbers DEF Places, Counts, Position, Cursors, Songs, Clicks

LEMMA Wraps ==
  ASSUME NEW i \in Nat
  PROVE  i % Ring \in Places
  BY Numbers DEF Places

\* A chunk read where there is room for more stays inside what was asked for.
LEMMA ChunkRead ==
  ASSUME IInv, NEW n \in 1..Chunk, Reads(n), loc.br < loc.btr, Chunks(loc.br), Chunks(loc.btr)
  PROVE  /\ loc.br + n <= loc.btr /\ loc.br + n \in Counts
         /\ fptr' = FileSize \/ Chunks(loc.br + n)
<1>1. loc.br \in Nat /\ loc.btr \in Nat /\ loc.btr <= Ring
  BY Numbers DEF IInv, Typed, Locals, Counts
<1>2. loc.br + Chunk <= loc.btr /\ Chunks(loc.br + Chunk)
  BY <1>1, RoomForChunk
<1>3. n = Chunk \/ fptr' = FileSize
  BY ReadsFacts
<1> QED
  BY <1>1, <1>2, <1>3, Numbers DEF Counts

--------------------------------------------------------------------------------
(* The process task.                                                            *)

LEMMA ReadHeaderStep ==
  ASSUME IInv, ReadHeader
  PROVE  IInv'
<1>1. Typed'
  <2>1. lib' \in Libs
    BY DEF ReadHeader, Processing, Fails, IInv, Typed, Libs
  <2>2. hlib' \in Handles
    BY DEF ReadHeader, Processing, Fails, IInv, Typed, Handles
  <2> QED
    BY <2>1, <2>2 DEF ReadHeader, Processing, Fails, IInv, Typed
<1>2. Readable'
  BY DEF ReadHeader, Processing, Fails, IInv, Readable
<1>3. FillSound'
  BY DEF ReadHeader, Processing, Fails, IInv, Typed, FillSound, RingFilling, PlaySound, Handles, Libs, Locals
<1>4. ReadSound'
  BY DEF ReadHeader, Processing, Fails, IInv, Typed, ReadSound, RingFilling, PlaySound, Libs, Locals
<1>5. PlaySound'
  BY DEF ReadHeader, Processing, Fails, IInv, Typed, PlaySound, FillSound, RingFilling, Handles, Libs, Dmas, Uis
<1>6. EventSound'
  BY DEF ReadHeader, Processing, Fails, IInv, Typed, EventSound, PlaySound, Handles, Libs, Dmas, Pasts
<1> QED
  BY <1>1, <1>2, <1>3, <1>4, <1>5, <1>6 DEF IInv

LEMMA FillStartStep ==
  ASSUME IInv, FillStart
  PROVE  IInv'
<1>1. Typed'
  <2>1. hlib' \in Handles
    BY DEF FillStart, Processing, IInv, Typed, Handles
  <2>2. loc' \in Locals
    BY Ranges DEF FillStart, Processing, IInv, Typed, Locals
  <2>3. lib' \in Libs
    BY DEF FillStart, Processing, IInv, Typed, Libs
  <2> QED
    BY <2>1, <2>2, <2>3 DEF FillStart, Processing, IInv, Typed
<1>2. Readable'
  BY DEF FillStart, Processing, IInv, Readable
<1>3. FillSound'
  BY DEF FillStart, Processing, IInv, Typed, FillSound, RingFilling, PlaySound, Handles, Libs, Locals
<1>4. ReadSound'
  BY Ranges, Numbers DEF FillStart, Processing, IInv, Typed, ReadSound, RingFilling, Locals
<1>5. PlaySound'
  BY DEF FillStart, Processing, IInv, Typed, PlaySound, FillSound, RingFilling, Handles, Libs, Dmas, Uis
<1>6. EventSound'
  BY DEF FillStart, Processing, IInv, Typed, EventSound, PlaySound, Handles, Libs, Dmas, Pasts
<1> QED
  BY <1>1, <1>2, <1>3, <1>4, <1>5, <1>6 DEF IInv

LEMMA FillReadGives ==
  ASSUME IInv, FillRead
  PROVE  /\ loc' \in Locals /\ fptr' \in Position /\ ring' \in [Places -> Sample]
         /\ loc'.br <= Ring /\ (fptr' = FileSize \/ Chunks(loc'.br))
         /\ RingFilling /\ loc.btr = Ring /\ loc.base = 0
         /\ \E n \in Counts : loc' = [loc EXCEPT !.br = n]
<1>1. /\ RingFilling /\ pc = "idle" /\ loc.btr = Ring /\ loc.base = 0
      /\ loc.br < Ring /\ fptr < FileSize
  BY DEF FillRead, Filling, MoreToFill, Processing, RingFilling, IInv, FillSound
<1>2. Chunks(loc.br) /\ Chunks(loc.btr)
  BY <1>1, Numbers DEF IInv, ReadSound, Typed, Position
<1>3. loc \in Locals /\ loc.br \in Counts /\ fptr \in Position /\ ring \in [Places -> Sample]
  BY DEF IInv, Typed, Readable, Locals
<1>4. CASE loc' = loc /\ fptr' = fptr /\ ring' = ring
  <2>1. loc' = [loc EXCEPT !.br = loc.br]
    BY <1>3, <1>4 DEF Locals
  <2>2. loc.br <= Ring
    BY <1>3, Numbers DEF Counts
  <2> QED
    BY <1>1, <1>2, <1>3, <1>4, <2>1, <2>2
<1>5. ASSUME NEW n \in 1..Chunk, Reads(n), loc' = [loc EXCEPT !.br = @ + n]
      PROVE  /\ loc' \in Locals /\ loc'.br = loc.br + n /\ loc.br + n \in Counts
             /\ loc.br + n <= loc.btr /\ (fptr' = FileSize \/ Chunks(loc.br + n))
             /\ fptr' \in Position /\ ring' \in [Places -> Sample]
  <2>1. loc.br + n <= loc.btr /\ loc.br + n \in Counts /\ (fptr' = FileSize \/ Chunks(loc.br + n))
    BY <1>1, <1>2, <1>5, ChunkRead
  <2>2. loc' \in Locals /\ loc'.br = loc.br + n
    BY <1>3, <1>5, <2>1 DEF Locals
  <2> QED
    BY <1>5, <2>1, <2>2, ReadsFacts
<1> QED
  BY <1>1, <1>4, <1>5 DEF FillRead

LEMMA FillReadStep ==
  ASSUME IInv, FillRead
  PROVE  IInv'
<1>1. Typed'
  <2>1. hlib' \in Handles
    BY DEF FillRead, Filling, Processing, Fails, IInv, Typed, Handles
  <2>2. loc' \in Locals
    BY FillReadGives
  <2>3. fptr' \in Position
    BY FillReadGives
  <2> QED
    BY <2>1, <2>2, <2>3 DEF FillRead, Filling, Processing, Fails, IInv, Typed
<1>2. Readable'
  BY FillReadGives DEF FillRead, IInv, Readable
<1>3. FillSound'
  BY DEF FillRead, Filling, Processing, Fails, IInv, Typed, FillSound, RingFilling, PlaySound, Handles, Libs, Locals
<1>4. ReadSound'
  BY FillReadGives DEF FillRead, IInv, Typed, ReadSound, RingFilling, Locals, FillSound
<1>5. PlaySound'
  BY DEF FillRead, Filling, Processing, Fails, IInv, Typed, PlaySound, FillSound, RingFilling, Handles, Libs, Dmas, Uis
<1>6. EventSound'
  BY DEF FillRead, Filling, Processing, Fails, IInv, Typed, EventSound, PlaySound, Handles, Libs, Dmas, Pasts
<1> QED
  BY <1>1, <1>2, <1>3, <1>4, <1>5, <1>6 DEF IInv

LEMMA FillDoneStep ==
  ASSUME IInv, FillDone
  PROVE  IInv'
<1>1. Typed'
  <2>1. loc' \in Locals
    <3>1. loc.rptr = 0 /\ loc.playCur \in Position
      BY DEF FillDone, Filling, Processing, IInv, FillSound, RingFilling
    <3>2. loc.rptr + 2 * Half \in Places /\ loc.playCur + 2 * Half \in Cursors
      BY <3>1, Numbers, Ranges DEF Position, Cursors
    <3> QED
      BY <3>2 DEF FillDone, IInv, Typed, Locals
  <2>2. hlib' \in Handles
    BY DEF FillDone, Filling, Processing, Fails, IInv, Typed, Handles
  <2>3. dma' \in Dmas
    BY DEF FillDone, Filling, Processing, Fails, IInv, Typed, Dmas
  <2>4. lib' \in Libs
    BY DEF FillDone, Filling, Processing, Fails, IInv, Typed, Libs
  <2>5. past' \in Pasts
    <3>1. loc.playCur \in Position
      BY DEF FillDone, Filling, Processing, IInv, FillSound, RingFilling
    <3>2. past' = past \/ past' = [heard |-> loc.playCur, late |-> FALSE, cut |-> FALSE]
      BY DEF FillDone
    <3>3. past \in Pasts
      BY DEF IInv, Typed
    <3>4. [heard |-> loc.playCur, late |-> FALSE, cut |-> FALSE] \in Pasts
      BY <3>1 DEF Pasts
    <3> QED
      BY <3>2, <3>3, <3>4
  <2> QED
    BY <2>1, <2>2, <2>3, <2>4, <2>5 DEF FillDone, Filling, Processing, Fails, IInv, Typed
<1>2. Readable'
  <2>1. \A h \in {"half", "full"} : \A i \in 1..Half :
          (IF h = "half" THEN i - 1 ELSE Half + i - 1) \in Places
    BY Numbers DEF Places
  <2> QED
    BY <2>1 DEF FillDone, IInv, Readable
<1>3. FillSound'
  BY DEF FillDone, Filling, Processing, Fails, IInv, Typed, FillSound, RingFilling, PlaySound, Handles, Libs, Locals
<1>4. ReadSound'
  BY DEF FillDone, Filling, Processing, Fails, IInv, Typed, ReadSound, RingFilling, PlaySound, Libs, Locals
<1>5. PlaySound'
  BY DEF FillDone, Filling, Processing, Fails, IInv, Typed, PlaySound, FillSound, RingFilling, Handles, Libs, Dmas, Uis
<1>6. EventSound'
  BY DEF FillDone, Filling, Processing, Fails, IInv, Typed, FillSound, RingFilling, EventSound, Handles, Libs, Dmas, Pasts
<1> QED
  BY <1>1, <1>2, <1>3, <1>4, <1>5, <1>6 DEF IInv

LEMMA PlayTickStep ==
  ASSUME IInv, PlayTick
  PROVE  IInv'
<1>1. Typed'
  <2>1. hlib' \in Handles
    BY DEF PlayTick, Processing, ReadFrame, IInv, Typed, Handles
  <2>2. loc' \in Locals
    <3>1. loc.playCur \in Nat /\ fptr \in Nat /\ fptr <= FileSize /\ loc.rptr \in Nat
      BY Numbers DEF IInv, Typed, Locals, Cursors, Position, Places
    <3>2. (loc.rptr + Half) % Ring \in Places
      BY <3>1, Numbers, Wraps
    <3>3. loc.playCur + Half < fptr => loc.playCur + Half \in Cursors
      BY <3>1, Numbers DEF Cursors
    <3>4. \/ loc' = loc
          \/ loc' = [loc EXCEPT !.empty = TRUE]
          \/ /\ loc.playCur + Half < fptr
             /\ loc' = [loc EXCEPT !.rptr = (@ + Half) % Ring, !.playCur = @ + Half]
      BY <3>1, Numbers DEF PlayTick, ReadFrame
    <3> QED
      BY <3>2, <3>3, <3>4 DEF IInv, Typed, Locals
  <2>3. past' \in Pasts
    <3>1. past \in Pasts /\ (AtEnd /\ (hlib.err \/ ~hlib.active)) \in BOOLEAN
      BY DEF IInv, Typed
    <3> DEFINE c == AtEnd /\ (hlib.err \/ ~hlib.active)
    <3>2. past' = [past EXCEPT !.cut = c] /\ c \in BOOLEAN
      BY <3>1 DEF PlayTick
    <3> HIDE DEF c
    <3> QED
      BY <3>1, <3>2 DEF Pasts
  <2> QED
    BY <2>1, <2>2, <2>3 DEF PlayTick, Processing, ReadFrame, IInv, Typed
<1>2. Readable'
  <2>1. \A i \in 1..Half : (loc.rptr + i - 1) % Ring \in Places
    <3> TAKE i \in 1..Half
    <3>1. loc.rptr \in Places
      BY DEF IInv, Typed, Locals
    <3>2. loc.rptr + i - 1 \in Nat
      BY <3>1, Numbers DEF Places
    <3> QED
      BY <3>2, Wraps
  <2>2. \/ audio' = audio
        \/ \E h : audio' = [audio EXCEPT ![h] = [i \in 1..Half |-> ring[(loc.rptr + i - 1) % Ring]]]
    BY DEF PlayTick, ReadFrame
  <2>3. ring' = ring
    BY DEF PlayTick
  <2> QED
    BY <2>1, <2>2, <2>3 DEF IInv, Readable
<1>3. FillSound'
  BY DEF PlayTick, Processing, ReadFrame, IInv, Typed, FillSound, RingFilling, PlaySound, Handles, Libs, Locals
<1>4. ReadSound'
  BY DEF PlayTick, Processing, ReadFrame, IInv, Typed, ReadSound, RingFilling, PlaySound, Libs, Locals
<1>5. PlaySound'
  BY DEF PlayTick, Processing, ReadFrame, IInv, Typed, PlaySound, FillSound, RingFilling, Handles, Libs, Dmas, Uis
<1>6. EventSound'
  BY DEF PlayTick, Processing, ReadFrame, IInv, Typed, EventSound, PlaySound, Handles, Libs, Dmas, Pasts
<1> QED
  BY <1>1, <1>2, <1>3, <1>4, <1>5, <1>6 DEF IInv

LEMMA ClearEventStep ==
  ASSUME IInv, ClearEvent
  PROVE  IInv'
<1>1. Typed'
  <2>1. hlib' \in Handles
    BY DEF ClearEvent, IInv, Typed, Handles
  <2> QED
    BY <2>1 DEF ClearEvent, IInv, Typed
<1>2. Readable'
  BY DEF ClearEvent, IInv, Readable
<1>3. FillSound'
  BY DEF ClearEvent, IInv, Typed, FillSound, RingFilling, PlaySound, Handles, Libs, Locals
<1>4. ReadSound'
  BY DEF ClearEvent, IInv, Typed, ReadSound, RingFilling, PlaySound, Libs, Locals
<1>5. PlaySound'
  BY DEF ClearEvent, IInv, Typed, PlaySound, FillSound, RingFilling, Handles, Libs, Dmas, Uis
<1>6. EventSound'
  BY DEF ClearEvent, IInv, Typed, EventSound, PlaySound, Handles, Libs, Dmas, Pasts
<1> QED
  BY <1>1, <1>2, <1>3, <1>4, <1>5, <1>6 DEF IInv

LEMMA OtherTickStep ==
  ASSUME IInv, OtherTick
  PROVE  IInv'
<1>1. Typed'
  <2>1. hlib' \in Handles
    BY DEF OtherTick, Processing, IInv, Typed, Handles
  <2>2. dma' \in Dmas
    BY DEF OtherTick, Processing, IInv, Typed, Dmas
  <2> QED
    BY <2>1, <2>2 DEF OtherTick, Processing, IInv, Typed
<1>2. Readable'
  BY DEF OtherTick, Processing, IInv, Readable
<1>3. FillSound'
  BY DEF OtherTick, Processing, IInv, Typed, FillSound, RingFilling, PlaySound, Handles, Libs, Locals
<1>4. ReadSound'
  BY DEF OtherTick, Processing, IInv, Typed, ReadSound, RingFilling, PlaySound, Libs, Locals
<1>5. PlaySound'
  BY DEF OtherTick, Processing, IInv, Typed, PlaySound, FillSound, RingFilling, Handles, Libs, Dmas, Uis
<1>6. EventSound'
  BY DEF OtherTick, Processing, IInv, Typed, EventSound, PlaySound, Handles, Libs, Dmas, Pasts
<1> QED
  BY <1>1, <1>2, <1>3, <1>4, <1>5, <1>6 DEF IInv

LEMMA TaskEndStep ==
  ASSUME IInv, TaskEnd
  PROVE  IInv'
<1>1. Typed'
  <2>1. ui' \in Uis
    BY DEF TaskEnd, IInv, Typed, Uis
  <2> QED
    BY <2>1 DEF TaskEnd, IInv, Typed
<1>2. Readable'
  BY DEF TaskEnd, IInv, Readable
<1>3. FillSound'
  BY DEF TaskEnd, IInv, Typed, FillSound, RingFilling, PlaySound, Handles, Libs, Locals
<1>4. ReadSound'
  BY DEF TaskEnd, IInv, Typed, ReadSound, RingFilling, PlaySound, Libs, Locals
<1>5. PlaySound'
  BY DEF TaskEnd, IInv, Typed, PlaySound, FillSound, RingFilling, Handles, Libs, Dmas, Uis
<1>6. EventSound'
  BY DEF TaskEnd, IInv, Typed, EventSound, PlaySound, Handles, Libs, Dmas, Pasts
<1> QED
  BY <1>1, <1>2, <1>3, <1>4, <1>5, <1>6 DEF IInv

LEMMA PlayerDeleteStep ==
  ASSUME IInv, PlayerDelete
  PROVE  IInv'
<1>1. Typed'
  <2>1. dma' \in Dmas
    BY DEF PlayerDelete, IInv, Typed, Dmas
  <2>2. hlib' \in Handles
    BY DEF PlayerDelete, IInv, Typed, Handles
  <2>3. lib' \in Libs
    BY DEF PlayerDelete, IInv, Typed, Libs
  <2>4. ui' \in Uis
    BY DEF PlayerDelete, IInv, Typed, Uis
  <2> QED
    BY <2>1, <2>2, <2>3, <2>4 DEF PlayerDelete, IInv, Typed
<1>2. Readable'
  BY DEF PlayerDelete, IInv, Readable
<1>3. FillSound'
  BY DEF PlayerDelete, IInv, Typed, FillSound, RingFilling, PlaySound, Handles, Libs, Locals
<1>4. ReadSound'
  BY DEF PlayerDelete, IInv, Typed, ReadSound, RingFilling, PlaySound, Libs, Locals
<1>5. PlaySound'
  BY DEF PlayerDelete, IInv, Typed, PlaySound, FillSound, RingFilling, Handles, Libs, Dmas, Uis
<1>6. EventSound'
  BY DEF PlayerDelete, IInv, Typed, EventSound, PlaySound, Handles, Libs, Dmas, Pasts
<1> QED
  BY <1>1, <1>2, <1>3, <1>4, <1>5, <1>6 DEF IInv

--------------------------------------------------------------------------------
(* The buffer task.                                                             *)

LEMMA DueFacts ==
  ASSUME IInv
  PROVE  /\ Due \in {"none", "half", "full"}
         /\ RingFilling /\ pc = "idle" => Due = "none"
<1>1. Due \in {"none", "half", "full"}
  BY DEF Due, IInv, Typed, Locals
<1>2. ASSUME RingFilling, pc = "idle" PROVE Due = "none"
  BY <1>2, Numbers DEF Due, HalfDue, FullDue, IInv, FillSound
<1> QED
  BY <1>1, <1>2

LEMMA RefillRequestStep ==
  ASSUME IInv, RefillRequest
  PROVE  IInv'
<1>1. Typed'
  <2>1. loc' \in Locals
    BY DueFacts, Ranges DEF RefillRequest, IInv, Typed, Locals
  <2>2. hlib' \in Handles
    BY DEF RefillRequest, Buffering, Paused, Underrun, Due, HalfDue, FullDue, IInv, Typed, Handles
  <2>3. ui' \in Uis
    BY DEF RefillRequest, Buffering, Paused, Underrun, Due, HalfDue, FullDue, IInv, Typed, Uis
  <2> QED
    BY <2>1, <2>2, <2>3 DEF RefillRequest, Buffering, Paused, Underrun, Due, HalfDue, FullDue, IInv, Typed
<1>2. Readable'
  BY DEF RefillRequest, Buffering, Paused, Underrun, Due, HalfDue, FullDue, IInv, Readable
<1>3. FillSound'
  <2>1. RingFilling => loc' = loc
    BY DueFacts DEF RefillRequest, Buffering
  <2>2. pc = "idle" /\ pc' = pc /\ lib' = lib /\ hlib'.evt = hlib.evt
    BY DEF RefillRequest, Buffering, Paused, IInv, Typed, Handles
  <2> QED
    BY <2>1, <2>2 DEF IInv, FillSound, RingFilling
<1>4. ReadSound'
  <2>1. CASE Due = "none"
    BY <2>1 DEF RefillRequest, IInv, ReadSound, RingFilling
  <2>2. CASE Due # "none"
    <3>1. ~RingFilling /\ lib' = lib
      BY <2>2, DueFacts DEF RefillRequest, Buffering
    <3>2. loc'.btr = H /\ loc'.br = 0
      BY <2>2 DEF RefillRequest, IInv, Typed, Locals
    <3> QED
      BY <3>1, <3>2, Numbers, Ranges DEF ReadSound, RingFilling
  <2> QED
    BY <2>1, <2>2
<1>5. PlaySound'
  BY DEF RefillRequest, Buffering, Paused, Underrun, Due, HalfDue, FullDue, IInv, Typed, PlaySound, FillSound, RingFilling, Handles, Libs, Dmas, Uis
<1>6. EventSound'
  BY DEF RefillRequest, Buffering, Paused, Underrun, Due, HalfDue, FullDue, IInv, Typed, EventSound, PlaySound, Handles, Libs, Dmas, Pasts
<1> QED
  BY <1>1, <1>2, <1>3, <1>4, <1>5, <1>6 DEF IInv

LEMMA RefillReadGives ==
  ASSUME IInv, RefillRead
  PROVE  /\ loc' \in Locals /\ fptr' \in Position /\ ring' \in [Places -> Sample]
         /\ loc.btr = H /\ \E n \in Counts : \E st : loc' = [loc EXCEPT !.br = n, !.state = st]
         /\ lib.st = "play" => loc'.br <= H /\ (fptr' = FileSize \/ Chunks(loc'.br))
<1>1. loc.rd = "wait" /\ loc.br < loc.btr /\ loc.btr = H /\ fptr # FileSize
  BY DEF RefillRead, Buffering, IInv, ReadSound
<1>2. lib.st = "play" => Chunks(loc.br) /\ Chunks(loc.btr)
  BY <1>1, Numbers DEF IInv, ReadSound
<1>3. loc \in Locals /\ loc.br \in Counts /\ fptr \in Position /\ ring \in [Places -> Sample]
  BY DEF IInv, Typed, Readable, Locals
<1>4. Due \in {"none", "half", "full"}
  BY DueFacts
<1>5. CASE loc' = [loc EXCEPT !.state = Due] /\ fptr' = fptr /\ ring' = ring
  <2>1. loc' = [loc EXCEPT !.br = loc.br, !.state = Due] /\ loc'.br = loc.br /\ loc' \in Locals
    BY <1>3, <1>4, <1>5 DEF Locals
  <2>2. loc.br <= H
    BY <1>1, <1>3, Numbers DEF Counts
  <2> QED
    BY <1>1, <1>2, <1>3, <1>5, <2>1, <2>2
<1>6. ASSUME NEW n \in 1..Chunk, Reads(n), loc' = [loc EXCEPT !.br = @ + n, !.state = Due]
      PROVE  /\ loc' \in Locals /\ loc'.br = loc.br + n /\ loc.br + n \in Counts
             /\ lib.st = "play" =>
                  loc.br + n <= H /\ (fptr' = FileSize \/ Chunks(loc.br + n))
             /\ fptr' \in Position /\ ring' \in [Places -> Sample]
  <2>1. lib.st = "play" => loc.br + n <= H /\ (fptr' = FileSize \/ Chunks(loc.br + n))
    BY <1>1, <1>2, <1>6, ChunkRead
  <2>2. Chunk <= H
    BY RoomForChunk, Ranges, Numbers
  <2>3. loc.br + n \in Counts
    BY <1>1, <1>3, <2>2, Numbers DEF Counts
  <2>4. loc' \in Locals /\ loc'.br = loc.br + n
    BY <1>3, <1>4, <1>6, <2>3 DEF Locals
  <2> QED
    BY <1>6, <2>1, <2>3, <2>4, ReadsFacts
<1> QED
  BY <1>1, <1>5, <1>6 DEF RefillRead

LEMMA RefillReadStep ==
  ASSUME IInv, RefillRead
  PROVE  IInv'
<1>1. Typed'
  <2>1. loc' \in Locals
    BY RefillReadGives
  <2>2. hlib' \in Handles
    BY DEF RefillRead, Buffering, Paused, Underrun, Due, HalfDue, FullDue, IInv, Typed, Handles
  <2>3. ui' \in Uis
    BY DEF RefillRead, Buffering, Paused, Underrun, Due, HalfDue, FullDue, IInv, Typed, Uis
  <2>4. fptr' \in Position
    BY RefillReadGives
  <2> QED
    BY <2>1, <2>2, <2>3, <2>4 DEF RefillRead, Buffering, Paused, Underrun, Due, HalfDue, FullDue, IInv, Typed
<1>2. Readable'
  BY RefillReadGives DEF RefillRead, IInv, Readable
<1>3. FillSound'
  BY DEF RefillRead, Buffering, Paused, Underrun, Due, HalfDue, FullDue, IInv, Typed, FillSound, RingFilling, PlaySound, Handles, Libs, Locals
<1>4. ReadSound'
  <2>1. pc = "idle" /\ loc.rd = "wait" /\ lib' = lib /\ ~RingFilling
    BY DEF RefillRead, Buffering, IInv, FillSound
  <2>2. loc'.btr = H
    BY RefillReadGives DEF IInv, Typed, Locals
  <2> QED
    BY <2>1, <2>2, RefillReadGives DEF ReadSound, RingFilling
<1>5. PlaySound'
  BY DEF RefillRead, Buffering, Paused, Underrun, Due, HalfDue, FullDue, IInv, Typed, PlaySound, FillSound, RingFilling, Handles, Libs, Dmas, Uis
<1>6. EventSound'
  BY DEF RefillRead, Buffering, Paused, Underrun, Due, HalfDue, FullDue, IInv, Typed, EventSound, PlaySound, Handles, Libs, Dmas, Pasts
<1> QED
  BY <1>1, <1>2, <1>3, <1>4, <1>5, <1>6 DEF IInv

LEMMA RefillDoneStep ==
  ASSUME IInv, RefillDone
  PROVE  IInv'
<1>1. Typed'
  <2>1. loc' \in Locals
    BY DEF RefillDone, Buffering, IInv, Typed, Locals
  <2>2. hlib' \in Handles
    BY DEF RefillDone, Buffering, IInv, Typed, Handles
  <2>3. ui' \in Uis
    BY DEF RefillDone, Buffering, IInv, Typed, Uis
  <2> QED
    BY <2>1, <2>2, <2>3 DEF RefillDone, Buffering, IInv, Typed
<1>2. Readable'
  BY DEF RefillDone, Buffering, IInv, Readable
<1>3. FillSound'
  BY DEF RefillDone, Buffering, IInv, Typed, FillSound, RingFilling, PlaySound, Handles, Libs, Locals
<1>4. ReadSound'
  BY DEF RefillDone, Buffering, IInv, Typed, ReadSound, RingFilling, PlaySound, Libs, Locals
<1>5. PlaySound'
  BY DEF RefillDone, Buffering, IInv, Typed, PlaySound, FillSound, RingFilling, Handles, Libs, Dmas, Uis
<1>6. EventSound'
  BY DEF RefillDone, Buffering, IInv, Typed, EventSound, PlaySound, Handles, Libs, Dmas, Pasts
<1> QED
  BY <1>1, <1>2, <1>3, <1>4, <1>5, <1>6 DEF IInv

--------------------------------------------------------------------------------
(* The interrupt and the user.                                                  *)

LEMMA InterruptStep ==
  ASSUME IInv, Interrupt
  PROVE  IInv'
<1>1. Typed'
  <2>1. hlib' \in Handles
    BY DEF Interrupt, IInv, Typed, Handles, Dmas
  <2>2. dma' \in Dmas
    BY DEF Interrupt, IInv, Typed, Dmas
  <2>3. past' \in Pasts
    <3>1. past.heard \in Nat /\ past.heard <= FileSize
      BY Numbers DEF IInv, Typed, Pasts, Position
    <3>2. audio[dma.at][Half] \in Sample
      BY Numbers DEF IInv, Typed, Readable, Dmas
    <3>3. audio[dma.at][Half] + 1 \in Nat /\ audio[dma.at][Half] + 1 <= FileSize
      BY <3>2, Numbers DEF Sample, Nothing
    <3>4. Max({past.heard, audio[dma.at][Half] + 1}) \in Position
      BY <3>1, <3>3, MaxOfTwo DEF Position
    <3> QED
      BY <3>4 DEF Interrupt, IInv, Typed, Pasts
  <2> QED
    BY <2>1, <2>2, <2>3 DEF Interrupt, IInv, Typed
<1>2. Readable'
  BY DEF Interrupt, IInv, Readable
<1>3. FillSound'
  BY DEF Interrupt, IInv, Typed, FillSound, RingFilling, PlaySound, Handles, Libs, Locals
<1>4. ReadSound'
  BY DEF Interrupt, IInv, Typed, ReadSound, RingFilling, PlaySound, Libs, Locals
<1>5. PlaySound'
  BY DEF Interrupt, IInv, Typed, PlaySound, FillSound, RingFilling, Handles, Libs, Dmas, Uis
<1>6. EventSound'
  BY DEF Interrupt, IInv, Typed, EventSound, PlaySound, Handles, Libs, Dmas, Pasts
<1> QED
  BY <1>1, <1>2, <1>3, <1>4, <1>5, <1>6 DEF IInv

LEMMA StartStep ==
  ASSUME IInv, Start
  PROVE  IInv'
<1>1. Typed'
  <2>1. hlib' \in Handles
    BY DEF Start, IInv, Typed, Handles
  <2>2. fptr' \in Position
    BY Ranges DEF Start
  <2>3. ui' \in Uis
    BY Ranges DEF Start, IInv, Typed, Uis
  <2> QED
    BY <2>1, <2>2, <2>3 DEF Start, IInv, Typed
<1>2. Readable'
  BY DEF Start, IInv, Readable
<1>3. FillSound'
  BY DEF Start, IInv, Typed, FillSound, RingFilling, PlaySound, Handles, Libs, Locals
<1>4. ReadSound'
  BY DEF Start, IInv, Typed, ReadSound, RingFilling, PlaySound, Libs, Locals
<1>5. PlaySound'
  BY DEF Start, IInv, Typed, PlaySound, FillSound, RingFilling, Handles, Libs, Dmas, Uis
<1>6. EventSound'
  BY DEF Start, IInv, Typed, EventSound, PlaySound, Handles, Libs, Dmas, Pasts
<1> QED
  BY <1>1, <1>2, <1>3, <1>4, <1>5, <1>6 DEF IInv

LEMMA PlayPauseStep ==
  ASSUME IInv, PlayPause
  PROVE  IInv'
<1>1. Typed'
  <2>1. hlib' \in Handles
    BY DEF PlayPause, Click, Counted, IInv, Typed, Handles
  <2>2. ui' \in Uis
    BY Ranges DEF PlayPause, Counted, IInv, Typed, Uis
  <2> QED
    BY <2>1, <2>2 DEF PlayPause, Click, Counted, IInv, Typed
<1>2. Readable'
  BY DEF PlayPause, Click, Counted, IInv, Readable
<1>3. FillSound'
  BY DEF PlayPause, Click, Counted, IInv, Typed, FillSound, RingFilling, PlaySound, Handles, Libs, Locals
<1>4. ReadSound'
  BY DEF PlayPause, Click, Counted, IInv, Typed, ReadSound, RingFilling, PlaySound, Libs, Locals
<1>5. PlaySound'
  BY DEF PlayPause, Click, Counted, IInv, Typed, PlaySound, FillSound, RingFilling, Handles, Libs, Dmas, Uis
<1>6. EventSound'
  BY DEF PlayPause, Click, Counted, IInv, Typed, EventSound, PlaySound, Handles, Libs, Dmas, Pasts
<1> QED
  BY <1>1, <1>2, <1>3, <1>4, <1>5, <1>6 DEF IInv

LEMMA LongPressStep ==
  ASSUME IInv, LongPress
  PROVE  IInv'
<1>1. Typed'
  <2>1. hlib' \in Handles
    BY DEF LongPress, Click, Counted, IInv, Typed, Handles
  <2>2. ui' \in Uis
    BY Ranges DEF LongPress, Counted, IInv, Typed, Uis
  <2> QED
    BY <2>1, <2>2 DEF LongPress, Click, Counted, IInv, Typed
<1>2. Readable'
  BY DEF LongPress, Click, Counted, IInv, Readable
<1>3. FillSound'
  BY DEF LongPress, Click, Counted, IInv, Typed, FillSound, RingFilling, PlaySound, Handles, Libs, Locals
<1>4. ReadSound'
  BY DEF LongPress, Click, Counted, IInv, Typed, ReadSound, RingFilling, PlaySound, Libs, Locals
<1>5. PlaySound'
  BY DEF LongPress, Click, Counted, IInv, Typed, PlaySound, FillSound, RingFilling, Handles, Libs, Dmas, Uis
<1>6. EventSound'
  BY DEF LongPress, Click, Counted, IInv, Typed, EventSound, PlaySound, Handles, Libs, Dmas, Pasts
<1> QED
  BY <1>1, <1>2, <1>3, <1>4, <1>5, <1>6 DEF IInv

LEMMA CloseStep ==
  ASSUME IInv, Close
  PROVE  IInv'
<1>1. Typed'
  <2>1. hlib' \in Handles
    BY DEF Close, Click, IInv, Typed, Handles
  <2> QED
    BY <2>1 DEF Close, Click, IInv, Typed
<1>2. Readable'
  BY DEF Close, Click, IInv, Readable
<1>3. FillSound'
  BY DEF Close, Click, IInv, Typed, FillSound, RingFilling, PlaySound, Handles, Libs, Locals
<1>4. ReadSound'
  BY DEF Close, Click, IInv, Typed, ReadSound, RingFilling, PlaySound, Libs, Locals
<1>5. PlaySound'
  BY DEF Close, Click, IInv, Typed, PlaySound, FillSound, RingFilling, Handles, Libs, Dmas, Uis
<1>6. EventSound'
  BY DEF Close, Click, IInv, Typed, EventSound, PlaySound, Handles, Libs, Dmas, Pasts
<1> QED
  BY <1>1, <1>2, <1>3, <1>4, <1>5, <1>6 DEF IInv

LEMMA SeekStep ==
  ASSUME IInv, "reseek" \notin Faults, Seek
  PROVE  IInv'
<1>1. Typed'
  <2>1. fptr' \in Position
    <3>1. PICK n \in 0..(FileSize \div (2 * Half)) : fptr' = n * 2 * Half
      BY DEF Seek
    <3> DEFINE b == 2 * Half
    <3>2. b \in Nat \ {0} /\ n \in Nat /\ n * 2 * Half = n * b
      BY Numbers
    <3> HIDE DEF b
    <3>3. (FileSize \div b) * b <= FileSize /\ FileSize \div b \in Nat
      BY <3>2, Numbers
    <3>4. n <= FileSize \div b
      BY <3>3 DEF b
    <3>5. n * b <= (FileSize \div b) * b
      BY <3>2, <3>3, <3>4
    <3>6. n * b \in Nat
      BY <3>2
    <3> QED
      BY <3>1, <3>2, <3>3, <3>5, <3>6, Numbers DEF Position
  <2>2. dma' \in Dmas
    BY DEF Seek, Click, Counted, IInv, Typed, Dmas
  <2>3. lib' \in Libs
    BY DEF Seek, Click, Counted, IInv, Typed, Libs
  <2>4. ui' \in Uis
    BY Ranges DEF Seek, Counted, IInv, Typed, Uis
  <2> QED
    BY <2>1, <2>2, <2>3, <2>4 DEF Seek, Click, Counted, IInv, Typed
<1>2. Readable'
  BY DEF Seek, Click, Counted, IInv, Readable
<1>3. FillSound'
  BY DEF Seek, Click, Counted, IInv, Typed, FillSound, RingFilling, PlaySound, Handles, Libs, Locals
<1>4. ReadSound'
  BY DEF Seek, Click, Counted, IInv, Typed, ReadSound, RingFilling, PlaySound, Libs, Locals
<1>5. PlaySound'
  BY DEF Seek, Click, Counted, IInv, Typed, PlaySound, FillSound, RingFilling, Handles, Libs, Dmas, Uis
<1>6. EventSound'
  BY DEF Seek, Click, Counted, IInv, Typed, EventSound, PlaySound, Handles, Libs, Dmas, Pasts
<1> QED
  BY <1>1, <1>2, <1>3, <1>4, <1>5, <1>6 DEF IInv

--------------------------------------------------------------------------------
LEMMA InitIInv == Init => IInv
<1> SUFFICES ASSUME Init PROVE IInv
  OBVIOUS
<1>1. Typed
  <2>1. 0 \in Places /\ 0 \in Counts /\ 0 \in Position /\ 0 \in Cursors
    BY Ranges
  <2>2. 0 \in Songs /\ 0 \in Clicks /\ H \in Nat /\ H # 0 /\ Ring # 0
    BY Numbers DEF Songs, Clicks
  <2>3. loc \in Locals
    BY <2>1, <2>2 DEF Init, Locals
  <2> QED
    BY <2>1, <2>2, <2>3 DEF Init, Typed, Handles, Libs, Dmas, Uis, Pasts
<1>2. Readable
  <2>1. Nothing \in Sample
    BY Numbers DEF Nothing, Sample
  <2> QED
    BY <2>1 DEF Init, Readable, Places
<1> QED
  BY <1>1, <1>2 DEF Init, IInv, FillSound, ReadSound, PlaySound, EventSound, RingFilling

LEMMA NextIInv ==
  ASSUME IInv, "reseek" \notin Faults, [Next]_vars
  PROVE  IInv'
<1>1. CASE UNCHANGED vars
  BY <1>1 DEF vars, IInv, Typed, Readable, FillSound, ReadSound, PlaySound, EventSound,
              RingFilling, Chunks
<1>2. CASE ProcessTask
  BY <1>2, ReadHeaderStep, FillStartStep, FillReadStep, FillDoneStep, PlayTickStep,
     ClearEventStep, OtherTickStep, TaskEndStep, PlayerDeleteStep DEF ProcessTask
<1>3. CASE BufferTask
  BY <1>3, RefillRequestStep, RefillReadStep, RefillDoneStep DEF BufferTask
<1>4. CASE Interrupt \/ Start \/ PlayPause \/ LongPress \/ Close \/ Seek
  BY <1>4, InterruptStep, StartStep, PlayPauseStep, LongPressStep, CloseStep, SeekStep
<1> QED
  BY <1>1, <1>2, <1>3, <1>4 DEF Next

LEMMA Inductive == ASSUME "reseek" \notin Faults PROVE Spec => []IInv
<1>1. IInv /\ [Next]_vars => IInv'
  BY NextIInv
<1> QED
  BY <1>1, InitIInv, PTL DEF Spec

--------------------------------------------------------------------------------
(* What follows from it.                                                        *)

\* The player's variables keep their types: indices stay in their buffers and no
\* position lies behind the end of the file.
THEOREM TypeCorrect == ASSUME "reseek" \notin Faults PROVE Spec => []TypeOK
<1>1. IInv => TypeOK
  <2> SUFFICES ASSUME IInv PROVE TypeOK
    OBVIOUS
  <2>1. Sample \subseteq {Nothing} \cup Position
    BY Numbers DEF Sample, Nothing, Position
  <2>2. ring \in [0..(Ring - 1) -> {Nothing} \cup Position]
    BY <2>1 DEF IInv, Readable, Places
  <2>3. audio \in [{"half", "full"} -> Samples]
    BY <2>1 DEF IInv, Readable, Samples
  <2> QED
    BY <2>2, <2>3 DEF TypeOK, IInv, Typed, Handles, Libs, Locals, Cursors, Places, Counts,
                      Dmas, Uis, Songs, Clicks, Pasts, Position
<1> QED
  BY <1>1, Inductive, PTL

\* The reads of wav_lib_process and of lv_fm_player_local_buffer_task stay inside the
\* ring, and inside the half they refill, for every size of ring and chunk, but for the
\* tick between a seek and the fill it asks for, of which nothing is said.
THEOREM ReadsStayInside == ASSUME "reseek" \notin Faults PROVE Spec => ReadsInside
<1>1. ASSUME IInv, [Next]_vars, loc'.br > loc.br, lib # [st |-> "fill", rd |-> "req"]
      PROVE  loc'.br <= loc.btr /\ loc.base + loc'.br <= Ring
  <2>1. loc.br \in Nat /\ loc.btr \in Nat /\ loc.base \in {0, H} /\ loc.playCur \in Nat
    BY <1>1, Numbers DEF IInv, Typed, Locals, Counts, Cursors
  <2>2. loc' # loc
    BY <1>1, <2>1
  <2>3. CASE FillRead
    BY <1>1, <2>1, <2>3, FillReadGives, Numbers DEF Locals, Counts
  <2>4. CASE RefillRead
    <3>1. lib.st = "play"
      <4>1. lib.st # "header"
        BY <1>1, <2>4 DEF RefillRead, Buffering, IInv, PlaySound
      <4>2. ~RingFilling
        BY <1>1, <2>4 DEF RefillRead, Buffering, IInv, FillSound
      <4>3. lib \in Libs
        BY <1>1 DEF IInv, Typed
      <4>4. lib = [st |-> lib.st, rd |-> lib.rd]
        BY <4>3 DEF Libs
      <4> QED
        BY <1>1, <4>1, <4>2, <4>3, <4>4 DEF RingFilling, Libs
    <3>2. loc'.br <= H /\ loc.btr = H /\ loc' \in Locals
      BY <1>1, <2>4, <3>1, RefillReadGives
    <3>3. loc'.br \in Nat
      BY <3>2, Numbers DEF Locals, Counts
    <3> QED
      BY <2>1, <3>2, <3>3, Numbers
  <2>5. CASE FillStart
    BY <1>1, <2>1, <2>5 DEF FillStart, IInv, Typed, Locals
  <2>6. CASE FillDone \/ PlayTick
    <3>1. loc \in Locals
      BY <1>1 DEF IInv, Typed
    <3>2. loc'.br = loc.br
      BY <2>6, <3>1 DEF FillDone, PlayTick, ReadFrame, Locals
    <3> QED
      BY <1>1, <2>1, <3>2
  <2>7. CASE RefillRequest \/ RefillDone
    <3>1. loc \in Locals
      BY <1>1 DEF IInv, Typed
    <3>2. loc'.br = loc.br \/ loc'.br = 0
      BY <2>7, <3>1 DEF RefillRequest, RefillDone, Locals
    <3> QED
      BY <1>1, <2>1, <3>2
  <2> QED
    BY <1>1, <2>2, <2>3, <2>4, <2>5, <2>6, <2>7
    DEF vars, Next, ProcessTask, BufferTask, ReadHeader, ClearEvent, OtherTick, TaskEnd,
        PlayerDelete, Interrupt, Start, PlayPause, LongPress, Close, Seek
<1>2. IInv /\ [Next]_vars =>
        [loc'.br > loc.br /\ lib # [st |-> "fill", rd |-> "req"] =>
           loc'.br <= loc.btr /\ loc.base + loc'.br <= Ring]_vars
  BY <1>1
<1> QED
  BY <1>2, Inductive, PTL DEF Spec, ReadsInside

\* WAV_ReadFrame never writes into the half the DMA is sending, unless an interrupt came
\* before the one before it was dealt with, in whatever order they come.
THEOREM CopiesStayBehind == ASSUME "reseek" \notin Faults PROVE Spec => CopiesBehindDma
<1>1. ASSUME IInv, [Next]_vars, NEW h \in {"half", "full"}, audio'[h] # audio[h], lib.st = "play"
      PROVE  dma.at # h \/ past.late
  <2>1. PlayTick
    BY <1>1 DEF vars, Next, ProcessTask, BufferTask, ReadHeader, FillStart, FillRead, FillDone,
        Filling, Processing, ClearEvent, OtherTick, TaskEnd, PlayerDelete, RefillRequest,
        RefillRead, RefillDone, Interrupt, Start, PlayPause, LongPress, Close, Seek
  <2>2. h = hlib.evt /\ hlib.evt # "none"
    BY <1>1, <2>1 DEF PlayTick, ReadFrame, IInv, Readable
  <2> QED
    BY <1>1, <2>2 DEF IInv, EventSound
<1>2. IInv /\ [Next]_vars =>
        [\A h \in {"half", "full"} : audio'[h] # audio[h] /\ lib.st = "play" =>
           dma.at # h \/ past.late]_vars
  BY <1>1
<1> QED
  BY <1>2, Inductive, PTL DEF Spec, CopiesBehindDma

\* The DMA sends a freed buffer, or is about to, only after a song that was cut.
CutSound ==
  /\ hlib.pb = "idle" /\ dma.st = "on" => past.cut
  /\ pc # "idle" /\ hlib.pb = "stop" /\ dma.st = "on" /\ (~hlib.active \/ hlib.err) => past.cut

LEMMA DeleteIsSilent ==
  ASSUME IInv, CutSound, PlayerDelete
  PROVE  dma'.st # "on" \/ past.cut
<1>1. hlib.pb \in {"idle", "wait", "play", "stop", "pause", "resume"} /\ dma \in Dmas
  BY DEF IInv, Typed, Handles
<1>2. CASE hlib.pb = "play"
  BY <1>1, <1>2 DEF PlayerDelete, Dmas
<1>3. CASE hlib.pb \in {"idle", "stop"}
  BY <1>1, <1>3 DEF PlayerDelete, CutSound, Dmas
<1>4. CASE hlib.pb \in {"wait", "pause", "resume"}
  BY <1>1, <1>4 DEF PlayerDelete, IInv, PlaySound, Dmas
<1> QED
  BY <1>1, <1>2, <1>3, <1>4

LEMMA CutStep ==
  ASSUME IInv, CutSound, [Next]_vars
  PROVE  CutSound'
<1>0. hlib \in Handles /\ dma \in Dmas /\ past \in Pasts
  BY DEF IInv, Typed
<1>1. CASE ReadHeader \/ FillStart \/ FillRead
  <2>1. /\ dma' = dma /\ past' = past /\ hlib'.pb = hlib.pb
        /\ lib.st \in {"header", "fill"}
    BY <1>0, <1>1 DEF ReadHeader, FillStart, FillRead, Filling, Processing, Fails, Handles
  <2> QED
    BY <2>1 DEF CutSound, IInv, PlaySound
<1>2. CASE FillDone
  <2>1. lib.st = "fill"
    BY <1>2 DEF FillDone, Filling, Processing
  <2>2. CASE hlib'.pb = "play"
    BY <2>2 DEF CutSound
  <2>3. CASE hlib'.pb # "play"
    <3>1. dma' = dma /\ past' = past /\ hlib'.pb = hlib.pb
      BY <1>0, <1>2, <2>3 DEF FillDone, Fails, Handles
    <3> QED
      BY <2>1, <3>1 DEF CutSound, IInv, PlaySound
  <2> QED
    BY <2>2, <2>3
<1>3. CASE PlayTick
  <2>1. /\ hlib.pb = "play" /\ hlib'.active = hlib.active /\ hlib'.err = hlib.err
        /\ hlib'.pb = IF AtEnd THEN "stop" ELSE "play"
        /\ past'.cut = (AtEnd /\ (hlib.err \/ ~hlib.active))
    BY <1>0, <1>3 DEF PlayTick, Handles, Pasts
  <2> QED
    BY <2>1 DEF CutSound
<1>4. CASE ClearEvent \/ RefillRequest \/ RefillRead \/ RefillDone \/ TaskEnd
  <2>1. CASE ClearEvent
    BY <1>0, <2>1 DEF ClearEvent, CutSound, Handles
  <2>2. CASE RefillRequest \/ RefillRead \/ RefillDone
    BY <1>0, <2>2 DEF RefillRequest, RefillRead, RefillDone, Buffering, Paused, CutSound, Handles
  <2>3. CASE TaskEnd
    BY <2>3 DEF TaskEnd, CutSound
  <2> QED
    BY <1>4, <2>1, <2>2, <2>3
<1>5. CASE OtherTick
  <2>1. CASE hlib.pb = "stop"
    BY <1>0, <1>5, <2>1 DEF OtherTick, CutSound, Handles, Dmas
  <2>2. CASE hlib.pb # "stop"
    BY <1>0, <1>5, <2>2 DEF OtherTick, CutSound, Handles, Dmas
  <2> QED
    BY <2>1, <2>2
<1>6. CASE PlayerDelete
  <2>1. dma'.st # "on" \/ past.cut
    BY <1>6, DeleteIsSilent
  <2> QED
    BY <1>6, <2>1 DEF PlayerDelete, CutSound
<1>7. CASE Interrupt
  <2>1. /\ dma.st = "on" /\ past'.cut = past.cut /\ pc' = pc
        /\ hlib'.pb = hlib.pb /\ hlib'.active = hlib.active /\ hlib'.err = hlib.err
    BY <1>0, <1>7 DEF Interrupt, Handles, Pasts
  <2> QED
    BY <2>1 DEF CutSound
<1>8. CASE Start \/ PlayPause \/ LongPress \/ Close \/ Seek
  <2>1. CASE Start
    BY <1>0, <2>1 DEF Start, CutSound, IInv, PlaySound, Handles
  <2>2. CASE PlayPause \/ LongPress \/ Close
    BY <1>0, <2>2 DEF PlayPause, LongPress, Close, Click, CutSound, Handles
  <2>3. CASE Seek
    BY <1>0, <2>3 DEF Seek, CutSound, Dmas
  <2> QED
    BY <1>8, <2>1, <2>2, <2>3
<1>9. CASE UNCHANGED vars
  BY <1>9 DEF vars, CutSound
<1> QED
  BY <1>1, <1>2, <1>3, <1>4, <1>5, <1>6, <1>7, <1>8, <1>9 DEF Next, ProcessTask, BufferTask

\* However a song ends, the DMA is off or paused when lv_fm_player_delete frees the audio
\* buffer, unless an error or a click on the spinner had ended the song when the tick
\* before the deletion found the end of the file as well (past.cut).
THEOREM FreedIsSilent == ASSUME "reseek" \notin Faults PROVE Spec => NoDmaFromFreed
<1>1. Init => CutSound
  BY DEF Init, CutSound
<1>2. IInv /\ CutSound /\ [Next]_vars => CutSound'
  BY CutStep
<1>3. ASSUME IInv, CutSound, [Next]_vars, ui.alive, ~ui'.alive
      PROVE  dma'.st # "on" \/ past.cut
  <2>1. PlayerDelete
    BY <1>3 DEF vars, Next, ProcessTask, BufferTask, ReadHeader, FillStart, FillRead, FillDone,
        PlayTick, ClearEvent, OtherTick, TaskEnd, RefillRequest, RefillRead, RefillDone,
        Interrupt, Start, PlayPause, LongPress, Close, Seek, IInv, Typed, Uis
  <2> QED
    BY <1>3, <2>1, DeleteIsSilent
<1>4. IInv /\ CutSound /\ [Next]_vars => [ui.alive /\ ~ui'.alive => dma'.st # "on" \/ past.cut]_vars
  BY <1>3
<1> QED
  BY <1>1, <1>2, <1>4, Inductive, PTL DEF Spec, NoDmaFromFreed

--------------------------------------------------------------------------------
(* The order of the samples: what the ring holds at each of its places, so that the *)
(* samples that come out of it are the file's, in order, and the ear misses none of *)
(* them.                                                                             *)

\* The place of the k-th sample that was not copied yet.
Place(k) == IF loc.rptr + k < Ring THEN loc.rptr + k ELSE loc.rptr + k - Ring

\* Every sample that was read and not copied is at its place.
Holds == \A k \in Places : k < fptr - loc.playCur => ring[Place(k)] = loc.playCur + k

\* Where the next sample that is read will go.
WritePlace ==
  IF loc.rd = "wait" THEN loc.base + loc.br ELSE IF loc.last = "half" THEN H ELSE 0

\* Playing, until the file is read: what is not copied lies between the read pointer and
\* the write place, and the refill under way is of the half the read pointer has left.
Distance ==
  fptr - loc.playCur =
    IF loc.rptr < WritePlace THEN WritePlace - loc.rptr ELSE WritePlace + Ring - loc.rptr
RefillSound ==
  /\ loc.rd = "req" => loc.state = "none"
  /\ loc.rd = "wait" /\ loc.base = 0 =>
       loc.last = "half" /\ (loc.rptr >= H \/ loc.rptr < WritePlace)
  /\ loc.rd = "wait" /\ loc.base = H => loc.last = "full" /\ loc.rptr < WritePlace

RingSound ==
  lib.st = "play" =>
    /\ fptr - loc.playCur <= Ring /\ Holds
    /\ fptr # FileSize => Distance /\ RefillSound

\* While the ring is being filled it holds the file from its first place on.
FillHolds ==
  RingFilling /\ (pc = "idle" \/ ~hlib.err) =>
    /\ fptr = loc.playCur + loc.br
    /\ \A k \in Places : k < loc.br => ring[k] = loc.playCur + k

OrderInv == IInv /\ RingSound /\ FillHolds

--------------------------------------------------------------------------------
LEMMA Modulo ==
  ASSUME NEW i \in Nat, i < 2 * Ring
  PROVE  i % Ring = IF i < Ring THEN i ELSE i - Ring
<1>1. Ring \in Nat \ {0}
  BY Numbers
<1>2. CASE i < Ring
  BY <1>1, <1>2
<1>3. CASE i >= Ring
  <2>1. i - Ring \in 0..(Ring - 1)
    BY <1>1, <1>3
  <2>2. i = 1 * Ring + (i - Ring)
    BY <1>1
  <2>3. i % Ring = (i - Ring) % Ring
    BY <1>1, <2>1, <2>2
  <2>4. (i - Ring) % Ring = i - Ring
    BY <1>1, <2>1
  <2> QED
    BY <1>1, <1>3, <2>3, <2>4
<1> QED
  BY <1>1, <1>2, <1>3

\* The kinds of the indices, for arithmetic.
LEMMA Kinds ==
  ASSUME IInv
  PROVE  /\ loc.rptr \in Nat /\ loc.rptr < Ring /\ loc.br \in Nat /\ loc.base \in {0, H}
         /\ loc.playCur \in Nat /\ fptr \in Nat /\ fptr <= FileSize
         /\ loc.rd \in {"req", "wait"} /\ loc \in Locals
         /\ ring \in [Places -> Sample]
BY Numbers DEF IInv, Typed, Readable, Locals, Cursors, Position, Places, Counts

\* The same, and nothing else.
LEMMA Nums ==
  ASSUME OrderInv
  PROVE  /\ loc.rptr \in Nat /\ loc.rptr < Ring /\ loc.br \in Nat
         /\ loc.playCur \in Nat /\ fptr \in Nat /\ fptr <= FileSize
         /\ Ring \in Nat /\ Half \in Nat /\ 1 <= Half /\ 2 * Half < Ring /\ H \in Nat
         /\ Ring = H + H /\ FileSize \in Nat
BY Kinds, Numbers DEF OrderInv

LEMMA WritePlaces ==
  ASSUME OrderInv, lib.st = "play"
  PROVE  WritePlace \in Nat /\ WritePlace <= Ring
<1>1. loc.rd = "wait" => loc.br <= H
  BY DEF OrderInv, IInv, ReadSound
<1>2. loc.base \in {0, H}
  BY Kinds DEF OrderInv
<1> QED
  BY <1>1, <1>2, Nums DEF WritePlace

\* The whole of what one read does to the ring.
LEMMA ReadsRing ==
  ASSUME IInv, NEW n \in 1..Chunk, Reads(n)
  PROVE  /\ n \in Nat /\ fptr' = fptr + n
         /\ \A i \in Places : ring'[i] =
              IF loc.base + loc.br <= i /\ i < loc.base + loc.br + n
              THEN fptr + (i - loc.base - loc.br) ELSE ring[i]
<1>1. n \in Nat /\ loc.base \in Nat /\ loc.br \in Nat
  BY Kinds, Numbers
<1>2. fptr' = fptr + n
  BY DEF Reads
<1>3. ASSUME NEW i \in Places
      PROVE  ring'[i] = IF loc.base + loc.br <= i /\ i < loc.base + loc.br + n
                        THEN fptr + (i - loc.base - loc.br) ELSE ring[i]
  <2>1. i \in Nat
    BY Numbers DEF Places
  <2>2. i \in (loc.base + loc.br)..(loc.base + loc.br + n - 1) <=>
          loc.base + loc.br <= i /\ i < loc.base + loc.br + n
    BY <1>1, <2>1
  <2>3. ring'[i] = IF i \in (loc.base + loc.br)..(loc.base + loc.br + n - 1)
                   THEN fptr + (i - loc.base - loc.br) ELSE ring[i]
    BY DEF Reads, Places
  <2> QED
    BY <2>2, <2>3
<1> QED
  BY <1>1, <1>2, <1>3
--------------------------------------------------------------------------------
(* The steps that change what the ring holds, or what of it was copied.         *)

LEMMA FailsSets ==
  ASSUME IInv, Fails
  PROVE  hlib'.err
<1>1. hlib \in Handles /\ hlib' = [hlib EXCEPT !.err = TRUE]
  BY DEF IInv, Typed, Fails
<1>2. hlib'.err = TRUE
  BY <1>1 DEF Handles
<1> QED
  BY <1>2

LEMMA FillStartOrder ==
  ASSUME OrderInv, FillStart
  PROVE  RingSound' /\ FillHolds'
<1>1. lib'.st = "fill" /\ loc'.br = 0 /\ loc'.playCur = fptr /\ fptr' = fptr
  BY DEF FillStart, Processing, OrderInv, IInv, Typed, Libs, Locals
<1>2. fptr \in Nat
  BY Kinds DEF OrderInv
<1> QED
  BY <1>1, <1>2, Numbers DEF RingSound, FillHolds, Places

LEMMA FillReadOrder ==
  ASSUME OrderInv, FillRead
  PROVE  RingSound' /\ FillHolds'
<1>1. RingFilling /\ pc = "idle" /\ lib' = lib /\ pc' = "tail"
  BY DEF FillRead, Filling, Processing, RingFilling
<1>2. RingSound'
  BY <1>1 DEF RingSound, RingFilling
<1>3. loc.base = 0 /\ fptr = loc.playCur + loc.br
      /\ \A k \in Places : k < loc.br => ring[k] = loc.playCur + k
  BY <1>1 DEF OrderInv, IInv, FillSound, FillHolds
<1>4. ASSUME NEW n \in 1..Chunk, Reads(n), loc' = [loc EXCEPT !.br = @ + n]
      PROVE  FillHolds'
  <2>1. loc'.br = loc.br + n /\ loc'.playCur = loc.playCur
    BY <1>4, Kinds DEF OrderInv, Locals
  <2>2. n \in Nat /\ fptr' = fptr + n
    BY <1>4, ReadsRing DEF OrderInv
  <2>3. ASSUME NEW k \in Places, k < loc.br + n
        PROVE  ring'[k] = loc.playCur + k
    <3>1. ring'[k] = IF loc.br <= k /\ k < loc.br + n THEN fptr + (k - loc.br) ELSE ring[k]
      <4>1. ring'[k] = IF loc.base + loc.br <= k /\ k < loc.base + loc.br + n
                       THEN fptr + (k - loc.base - loc.br) ELSE ring[k]
        BY <1>4, ReadsRing DEF OrderInv
      <4>2. loc.br \in Nat /\ loc.base = 0 /\ k \in Nat
        BY <1>3, Kinds, Numbers DEF OrderInv, Places
      <4> QED
        BY <4>1, <4>2
    <3>2. k \in Nat /\ loc.br \in Nat /\ loc.playCur \in Nat
      BY Kinds, Numbers DEF OrderInv, Places
    <3>3. k < loc.br => ring[k] = loc.playCur + k
      BY <1>3
    <3>4. k >= loc.br => fptr + (k - loc.br) = loc.playCur + k
      BY <1>3, <3>2
    <3> QED
      BY <2>3, <3>1, <3>2, <3>3, <3>4
  <2>4. fptr' = loc.playCur + (loc.br + n)
    BY <1>3, <2>2, Kinds DEF OrderInv
  <2>5. \A k \in Places : k < loc'.br => ring'[k] = loc'.playCur + k
    BY <2>1, <2>3
  <2> QED
    BY <2>1, <2>4, <2>5 DEF FillHolds
<1>5. CASE hlib'.err
  BY <1>1, <1>2, <1>5 DEF FillHolds
<1>6. CASE ~hlib'.err
  <2>1. \E n \in 1..Chunk : Reads(n) /\ loc' = [loc EXCEPT !.br = @ + n]
    BY <1>6, FailsSets DEF FillRead, OrderInv
  <2> QED
    BY <1>2, <1>4, <2>1
<1> QED
  BY <1>5, <1>6

\* Playing begins behind the two halves of the audio buffer, with the ring full or the
\* file read.
LEMMA FillDoneOrder ==
  ASSUME OrderInv, FillDone
  PROVE  RingSound' /\ FillHolds'
<1>1. RingFilling /\ pc = "idle" /\ pc' = "tail" /\ ring' = ring /\ fptr' = fptr
  BY DEF FillDone, Filling, Processing, RingFilling
<1>2. /\ loc.rptr = 0 /\ loc.rd = "req" /\ loc.state = "none" /\ loc.last = "none"
      /\ loc.btr = Ring /\ fptr = loc.playCur + loc.br
      /\ \A k \in Places : k < loc.br => ring[k] = loc.playCur + k
  BY <1>1 DEF OrderInv, IInv, FillSound, FillHolds
<1>3. loc.br <= Ring /\ (fptr # FileSize => loc.br = Ring)
  <2>1. loc.br <= loc.btr
    BY <1>1 DEF OrderInv, IInv, ReadSound
  <2> QED
    BY <1>2, <2>1, Kinds, Numbers DEF FillDone, MoreToFill, OrderInv
<1>4. CASE lib' = lib
  <2>1. Fails
    BY <1>1, <1>4 DEF FillDone, RingFilling
  <2> QED
    BY <1>1, <1>4, <2>1, FailsSets DEF RingSound, FillHolds, RingFilling, OrderInv
<1>5. CASE lib' = [st |-> "play", rd |-> "req"]
  <2>1. lib'.st = "play"
    BY <1>5
  <2>2. FillHolds'
    BY <2>1 DEF FillHolds, RingFilling
  <2>3. /\ loc'.rptr = 2 * Half /\ loc'.playCur = loc.playCur + 2 * Half /\ loc'.rd = "req"
        /\ loc'.state = "none" /\ loc'.last = "none" /\ 2 * Half \in Nat /\ 2 * Half < Ring
    BY <1>2, Kinds, Numbers DEF FillDone, OrderInv, Locals
  <2> DEFINE a == 2 * Half
  <2> HIDE DEF a
  <2>4. /\ a \in Nat /\ a < Ring /\ loc'.rptr = a /\ loc'.playCur = loc.playCur + a
        /\ fptr' - loc'.playCur = loc.br - a
    BY <1>1, <1>2, <2>3, Kinds DEF a, OrderInv
  <2>5. Holds'
    <3> SUFFICES ASSUME NEW k \in Places, k < fptr' - loc'.playCur
                 PROVE  ring'[Place(k)'] = loc'.playCur + k
      BY DEF Holds, Places
    <3>1. k \in Nat /\ k + a < loc.br /\ k + a \in Places /\ loc'.rptr + k < Ring
      BY <1>3, <2>4, Kinds, Numbers DEF Places, OrderInv
    <3>2. Place(k)' = a + k
      BY <2>4, <3>1 DEF Place
    <3> QED
      BY <1>1, <1>2, <2>4, <3>1, <3>2, Kinds DEF OrderInv
  <2>6. fptr' # FileSize => Distance' /\ RefillSound'
    <3>1. WritePlace' = 0
      BY <2>3 DEF WritePlace
    <3> QED
      BY <1>1, <1>3, <2>3, <2>4, <3>1, Numbers DEF Distance, RefillSound
  <2>7. fptr' - loc'.playCur <= Ring
    BY <1>3, <2>4, Kinds, Numbers DEF OrderInv
  <2> QED
    BY <2>2, <2>5, <2>6, <2>7 DEF RingSound
<1> QED
  BY <1>4, <1>5 DEF FillDone

\* WAV_ReadFrame takes the next samples, or leaves the ring alone.
LEMMA FrameGives ==
  ASSUME OrderInv, PlayTick, audio' # audio \/ loc'.playCur # loc.playCur
  PROVE  /\ hlib.evt # "none" /\ pc' = "clear" /\ loc.playCur + Half < fptr
         /\ audio' = [audio EXCEPT ![hlib.evt] = [i \in 1..Half |-> loc.playCur + i - 1]]
         /\ loc'.playCur = loc.playCur + Half
         /\ loc'.rptr = IF loc.rptr + Half < Ring THEN loc.rptr + Half
                                                ELSE loc.rptr + Half - Ring
<1>1. hlib.evt # "none" /\ pc' = "clear" /\ ReadFrame(hlib.evt) /\ lib.st = "play"
  BY DEF PlayTick, Processing
<1>2. /\ ~(loc.playCur + Half >= fptr)
      /\ audio' = [audio EXCEPT ![hlib.evt] = [i \in 1..Half |-> ring[(loc.rptr + i - 1) % Ring]]]
      /\ loc' = [loc EXCEPT !.rptr = (@ + Half) % Ring, !.playCur = @ + Half]
  BY <1>1, Kinds DEF ReadFrame, OrderInv, Locals
<1>3. Holds
  BY <1>1 DEF OrderInv, RingSound
<1>4. ASSUME NEW i \in 1..Half
      PROVE  ring[(loc.rptr + i - 1) % Ring] = loc.playCur + i - 1
  <2> DEFINE j == loc.rptr + i - 1
  <2>1. /\ i - 1 \in Places /\ i - 1 < fptr - loc.playCur
        /\ j \in Nat /\ j < 2 * Ring /\ j = loc.rptr + (i - 1)
    <3>1. i \in Nat /\ 1 <= i /\ i <= Half
      BY Numbers
    <3>2. i - 1 \in Nat /\ i - 1 < Half /\ Half < Ring
      BY <3>1, Numbers
    <3>3. i - 1 < fptr - loc.playCur
      BY <1>2, <3>2, Nums
    <3>4. i - 1 \in Places
      BY <3>2, Nums DEF Places
    <3>5. j \in Nat /\ j < 2 * Ring /\ j = loc.rptr + (i - 1)
      BY <3>1, <3>2, Nums
    <3> QED
      BY <3>3, <3>4, <3>5
  <2>2. j % Ring = Place(i - 1)
    <3> HIDE DEF j
    <3>1. j % Ring = IF j < Ring THEN j ELSE j - Ring
      BY <2>1, Modulo
    <3> QED
      BY <2>1, <3>1, Nums DEF Place
  <2>3. ring[Place(i - 1)] = loc.playCur + (i - 1)
    BY <1>3, <2>1 DEF Holds
  <2> QED
    BY <2>2, <2>3, Kinds, Numbers DEF OrderInv
<1>5. [i \in 1..Half |-> ring[(loc.rptr + i - 1) % Ring]] = [i \in 1..Half |-> loc.playCur + i - 1]
  BY <1>4
<1>6. (loc.rptr + Half) % Ring = IF loc.rptr + Half < Ring THEN loc.rptr + Half
                                                        ELSE loc.rptr + Half - Ring
  BY Modulo, Kinds, Numbers DEF OrderInv
<1>7. loc'.playCur = loc.playCur + Half /\ loc'.rptr = (loc.rptr + Half) % Ring
  BY <1>2, Kinds DEF OrderInv, Locals
<1>8. loc.playCur + Half < fptr
  BY <1>2, Kinds, Numbers DEF OrderInv
<1> QED
  BY <1>1, <1>2, <1>5, <1>6, <1>7, <1>8

\* The same of the indices, also when what is copied is what was there before.
LEMMA FrameMoves ==
  ASSUME OrderInv, PlayTick
  PROVE  /\ loc' \in Locals /\ lib' = lib /\ lib.st = "play" /\ fptr' = fptr /\ ring' = ring
         /\ loc'.br = loc.br /\ loc'.base = loc.base /\ loc'.rd = loc.rd /\ loc'.last = loc.last
         /\ loc'.state = loc.state
         /\ \/ loc'.playCur = loc.playCur /\ loc'.rptr = loc.rptr
            \/ /\ loc.playCur + Half < fptr /\ loc'.playCur = loc.playCur + Half
               /\ loc'.rptr = IF loc.rptr + Half < Ring THEN loc.rptr + Half
                                                      ELSE loc.rptr + Half - Ring
<1>1. loc' \in Locals
  BY PlayTickStep DEF OrderInv, IInv, Typed
<1>2. (loc.rptr + Half) % Ring = IF loc.rptr + Half < Ring THEN loc.rptr + Half
                                                        ELSE loc.rptr + Half - Ring
  BY Modulo, Kinds, Numbers DEF OrderInv
<1>3. \/ loc' = loc
      \/ loc' = [loc EXCEPT !.empty = TRUE]
      \/ /\ loc.playCur + Half < fptr
         /\ loc' = [loc EXCEPT !.rptr = (@ + Half) % Ring, !.playCur = @ + Half]
  BY Kinds, Numbers DEF PlayTick, ReadFrame, OrderInv
<1> QED
  BY <1>1, <1>2, <1>3, Kinds DEF PlayTick, Processing, OrderInv, Locals

LEMMA PlayTickOrder ==
  ASSUME OrderInv, PlayTick
  PROVE  RingSound' /\ FillHolds'
<1>1. FillHolds'
  BY FrameMoves DEF FillHolds, RingFilling
<1>2. CASE loc'.playCur = loc.playCur /\ loc'.rptr = loc.rptr
  BY <1>1, <1>2, FrameMoves
  DEF OrderInv, RingSound, Holds, Place, Distance, RefillSound, WritePlace
<1>3. ASSUME loc.playCur + Half < fptr, loc'.playCur = loc.playCur + Half,
             loc'.rptr = IF loc.rptr + Half < Ring THEN loc.rptr + Half
                                                ELSE loc.rptr + Half - Ring
      PROVE  RingSound'
  <2>1. fptr - loc.playCur <= Ring /\ Holds /\ (fptr # FileSize => Distance /\ RefillSound)
    BY FrameMoves DEF OrderInv, RingSound
  <2>2. fptr' - loc'.playCur <= Ring
    BY <1>3, <2>1, FrameMoves, Nums
  <2>3. Holds'
    <3> SUFFICES ASSUME NEW k \in Places, k < fptr' - loc'.playCur
                 PROVE  ring'[Place(k)'] = loc'.playCur + k
      BY DEF Holds, Places
    <3>1. k \in Nat /\ k < Ring
      BY Numbers DEF Places
    <3>2. k + Half \in Places /\ k + Half < fptr - loc.playCur
      <4>1. fptr' = fptr
        BY FrameMoves
      <4>2. k + Half < fptr - loc.playCur
        BY <1>3, <3>1, <4>1, Nums
      <4>3. k + Half \in Nat /\ k + Half < Ring
        BY <2>1, <3>1, <4>2, Nums
      <4> QED
        BY <4>2, <4>3, Nums DEF Places
    <3>3. Place(k)' = Place(k + Half)
      <4>1. k + Half < Ring
        BY <3>2, Numbers DEF Places
      <4> QED
        BY <1>3, <3>1, <4>1, Nums DEF Place
    <3>4. ring[Place(k + Half)] = loc.playCur + (k + Half)
      BY <2>1, <3>2 DEF Holds
    <3> QED
      BY <1>3, <3>1, <3>3, <3>4, FrameMoves, Nums
  <2>4. WritePlace' = WritePlace /\ WritePlace \in Nat /\ WritePlace <= Ring
    BY FrameMoves, WritePlaces DEF WritePlace
  <2>5. ASSUME fptr # FileSize PROVE Distance'
    <3>1. Distance
      BY <2>1, <2>5
    <3>2. fptr' = fptr
      BY FrameMoves
    <3>3. fptr - (loc.playCur + Half) =
            IF loc'.rptr < WritePlace THEN WritePlace - loc'.rptr ELSE WritePlace + Ring - loc'.rptr
      BY <1>3, <2>4, <3>1, Nums DEF Distance
    <3> QED
      BY <1>3, <2>4, <3>2, <3>3 DEF Distance
  <2>6. ASSUME fptr # FileSize PROVE RefillSound'
    <3>1. Distance /\ RefillSound
      BY <2>1, <2>6
    <3>2. loc.rptr < WritePlace => loc'.rptr < WritePlace
      BY <1>3, <2>4, <3>1, Nums DEF Distance
    <3>3. loc.rptr >= H => loc'.rptr >= H \/ loc'.rptr < WritePlace
      BY <1>3, <2>4, <3>1, Nums DEF Distance
    <3> QED
      BY <2>4, <3>1, <3>2, <3>3, FrameMoves DEF RefillSound
  <2> QED
    BY <2>2, <2>3, <2>5, <2>6, FrameMoves DEF RingSound
<1> QED
  BY <1>1, <1>2, <1>3, FrameMoves

\* A refill is requested of the half the read pointer has just left, where the next
\* sample is due.
LEMMA RefillRequestOrder ==
  ASSUME OrderInv, RefillRequest
  PROVE  RingSound' /\ FillHolds'
<1>1. /\ pc = "idle" /\ pc' = pc /\ lib' = lib /\ ring' = ring /\ fptr' = fptr /\ loc.rd = "req"
      /\ fptr # FileSize
  BY DEF RefillRequest, Buffering
<1>2. CASE Due = "none"
  <2>1. loc' = loc
    BY <1>2 DEF RefillRequest
  <2> QED
    BY <1>1, <2>1 DEF OrderInv, RingSound, FillHolds, RingFilling, Holds, Place, Distance,
                      RefillSound, WritePlace
<1>3. CASE Due # "none"
  <2>1. ~RingFilling
    BY <1>1, <1>3, DueFacts DEF OrderInv
  <2>2. /\ loc'.playCur = loc.playCur /\ loc'.rptr = loc.rptr /\ loc'.rd = "wait" /\ loc'.br = 0
        /\ loc'.base = (IF Due = "half" THEN 0 ELSE H) /\ loc'.last = Due
    BY <1>3, Kinds DEF RefillRequest, OrderInv, Locals
  <2>3. FillHolds'
    BY <1>1, <2>1 DEF FillHolds, RingFilling
  <2>4. ASSUME lib.st = "play"
        PROVE  /\ fptr' - loc'.playCur <= Ring /\ Holds'
               /\ Distance' /\ RefillSound'
    <3>1. fptr - loc.playCur <= Ring /\ Holds /\ Distance /\ loc.state = "none"
      BY <1>1, <2>4 DEF OrderInv, RingSound, RefillSound
    <3>2. \/ Due = "half" /\ loc.rptr >= H /\ loc.last # "half"
          \/ Due = "full" /\ loc.rptr < H /\ loc.last = "half"
      BY <1>3, <3>1 DEF Due, HalfDue, FullDue
    <3>3. fptr' - loc'.playCur <= Ring /\ Holds'
      BY <1>1, <2>2, <3>1 DEF Holds, Place
    <3>4. fptr - loc.playCur = IF loc.rptr < (IF loc.last = "half" THEN H ELSE 0)
                               THEN (IF loc.last = "half" THEN H ELSE 0) - loc.rptr
                               ELSE (IF loc.last = "half" THEN H ELSE 0) + Ring - loc.rptr
      BY <1>1, <3>1 DEF Distance, WritePlace
    <3>5. WritePlace' = IF Due = "half" THEN 0 ELSE H
      BY <2>2, Nums DEF WritePlace
    <3>6. Distance'
      BY <1>1, <2>2, <3>2, <3>4, <3>5, Nums DEF Distance
    <3>7. H # 0
      BY Numbers
    <3>8. RefillSound'
      BY <2>2, <3>2, <3>5, <3>7, Nums DEF RefillSound
    <3> QED
      BY <3>3, <3>6, <3>8
  <2> QED
    BY <1>1, <2>3, <2>4 DEF RingSound
<1> QED
  BY <1>2, <1>3

LEMMA RefillReadOrder ==
  ASSUME OrderInv, RefillRead
  PROVE  RingSound' /\ FillHolds'
<1>1. /\ pc = "idle" /\ pc' = pc /\ lib' = lib /\ loc.rd = "wait" /\ fptr # FileSize
      /\ loc.br < loc.btr
  BY DEF RefillRead, Buffering
<1>2. FillHolds'
  BY <1>1 DEF OrderInv, IInv, FillSound, FillHolds, RingFilling
<1>3. ASSUME lib.st = "play"
      PROVE  RingSound'
  <2>1. /\ fptr - loc.playCur <= Ring /\ Holds /\ Distance /\ RefillSound
    BY <1>1, <1>3 DEF OrderInv, RingSound
  <2>2. CASE ring' = ring /\ fptr' = fptr /\ loc' = [loc EXCEPT !.state = Due]
    <3>1. /\ loc'.playCur = loc.playCur /\ loc'.rptr = loc.rptr /\ loc'.rd = loc.rd
          /\ loc'.br = loc.br /\ loc'.base = loc.base /\ loc'.last = loc.last
      BY <2>2, Kinds DEF OrderInv, Locals
    <3>2. WritePlace' = WritePlace
      BY <3>1 DEF WritePlace
    <3>3. Holds' /\ Distance'
      BY <2>1, <2>2, <3>1, <3>2 DEF Holds, Place, Distance
    <3>4. RefillSound'
      BY <1>1, <2>1, <3>1, <3>2 DEF RefillSound
    <3> QED
      BY <2>1, <2>2, <3>1, <3>3, <3>4 DEF RingSound
  <2>3. ASSUME NEW n \in 1..Chunk, Reads(n), loc' = [loc EXCEPT !.br = @ + n, !.state = Due]
        PROVE  RingSound'
    <3>1. /\ loc'.playCur = loc.playCur /\ loc'.rptr = loc.rptr /\ loc'.rd = "wait"
          /\ loc'.br = loc.br + n /\ loc'.base = loc.base /\ loc'.last = loc.last
      BY <1>1, <2>3, Kinds DEF OrderInv, Locals
    <3>2. /\ n \in Nat /\ fptr' = fptr + n
          /\ \A i \in Places : ring'[i] =
               IF WritePlace <= i /\ i < WritePlace + n THEN fptr + (i - WritePlace) ELSE ring[i]
      <4>1. /\ n \in Nat /\ fptr' = fptr + n
            /\ \A i \in Places : ring'[i] =
                 IF loc.base + loc.br <= i /\ i < loc.base + loc.br + n
                 THEN fptr + (i - loc.base - loc.br) ELSE ring[i]
        BY <2>3, ReadsRing DEF OrderInv
      <4>2. WritePlace = loc.base + loc.br /\ loc.base \in Nat /\ loc.br \in Nat
        BY <1>1, Kinds, Numbers DEF WritePlace, OrderInv
      <4>3. \A i \in Places : i \in Nat
        BY Numbers DEF Places
      <4>4. \A i \in Places : i - loc.base - loc.br = i - WritePlace
        BY <4>2, <4>3
      <4> QED
        BY <4>1, <4>2, <4>4
    <3>3. loc.br + n <= H
      BY <1>3, <2>3, <3>1, RefillReadGives DEF OrderInv
    <3>4. /\ WritePlace = loc.base + loc.br /\ WritePlace' = WritePlace + n
      BY <1>1, <3>1, <3>2, Kinds, Numbers DEF WritePlace, OrderInv
    <3>5. \/ loc.base = 0 /\ WritePlace + n <= H /\ (loc.rptr >= H \/ loc.rptr < WritePlace)
          \/ loc.base = H /\ H <= WritePlace /\ WritePlace + n <= Ring /\ loc.rptr < WritePlace
      BY <1>1, <2>1, <3>2, <3>3, <3>4, Kinds, Nums DEF RefillSound, OrderInv
    <3>6. WritePlace \in Nat
      BY <1>3, WritePlaces
    <3>7. Distance'
      <4>1. fptr' - loc'.playCur = (fptr - loc.playCur) + n
        BY <3>1, <3>2, Nums
      <4>2. CASE loc.rptr < WritePlace
        <5>1. fptr - loc.playCur = WritePlace - loc.rptr
          BY <2>1, <4>2 DEF Distance
        <5> QED
          BY <3>1, <3>2, <3>4, <3>6, <4>1, <4>2, <5>1, Nums DEF Distance
      <4>3. CASE loc.rptr >= WritePlace
        <5>1. fptr - loc.playCur = WritePlace + Ring - loc.rptr
          BY <2>1, <3>6, <4>3, Nums DEF Distance
        <5>2. ~(loc.rptr < WritePlace + n)
          BY <3>2, <3>5, <3>6, <4>3, Nums
        <5> QED
          BY <3>1, <3>2, <3>4, <3>6, <4>1, <5>1, <5>2, Nums DEF Distance
      <4> QED
        BY <3>6, <4>2, <4>3, Nums
    <3>8. fptr' - loc'.playCur <= Ring
      BY <2>1, <3>1, <3>2, <3>4, <3>5, <3>6, Nums DEF Distance
    <3>9. RefillSound'
      BY <1>1, <2>1, <3>1, <3>2, <3>4, <3>5, <3>6, Nums DEF RefillSound
    <3>10. Holds'
      <4> SUFFICES ASSUME NEW k \in Places, k < fptr' - loc'.playCur
                   PROVE  ring'[Place(k)'] = loc'.playCur + k
        BY DEF Holds, Places
      <4>1. k \in Nat /\ k < Ring
        BY Nums DEF Places
      <4>2. Place(k)' = Place(k) /\ Place(k) \in Nat /\ Place(k) < Ring
        BY <3>1, <4>1, Nums DEF Place
      <4>3. ring'[Place(k)] = IF WritePlace <= Place(k) /\ Place(k) < WritePlace + n
                              THEN fptr + (Place(k) - WritePlace) ELSE ring[Place(k)]
        BY <3>2, <4>2, Nums DEF Places
      <4>4. CASE k < fptr - loc.playCur
        <5>1. ~(WritePlace <= Place(k) /\ Place(k) < WritePlace + n)
          BY <2>1, <3>2, <3>5, <3>6, <4>1, <4>4, Nums DEF Distance, Place
        <5>2. ring[Place(k)] = loc.playCur + k
          BY <2>1, <4>4 DEF Holds
        <5> QED
          BY <3>1, <4>2, <4>3, <5>1, <5>2
      <4>5. CASE k >= fptr - loc.playCur
        <5>1. /\ WritePlace <= Place(k) /\ Place(k) < WritePlace + n
              /\ Place(k) - WritePlace = k - (fptr - loc.playCur)
          BY <2>1, <3>1, <3>2, <3>5, <3>6, <4>1, <4>5, Nums DEF Distance, Place
        <5>2. fptr + (Place(k) - WritePlace) = loc.playCur + k
          BY <4>1, <5>1, Nums
        <5> QED
          BY <3>1, <4>2, <4>3, <5>1, <5>2
      <4> QED
        BY <4>1, <4>4, <4>5, Nums
    <3> QED
      BY <3>7, <3>8, <3>9, <3>10 DEF RingSound
  <2> QED
    BY <2>2, <2>3 DEF RefillRead
<1>4. lib.st # "play" => RingSound'
  BY <1>1 DEF RingSound
<1> QED
  BY <1>2, <1>3, <1>4

LEMMA RefillDoneOrder ==
  ASSUME OrderInv, RefillDone
  PROVE  RingSound' /\ FillHolds'
<1>1. /\ pc = "idle" /\ pc' = pc /\ lib' = lib /\ ring' = ring /\ fptr' = fptr
      /\ loc.rd = "wait" /\ loc.br >= loc.btr /\ fptr # FileSize
      /\ loc' = [loc EXCEPT !.state = "none", !.rd = "req", !.empty = FALSE]
  BY DEF RefillDone, Buffering
<1>2. FillHolds'
  BY <1>1 DEF OrderInv, IInv, FillSound, FillHolds, RingFilling
<1>3. /\ loc'.playCur = loc.playCur /\ loc'.rptr = loc.rptr /\ loc'.rd = "req"
      /\ loc'.last = loc.last /\ loc'.state = "none"
  BY <1>1, Kinds DEF OrderInv, Locals
<1>4. ASSUME lib.st = "play"
      PROVE  RingSound'
  <2>1. fptr - loc.playCur <= Ring /\ Holds /\ Distance /\ RefillSound
    BY <1>1, <1>4 DEF OrderInv, RingSound
  <2>2. loc.br = H
    <3>1. loc.btr = H /\ loc.br <= loc.btr
      BY <1>1, <1>4 DEF OrderInv, IInv, ReadSound
    <3> QED
      BY <1>1, <3>1, Nums
  <2>3. \/ loc.base = 0 /\ WritePlace = H /\ WritePlace' = H
        \/ loc.base = H /\ WritePlace = Ring /\ WritePlace' = 0 /\ loc.rptr < Ring
    BY <1>1, <1>3, <2>1, <2>2, Kinds, Nums DEF OrderInv, WritePlace, RefillSound
  <2>4. Distance'
    BY <1>1, <1>3, <2>1, <2>3, Nums DEF Distance
  <2>5. Holds' /\ RefillSound' /\ fptr' - loc'.playCur <= Ring
    BY <1>1, <1>3, <2>1 DEF Holds, Place, RefillSound
  <2> QED
    BY <2>4, <2>5 DEF RingSound
<1>5. lib.st # "play" => RingSound'
  BY <1>1 DEF RingSound
<1> QED
  BY <1>2, <1>4, <1>5

\* Steps that leave the ring and its indices alone.
LEMMA QuietOrder ==
  ASSUME OrderInv, loc' = loc, ring' = ring, fptr' = fptr,
         lib'.st = "play" => lib.st = "play",
         RingFilling' /\ (pc' = "idle" \/ ~hlib'.err) => RingFilling /\ (pc = "idle" \/ ~hlib.err)
  PROVE  RingSound' /\ FillHolds'
BY DEF OrderInv, RingSound, FillHolds, Holds, Place, Distance, RefillSound, WritePlace

LEMMA OtherTasksOrder ==
  ASSUME OrderInv, ReadHeader \/ ClearEvent \/ OtherTick \/ TaskEnd \/ PlayerDelete
  PROVE  RingSound' /\ FillHolds'
<1>1. CASE ReadHeader
  BY <1>1, QuietOrder DEF ReadHeader, Processing, RingFilling, OrderInv, IInv, PlaySound
<1>2. CASE ClearEvent
  <2>1. hlib'.err = hlib.err
    BY <1>2 DEF ClearEvent, OrderInv, IInv, Typed, Handles
  <2> QED
    BY <1>2, <2>1, QuietOrder DEF ClearEvent, RingFilling
<1>3. CASE OtherTick
  BY <1>3, QuietOrder DEF OtherTick, Processing, RingFilling
<1>4. CASE TaskEnd
  BY <1>4, QuietOrder DEF TaskEnd, RingFilling
<1>5. CASE PlayerDelete
  BY <1>5, QuietOrder DEF PlayerDelete, RingFilling
<1> QED
  BY <1>1, <1>2, <1>3, <1>4, <1>5

LEMMA UserOrder ==
  ASSUME OrderInv, "reseek" \notin Faults,
         Interrupt \/ Start \/ PlayPause \/ LongPress \/ Close \/ Seek
  PROVE  RingSound' /\ FillHolds'
<1>1. CASE Interrupt
  <2>1. hlib'.err = hlib.err
    BY <1>1 DEF Interrupt, OrderInv, IInv, Typed, Handles
  <2> QED
    BY <1>1, <2>1, QuietOrder DEF Interrupt, RingFilling
<1>2. CASE PlayPause \/ LongPress \/ Close
  BY <1>2, QuietOrder DEF PlayPause, LongPress, Close, Click, RingFilling
<1>3. CASE Start
  <2>1. lib' = lib /\ lib.st = "header"
    BY <1>3 DEF Start, OrderInv, IInv, PlaySound
  <2> QED
    BY <2>1 DEF RingSound, FillHolds, RingFilling
<1>4. CASE Seek
  <2>1. lib.st # "fill" /\ lib' = [lib EXCEPT !.st = "fill"] /\ lib \in Libs
    BY <1>4 DEF Seek, OrderInv, IInv, Typed
  <2>2. lib.rd = "req"
    BY <2>1 DEF OrderInv, IInv, PlaySound
  <2>3. lib'.st = "fill" /\ lib'.rd = "req"
    BY <2>1, <2>2 DEF Libs
  <2> QED
    BY <2>3 DEF RingSound, FillHolds, RingFilling
<1> QED
  BY <1>1, <1>2, <1>3, <1>4

LEMMA NextOrder ==
  ASSUME OrderInv, "reseek" \notin Faults, [Next]_vars
  PROVE  OrderInv'
<1>1. IInv'
  BY NextIInv DEF OrderInv
<1>2. RingSound' /\ FillHolds'
  <2>1. CASE UNCHANGED vars
    BY <2>1, QuietOrder DEF vars, RingFilling
  <2>2. CASE ProcessTask
    BY <2>2, FillStartOrder, FillReadOrder, FillDoneOrder, PlayTickOrder, OtherTasksOrder
    DEF ProcessTask
  <2>3. CASE BufferTask
    BY <2>3, RefillRequestOrder, RefillReadOrder, RefillDoneOrder DEF BufferTask
  <2>4. CASE Interrupt \/ Start \/ PlayPause \/ LongPress \/ Close \/ Seek
    BY <2>4, UserOrder
  <2> QED
    BY <2>1, <2>2, <2>3, <2>4 DEF Next
<1> QED
  BY <1>1, <1>2 DEF OrderInv

LEMMA OrderInductive == ASSUME "reseek" \notin Faults PROVE Spec => []OrderInv
<1>1. Init => OrderInv
  BY InitIInv DEF Init, OrderInv, RingSound, FillHolds, RingFilling
<1>2. OrderInv /\ [Next]_vars => OrderInv'
  BY NextOrder
<1> QED
  BY <1>1, <1>2, PTL DEF Spec

\* What WAV_ReadFrame copies are the samples that follow those it copied before: the
\* refills never run over samples that were not copied, and never lag behind.
THEOREM SamplesInOrder == ASSUME "reseek" \notin Faults PROVE Spec => InOrder
<1>1. ASSUME OrderInv, [Next]_vars, NEW h \in {"half", "full"}, audio'[h] # audio[h],
             lib.st = "play"
      PROVE  audio'[h] = [i \in 1..Half |-> loc.playCur + i - 1]
  <2>1. PlayTick
    BY <1>1 DEF vars, Next, ProcessTask, BufferTask, ReadHeader, FillStart, FillRead, FillDone,
        Filling, Processing, ClearEvent, OtherTick, TaskEnd, PlayerDelete, RefillRequest,
        RefillRead, RefillDone, Interrupt, Start, PlayPause, LongPress, Close, Seek
  <2>2. audio' = [audio EXCEPT ![hlib.evt] = [i \in 1..Half |-> loc.playCur + i - 1]]
    BY <1>1, <2>1, FrameGives
  <2>3. audio \in [{"half", "full"} -> [1..Half -> Sample]]
    BY <1>1 DEF OrderInv, IInv, Readable
  <2> QED
    BY <1>1, <2>2, <2>3
<1>2. OrderInv /\ [Next]_vars =>
        [\A h \in {"half", "full"} : audio'[h] # audio[h] /\ lib.st = "play" =>
           audio'[h] = [i \in 1..Half |-> loc.playCur + i - 1]]_vars
  BY <1>1
<1> QED
  BY <1>2, OrderInductive, PTL DEF Spec, InOrder

--------------------------------------------------------------------------------
(* What is heard.  Half an audio buffer is shorter than a chunk, as it is in the   *)
(* code: 18 KB and 64 KB.                                                           *)

\* The first halves the DMA sends follow each other, whatever the ring held before: where
\* a read ends between them, it is the end of the file.
HalvesMeet ==
  /\ ring[Half] <= ring[Half - 1] + 1
  /\ (loc.rd = "wait" \/ RingFilling) /\ loc.base = 0 /\ loc.br = Half =>
       ring[Half - 1] = FileSize - 1

OtherHalf == IF dma.at = "half" THEN "full" ELSE "half"

\* Sending, with no event late: what comes next was heard, or follows what is being sent;
\* and so does what is copied next, or it follows what was copied and waits to be sent.
HeardSound ==
  lib.st = "play" /\ dma.st # "off" /\ ~past.late =>
    /\ audio[dma.at][1] <= past.heard
    /\ audio[OtherHalf][1] <= past.heard \/ audio[OtherHalf][1] <= audio[dma.at][Half] + 1
    /\ loc.playCur <= fptr =>
         \/ loc.playCur <= past.heard
         \/ loc.playCur <= audio[dma.at][Half] + 1
         \/ (hlib.evt = "none" \/ pc = "clear") /\ loc.playCur <= audio[OtherHalf][Half] + 1

HeardInv == OrderInv /\ HalvesMeet /\ HeardSound

LEMMA RingValues ==
  ASSUME OrderInv
  PROVE  /\ Half \in Places /\ Half - 1 \in Places
         /\ ring[Half] \in Int /\ ring[Half - 1] \in Int
         /\ ring[Half] <= FileSize - 1 /\ ring[Half - 1] <= FileSize - 1
<1>1. Half \in Places /\ Half - 1 \in Places
  BY Nums DEF Places
<1>2. ring[Half] \in Sample /\ ring[Half - 1] \in Sample
  BY <1>1, Kinds DEF OrderInv
<1> QED
  BY <1>1, <1>2, Nums DEF Sample, Nothing

LEMMA ReadsHalves ==
  ASSUME HeardInv, Half < Chunk, NEW n \in 1..Chunk, Reads(n),
         loc.rd = "wait" \/ RingFilling, loc'.br = loc.br + n, loc'.base = loc.base
  PROVE  HalvesMeet'
<1>1. OrderInv /\ Half \in Places /\ Half - 1 \in Places /\ n \in Nat /\ 1 <= n
  BY RingValues, Numbers DEF HeardInv
<1>2. n = Chunk \/ fptr' = FileSize
  BY <1>1, ReadsFacts DEF OrderInv
<1>3. ring'[Half] \in Int /\ ring'[Half] <= FileSize - 1
  <2>1. ring' \in [Places -> Sample]
    BY <1>1, ReadsFacts DEF OrderInv
  <2> QED
    BY <1>1, <2>1, Nums DEF Sample, Nothing
<1> DEFINE w == loc.base + loc.br
<1>4. w \in Nat /\ loc.br \in Nat /\ loc.base \in {0, H}
  BY <1>1, Kinds, Nums DEF OrderInv
<1>5. /\ fptr' = fptr + n
      /\ ring'[Half] = IF w <= Half /\ Half < w + n THEN fptr + (Half - loc.base - loc.br)
                                                    ELSE ring[Half]
      /\ ring'[Half - 1] = IF w <= Half - 1 /\ Half - 1 < w + n
                            THEN fptr + (Half - 1 - loc.base - loc.br) ELSE ring[Half - 1]
  BY <1>1, ReadsRing DEF OrderInv
<1>6. /\ Half - loc.base - loc.br = Half - w /\ Half - 1 - loc.base - loc.br = Half - w - 1
  BY <1>1, <1>4, Nums
<1> HIDE DEF w
<1>7. CASE w <= Half - 1 /\ Half < w + n
  <2>1. ring'[Half] = fptr + (Half - w) /\ ring'[Half - 1] = fptr + (Half - w - 1)
    BY <1>1, <1>4, <1>5, <1>6, <1>7, Nums
  <2>2. ~(loc'.base = 0 /\ loc'.br = Half)
    BY <1>1, <1>4, <1>7, Nums DEF w
  <2> QED
    BY <1>1, <1>4, <2>1, <2>2, Kinds, Nums DEF HalvesMeet, OrderInv
<1>8. CASE w <= Half - 1 /\ Half = w + n
  <2>1. fptr' = FileSize
    BY <1>1, <1>2, <1>4, <1>8, Nums, Numbers
  <2>2. ring'[Half - 1] = fptr + (Half - w - 1)
    BY <1>1, <1>4, <1>5, <1>6, <1>8, Nums
  <2>3. ring'[Half - 1] = FileSize - 1
    BY <1>1, <1>4, <1>5, <1>8, <2>1, <2>2, Nums
  <2>4. ring'[Half] \in Int /\ ring'[Half] <= FileSize - 1
    BY <1>3
  <2> QED
    BY <1>1, <2>3, <2>4, Nums DEF HalvesMeet
<1>9. CASE w = Half
  <2>1. loc.base = 0 /\ loc.br = Half
    BY <1>1, <1>4, <1>9, Nums DEF w
  <2>2. ring[Half - 1] = FileSize - 1
    BY <2>1 DEF HeardInv, HalvesMeet
  <2>3. ring'[Half - 1] = FileSize - 1
    BY <1>1, <1>4, <1>5, <1>9, <2>2, Nums
  <2>4. ring'[Half] \in Int /\ ring'[Half] <= FileSize - 1
    BY <1>3
  <2> QED
    BY <1>1, <2>3, <2>4, Nums DEF HalvesMeet
<1>10. CASE w + n <= Half - 1 \/ Half < w
  <2>1. ring'[Half] = ring[Half] /\ ring'[Half - 1] = ring[Half - 1]
    BY <1>1, <1>4, <1>5, <1>10, Nums
  <2>2. ~(loc'.base = 0 /\ loc'.br = Half)
    BY <1>1, <1>4, <1>10, Nums DEF w
  <2> QED
    BY <2>1, <2>2 DEF HeardInv, HalvesMeet
<1> QED
  BY <1>1, <1>4, <1>7, <1>8, <1>9, <1>10, Nums

LEMMA FillStartHeard ==
  ASSUME HeardInv, FillStart
  PROVE  HalvesMeet' /\ HeardSound'
<1>1. ring' = ring /\ loc \in Locals /\ lib \in Libs /\ lib.st = "fill" /\ Half # 0
  BY Numbers DEF FillStart, Processing, HeardInv, OrderInv, IInv, Typed
<1>2. loc'.br = 0
  <2>1. loc' = [loc EXCEPT !.playCur = fptr, !.rd = "req", !.rptr = 0, !.state = "none",
                        !.last = "none", !.base = 0, !.btr = Ring, !.br = 0]
    BY DEF FillStart
  <2> QED
    BY <1>1, <2>1 DEF Locals
<1>3. lib'.st = "fill"
  BY <1>1 DEF FillStart, Libs
<1> QED
  BY <1>1, <1>2, <1>3 DEF HalvesMeet, HeardSound, HeardInv

LEMMA FillReadHeard ==
  ASSUME HeardInv, Half < Chunk, FillRead
  PROVE  HalvesMeet' /\ HeardSound'
<1>1. RingFilling /\ lib' = lib /\ loc \in Locals
  BY DEF FillRead, Filling, Processing, RingFilling, HeardInv, OrderInv, IInv, Typed
<1>2. HeardSound'
  BY <1>1 DEF HeardSound, RingFilling
<1>3. CASE UNCHANGED <<ring, fptr, loc>>
  BY <1>1, <1>2, <1>3 DEF HalvesMeet, RingFilling, HeardInv
<1>4. ASSUME NEW n \in 1..Chunk, Reads(n), loc' = [loc EXCEPT !.br = @ + n]
      PROVE  HalvesMeet'
  <2>1. loc'.br = loc.br + n /\ loc'.base = loc.base
    BY <1>1, <1>4 DEF Locals
  <2> QED
    BY <1>1, <1>4, <2>1, ReadsHalves
<1> QED
  BY <1>2, <1>3, <1>4 DEF FillRead

\* The DMA starts with what the ring begins with; what was not read follows it or was
\* heard, since the file has ended.
LEMMA FillDoneHeard ==
  ASSUME HeardInv, FillDone
  PROVE  HalvesMeet' /\ HeardSound'
<1>1. /\ RingFilling /\ pc = "idle" /\ ring' = ring /\ fptr' = fptr /\ loc \in Locals
      /\ loc' = [loc EXCEPT !.empty = FALSE, !.rptr = @ + 2 * Half, !.playCur = @ + 2 * Half]
  BY DEF FillDone, Filling, Processing, RingFilling, HeardInv, OrderInv, IInv, Typed
<1>2. /\ loc'.rd = loc.rd /\ loc'.base = loc.base /\ loc'.br = loc.br
      /\ loc'.playCur = loc.playCur + 2 * Half
  BY <1>1 DEF Locals
<1>3. HalvesMeet'
  BY <1>1, <1>2 DEF HalvesMeet, HeardInv
<1>4. CASE lib' = lib
  BY <1>1, <1>3, <1>4 DEF HeardSound, RingFilling
<1>5. CASE /\ dma' = [st |-> "on", at |-> "half"]
           /\ past' = [heard |-> loc.playCur, late |-> FALSE, cut |-> FALSE]
           /\ hlib' = [hlib EXCEPT !.pb = "play"]
  <2>1. /\ hlib.evt = "none" /\ loc.btr = Ring /\ fptr = loc.playCur + loc.br
        /\ \A k \in Places : k < loc.br => ring[k] = loc.playCur + k
    BY <1>1 DEF HeardInv, OrderInv, IInv, FillSound, FillHolds
  <2>2. hlib'.evt = "none"
    BY <1>5, <2>1 DEF HeardInv, OrderInv, IInv, Typed, Handles
  <2>3. OrderInv
    BY DEF HeardInv
  <2>4. dma'.at = "half" /\ past'.heard = loc.playCur /\ OtherHalf' = "full"
    BY <1>5 DEF OtherHalf
  <2>5. /\ audio'["half"][1] = ring[0] /\ audio'["half"][Half] = ring[Half - 1]
        /\ audio'["full"][1] = ring[Half] /\ audio'["full"][Half] = ring[Half + Half - 1]
    <3>1. 1 \in 1..Half /\ Half \in 1..Half /\ 1 - 1 = 0 /\ Half + 1 - 1 = Half
      BY <2>3, Nums
    <3> QED
      BY <3>1 DEF FillDone
  <2>6. ring[0] <= loc.playCur
    <3>1. CASE loc.br = 0
      <4>1. fptr = FileSize
        BY <2>1, <2>3, <3>1, Nums DEF FillDone, MoreToFill
      <4>2. ring[0] \in Sample
        BY <2>3, Kinds, Ranges DEF OrderInv
      <4> QED
        BY <2>1, <2>3, <3>1, <4>1, <4>2, Nums DEF Sample, Nothing
    <3>2. CASE loc.br # 0
      <4>1. 0 \in Places /\ 0 < loc.br
        BY <2>3, <3>2, Nums, Ranges
      <4> QED
        BY <2>1, <2>3, <4>1, Nums
    <3> QED
      BY <3>1, <3>2
  <2>7. ring[Half] <= ring[Half - 1] + 1
    BY DEF HeardInv, HalvesMeet
  <2>8. ASSUME loc'.playCur <= fptr'
        PROVE  loc'.playCur <= ring[Half + Half - 1] + 1
    <3>1. loc.playCur + 2 * Half <= loc.playCur + loc.br
      BY <1>1, <1>2, <2>1, <2>8
    <3>2. Half + Half - 1 \in Places /\ Half + Half - 1 < loc.br
      BY <2>3, <3>1, Nums DEF Places
    <3>3. ring[Half + Half - 1] = loc.playCur + (Half + Half - 1)
      BY <2>1, <3>2
    <3> QED
      BY <1>2, <2>3, <3>3, Nums
  <2>9. HeardSound'
    BY <2>2, <2>4, <2>5, <2>6, <2>7, <2>8 DEF HeardSound
  <2> QED
    BY <1>3, <2>9
<1> QED
  BY <1>4, <1>5 DEF FillDone

\* A half is copied behind the DMA, and follows what was copied last.
LEMMA PlayTickHeard ==
  ASSUME HeardInv, PlayTick
  PROVE  HalvesMeet' /\ HeardSound'
<1>1. OrderInv /\ IInv
  BY DEF HeardInv, OrderInv
<1>2. HalvesMeet'
  BY <1>1, FrameMoves DEF HalvesMeet, RingFilling, HeardInv
<1>3. /\ dma' = dma /\ past'.heard = past.heard /\ past'.late = past.late
      /\ hlib'.evt = hlib.evt /\ pc = "idle"
      /\ lib.st = "play" /\ fptr' = fptr /\ dma \in Dmas
      /\ pc' = IF hlib.evt = "none" THEN "tail" ELSE "clear"
  BY <1>1 DEF PlayTick, Processing, IInv, Typed, Handles, Pasts
<1>4. CASE audio' = audio /\ loc'.playCur = loc.playCur
  BY <1>2, <1>3, <1>4 DEF HeardInv, HeardSound, OtherHalf
<1>5. ASSUME audio' # audio \/ loc'.playCur # loc.playCur, dma.st # "off", ~past.late
      PROVE  HeardSound'
  <2>1. /\ hlib.evt # "none" /\ pc' = "clear" /\ loc.playCur + Half < fptr
        /\ loc'.playCur = loc.playCur + Half
        /\ audio' = [audio EXCEPT ![hlib.evt] = [i \in 1..Half |-> loc.playCur + i - 1]]
    BY <1>1, <1>5, FrameGives
  <2>2. hlib.evt = OtherHalf
    BY <1>1, <1>3, <1>5, <2>1 DEF IInv, EventSound, Typed, Handles, Dmas, OtherHalf
  <2>3. audio \in [{"half", "full"} -> [1..Half -> Sample]]
    BY <1>1 DEF IInv, Readable
  <2>4. /\ audio'[dma.at] = audio[dma.at]
        /\ audio'[OtherHalf] = [i \in 1..Half |-> loc.playCur + i - 1]
    BY <1>3, <2>1, <2>2, <2>3 DEF OtherHalf, Dmas
  <2>5. audio'[OtherHalf][1] = loc.playCur /\ audio'[OtherHalf][Half] + 1 = loc.playCur + Half
    BY <1>1, <2>4, Nums
  <2>6. /\ audio[dma.at][1] <= past.heard
        /\ loc.playCur <= past.heard \/ loc.playCur <= audio[dma.at][Half] + 1
    BY <1>1, <1>3, <1>5, <2>1, Nums DEF HeardInv, HeardSound
  <2>7. OtherHalf' = OtherHalf
    BY <1>3 DEF OtherHalf
  <2>8. loc.playCur + Half <= loc.playCur + Half
    BY <1>1, Nums
  <2> QED
    BY <1>3, <2>1, <2>4, <2>5, <2>6, <2>7, <2>8 DEF HeardSound
<1>6. CASE dma.st = "off" \/ past.late
  BY <1>2, <1>3, <1>6 DEF HeardSound
<1> QED
  BY <1>2, <1>4, <1>5, <1>6

\* The DMA goes on with the other half.
LEMMA InterruptHeard ==
  ASSUME HeardInv, Interrupt
  PROVE  HalvesMeet' /\ HeardSound'
<1>1. IInv /\ OrderInv
  BY DEF HeardInv, OrderInv
<1>2. HalvesMeet'
  BY DEF Interrupt, HalvesMeet, RingFilling, HeardInv
<1>3. ASSUME lib.st = "play", ~past'.late
      PROVE  HeardSound'
  <2>1. ~past.late /\ hlib.evt = "none" /\ pc # "clear" /\ dma.st # "off"
    BY <1>1, <1>3 DEF Interrupt, IInv, Typed, Pasts
  <2>2. /\ audio[dma.at][1] <= past.heard
        /\ audio[OtherHalf][1] <= past.heard \/ audio[OtherHalf][1] <= audio[dma.at][Half] + 1
        /\ loc.playCur <= fptr =>
             \/ loc.playCur <= past.heard
             \/ loc.playCur <= audio[dma.at][Half] + 1
             \/ loc.playCur <= audio[OtherHalf][Half] + 1
    BY <1>3, <2>1 DEF HeardInv, HeardSound
  <2>3. dma'.at = OtherHalf /\ OtherHalf' = dma.at
    BY <1>1 DEF Interrupt, IInv, Typed, Dmas, OtherHalf
  <2>4. past.heard \in Nat /\ audio[dma.at][Half] + 1 \in Nat
    <3>1. audio[dma.at][Half] \in Sample
      BY <1>1, Nums DEF IInv, Typed, Readable, Dmas
    <3> QED
      BY <1>1, <3>1, Nums DEF IInv, Typed, Pasts, Position, Sample, Nothing
  <2>5. audio[dma.at][1] \in Int /\ audio[OtherHalf][1] \in Int /\ loc.playCur \in Int
    <3>1. dma.at \in {"half", "full"} /\ OtherHalf \in {"half", "full"} /\ 1 \in 1..Half
      BY <1>1, Nums DEF IInv, Typed, Dmas, OtherHalf
    <3>2. audio[dma.at][1] \in Sample /\ audio[OtherHalf][1] \in Sample
      BY <1>1, <3>1 DEF IInv, Readable
    <3> QED
      BY <1>1, <3>2, Nums DEF Sample, Nothing
  <2>6. past'.heard = Max({past.heard, audio[dma.at][Half] + 1})
    BY DEF Interrupt
  <2>7. /\ past'.heard \in Nat /\ past.heard <= past'.heard
        /\ audio[dma.at][Half] + 1 <= past'.heard
    BY <2>4, <2>6, MaxOfTwo
  <2>8. /\ audio[OtherHalf][1] <= past'.heard /\ audio[dma.at][1] <= past'.heard
    BY <2>2, <2>4, <2>5, <2>7
  <2>9. loc.playCur <= fptr => loc.playCur <= past'.heard \/ loc.playCur <= audio[OtherHalf][Half] + 1
    BY <2>2, <2>4, <2>5, <2>7
  <2> QED
    BY <2>3, <2>8, <2>9 DEF Interrupt, HeardSound
<1> QED
  BY <1>2, <1>3 DEF Interrupt, HeardSound

LEMMA RefillsHeard ==
  ASSUME HeardInv, Half < Chunk, RefillRequest \/ RefillRead \/ RefillDone
  PROVE  HalvesMeet' /\ HeardSound'
<1>1. /\ pc' = pc /\ lib' = lib /\ dma' = dma /\ audio' = audio /\ past' = past
      /\ fptr # FileSize /\ OrderInv /\ IInv /\ loc \in Locals
  BY DEF RefillRequest, RefillRead, RefillDone, Buffering, HeardInv, OrderInv, IInv, Typed
<1>2. hlib'.evt = hlib.evt
  BY <1>1 DEF RefillRequest, RefillRead, RefillDone, Paused, IInv, Typed, Handles
<1>3. loc'.playCur = loc.playCur
  <2>1. CASE RefillRequest
    BY <1>1, <2>1 DEF RefillRequest, Locals
  <2>2. CASE RefillDone
    BY <1>1, <2>2 DEF RefillDone, Locals
  <2>3. CASE RefillRead
    <3>1. PICK due : due = Due
      OBVIOUS
    <3>2. \/ \E n \in 1..Chunk : loc' = [loc EXCEPT !.br = @ + n, !.state = due]
          \/ loc' = [loc EXCEPT !.state = due]
      BY <2>3, <3>1 DEF RefillRead
    <3> QED
      BY <1>1, <3>2 DEF Locals
  <2> QED
    BY <2>1, <2>2, <2>3
<1>4. lib.st = "play" => loc.playCur <= fptr
  <2>1. lib.st = "play" => Distance /\ WritePlace \in Nat
    BY <1>1, WritePlaces DEF OrderInv, RingSound
  <2> QED
    BY <1>1, <2>1, Nums DEF Distance
<1>5. HeardSound'
  BY <1>1, <1>2, <1>3, <1>4 DEF HeardInv, HeardSound, OtherHalf
<1>6. CASE RefillRequest
  <2>1. \/ loc' = loc
        \/ loc'.br = 0
    BY <1>1, <1>6 DEF RefillRequest, Locals
  <2>2. ring' = ring /\ Half # 0
    BY <1>6, Numbers DEF RefillRequest
  <2> QED
    BY <1>1, <1>5, <2>1, <2>2 DEF HalvesMeet, RingFilling, HeardInv
<1>7. CASE RefillDone
  <2>1. loc'.br = loc.br /\ loc'.base = loc.base /\ loc'.rd = "req" /\ ring' = ring
    BY <1>1, <1>7 DEF RefillDone, Locals
  <2> QED
    BY <1>1, <1>5, <2>1 DEF HalvesMeet, RingFilling, HeardInv
<1>8. CASE RefillRead
  <2>1. loc.rd = "wait"
    BY <1>8 DEF RefillRead
  <2>2. CASE ring' = ring /\ loc' = [loc EXCEPT !.state = Due]
    <3>1. loc'.br = loc.br /\ loc'.base = loc.base /\ loc'.rd = loc.rd
      BY <1>1, <2>2 DEF Locals
    <3> QED
      BY <1>1, <1>5, <2>2, <3>1 DEF HalvesMeet, RingFilling, HeardInv
  <2>3. ASSUME NEW n \in 1..Chunk, Reads(n), loc' = [loc EXCEPT !.br = @ + n, !.state = Due]
        PROVE  HalvesMeet'
    <3>1. loc'.br = loc.br + n /\ loc'.base = loc.base
      BY <1>1, <2>3 DEF Locals
    <3> QED
      BY <2>1, <2>3, <3>1, ReadsHalves
  <2> QED
    BY <1>5, <1>8, <2>2, <2>3 DEF RefillRead
<1> QED
  BY <1>6, <1>7, <1>8

\* Steps that move none of what HeardInv is about, or end the playing.
LEMMA OthersHeard ==
  ASSUME HeardInv, "reseek" \notin Faults,
         \/ ReadHeader \/ ClearEvent \/ OtherTick \/ TaskEnd \/ PlayerDelete
         \/ Start \/ PlayPause \/ LongPress \/ Close \/ Seek
  PROVE  HalvesMeet' /\ HeardSound'
<1>1. IInv /\ hlib \in Handles /\ lib \in Libs /\ dma \in Dmas
  BY DEF HeardInv, OrderInv, IInv, Typed
<1>2. loc' = loc /\ ring' = ring /\ audio' = audio /\ past' = past
  BY DEF ReadHeader, ClearEvent, OtherTick, TaskEnd, PlayerDelete,
         Start, PlayPause, LongPress, Close, Seek
<1>3. RingFilling' => RingFilling
  <2>1. CASE Seek
    <3>1. lib.st # "fill" /\ lib' = [lib EXCEPT !.st = "fill"]
      BY <2>1 DEF Seek
    <3>2. lib'.rd = "req"
      BY <1>1, <3>1 DEF Libs, IInv, PlaySound
    <3> QED
      BY <3>2 DEF RingFilling
  <2>2. CASE ~Seek
    BY <1>1, <2>2 DEF ReadHeader, Processing, ClearEvent, OtherTick, TaskEnd, PlayerDelete,
       Start, PlayPause, LongPress, Close, RingFilling, IInv, PlaySound
  <2> QED
    BY <2>1, <2>2
<1>4. HalvesMeet'
  BY <1>2, <1>3 DEF HeardInv, HalvesMeet
<1>5. CASE ReadHeader \/ PlayerDelete \/ Start \/ Seek
  <2>1. lib'.st # "play"
    BY <1>1, <1>5 DEF ReadHeader, Processing, PlayerDelete, Start, Seek, Libs, IInv, PlaySound
  <2> QED
    BY <1>4, <2>1 DEF HeardSound
<1>6. CASE ClearEvent
  <2>1. hlib'.evt = "none"
    BY <1>1, <1>6 DEF ClearEvent, Handles
  <2> QED
    BY <1>2, <1>4, <1>6, <2>1 DEF ClearEvent, HeardInv, HeardSound, OtherHalf
<1>7. CASE OtherTick \/ TaskEnd \/ PlayPause \/ LongPress \/ Close
  <2>1. /\ lib' = lib /\ fptr' = fptr /\ pc # "clear" /\ hlib'.evt = hlib.evt /\ dma'.at = dma.at
        /\ dma'.st # "off" => dma.st # "off"
    BY <1>1, <1>7 DEF OtherTick, Processing, TaskEnd, PlayPause, LongPress, Close, Click,
       Handles, Dmas
  <2> QED
    BY <1>2, <1>4, <2>1 DEF HeardInv, HeardSound, OtherHalf
<1> QED
  BY <1>5, <1>6, <1>7

LEMMA NextHeard ==
  ASSUME HeardInv, "reseek" \notin Faults, Half < Chunk, [Next]_vars
  PROVE  HeardInv'
<1>1. OrderInv'
  BY NextOrder DEF HeardInv
<1>2. HalvesMeet' /\ HeardSound'
  <2>1. CASE UNCHANGED vars
    BY <2>1 DEF vars, HeardInv, HalvesMeet, HeardSound, OtherHalf, RingFilling
  <2>2. CASE ProcessTask
    BY <2>2, FillStartHeard, FillReadHeard, FillDoneHeard, PlayTickHeard, OthersHeard
    DEF ProcessTask
  <2>3. CASE BufferTask
    BY <2>3, RefillsHeard DEF BufferTask
  <2>4. CASE Interrupt
    BY <2>4, InterruptHeard
  <2>5. CASE Start \/ PlayPause \/ LongPress \/ Close \/ Seek
    BY <2>5, OthersHeard
  <2> QED
    BY <2>1, <2>2, <2>3, <2>4, <2>5 DEF Next
<1> QED
  BY <1>1, <1>2 DEF HeardInv

\* No sample is passed over: the half the DMA goes on with begins at the next sample to
\* be heard or repeats samples, unless an interrupt came before the one before it was
\* dealt with.
THEOREM NothingIsSkipped ==
  ASSUME "reseek" \notin Faults, Half < Chunk PROVE Spec => []NothingSkipped
<1>1. Init => HeardInv
  <2> SUFFICES ASSUME Init PROVE HeardInv
    OBVIOUS
  <2>1. OrderInv
    BY InitIInv DEF Init, OrderInv, RingSound, FillHolds, RingFilling
  <2>2. Half \in Places /\ Half - 1 \in Places
    BY <2>1, RingValues
  <2>3. HalvesMeet
    BY <2>2, Numbers DEF Init, HalvesMeet, RingFilling, Nothing, Places
  <2> QED
    BY <2>1, <2>3 DEF Init, HeardInv, HeardSound
<1>2. HeardInv /\ [Next]_vars => HeardInv'
  BY NextHeard
<1>3. HeardInv => NothingSkipped
  BY DEF HeardInv, HeardSound, NothingSkipped
<1> QED
  BY <1>1, <1>2, <1>3, PTL DEF Spec
================================================================================
