# Verification of the STM32H747 file manager

This directory is the verification project of the firmware in `src/`: TLA+ modules
that model its core, TLC configurations that check them on small instances, and
theorems that TLAPS proves for every value of the constants.

The firmware is a bare-metal application for the STM32H747 discovery board.  The
Cortex-M7 runs one super-loop (`src/CM7/Src/main.c`): each pass runs the LVGL task
handler (the user interface, the file manager's tasks, the players), the lwIP
timers and input (`MX_LWIP_Process`), the USB host and `lv_fm_non_task_process`.
All lwIP callbacks (FTP server, FTP client, DHCP) and all LVGL callbacks therefore
run to completion, one at a time, in that loop; only interrupt handlers (audio DMA,
JPEG codec, DMA2D, USB, Ethernet) preempt it.  Everything below rests on this: *one
callback is one atomic action, what interleaves is the order in which callbacks
come, and the only preemption is an interrupt handler.*

The repository has no tests and no design document; the references for what the
code promises are its comments, its error strings, the lwIP sources it is built
with (LwIP 2.1.2, in `src/Common/Libraries/LwIP`) and the FTP protocol as the code
itself speaks it.

## 1. Inventory

| Component | Source | State | Operations | Interacts with |
|---|---|---|---|---|
| FTP server | `ftps.c` | lists `ctrl_conns`, `data_conns` and their counters; per session `ftps_ctrl_t` (state, `pasv`, `offset`, `timeout`, `data`, `data_pcb`, reply buffer); per data connection `ftps_data_t` (`conn`, file, directory, buffer, listening pcb, back pointer `ctrl`) | lwIP callbacks accept/recv/sent/poll/err of the control connection, connected/recv/sent/err of the data connection, 25 commands | lwIP (allocates and frees pcbs behind pointers the server keeps), FatFs, remote clients |
| FTP client | `lwftp.c`, and its user callbacks in `lv_file_manager.c` | one `lwftp_session_t` inside `fm_task_data`: control state, target state, control and data pcb, `done_fn`, data source and sink | connect, CWD+LIST, RETR, STOR, MKD, RMD, DELE, RNFR/RNTO, ABOR, QUIT; reply-driven state machine | lwIP, remote server, file manager tasks that wait for `control_pcb == NULL`, the media player |
| File manager | `lv_file_manager.c` | `fm_task_data` (main state, task states, counters, error), object lists, the tree of operations `fm_op_list`, USB/SD state | LVGL tasks: list, object operations (scan), file (copy, cut, delete, upload, download, rename, mkdir), progress bar, message box, autoplay, media checks; UI event callbacks that set `main_state` or start tasks | FatFs, FTP client, player, loader, USB host |
| Media player | `lv_file_player.c` | `hlib`, player state machine, tasks | start (local, remote), delete, play/pause/next/seek events, process and buffer tasks | audio decoders, FTP client, DMA interrupts |
| Audio decoders | `audiolib/*.c` | `audio_lib_handle_t`: buffer ring of two halves, `playback_state`, DMA half/full flags | process, seek, free, frame reader, DMA callbacks | DMA interrupts, player tasks that fill the ring |
| File loader | `lv_file_loader.c` | handle `hloader` (file, flash address, error), the copy task, bank 2 of the flash and its lock | compare, erase, copy one buffer per task call, cancel, start the application | FatFs, flash |
| DHCP and link | `app_ethernet.c`, link check in `ethernetif.c`, net task and check box in `lv_file_manager.c` | `DHCP_state`, timers, `app_netif` flags, address, lwIP's client | link callback, DHCP state machine on a 500 ms tick, link poll every second, display of the address | lwIP netif and DHCP client, LVGL |
| Ethernet glue | `ethernetif.c` | DMA descriptors, pbuf pool | input, output, PHY poll | HAL |
| JPEG, LVGL, USB, RTC glue | `hal_jpeg_codec.c`, `lvgl_port.c`, `usbh_conf.c`, `rtc.c` | device handles | driver calls | HAL |
| Main loop | `CM7/Src/main.c` | - | super-loop | everything |
| Vendored | `Common/Libraries/{FatFs,LwIP,lvgl,STM32*,...}`, `Drivers` | - | - | not modelled; lwIP and FatFs appear as the environment |

What is hard in each, and what makes it correct:

* **FTP server.**  A data connection can end in a callback that does not go through
  its session (reset, end of stream, last byte sent) and a session can end while
  its data connection runs; each must leave no pointer to what the other freed.
  `tcp_write` takes bytes in part; the rest must go out later, in order, before
  the next block and before `226`.  A session whose client vanished must be reaped.
* **FTP client.**  Two connections race: the end of the data (EOF, reset) and the
  reply on the control connection come in either order; the user cancels at any
  moment; `done_fn` is called re-entrantly from inside the state machine, which then
  overwrites the state.  A download must not be closed before its last byte, the
  session must end (the file manager waits for `control_pcb == NULL`), and no pcb
  may stay connected to a session structure that has been reused.
* **File manager.**  Long operations are cut into steps of one per LVGL tick, over a
  tree that was scanned earlier; the user cancels, the media is removed, or an
  operation fails between two steps.  Nothing may be deleted that was not copied;
  the tree must be freed once; a cancelled operation must leave nothing behind that
  the next one picks up.
* **Player and decoders.**  The interrupt handler and the frame reader share flags
  without a lock; a half of the ring must not be overwritten while the DMA plays it.
* **DHCP and link.**  Four handlers with timers of their own, lwIP's client, the check
  box and the display each look at the others' state some time later.  A link that
  bounces between two ticks must not leave a stale address, a late answer must not
  replace the fallback address, and the state machine must leave every wait.
* **Loader.**  The bank keeps what an earlier, interrupted copy has left in it; an
  application may be started only if the bank holds its file, whatever that was, and the
  copy must end also when the file's length is a multiple of the buffer.

`PROJECT.json` lists, under "hazards", what is hard to test in this code, each at its
line, with the properties that cover it, or a note on why none does.

## 2. Modules

| Module | Models | Checked by | Proved in |
|---|---|---|---|
| `Ftps` | the FTP server, `ftps.c` | `MCFtps`: `ftps_orderly`, `ftps_any`, `ftps_ends`, `ftps_port` | `Ftps_proofs` (any client; then well-behaved clients) |
| `Lwftp` | the FTP client, `lwftp.c`, with the three users that drive it: the list, the file task and `lwftp_ff.c` | `MCLwftp`: `lwftp_any`, `lwftp_ends` | `Lwftp_proofs` (pcbs, counters), `LwftpCourse_proofs` (a job from start to end) |
| `FileOps` | copying, moving and deleting in `lv_file_manager.c` | `MCFileOps`: `files_any`, `files_done`, `files_full` | `FileOps_proofs` (the tree and its pointers; that it keeps the promise of `SafeMove`, and what follows), `FileWork_proofs` (that a job leaves no node, and does its work) |
| `SafeMove` | the promise of a copy, a move or a deletion, abstractly; `FileOps` implements it | `files_any` (`KeepsPromise`) | `FileOps_proofs` |
| `AudioRing` | the local player in `lv_file_player.c` with `wav_lib.c` | `MCAudioRing`: `audio_song` | `AudioRing_proofs` (types, buffers, the DMA; the order of the samples) |
| `Loader` | the application loader, `lv_file_loader.c` | `MCLoader`: `loader` | `Loader_proofs` |
| `DhcpLink` | `app_ethernet.c`, the link check, lwIP's DHCP client, the net task, as the main loop runs them | `dhcp` | `DhcpLink_proofs` |

Except for `SafeMove` the modules are separate state machines: what one component sees of
another is either the environment of its module (lwIP, FatFs, the remote end, the user)
or, where parts of the code call each other back or look at each other's state (the FTP
client and its users; the player and the WAV library; the two tasks of the file manager;
the periodic handlers, lwIP's timers and the display), these parts are in one module.
An operator whose comment starts with "Variant" is the operator after it with a slip
the code could have had; no action uses it.

### 2.1 `Ftps`

Pointers are identifiers.  `Sess` and `Data` are the heap blocks of `ftps_ctrl_t` and
`ftps_data_t`, `Conn` the `tcp_pcb` blocks of data connections; an identifier may be
allocated again as soon as it is freed, as an address may.  Each lwIP callback is one
action: `Accept`, the control connection's recv (one action per kind of command:
`Control`, `Abrt`, `Pasv`, `Begin`, ...), sent, poll, err and end of stream, and the
data connection's connected, recv, sent, err and end of stream.  Following a pointer
that an earlier callback has left to a freed block is a `Crash`: it sets `fault`, after
which the model stands still.  A callback that ends its session and goes on to use it is
another matter: nothing is allocated in between, so only the freed block is reached, and
`ctrl` keeps what is left in it (`NewCtrl` as long as nobody writes to it).  `Poll` counts
the timer there on every timeout (`Reaped`); `CtrlSent` may hand the
freed session's empty buffer to `ftps_write`, which reads it and does nothing.
A store through the NULL pointer is lost (address 0 is ITCM RAM on this chip).

Abstracted: port numbers, names, the working directory, the text of replies and the
contents of files (a transfer is a number of blocks that are left, `tcp_write` taking a
block in full, in part or not at all).  lwIP is modelled from its 2.1.2 sources: `bind`
cannot fail here, `tcp_listen` can.  Two bounds replace numbers of the code: `MaxPoll`
for FTPS_CTRL_TIMEOUT (60 polls), `MaxLeft` for the length of a transfer.

`Orderly` clients run one transfer at a time, connect once to a listener, and end
only uploads with an end of stream.  With clients that do not, the code loses blocks
(the hazards name where), so the runs split: `ftps_orderly` asks what ought to hold
of well-behaved clients, `ftps_any` what still holds of any.

### 2.2 `Lwftp`

One `lwftp_session_t` (`s`), the control and data connections with the server's end of
each (`conn`, `dat`), and the job with its history (`job`).  `done_fn` is called from
inside the state machine and calls back into it, so a callback is a function on a
record W (the session and what the callback has done so far), written in the order in
which the code acts; an action takes the message, applies the function and stores W.
The server obeys FTP; `Faults` adds refusals, resets, merged segments, replies that
agree with nothing (`wild`), a disk or lwIP without memory, and a user who cancels.
No caller of `lwftp_send_msg` looks at its result: a command that `tcp_write` refuses is
one the server never gets (`Unsent`).  An upload whose data connection was reset before
150 came takes a block of the source for a NULL pcb (`SendNext`): the model has the lost
block and the failed job, not the read of a pcb at address 0.

`Patient` users take a job as finished when `control_pcb` is NULL, which is all the file
task looks at.  Clicks on a list need not wait: with `Patient` FALSE TLC finds
`NoLeakedPcb` violated, because `lv_lwftp_connect` clears the live session before
`lwftp_connect` could refuse (`lv_file_manager.c:4721`); the hazards keep this.
`leftover` marks that a cancelled transfer has left bytes in the shared buffer: the
next job moves them too, so `WorkDone` leaves that job out.

### 2.3 `FileOps`

Three parties share `main_state` and the tree of operations: the buttons, the
operations task (collects the selected objects and scans folders), and the file task
(pastes or deletes along the tree).  One button press, or one call of a task by LVGL,
is one action.  Files and folders have distinct names; sizes are in blocks of the copy
buffer; `Here` is where the user picks and `Away` where they paste, on the same or on
another volume.  Nodes are addresses (`Node`), freed ones are reused, and a pointer
to a freed one is stray.  What the code's loops reach along `next`, `child_ll` and
`parent_ll` is the least set that is closed under these links (`Reached`).  `Hidden` entries are those the scan passes over: by their
attributes, or as the last entry of a full directory, which the changed `f_readdir`
reports together with FR_NO_FILE.  `scan_state` and the other static variables survive
a cancel, as in the code.  The selected objects and the entries of a folder are sets: the
order in which the tasks come to them is left open.  `malloc` gives the lowest free address
of `Heap`; that it fails is not modelled (a task with no address left does nothing, and
`Heap` is large enough in the runs; the code would copy a name through NULL).  The deletion
and `LV_FM_TREE_CLEAN` read the links of nodes they have freed in the same call
(`lv_file_manager.c:3993`, 359).  `free` writes to the first words of a block, the links are
the last of 840 bytes, and nothing is allocated in between, so the model has these reads
find the links as they were; what it looks for is a link or cursor that is left pointing
to a freed node and followed in a later call.

`SafeMove` says what the user may rely on, without tasks, trees or ticks.  Its state is
where the files are (`home`, `there`), the user's last order and the files ever condemned
(`doomed`); a file leaves `home` only when it was picked and is complete at the other
end, or was to be deleted.  `Promise` in `FileOps` is the refinement mapping: a file is at
home while `disk.home` has it, and there when all of its blocks are at the destination;
folders, nodes and the tasks' states have no counterpart, so scanning, walking and
freeing are stutters, as is writing all blocks of a file but the last.  A rename within
a volume moves a folder with its files in one step.

Not in the module: renaming, new folders, formatting, listing, removal of the media in
the middle of a job, and jobs on a server (those are in `Lwftp`).

### 2.4 `AudioRing`

The read buffer (`ring`) and the audio buffer (`audio`) hold, for each sample, the
position in the file it was read from; so "the right samples in the right order" is a
statement about numbers.  `lv_fm_player_process_task` is two or three actions (up to the
copy of a half, the store that clears the event, the rest of the task), because the DMA
interrupt may come in between; the buffer task and the buttons are one action each and
run only between two calls of the process task.  The interrupt itself comes at any
time, also too soon, which `past.late` remembers.  `past.cut` remembers that the tick which found
the end of the file belongs to a song that an error or a click had ended already.  Sizes keep the relations of the
real ones: the ring is not a multiple of half the audio buffer (2 MB and 18 KB), so
copies wrap in the middle; refills are whole chunks (64 KB) until the file ends.

Left out: the header's contents, the tests for an empty read (a read that is waited for
has started before the end of the file), volume, the JPEG player's picture, autoplay.

### 2.5 `Loader`

The unit is the flash word of 32 bytes, the least that can be programmed; the last unit of
a file may be a tail that fills only part of a word.  A click on a .bin file
(`lv_fm_loader_init` with the comparison and the erasure) and each call of the copy task
are one action, with an action for each way it can come out.  The list takes no click
while the loader's bar is shown, so there is one copy at a time.  `Init` allows any
contents of the bank.  `Faults`: a read fails while the bank is compared ("verify") or in
the task ("read"), the flash fails ("erase", "program"), the user cancels, the power goes
("cut").  `Reset` keeps the bank and nothing else.  The vector table's entry is in the
first word; which words have none is `NoEntry`.

### 2.6 `DhcpLink`

`pc` is the part of the main loop's pass that comes next: lwIP's timers, the link handler,
the DHCP handler, `lv_task_handler`, which may stay away for long.  Time is in marks of
500 ms; `elapsed` counts the marks since each handler last ran, which leaves open, by one
unit either way, whether a handler is due: the model takes both.  Packets from a server
(`Offer`, `Ack`, `Nak`, `Conflict`) arrive before the timers run, the cable is moved at
any time, the check box is clicked in `lv_task_handler`.  lwIP's client is modelled from
its `dhcp.c` with the states, `tries` and the request timeout; `Patience` stands for the
4 to 64 ticks a request waits, `MaxTries` is where `tries` is cut off, above every number
it is compared with, and `MaxRefusals` bounds NAKs, conflicts and expired leases.
The static address that is used with the check box clear is in the module; the values of
addresses, and the FTP server and client that use them, are not.

## 3. Runs

| Run | States | Question and answer |
|---|---|---|
| `ftps_orderly` | two sessions, two blocks, two connections | Clients that run one passive transfer at a time and close, reset or abort at any moment: no callback follows a pointer that an earlier one left to a freed block (`NoFault`, `CallbackArgLive`), no data connection outlives its session (`NoOrphan`), a transfer state has its handle (`TransferHasData`), and while its session goes on an announced transfer loses its connection only with a closing reply or a reset that the client sees (`DroppedOnlyOnReset`; without memory, lwIP may also fail to accept it). |
| `ftps_any` | one session, two blocks, one connection | Any client, `malloc`, `tcp_write`, `tcp_listen` and the disk failing: the counters equal the lists, a session points to a live block of its own or to one it cannot follow, and blocks are left behind only when PASV or PORT replaced them. |
| `ftps_ends` | one session, two blocks per transfer | With fairness: an announced passive transfer ends, a vanished client's session is closed, and 226 comes after the last byte. |
| `ftps_port` | one session | Finding: see section 6. |
| `lwftp_any` | jobs of every kind after another, all faults | No pcb outlives its session (`NoLeakedPcb`), no callback or session names a pcb that is not its own (`NoBogusPcb`), and when an undisturbed job is over all of its file has been moved (`WorkDone`). |
| `lwftp_ends` | one connection of each kind | With fairness: `control_pcb` becomes NULL again, also after refusals, resets and cancels. |
| `files_any` | five entries, two jobs, all faults but a cancel during a deletion | No file is lost (`NothingLost`), every step is one that the abstract `SafeMove` allows (`KeepsPromise`), no node is freed twice, and neither a cursor nor a link that is still to be followed is left pointing to a freed node (`NoStrayPointer`; the links of the node it has just freed a call does read, see 2.3). |
| `files_done` | two jobs, pasting may fail or be cancelled | With fairness: both tasks end (`TasksEnd`), no node is left (`NoLeak`), and a job that ends without an error has done its work (`WorkDone`). |
| `files_full` | a volume with room for one block | Finding: see section 6. |
| `audio_song` | two songs | Samples are handed on in order (`InOrder`), never into the half being sent unless the main loop was late (`CopiesBehindDma`), none is skipped (`NothingSkipped`), reads stay in the buffer, but for the tick between a seek and its fill (`ReadsInside`), the DMA is stopped or paused when its buffer is freed, unless the song was `cut` (`NoDmaFromFreed`), and every song ends, unless it was paused or ran empty during the last refill (`Ends`).  Section 6 has the exceptions. |
| `loader` | five files, any initial contents of the bank, all faults but "verify" | An application is started only when the bank holds all complete words of its file (`StartsTheFile`), the flash is locked whenever no copy runs (`LockedAtRest`), and every copy ends (`CopyEnds`). |
| `dhcp` | passes of up to a second, cable and check box at any time, one refusal | An address that the client holds no lease for is cleared by the next step of the DHCP machine (`NoStaleLease`), the fallback address stays (`FallbackStays`), a link that the DHCP machine has been told is gone is not shown as present (`GoneIsNotShown`), and with the cable in and the box ticked the interface comes to a lease or to the fallback address and keeps it, unless the lease is refused or runs out later (`AddressComes`, `LeaseLost`). |

Why the bounds are enough.  *Ftps*: two sessions are what it takes for one to follow
another's block; a transfer of two blocks has a first, a last and a refused one;
`MaxPoll` = 2 tells the last poll from the ones before.  *Lwftp*: two connections of each
kind are what it takes for one to be left behind; jobs follow each other without a
limit; a file of two blocks with one wanted (`Want`) is aborted in the middle.
*FileOps*: a folder with a file and a folder with a file in it, and a file beside it,
has every way the walk can go (down, on, up one level, up two); two jobs are a
cancelled one and one that finds what it left; `Room` = 8 is more than
the files need.  *AudioRing*: the file is filled once and refilled four times, so that
both halves are requested twice and the last refill is short; one pause or seek and
one resume in two songs.  *Loader*: a file of two full buffers (which needs one more,
empty read), one with a tail that begins with the same word, an empty one, one that is too
large and one without an entry, clicked in any order without a limit; the bank starts with
any of the words, so with every prefix of each image.  *DhcpLink*: `MaxTries` = 6 is one
more than the largest number `tries` is compared with; two ticks of `Patience` tell a
request that waits from one that is due; a pass of two marks makes every handler late.
One refusal is enough for safety, and `AddressComes` is false without a bound (a server
that refuses for ever, see the hazards).  Symmetry is used over identifiers only, and never in a run
with a liveness property.

Deadlock is checked in the runs of `Ftps`, `Lwftp`, `Loader` and `DhcpLink`.  The other two
have a user who stops after `MaxJobs` or `MaxSongs`, so their models may come to rest.

## 4. Fairness

* `Ftps`: weak fairness of the poll callback (lwIP's slow timer calls it every 500 ms),
  of the callbacks for acknowledgements, of the end of the stream a client uploads and
  of its taking up the passive connection it was offered (one that never does is what
  the poll timer is for); no fairness of the client's commands.  `ftps_ends` has `LowMem` FALSE: a reply that
  `tcp_write` refuses is only tried again by a sent callback, which need not come.
* `Lwftp`: weak fairness of each connection's callbacks and of the server's answers.  The
  code has no timeout, so a server that stops answering ends nothing.
  `SessionEnds` does not hold with merged segments and resets together, nor when lwIP
  runs out of memory: the code looks at one reply per segment and does not send again.
* `FileOps`: weak fairness of both tasks, which LVGL calls every millisecond.
* `AudioRing`: fairness of both tasks and of the interrupt of a running DMA; strong for
  the buffer task, because the process task is at work in between.
* `Loader`: weak fairness of the copy task's successful calls (LVGL calls it every
  millisecond).  Failures and cancels are never owed; they end the copy too.
* `DhcpLink`: weak fairness of the pass, and strong fairness of a pass that takes time,
  which says no more than that the clock goes on.  Nothing is assumed of the server, the
  cable or the user: that the cable stays in and the box ticked is a premise of
  `AddressComes`.

## 5. Proofs

Each proof module has an inductive invariant, one lemma per action (or per operator that
several actions share), and a theorem for each property.  All theorems hold for every
value of the constants that satisfies the module's assumption, and the assumptions named
here.

**`Ftps_proofs`: any client, any failure.**  `TypeCorrect`; `PointsHome`: a listed
session's `data` pointer is never a freed block or another session's; `Counted`; and, of
the steps, `LeftBehind`: the end of a session leaves behind only blocks that it had stopped
pointing to (`LeftBehindOnlyIfReplaced`).  Each lemma about a step proves `Kept`: the
invariant afterwards, and this of the step itself.
`FtpsAssumption` says that the bounds are natural numbers, NULL is no block, and there are
finitely many sessions and data blocks (counting needs it).  The inductive invariant is
`IInv == TypeOK /\ Linked /\ CountsExact`, where `Linked` adds to `SessionPointsHome` that
the back pointer of every block in `data_conns` names a session.  That is what the
callbacks of data connections need: they come with the block as their argument, follow its
back pointer and store through it, so that a block with any other back pointer would change
a session that has nothing to do with it.

**`Ftps_proofs`, second part: clients that run one passive transfer at a time** (`OnePassive ==
Orderly /\ "PORT" \notin Cmds`; with other clients the properties are false, see the
hazards).  `NeverFaults`: no callback follows a pointer that an earlier one left to a freed
block (what `ftps_ctrl_poll_cb` writes to the session it has itself freed, `ftps.c:867`,
is not counted); `NoneIsLost`: no data connection
outlives its session; `ArgsLive`: a connection's callback argument is a live block that
knows the connection; `TransfersHaveData`, also without memory failures: a session in a
transfer state has the file or the directory that the state uses.  The invariant `OInv`
adds to `IInv` that every listed block is owned by its session, that no block is left
behind while memory lasts, and `Settled(s)`: the session's state, its block's handles and
connection, and what the client has been told, fit each other.  That last part is needed
because an orderly client decides by what it was told whether it may begin a transfer.
It also says that what is no longer being read has been read to its end (`ReadOut`), so
that the same lemmas can show of every step what it tells the client (`Told`):
`TransfersWhole`, if reads do not fail: "226" ends a download or a listing only when all of
it has been read and handed to lwIP (`WholeTransfer`); `DropsAreResets`: while its session
goes on no announced transfer loses its connection in silence, unless lwIP could not accept
it (`DroppedOnlyOnReset`).  Every step is `Local` to one session: `LocalStep` shows once that the other sessions, their
blocks and connections are untouched and remain settled, which rests on no two sessions
having a block or a connection in common; what is left per action is its own session.

**`Lwftp_proofs`: users who wait for the end of a job** (`Patient`), any server, any
faults.  `AllClosed`: no connection outlives its session (`NoLeakedPcb`); `NoneDangles`: no
session field and no callback names a pcb that is freed or another's (`NoBogusPcb`).
Callbacks are functions on a record, so the lemmas follow the record through the calls:
which of the session's pcbs are owned and good before and after `lwftp_close`, `abort`,
each state of the control connection, and `done_fn` re-entered from any of them.  For
`InBounds` (`TypeOK`) the invariant `LInv` adds a ledger of what a session has asked for and
moved: of the commands that make the server do something (`Work`) a session sends one, and
only from an `Early` state (`Asks`); the server has carried out nothing before that, and at
most one thing after it; what has arrived, what is on the wire and what the source still has
never add up to more than the file (`Stocks`); and a pcb that is freed has nothing left on it
(`Clean`).  `Thrifty` carries the same through the calls within a callback: the record has
sent a command of `Work` only if the callback began in an `Early` state, and wrote a block
only if it took one from the source.  `Leave`, which ends every callback, is taken apart once
(`LeaveFacts`).

**`LwftpCourse_proofs`: the same users, any job.**  `JobsAreDone` (`WorkDone`): a user who
finds `control_pcb` NULL, when nothing outside has gone wrong, has its job done, once, with
every block moved.  Nothing in the session says so (an unexpected reply ends it with QUIT
just as the last one does), so the invariant has to know the whole way: `Course` says
that until something goes wrong the session, its two connections, what is on the wire and the
job are in one of eight phases.  `Opening`, `Doing` (a command that is the whole job),
`Entering` (the folder of a list) and `Preparing` (TYPE, PASV, REST) go command by command:
the one command of the state, or the reply to it, is on its way (`Sync`).  `Calling` and
`Fetching` are a download, in which the data, their end and the replies 150 and 226 come in
any order, both replies at once included: what arrived and what is on the wire make up the
file (`Moved`); a 226 that comes while `data_pcb` is set is dropped, and the end of the data
closes the session; one that comes later finds it closing.  The media player ends a download
from within the data callback, when it has all it wants.  `Storing` is an upload, where only
the 226 ends the job, after the source is empty and `data_pcb` closed.  `Leaving`: all is
done, and nothing that is still to come (no command of `Work`, no upload) can undo it.  Each
action takes each phase to the same or a later one; a fault sets `job.bad` (`FaultBad`),
which stays set (`OnceBad`).  The ledger of `LInv` is needed besides, for the types and for
the calls within a callback.

**`AudioRing_proofs`: no seek while the ring is being filled** (`"reseek" \notin Faults`,
with it they are false).  `TypeCorrect`; `ReadsStayInside`: what f_read writes is inside the
ring, but for the tick between a seek and the fill it asks for; `CopiesStayBehind`: a copy never goes into the half that is sent unless the main loop
was late; `FreedIsSilent`: the DMA is off or paused when its buffer is freed, unless an
error or a click had ended the song when its end was found (`past.cut`; `CutSound` follows such
a song until the next one plays).  The invariant adds
that nothing moves the ring while it is filled, that a read under way has read whole chunks
or up to the end of the file (so the next chunk fits), what the playback state says of the
player and of the DMA, and that an event that was not late names the half the DMA has left.

**`AudioRing_proofs`, second part: the samples themselves.**  `SamplesInOrder`: what
is handed on comes later in the file than what was handed on before; `NothingIsSkipped`:
between two pieces nothing is left out but what a seek passed over, if half the audio buffer
is smaller than a chunk (`Half < Chunk`: 18 KB and 64 KB in the code).  `OrderInv` adds to
`IInv` what the ring holds: the unread samples are consecutive positions of the file
and end where the file pointer stands, on both sides of the wrap and with a refill half
done; a refill writes only where all samples have been taken.  `HeardInv` adds that the two
halves of the audio buffer follow each other, and follow what was handed on last.
Without `Half < Chunk` a half could take what has not been refilled yet.

**`Loader_proofs`: any files, any buffer size, any first contents of the bank.**
`TypeCorrect`; `Locked`; `StartedIsLoaded`, unless a read can fail during the comparison
(`"verify" \notin Faults`); `ErrorsAreReal`: the code reports a failed write only when the
flash itself failed, because programming never meets a word that is not erased.  The
invariant says that during a copy the bank is the file's words up to `cpy_addr` and erased
beyond, and that the file pointer and the address move together until the tail.

**`DhcpLink_proofs`: any patience, any number of refusals.**  `TypeCorrect`, `LeasesAreHeld`,
`FallbackIsFinal`, `DisplayFollows`.  The three properties need two more conjuncts:
`Idle` (an lwIP client that is off holds no address and runs no timers of a lease), and `RiseThenFall` (a pending rise of the link is never left alone
with a link that is known to be gone), without which the display could be turned green
after it was cleared.

**`FileOps_proofs`: no cancel in the middle of a deletion** (`"late" \notin Faults`, with it
they are false).  `TypeCorrect`; `NoStray`: no node is freed twice, and no cursor
and no link that is still to be followed is left pointing to a freed one.  The invariant is that some set C of allocated nodes is the tree of
the job (`Sound(C)`): `next` and `child` stay in C, lead to higher addresses and never two
to the same node, children know their parent, the cursors of both tasks are in C
(`TreeSound`).  While the deletion frees the tree from below, C is what it has left, and the
nodes above the cursor may still count a child that is gone (`Left`).  `Climbs` is the
lemma of the walks: the next node of the nearest parent that has one lies in the tree.

`KeepsIt`: `FileOps` implements `SafeMove`, step by step, as long as there is room
(`HasRoom`: the scanned files fit, and are found to, when the scan is over, and each block that is written; without
it the job becomes a deletion or a short block is taken for a whole one, finding `files_full`
and the hazards at `lv_file_manager.c:3304` and `:3952`; on the instance of `files_any` TLC
finds it true in every state).  The invariant `Kept` adds to `Sound`:
what the nodes stand for was selected or is in a folder that was (`Items`), and with a folder all
that is in it (`OrderFacts`); all but the first of the selected objects get their destination
when the walk of the scan comes to them, so none is left without when it ends, and the
children of a folder have a destination all or none (`Scanning`, `Uniform`, `Unnamed`: the
copy learns from the destination whether it renames or copies); the file that is being
written has as many blocks as the position says (`Writing`); a cut either renames to its end
or has copied, wholly, all nodes up to the cursor (`Copying`, `Walked`); so that, at the end,
all that the deletion unlinks is complete at the other end (`Deletes`).  `AllReached`, that
the walk meets every node, rests on the order of the addresses (`SiblingOrder`).
`PromiseSuffices`: whoever keeps the promise of `SafeMove` loses no file; hence `NoneLost`.

**`FileWork_proofs`: the scan and the deletion meet no error, and nobody cancels while they
run** (`Benign`: also no hidden entry, which the scan passes over and the deletion of its
folder stumbles on; section 6 says what fails without it).  Writing may fail and the pasting
be cancelled at any point.  `NoneLeaked`: with no job under way every node is freed
(`NoLeak`), for any heap and with or without room.  `WorkIsDone`: with room (`HasRoom`) a job
that ends without an error has done all of its work (`WorkDone`).

For the first, `Tidy(C)` says that C is all that is allocated, and that the tree mirrors the
files.  `Mapped`: a node stands for an entry in the folder its parent stands for, two nodes
for two entries.  `Surveying`: of a walk at `op` with A above it, what is ahead (`Pending`)
has no children yet, and of what it has passed every entry has a node (`Covered`); the folder
at `op` has its entries split between the nodes found and `scan.todo` (`Reads`).
`SurveyGoesOn` is the lemma of the walk: at the next node just `op` has been passed, and after
the last nothing is ahead.  That is why the deletion meets no folder that is not empty:
what is left of it is covered by what is left of the tree (`UnlinkableLeft`).  `Emptying` adds
to `Left` that whatever the deletion has not come to hangs on an earlier node it has not freed
(`Rest`); so when it ends nothing is left (`DeletedAll`), and that matters because the end of
a deletion forgets the tree without looking (`FileEnd`).  Every other exit frees the whole
tree (`CleanAll`).

For the second, `Work` relates the files to the order, on top of `Tidy` and `Kept`.
`Chosen`: the order lies under the selected objects, those still to be collected and those
that have a node, and is at home until it is moved or deleted; with every folder covered each
entry of it has a node (`AllSeen`).  `Copied`: what the copy has walked past is whole at the
other end, folders included.  `CarriedTo`: of a selected object that a cut has renamed all
that was ordered has moved, or lies under a name that was in use when the user pasted; one
ahead has its name in use only if it was then: renaming one selected object takes no
name of another (`UnderTop`).  `Gone`: a deletion was asked for, or follows a cut that has copied
everything.  TLC finds `Tidy` and `Work` true on the instance of `files_done`.

Only model-checked is all liveness: `TransferEnds`, `SilentSessionReaped`, `SessionEnds`,
`TasksEnd`, `Ends`, `CopyEnds`, `AddressComes`.  Liveness and fairness (ENABLED) are out of
the proof system's reach.

## 6. Findings

* `ftps_port` (`ftps.c:396`).  An active transfer whose connection is refused: no err
  callback is set before the connection is made, lwIP frees the pcb, `data_pcb` keeps
  pointing to it, and the end of the session closes it again.
* `files_full` (`lv_file_manager.c:3952`).  A file is moved to a volume with too little
  room: `byteswrite` is never looked at, and the deletion that ends the move removes the
  only whole copy.

What TLC shows when a setting of a passing run is changed, and the hazards record:

* `Ftps` keeps what a freed session's block holds: after every timeout it is `Reaped`, not
  `NewCtrl`.  `ftps_ctrl_poll_cb` frees the session and then counts its timer (`ftps.c:867`),
  although every control callback begins with the test that its session is listed (837).
  `NoFault` does not count this write.
* `Lwftp` with `Patient` FALSE: `NoLeakedPcb` fails after a second click on a list.
* `FileOps` with "late" (cancel while files are deleted): `NoStrayPointer` fails, the end of
  the task frees nodes the deletion has freed.  With a small `Room` and a copy, or with
  "getfree" (nobody looks at the result of `f_getfree`, 3295): `KeepsPromise` and
  `NothingLost` fail, the source of the copy is deleted.  With "quit": `TasksEnd` fails.  With "unlink": `NoLeak` fails.
* `AudioRing` with a `ByteRate` that divides `FileSize` (or leaves less than half an audio
  buffer): `Ends` fails, the song never reaches its last second and its last half buffer
  is repeated for ever.  With "reseek": `InOrder` and `NothingSkipped` fail.
* `Loader` with "verify": `StartsTheFile` fails, a read error during the comparison is taken
  as the end of the file.  The tail of a file whose length is no multiple of 32 bytes is
  never written, which is why `StartsTheFile` speaks of the complete words; such a file
  never compares equal (unless its tail is 0xFF) and is copied anew at every click.
* `AudioRing` without the exceptions: `ReadsInside` fails after a seek that comes behind the
  last, short refill (`wav_lib.c:250`); `NoDmaFromFreed` fails when a read error or a click on
  the spinner meets the tick that finds the end (`lv_file_player.c:347`: the state is STOP, so
  the DMA is left on); `Ends` fails in `Stalled`, the wait that nothing resumes.
* `DhcpLink` without `LeaseLost`: `AddressComes` fails, since `DHCP_Process` does nothing any
  more in ADDRESS_ASSIGNED (`app_ethernet.c:247`): when the server refuses the lease, or it runs
  out, and the server is silent afterwards, the interface has no address and no fallback.
  `GoneIsNotShown` is silent on links that go while the box is clear: DHCP_state misses them,
  and may show the lease of before in green for good.
* `DhcpLink` with the display in `AddressComes`: it fails, since the fallback address is
  never shown, and a flap of the link during a long LVGL task may leave the display white
  although the interface has a lease.

## 7. Not modelled, and what comes next

| Next | Module | What for |
|---|---|---|
| 1 | `FtpsUpload` | the static write pointer of uploads (`ftps.c:1031`), two uploads at once, short and failing `f_write` |
| 2 | `RemoteRing` | `AudioRing` over `Lwftp`: the remote player's refill, its abort inside the data callback and its restart with REST |
| 3 | `FtpSession` | an abstract FTP session (idle, busy, over) that `Lwftp` implements |
| 4 | listing and media | the list task, `f_mount` and the removal of a volume during a job; the global working directory that the FTP server changes under the file manager |

Not modelled: decoding (MP3, FLAC, JPEG), drawing, and the drivers of the display, touch
screen, USB host, Ethernet descriptors and RTC, which have no control of their own beyond
the HAL's; FatFs, lwIP, LVGL and the HAL appear as the environment, except for lwIP's DHCP
client, which `DhcpLink` models because the code reads and writes its fields.  The
repository's own code is a handful of files; nearly all of its lines are these libraries,
the fonts among them, so the models' share of all lines is small and will remain so.
