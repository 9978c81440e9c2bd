# FuseX: a verification project

FuseX is a fork of the Fuse ZX Spectrum emulator. Next to the emulator proper
(a single thread that runs a Z80 and the devices around it) it has code that is
concurrent: a GDB stub, a network controller with worker threads
("Spectranext"), an HTTP downloader, a W5100 network chip, and an audio FIFO.
This directory holds TLA+ models of the parts whose correctness depends on the
order in which things happen, the TLC configurations that check them, and
machine-checked proofs.

All paths below are relative to the root of the repository. `PROJECT.json` maps
every definition to the source lines it models and lists the runs, the faulty
variants each property detects, the hazards and the theorems.

To repeat a check: `tlc -config MCDevices.cfg MCDevices`; to repeat the
proofs: `tlapm M.tla` for each of `ControllerProofs`, `DiskProofs`, `EventLoopProofs`, `GdbServerProofs`,
`HttpDownloadProofs`, `MatchProofs`, `PartsProofs` and `W5100Proofs`.

## 1. Inventory

Threads: the emulation thread; the three job workers of the controller; the
worker of the HTTP downloader; the network thread of the GDB stub; the I/O
thread of the W5100; the audio callback; and on macOS the application's main
thread. Everything without a row naming another thread runs on the emulation
thread.

| Component (source) | State | Operations | Talks to | What is hard | What makes it correct |
|---|---|---|---|---|---|
| Job slots (`src/peripherals/nic/controller_job.c`) | per channel: created, running, completed, stopping, execute, request; one mutex, one condition | start, poll, is_running, cancel_and_wait, shutdown; the worker loop | controller, HTTP downloader | slot read after unlock; a job that opens a transfer after the cancellation; shutdown against sleep | each job executed and reported once; no lost wakeup; cancel returns with nothing running |
| Controller mailboxes (`nic/spectranext_controller.c`) | workspace, status and command registers per mailbox, the requests, the pending message, two locks | read, write, process_command, update_controller_jobs, execute_request, background complete_match | guest program, job slots, matchmaking, XFS engines | publication, busy test and store are three lock regions | the guest gets the answer to its own request, the worker's arguments do not change |
| HTTP downloader (`peripherals/fs/http_downloader.c`, on `http/httpc.c`) | active, pending; per download: ring, cursors, flags, result; the position and attempts of a request | open, read, seek, close, cancel_all; the worker's loop and receive callback; a request is repeated when it breaks off | XFS engines, job workers, TLS client | three ten-second timeouts racing answers; who frees an abandoned download; a body resumed or started again | bytes in order, EOF only at the end, destroyed exactly once, no call hangs |
| GDB stub (`debugger/gdbserver.c`) | trapped, scheduled action, sockets, shutting-down and enabled flags | activate (trap), execute_on_main_thread, detrap, client loop, start, stop | breakpoint check, event list | unlocked flags; trap against resume against stop | a stopped target stays stopped, an action is answered, stop returns |
| Breakpoints (`debugger/breakpoint.c`, `debugger.c`) | list of breakpoints, debugger_mode, deferred removal | check, add, remove, remove_all, run, trap | GDB stub, event list | list changed by another thread | no breakpoint outlives its client, list not freed during a walk |
| Event list (`event.c`) | sorted list, event_next_event | add, remove_type, do_events, frame, force_events, reset | everything with timing | lazy removal, cached head, unsigned subtraction | events fire once, in order, never early, and survive frames |
| Main loop (`spectrum.c`, `z80` loop, `timer`) | tstates, event_frame_end | do_frame, do_frame_end, frame | event list, RZX, UI | handlers change the clock and the list under the loop | frames keep ending, one end of frame pending |
| RZX playback (`rzx.c`) | playback flag, current input frame, sentinel | start, stop, frame, sentinel | event list, snapshots | takes over the end of frames and the clock | exactly one source of frame ends; clock within tables |
| RZX recording (`rzx.c`, `rzx_recording.c`) | recording, snapshots in the stream, autosave counter, competition mode | start, continue, stop, frame, late interrupt, autosave and prune, rollback | snapshots, event list, menu | a snapshot is taken a frame after it was due; pruning compares ages exactly | snapshots thin out with age and no more than that, across rollbacks |
| W5100 (`nic/w5100.c`, `w5100_socket.c`) | registers, socket states, two rings each, I/O thread with descriptor sets and selfpipe | register read/write, OPEN, LISTEN, CONNECT, SEND, RECV, DISCON, CLOSE, reset, free; the select loop | guest program, host sockets, matchmaking | a descriptor closed and reused while the I/O thread selects on it; 16-bit pointers over a smaller ring | no byte lost, duplicated or reordered; no blocking call; no lost wakeup |
| Matchmaking (`nic/match.c`, `match_compat.c`, `gre.c`) | stage of a match, claimed socket and its epoch, outer socket, GRE thread | match, poll, connect, leave, cancel, complete, reset | controller, W5100, STUN, lwIP | the guest uses the socket while the job waits for the network; who closes which descriptor | each descriptor has one owner; a socket opened again is left alone |
| Spectranet (`spectranet.c`) | pages, traps, resets | reset, paging, trap | flash, W5100, controller | reset against background work | reset leaves no job running |
| Flash chip (`flash/am29f010.c`) | command automaton | read, write | Spectranet | partial command sequences | only unlocked sequences program or erase |
| XFS (`peripherals/fs/*`) | mounts, handles, engines | mount, open, read, write, close, umount | controller, downloader | umount while handles are open | no use of a freed handle |
| DNS, STUN, GRE, ICMP, lwIP, TLS, ENC28J60 | library state | | network | behaviour of libraries and peers | |
| GDB packets (`debugger/packets.c`, `vfile*.c`) | deframer buffer | push, send | GDB stub | split packets | every packet once |
| Debugger language (`debugger/command*`, `expression.c` ...) | one evaluation | parse, evaluate | breakpoints | | |
| Tape (`tape*.c`, `loader*.c`, `phantom_typist.c`) | playing flag, block cursor | play, stop, edge | event list | a second edge event | one edge pending while playing |
| Disk drives (`peripherals/disk/fdd.c`) | motor, ready, head, cylinder, index line, pending events | motoron, head load, step, load, unload, index event | the controllers, event list | READY, motor and index events pending while the motor is switched and disks are changed | READY follows the motor |
| Disk controllers (`disk/wd_fdc.c`, `upd_fdc.c`) | phase of a command, what it searches for, lines to the host, pending events | commands, data register, events, reset | drives, event list, interface ports | one event type serves several purposes, its meaning is decided when it comes | a busy controller has an event to come; no event is left over for the next command; every command ends |
| Disk images and interfaces (`disk/disk.c`, `beta.c`, `plusd.c` ...) | tracks in memory, port latches | open, write, port accesses | controllers | | |
| Sound FIFO (`sound/sfifo.c`, `sdl2sound.c`) | ring with two positions, device | write a frame, callback, init, end | audio thread | no lock | heard in order, in whole samples; a frame's write returns |
| Sound synthesis (`sound.c`, `sound/blipbuffer.c`) | filters, buffers | | sound FIFO | | |
| Snapshots, settings, menus, display, modules, startup manager, machines, IDE, joysticks, automation, user interfaces | tables and straight-line code | | | | |

## 2. Modules

| Module | Models | Composes |
|---|---|---|
| `ControllerJob` | the job slots, their workers, the transfers a job opens | |
| `Controller` | the mailboxes, the guest program's accesses, resets | EXTENDS `ControllerJob`: a mailbox submits to and polls the real slots, and the worker's execution is refined by the request's body |
| `GdbServer` | the stub, the breakpoint check it hooks into, starting and stopping | |
| `HttpDownload` | the downloader and the retries of the HTTP client under it | |
| `EventSchedule` | abstract specification: a bag of pending events and a clock | |
| `EventLoop` | event list, main loop, end of frame, RZX playback, timer, machine changes | refines `EventSchedule` |
| `W5100` | the network chip and its I/O thread | |
| `Match` | matchmaking: the stages, the claimed socket, the GRE thread, reset | |
| `SoundQueue` | abstract specification: a queue of bytes with a capacity | |
| `SoundFifo` | the FIFO, the driver that fills it, the audio callback | refines `SoundQueue` |
| `RzxRecording` | a recording's frames and snapshots | |
| `Fdd` | a floppy drive, as operators on a record | |
| `WdFdc` | the Western Digital controllers with their drive | EXTENDS `Fdd` |
| `UpdFdc` | the uPD765 of the +3 with two drives | EXTENDS `Fdd` |
| `ControllerProofs`, `EventLoopProofs`, `GdbServerProofs`, `HttpDownloadProofs`, `MatchProofs`, `PartsProofs`, `W5100Proofs` | theorems | EXTEND their components; `ControllerProofs` holds those about the job slots too, `PartsProofs` those about `SoundFifo` and `RzxRecording` |
| `DiskProofs` | theorems about the drives and the two disk controllers | EXTENDS `MCDevices`, whose `FdcDriven` and `ReadyFollows` speak of both |
| `MCParts` | runs `ControllerJob`, `Match`, `SoundFifo` or `RzxRecording` | EXTENDS the four |
| `MCDevices` | runs `EventLoop`, `WdFdc` or `UpdFdc` | EXTENDS the three |
| other `MC...` | instances for TLC | |

`MCParts` and `MCDevices` put components side by side that share no state. A
variable `part`, fixed in the initial state, names the one that runs; the others
keep their initial values. This is not a composition (the disk controllers'
events have no times, and are not entries of `EventLoop`'s list), only a
convenience: each behaviour is one of one component, and the number of states is
the sum, not the product.

### How state and actions correspond to the code

**ControllerJob.** Flags of a slot are sets of channels; `request[c]` is the
serial number of the request a slot points to. An action is one region under
the module's mutex, or the code between two regions: `WorkerCheck` is the worker's
wait loop test, `WorkerExecute` the unlocked read of the slot, `WorkerFinish` the
completion. The condition variable is explicit: a worker at `"asleep"` runs
only after `Broadcast`. The emulation thread's own wait is timed (10 ms), so
`CancelWake` is always enabled. `TransferOpen/End/Abort` stand for the
downloader, which takes one transfer at a time; `CancelHttp` aborts the one
that is active at that moment, and none that is opened later.

**Controller.** A guest access is a sequence of actions, as in the code:
`BeginAccess`, `PollBackground`, `PollNothing`/`Publish` for each mailbox
(`update_controller_jobs`), then the access itself. `Publish` copies workspace
and status and, after a match has connected, starts the background job,
whose refusal the code ignores. `controller_job_start` refuses an occupied slot,
and the first job of a channel whose thread cannot be created (`MayRefuse`); the
guest's command then ends as an ERROR without a job. A workspace is a tag ("in": written by the guest,
"out": written by a worker) with the number of the job it belongs to. Command
bodies are two steps, one inside the lock the command needs; what the engines
do is not modelled. Version registers and address decoding
are not state of the model.

**GdbServer.** `epc`, `npc` and `upc` are the positions of the emulation
thread, of the network thread and of the thread that starts and stops the
server. `debugger_mode`, `gdbserver_trapped`, the client socket and the pending
removal are touched outside the mutex in the code, so each such access is a step
of its own: `SendStopReply` and `Park` are separate because the stop reply
is sent before the lock is taken, `DropTest` and `DropRemove` because the test of
`gdbserver_trapped` and the removal are not atomic. `setting`, one of
`Settings` for the whole behaviour, says which thread stops the server, whether clients send
before the emulator is parked, and whether they leave some day. Breakpoints are kept as the set of
the sessions that own some. `stopped` and `asked` are the client's knowledge:
the last stop reply, and an interrupt it has sent.

**HttpDownload.** A download is a record with the fields of
`struct http_download`. Bytes are numbered, so that order, loss and
duplication are visible. A timed wait has three states, `sleep`, `late` (the timer
fired and the thread contends for the lock) and `test`. Under it is the state machine of
`httpc_get`: `get` holds its position in the body, the length it expects, the attempts
without progress. A request fails, is refused, or is answered (`RequestAnswered`) with the whole body or, if there
is a position to ask for, with the rest of it; a transfer breaks off (`TransferBreaks`)
wherever the server or the network wants, and `Backoff` repeats the request. What a body has come
to may therefore be out of step with `received`, and `Misplaced` is the test of
`receive_chunk` (line 113). The Content-Length of a download is one of `Sizes`, 0 for a server that
tells none. A redirection changes nothing the model keeps; a body whose chunks end before the
length that the same answer announced, which HTTP forbids, is left out, and so is "Transfer-Encoding: identity",
which sets the position back (`httpc.c:767`).

**EventLoop.** `queue` is the list with its cached head time. All arithmetic on
times is modulo `Word` (2^32 in the code) and `Word - 1` is
`event_no_events`. `pc` is the place in the loop: running instructions
(`"z80"`), `event_do_events` (`"events"`), inside a handler, and the stages of
`spectrum_do_frame_end`. The events of all peripherals are represented by one
anonymous type, `"device"`, one shot or repeated.

**W5100.** A register access holds the socket's lock, and so does each visit
of the I/O thread to a socket, so each is one step; `io.pc` and `io.i` are the
thread's place in its loop, `io.rset` and `io.wset` the descriptor sets it carries across
`select`. Descriptors are small numbers and the lowest free one is taken, as in
POSIX, so that a closed one comes back at once. `pipe` counts the bytes in the selfpipe. A
byte is its serial number since OPEN; `host[s]` is what the outside knows of a
socket: what arrived and was stored, what left (`wire`, `cuts`) and what the guest
submitted (`subs`). `plan` says what the guest does in this behaviour: how often it opens
a socket, in which mode, how much arrives, how much is written and in how many SENDs, and
whether it is *hasty*, that is, moves TX_WR before its last SEND is done (TCP only). TX_WR is
written one byte at a time, either first: `nic_w5100_socket_write_tx_buffer` puts the bytes into the
ring and writes one, `nic_w5100_socket_write` the other, and a guest commands no SEND between. RX_RD is
written in one step, for nothing but RECV looks at it. The ghost
`host[s].stray` marks a socket whose descriptor was in the write set when the I/O thread
added it: another socket, closed since, had left the number there (section 5).

**Match.** The job that serves a command holds the matchmaking lock until it is done,
so one record `job` is that job: the command, its place, and how it ends. Meanwhile the
guest's register accesses, the chip's I/O thread and the GRE thread run. `open` is the
set of descriptors that are open in the process and every holder of one is a
variable, so that a leak or a double close is visible. `touched` and `stolen` are
ghosts. The answers of the match server and of STUN are chosen freely.

**SoundFifo.** There is no lock in the code: each side reads the other's position,
copies, and stores its own. Those are separate steps (`"space"`, `"copy"`, ...). The callback
computes its length with a macro that may read the fill level twice, which
`MeasuresAgain` does. The driver opens the device paused and starts it with the first
frame.

**RzxRecording.** Of the stream only the number of frames, and how many stand before
each snapshot, are kept. A frame is stored at the end of an emulated frame and
again by an interrupt accepted late; the autosave counter counts the former, and an
autosave that falls due is taken when the interrupt has been dealt with (`pending`, `delayed`). `autosave_prune`
compares exact ages, as the code does.

**Fdd, WdFdc, UpdFdc.** A drive is a record and the functions of `fdd.c` are
operators from a drive to a drive; a function of a controller is an operator
from the controller to the set of those it may become, as the bytes on the disk
decide (`After`, `Started` are what follows in the code when a function returns without
waiting). Pending events are counted per type, because a list may hold several of a type,
and fire in any order: their times are left out, which adds behaviours. Of a drive's index events only whether
there is one (`indexed`) is kept: there may be several, so after one has come another may be left
(`IndexTurn`). A disk has tracks up to its size, and beyond them `track` is FALSE, which stands for
`disk.track == NULL`; the missing side of a one-sided disk behaves like that too and has no state of
its own. The head is assumed to come down on a track anywhere but right at the index hole. A guest
gives any command of the run whenever the controller takes one, reads or writes the
data register or leaves it to the timeout, and moves the motor; a user
changes disks. What a guest is *not* assumed to do is named in `Liberties` and `UpdLiberties`:
each member switches on a behaviour that the code does not survive (section 5). `hung` is set
where the code would loop for ever without an event.

## 3. Runs

Expected to pass:

| Run | Checks |
|---|---|
| `parts` | *jobs*: two slots, two jobs per slot, two transfers per job, cancellation and shutdown at any time: no job executed or reported twice (`ExactlyOnce`), no lost wakeup, nothing running when a cancellation returns, cancel and shutdown return. *match*: one socket that the guest opens, closes and uses while a command waits for the network: every descriptor has one owner (`FdsOwned`), a connected match has a usable socket, the I/O thread takes no STUN answer, a socket opened again is not touched. *sound*: the FIFO implements `SoundQueue`, the sides never touch a byte together, a frame's write returns. *recording*: `AutosavesSpaced`. |
| `controller_any` | Both mailboxes request the one pending message while the guest writes at any time, with one reset: the message is delivered once, and a worker's arguments never change. |
| `controller_guest` | One mailbox and a guest that polls for its answer before it writes again (as the guest ROM does), with match completion in the background and a reset: the workspace belongs to its job, a status in progress ends only with that job's answer, and the answer arrives. |
| `gdb` | Two clients and two starts in two settings: the server stopped by another thread with clients that answer a stop reply at once and leave some day, and stopped by the emulation thread with clients that act on a parked target. The borrowed stack frame, a stopped target stays stopped, the list is not freed during a walk; a patient client's actions are answered and its continue resumes (`RequestsServed`), stop returns if clients leave. |
| `http_safe` | Two clients, two downloads, bodies shorter and longer than the ring that break off and are asked for again, seeks, cancellations and all timeouts: bytes in order and EOF only after a whole body, retained or streamed (`BodyInOrder`), one destruction, sleepers have a reason. |
| `http_calls` | Open, read and close return; no download is leaked if a timer that fires is served before the download moves on. |
| `devices` | *loop*: the order of the list, one end of frame pending, the clock within the tables, the refinement of `EventSchedule`, and frames keep ending, with timer, devices, playback, machine changes and menus. *wd* and *upd*: whatever a busy controller does has an event to come and no event is left for later (`FdcDriven`), a drive that is not as ready as its motor says has the event pending that makes it so (`ReadyFollows`), the end of a seek reaches a guest that waits for it (`SeekHeard`), commands keep ending (`KeepsEnding`). |
| `w5100` | Two sockets in eight small worlds: no call of the I/O thread blocks (`NoBlindIo`), none of its sleeps overlooks work (`NoLostWake`), the streams are intact, a SEND completes, `nic_w5100_free` returns. |

Expected to be violated; each is a disagreement between code and what the
code says of itself:

| Run | What TLC shows |
|---|---|
| `controller_owned` | A guest that does not wait: `update_controller_jobs` polls (line 540), the job then completes, and the write is let through (545) because the job is no longer *running*. The next poll overwrites it. Line 543: "A submitted workspace belongs to its worker until status is published." |
| `gdb_prompt` | The stop reply is sent (gdbserver.c:1503) before the emulator takes the lock and waits. A prompt client's action is accepted because `debugger_mode` is HALTED, signalled to nobody, and never looked at: the network thread waits until the server is stopped. |
| `http_leak` | `pthread_cond_timedwait` may time out although the worker has just finished; `http_downloader_open` does not look again and marks the download orphaned after the worker looked: nobody frees it. |
| `event_snapshot` | A snapshot inside a recording changes `tstates` after the sentinel was placed against the old value: it ends up beyond 79000. |

The type invariants are conjuncts of `FdsOwned`, `SoundApart`, `AutosavesSpaced`,
`BodyInOrder`, `StreamsIntact` and `FdcDriven`; those of the slots, the mailboxes and the
stub are proved (section 4).

### Bounds, and why they are enough

Every bound is a CONSTANT named as such in its module.

* `JobCount = 2` in `parts`: slots interact through the broadcast, the
  single transfer and the join order, for which two suffice; three (the code's
  number) are used in the controller runs. `MaxStarts = 2`: a job and its
  successor in the same slot; stale state of one is seen by the other.
  `MaxTransfers = 2`: the second is the one opened after a cancellation.
* Match: one socket, for a job claims one and must leave every other alone, and
  with four descriptors, the most it needs at once (the chip's, the outer and the two ends of
  the bridge). `MaxEpochs = 2`: the epoch of the claim and a later one.
* Sound: `Requested = 9` gives a ring of 16 bytes with 15 usable, which is not a
  multiple of the sample of 4, so the writer can store and the callback find part of a
  sample; frames of 4 and 8 and a period of 8 wrap at every sample. `Word = 32` is
  twice the ring, so no two bytes in it have the same number.
* Recording: `Interval = 2` and `Ages = {6, 12}` keep the divisibility of the real
  250, 750, 3000 and 15000 frames, with two thresholds in place of three. `MaxFrames = 20` lets a snapshot grow
  older than both, be pruned, and the recording roll back behind it. `MaxLate = 5`: a
  recording that is no longer *steady* has no spacing left to check.
* GDB: two sessions for breakpoints of a departed client and a successor;
  two starts, because state that survives a stop is met by the next start.
* HTTP: `RingSize = 3`, `MaxBytes = 4`, `MaxChunk = 2`, the first download of size 2 or 4 and the second of 2: chunks larger than the free space,
  a wrap in the middle of a chunk and of a read, bodies shorter (retained) and
  longer (streamed) than the ring. `MaxTries = 1`: one attempt more after one without progress, and any
  number after those with it, within `MaxBytes`. `http_calls` needs liveness and uses a ring
  of one byte, which is either empty or full.
* `Frame = 4`, `Sentinel = 6`, `SentinelReduce = 2`, `ContentionSize = 12`, with
  instructions of one or two T-states (`MaxStep = 2`) and delays of one and three: a frame
  holds several events, one instruction can pass two, delays reach into the
  next frame, and a recorded frame can outlast the sentinel. `ContentionSize`
  is the smallest that `LoopAssumption` allows: the sentinel, and one longest
  instruction for it and for each device that may be handled before it. `Word = 64` keeps the
  relation `3 * Sentinel < Word` of the real constants, so a wrap-around
  is a time far beyond any real one, as in the code. `MaxDevice = 2` and
  `MaxQueue = 4`: no new device or playback starts in a longer list, as null
  entries accumulate until their time. `Shortest` bounds from below the length of
  a recorded frame.
* W5100: rings of 2 bytes and pointers modulo 4 in place of 0x800 and 2^16: a
  pointer goes round once as the ring does twice, and three or four bytes wrap both. `Page = 2`: a
  pointer has two "bytes" of two values each, so a half-moved one can be ahead, behind or out of the ring. One byte fills the
  selfpipe. A datagram's header of one byte. The plans are one world for each difficulty: a
  stream in, out, datagrams in, out, a socket used twice, two sockets whose descriptors
  mix, one of them with a SEND to finish, a hasty guest.
* Disks: two cylinders of which a disk has tracks for the first only (`DiskSizes = {1}`), two sectors of one byte (a transfer
  that ends inside a multi-sector command, and one that ends it), one revolution in which a
  search may fail. `MaxPending = 1` bounds the motor-off events a Western Digital command may
  leave behind. The Western Digital controller is run on three boards
  (WD1770 with and without a pulse per byte, FD1793 with HLD as motor), the uPD765 with three
  guests, one of which overlaps its seeks. READ TRACK, WRITE TRACK and STEP of the
  Western Digital are modelled but given by no guest of the run: they share every
  operator with READ ID and SEEK, and add minutes to the run.

`CHECK_DEADLOCK FALSE` appears where the system may stop: all downloads or
sessions allowed by the bound are used up, the emulator waits for a client
that never comes back, or the chip was freed.

### Fairness

* Threads are scheduled: weak fairness on the steps of every thread (not of the
  environment). A worker that waits for a mutex others take again and again
  (`BodyEnter`) has strong fairness: the POSIX mutexes in use make no one starve in
  practice, and the code relies on that.
* `TransferAbort`, and `Aborted` in `HttpDownload`: the transfer callback and `should_abort` test `cancelled`, so an aborted
  request or transfer ends. `httpc_get` returns when it has the whole body (`TransferEnds /\ Complete`). Nothing
  else is assumed of a transfer: servers may be silent for ever.
* Timers fire (`WorkerTimer`, `ClientTimer`).
* GDB clients owe nothing, except in the first setting of `gdb` (`ClientsLeave`): they
  disconnect some day. A socket that was shut down returns from `recv`
  (strong fairness of `NetHup`: the thread is not always in `recv`).
* The guest in `controller_guest` keeps polling.
* `EventLoop`: the one thread runs; a recorded frame has a finite number of
  instructions (strong fairness of `PlaybackFrameEnd`).
* `W5100`: the I/O thread is scheduled and `select` returns once something is ready;
  a peer reads some day, so a send that is tried again and again is done (strong
  fairness of `Sends`); the emulation thread, once it resets or frees the chip, goes on.
* `SoundFifo`: the emulator runs and a device that plays calls back.
* Disks: the event list delivers every event. For the Western Digital a guest may move
  HLT, and the controller looks at it at an event, again and again: it is not down at every
  look (strong fairness of `FdcEvent`, weak fairness of `wd_fdc_set_hlt(TRUE)`). The guest owes
  nothing: a transfer it does not serve ends by the timeout.

## 4. Proofs

The eight proof modules are checked by TLAPS from the assumptions on the
constants (`JobAssumption`, `ControllerAssumption`, `GdbAssumption`,
`HttpAssumption`, `MatchAssumption`, `SoundAssumption`, `W5100Assumption`, `LoopAssumption`,
`RecordingAssumption`, `FddAssumption`, `WdAssumption`, `GuestAssumption`, `UpdAssumption`, `UpdGuestAssumption`: bounds are natural numbers, there is a channel, a
session, a start, the mailboxes have the code's three slots, samples are of two or
four bytes, frames and the callback's period are whole samples, a frame fits into
the ring, the ring of a socket divides the width of its pointers, an instruction is shorter than a frame and
a frame than the sentinel, a board's controller is either a WD1770 or has HLD as motor, the ages of autosaves are multiples of their interval and of one another, a recording
may grow longer than an interval, and a process may have three descriptors more than the chip has sockets). The theorems hold for
every value of the constants.

**ControllerProofs**, the slots. `JobIInv` is the conjunction of the invariants the run
`parts` checks of the slots, the type invariant, `BorrowedRequest`,
`NoOrphanWorker` and `SlotRequest` (the slot of a running job points to the
job submitted last). Without `SlotRequest`, `BorrowedRequest` is not inductive: the
worker reads the slot after unlocking, and only the fact that a running slot is
not refilled makes what it reads the submitted request. `ExactlyOnce` and
`BorrowedRequest` need each other, for a worker finishes only what is running.
`JobQuietAfterCancel` is the postcondition of `controller_job_cancel_and_wait`:
the only step that leaves the call tests `any_running` under the lock, and a
worker past its test belongs to a running slot.

The mailboxes. `MailboxIInv` is `JobIInv` together with what the two
halves know of each other. Every step of the composition is a step of the slots
except `Publish`, which collects one job and may submit another within one
access (`PublishSlots`), so `JobIInv` carries over (`SlotsKept`) and
`MailboxExactlyOnce` with it. `OneCall` says that an access and a cancellation
exclude each other, and that the polls after a reset find nothing running;
`BodyInWorker` that a request inside its body holds its lock and has read the
message still pending, from which `MessageOnce` follows although the body reads
and clears it in two steps. `MailboxWorkerOwnsRequest` holds whatever the guest
does. `MailboxWorkspaceOwned` and `MailboxFinishedByAnswer` assume `GuestWaits`:
`GuestHeld` says that a waiting guest's access never addresses an occupied
mailbox, so that a refused command is one without a thread (`NeverStarted`), and that a finished request carries the answer to the last submission.
Without the assumption both are false (section 5).

**HttpDownloadProofs.** `OwnerInv` says who holds a download: the worker has the
active one until it clears `active`, and then only to destroy it (`WorkerOwns`);
a client holds one from open to close and no two clients hold the same
(`ClientOwns`); a finished download is no longer the worker's, an orphaned one
nobody's (`FlagsTell`). Whoever destroys finds the other party gone, in all
orders of the three timeouts and the worker's last look at `orphaned`. The
bytes in the ring are typed in that proof and otherwise irrelevant to it.

For the bytes, `GetFits` says where `httpc_get` is in the body: at the byte after the last one received, unless a
streamed body has started again (`replayed`), or a retained one is out of step and its next
chunk will be refused (`InPlace`). `BytesInv` says of one download (`Ordered`) that the last `used`
bytes received lie in the ring in their order, from `tail` on if the body is streamed
and from index 0 if it is retained, and that `head` is the place behind them. Two cursors
never wrap more than once, so `Place` needs no power of two: any ring size works.
Filling at the head and draining at the tail keep the numbers (`FilledNumbered`,
`RestNumbered`); a first chunk may switch to the retained form because nothing
has come before it (`UnseenEmpty`). What a read returned stays true while the client has
not called again (`ReadOK`): an end of file is told only of a finished download
whose result is OK, which a body of known size has only if `httpc_get` reached its length, and `OwnerInv` says that the worker and `cancel_all` have left that alone.
`HttpSleepersJustified` goes through the steps once more: whoever changes what a client
waits for broadcasts, except where the worker has left the transfer and will
broadcast at its end, and a worker that finds the ring full is woken by every read that takes bytes.
`HttpNoLeak` turns the ownership round: of a download that is not destroyed, a client takes care unless it is
orphaned, and the worker (at work on it or still to begin) if it is orphaned or unfinished (`Kept`). It needs `LateTimeouts = FALSE`: an opener whose timer fired has not missed an answer
(`LateBefore`). In the other case it is false, as the run `http_leak` shows.

**EventLoopProofs.** Lemmas about the sorted insertion (`AddEffect`, `PopEffect`, `RemoveEffect`,
`FrameEffect`) say what each operation does to the entries, their order and how many there are of a type; after them no proof
looks into the list. `LoopIInv` bounds the clock by a potential (`ClockBounded`): the time, plus a
longest instruction for each device that may yet run before the sentinel, stays below `Limit`, and an
instruction that reaches an event ends the run of instructions. `FramesCounted` says who makes the
next end of frame at each stage of the loop, `FramesTimed` that its event is due where that
matters, `SentinelSet` where the sentinel is, `Stages` what the steps of `spectrum_do_frame_end` hand on to
each other: when `spectrum_frame` subtracts a frame, the clock and every entry are that far, so that no
time wraps round. `LoopImplementsSchedule` maps the list to the bag of its live entries;
the lazily removed ones are nothing, the head is the earliest of the bag (`HeadFirst`,
`NothingEarlier`), and each step is one of `EventSchedule` or a stutter. All five theorems
assume `SnapInside = FALSE`: a snapshot inside a recording moves the clock under the
sentinel (run `event_snapshot`).

**DiskProofs.** `DriveGood` ties a drive's lines to its pending events: READY and the motor agree or the event that makes
them agree is pending (`ReadySettles`), and a drive without a disk is not ready and has its index line up. A function of a controller returns one of several successors, and one lemma per
function says which kind each of them is, so that the proof follows the calls of the code. For the Western Digital
`WdIInv` says what a busy command waits for: a transfer has its timeout and no search
(`WdServed`), only commands that search have a search (`WdSearching`), and whatever else is busy has an event to come (`WdMoved`). For the uPD765 `UpdIInv` has three
modes, idle, waiting and serving (`UpdIdle`, `UpdWaits`, `UpdServes`), told apart by the
count of events of the one type: one for each seek under way, and one more while a command waits, so an event that comes is
never a stranger. `UpdSerial` is what a guest that waits for its seeks may rely on, from which `DisksSeekHeard`
follows. The loops of the code that search for an id end because, when they begin, the drive is not ready or the disk moves on:
it turns, or a byte is read from a track (`Ends`, kept by `Stays`; `Fits` says that there is a track below the disk's size).
The theorems assume that guest and user take no
liberty (`Liberties`, `UpdLiberties` empty), and units 0 and 1 (`FirstUnits`), for the handler knows a
seek under way by `main_status & 0x03`; section 5 has what happens otherwise. The proof of the type
invariant showed that three events of the Western Digital's one type may be pending, where the run meets two; and it needs
what every interface in the code satisfies, that a board has one kind of motor line, the WD1770's or HLD.

**GdbServerProofs.** `GdbIInv` adds to the type invariant, `StackBorrowed` and
`LeftoversPending` what the threads know of each other: a delivered response means no
scheduled action (`Answered`), a trapped emulator is parked (`TrapIsParked`),
`gdbserver_client_socket` is set exactly while a client is served
(`ClientServed`), and a target that is stopped for its client, or about to be
resumed by it, is held in the trap (`HeldForClient`). From the last one follows
`GdbStopHolds`: a stopped target executes nothing, for any number of
clients, starts, spurious wakeups and interrupts and whichever thread stops the
server. `NoListRace` speaks of the ports where the emulation thread stops the
server: then only that thread ever leaves the trap while the server stops
(`OneStopper`). With a second thread it is false (section 5).

**MatchProofs.** `MatchIInv` splits the ownership of descriptors by who holds them
(`ChipOwns`, `MatchOwns`, `NothingLeaks`) and adds why it is kept: what an active claim
has at each step of a command (`Claims`), that a connection is begun once and the
claimed socket has no descriptor until it is handed over (`Connects`), what the guest finds
of a socket it left alone (`LeftAlone`), where a copy of the outer socket can be and that it is
paused while STUN waits (`CopyKnown`), and that a reset meets no guest (`Resets`). A descriptor can
always be opened: those who may hold one, except the opener, are fewer than the descriptors
(`Spare`, by the pigeonhole principle of the library). Steps are grouped by what they do to
sockets: the guest's registers and the I/O thread are two shapes (`GuestTouches`, `SocketsKept`),
steps of a job that open and close nothing a third (`QuietStep`), and the seven
that move a descriptor are proved one by one. `MatchReopenedUntouched` needs no more than
the tests of the epoch in the commands.

**PartsProofs**, the sound. `SoundIInv` says of each side that what it measured still holds
when it copies: the emulator's length fits into the room (`WriterFits`), the callback's is
there (`ReaderFits`), since the other side can only add to the one and take from
the other. It needs the arithmetic of the positions, which run from 0 to `Size` and not
`Size - 1`: `UsedGrows`, `UsedShrinks` and `Place` give `sfifo_used` and the wrapping of a copy
without a modulo. `SoundKeptApart` follows, since the two regions are disjoint
parts of the ring. For `SoundIsQueue` every step of the detailed specification is a step of
`SoundQueue` or leaves the queue alone: `WriteEnds` appends the bytes copied,
because a byte's place in the region is its place behind `writepos`; `ReadEnds` removes
what it copied, and the length masked before makes it whole samples. A
callback that measures twice may find more the second time, never less.

**PartsProofs**, the recording. `AutosavesSpaced` compares snapshots that a whole history of prunings and
rollbacks has left. `RecordingInv` says, of a recording that is steady, what of that
history matters (`Spaced`): the snapshots are whole intervals apart and the counter knows when the next
is due (`Punctual`); none is closer to an older one than its age allows (`Sparse`). Without rollbacks
(`Tight`), one that has reached an age is whole ages from everything older, and one that has not is no
further from its neighbour than that age; after rollbacks (`Loose`), the gaps, the one to the next
snapshot included, are less than twice the spacing. `Sparse` alone is the first half of the
property; the second is not inductive without the multiples. When a snapshot is pruned, the gaps on
its two sides are multiples of the next smaller age, and the older was less than twice
as old: together they are no wider than the age reached (`PrunedBetween`). This is
where the ages must be multiples of one another, as 750, 3000 and 15000 frames are of an interval
of 250; with ages that are not, TLC finds wider gaps. A frame that passes without a save changes only the ages
(`TickSpaced`), a rollback cuts the stream (`CutSpaced`), and the frames that nobody counts, or saves taken late,
end `steady`. The lemmas they need are about multiples, about neighbours in a set of numbers
(`Successor`, `Predecessor`, by well-ordering) and about the loop that deletes (`WithoutIs`, by induction
over its index as the least counterexample).

**W5100Proofs.** `ChipInv` follows one socket through the I/O thread's round (`Followed`).
Before it is added, a socket that is the I/O thread's is not in the read set, so that a
number left there by another socket is not mistaken for its own (`NotAdded`); from
the test for room to the read, a UDP socket has room for the header (`Roomy`), since only the
I/O thread fills the receive ring and a socket opened meanwhile has an empty one; what `select()`
reported is still there when it is read (`Reported`), since only the I/O thread takes it;
what wants watching is watched, or a byte in the selfpipe will say so
(`Watched`). All of it rests on `ok_for_io` and on descriptors being unique (`Distinct`, with
`LowestFd` for the number that `socket()` and `accept()` return, by the pigeonhole principle and
the well-ordering of the naturals). What the guest's commands may do
to a socket is said once (`Harmless`) and shown for each of them.

`W5100StreamsIntact` rests on `StreamInv`: `ChipInv`, the ranges of what `ChipInv` does not
mention (`Bounds`), and for every socket `Whole` and `WritesOwn`. `Whole` says where each byte is, what is sent for guests that are not hasty only:
the receive ring ends with the last byte that came (`Receives`); the transmit ring holds the
bytes written and not yet received, in their order and never more than the ring
(`Transmits`); each length in the queue, and each datagram that left, is the distance between two
SENDs (`Datagrams`); a connection has no byte on the wire that no SEND submitted, and TX_WR stands still while a SEND is in progress
(`Connection`), so that the I/O thread never reads it half moved; between two SENDs it may be, and
where it will settle is `Meant`. `WritesOwn` says why the I/O
thread leaves a connection alone until its SEND: a descriptor of its own in the write set
means `write_pending`, at each place of the round where it can be read. This is
what fails for a stray socket, and how the exception was found: TLC refuted the
statement without it as soon as a plan let one socket close in the middle of a SEND
while the other connected. The ring's arithmetic is in lemmas of its own: `Distances` gives
a difference of pointers modulo `Word` without the modulo, `PlaceOf` and `Apart` say which pointers
share a place in a ring whose size divides `Word`, `Filling` and `Draining` what bytes put behind the
others, or taken from the front, leave in it, and `WireGrows` that those taken continue the
wire.

`JobTypeOK`, `BorrowedRequest`, `NoOrphanWorker`, `ControllerTypeOK`, `GdbTypeOK` and
`LeftoversPending` are proved and therefore in no run.

Every invariant that a run checks is a theorem. Every action property and both refinements are theorems too. Only model-checked: the liveness properties, since
leads-to under fairness is out of the prover's reach.

## 5. Known deviations

Besides the four violated runs, these properties are stated in the modules
and do not hold in general. Each can be reproduced with the constants given; they
are kept out of the runs because they concern corner cases of the same few
unlocked accesses.

| Property | Specification and constants | What happens |
|---|---|---|
| `OwnBreakpoints` | `Spec`; MaxSessions 2, MaxStarts 1, one setting: stop "emulator", prompt FALSE, leave FALSE | `gdbserver.c:826` sets the deferred removal; if the emulator does not check in between, it removes the breakpoints of the *next* client, who connected meanwhile. The comment at 819-822 considers only the race with the walk. |
| `InterruptAnswered` | `FairSpec`, same | An interrupt (740) sets `debugger_mode` to HALTED without the lock; the emulator leaving the trap overwrites it with ACTIVE: "just trigger interrupt and continue processing" (739) is lost. |
| `ServerServes` | `Spec`, same, as INVARIANT | The thread tests `gdbserver_debugging_enabled`, which is set (943) after it was created: if it gets there first, it exits and nobody serves. |
| `StopReturns` without `ClientsLeave` | `FairSpec`, same | A client accepted between the shutdown of the sockets and the join is not shut down, and stays connected: `gdbserver_stop` waits for it to leave although 961-965 says the wakeups come first because "Otherwise pthread_join can deadlock". `StopReturns` therefore speaks of clients that leave. |
| `StopReleases` | `FairSpec`; one setting: stop "ui", prompt FALSE, leave TRUE, no deadlock check | An emulator that traps after the broadcast and before the server is disabled parks with nobody left to wake it. `gdbserver.c:73` says the flag "unblocks ... gdbserver_activate_with_reason". |
| `NoListRace` for stop "ui" | `Spec`; one setting: stop "ui", prompt FALSE, leave FALSE, no deadlock check | A stop from another thread lets the emulator leave the trap between the test at 823 and the removal. |
| `FinishedByAnswer` | `Spec` of `Controller`; GuestMailboxes {0}, GuestCommands {"match"}, MaxStarts 2, MaxResets 0, GuestWaits FALSE | A guest that writes without waiting sees a refused command's ERROR in place of its answer. The test at `controller_channels.py:113` ("Busy writes must not corrupt worker-owned arguments or finish it early") covers a running job only. |

Found while modelling the network chip, matchmaking, sound and recording; each is a
behaviour of the model (an exception in the property says where), or is stated to be outside it:

* **CONNECT without a wake** (`w5100_socket.c:466`): a plain TCP socket that CONNECT connected is not
  watched until something else wakes the I/O thread, so a peer that speaks first is not
  heard. `NoLostWake` excepts it (`host.quiet`).
* **SEND in CLOSE_WAIT**: the socket is not watched for writing, so the command
  never completes. `SendCompletes` speaks of ESTABLISHED and UDP.
* **A hasty guest's bytes** (`w5100_socket.c:723-730`, 993): a TX_WR moved while a SEND is in progress is used by that
  SEND, half moved too, since its bytes are two register writes with a lock region each. The I/O thread may send
  bytes that nobody wrote, up to the half-moved pointer; once the other byte is written the two
  pointers may be equal, or the wrong way round, with the SEND still pending, and nothing may finish it. What
  `StreamsIntact` says of sending, and `SendCompletes`, except hasty guests.
* **A streamed body that starts again** (`httpc.c:913-916`): the comment at 1285-1286 says "Replay from zero and
  discard bytes already delivered to the callback", but nothing is discarded: position and `max` are reset when the
  status line is read, and a reader gets the beginning of the body twice. `BodyInOrder` excepts it (`replayed`). A retained body
  is refused at the next chunk (`http_downloader.c:113`).
* **A resumed body's length** (`httpc.c:792-795` and 1288-1293): the position is added to the length of a 206 answer
  twice. Unless the body comes in chunks, it never reaches that length, the attempt counts as broken, and the
  download ends only by a server that starts from the beginning again, or with an error.
* **A stale descriptor in the write set** (`w5100_socket.c:1080`): `readfds` and `writefds` hold numbers. A
  socket with a SEND to finish is added to the write set and closed before the I/O thread
  has added the next socket; this one is opened, gets the same number and connects; the thread
  adds it, so `ok_for_io` is set, and the number is in the write set although
  `write_pending` is not. If the descriptor is writable, bytes the guest has put in the
  buffer leave before any SEND, against `w5100_internals.h:210` ("Does not transmit until the
  SEND command"); the SEND that follows sends the rest. A UDP socket in that place
  calls `sendto` with an empty queue and counts `datagram_count` down to -1
  (`w5100_socket.c:970`), where the model stops following it. `StreamsIntact` and `SendCompletes`
  except such a socket (`host.stray`); without the exception TLC shows it in
  `MCW5100.cfg`.
* **A full selfpipe** makes the wake block, while the socket's lock is held.
* **Autosave pruning needs exact ages** (`rzx_recording.c:358`): a save that was taken a frame
  late, or a frame stored by a late interrupt, moves it off the ages that are compared, and it is never pruned.
  The help (`fusepb/FuseHelp/_English.lproj/rzx.md:12`) promises one snapshot every 15
  seconds until a minute, and so on. `AutosavesSpaced` holds while the recording is `steady`; after a
  rollback gaps are up to twice the spacing.
* DISCON does not begin a new epoch of the socket; the result of `connect_to` is ignored
  (`match.c:390`); a UDP socket is claimed in any state (`match_compat.c:126`); a failure (-1) of the
  GRE thread may be overwritten (`lwip.c:165`). The last three are in the model and break none of its properties.
* A failure in `sound_init` after the device was opened leaves it open (`sound.c:178`). Hosts
  that reorder a thread's stores are outside `SoundFifo`: the positions are plain integers.

The disk controllers trust guest and user. Each of these is a member of `Liberties` or
`UpdLiberties`; added to `MCDevices.cfg` it makes TLC show a violation of `FdcDriven`. The passing run and the
theorems say nothing of them:

| Liberty | Where | What happens |
|---|---|---|
| `force` | `wd_fdc.c:921-926` | Force Interrupt during a search leaves `read_id` set: events of the next command are taken for the search, or ignored. |
| `late` | `wd_fdc.c:1077`, `upd_fdc.c:885` | The event that limits a transfer stays pending when the transfer goes on to the next sector; it then ends the search for that sector, or a later command. |
| `change` | `fdd.c:266` | A disk inserted while the motor is meant to be on does not turn: a search waits for ever. |
| `index` | `wd_fdc.c:934` | An interrupt at the index pulse, armed earlier, comes during a later command and ends its wait. |
| upd `late` | `upd_fdc.c:885` | As above; the result phase is entered with a search pending. |
| `format` | `upd_fdc.c:1201` | Formatting a disk that does not turn, or is taken out meanwhile, never sees the index hole, and loops. |
| `tracks` | `upd_fdc.c:685-688` | A multi-track command on tracks of one sector (a guest with `Upd("READ_DATA", 1, TRUE, FALSE)`) finds the sector again at once, and loops. |
| `reset` | `upd_fdc.c:156` | Master reset removes no event: the pending ones move the command given next. |
| `coast` | `upd_fdc.c:215`, `fdd.c:353` | A search begun beyond the disk's last track with the motor off and the drive still ready (for a revolution and a half), or with a motor that goes off while the head loads: no byte moves, no index hole comes, and `read_id` loops for ever. |

A drive may get a second chain of index events: `fdd_motoron` (`fdd.c:221-229`) removes the motor's events and no index events, and
`fdd_unload` clears `loaded` before it stops the motor, so that it does not stop. Off and on again within an index period, or a disk
changed while it turns, and the hole passes twice as often. The model follows what the controllers
make of it (`indexed`, `another`), but does not count the chains, and no property speaks of them.

With `Units = {0, 2}` `FdcDriven` fails: the uPD765 masks the seeks under way with 0x03 (`upd_fdc.c:913`) although the
comment at 1335-1346 speaks of up to four drives. A guest that overlaps seeks can lose the interrupt of one
(`SeekHeard` is about serial guests). Skipping a deleted sector in a multi-track command
increments the sector twice. `specplus3.c:300` tests a capability with `&&` where `&` is meant.

## 6. Not modelled

The status and reason of every component is in `PROJECT.json`. In short: the Z80
core, devices' data paths, parsers, graphics, user interfaces and third-party code
are not state machines whose interleavings matter; they are also by far the largest part of the
repository, so the modelled files are a small share of its lines. Of the modelled components, the
following is abstracted: addresses, registers and packet texts of the GDB stub; the
data of controller commands and the engines behind them; HTTP headers, redirects, authentication and
response codes beyond answered, refused and failed; input bytes of recordings, their file and
signature; TLS, SSH, the interrupt and address registers of the W5100; the peer list, codes, names and
packets of matchmaking; the bytes, sides and CRCs of a disk, the number of a drive's index events, the WD1773 and WD2797, whose HLT
is timed by an event, and the ports of the disk interfaces, except the +3's motor bit.

The event added by the remote reset command from the network thread, the release of an
emulator that parks late, and the liberties of the disk controllers are listed as hazards
without a property; `PROJECT.json` says why. Not listed there, since the
components are not modelled or the case is outside the model: playback goes on with a freed recording after a snapshot that needs
another machine (`rzx.c:551`); a second match that connects while the first is being completed is not
announced (`spectranext_controller.c:88`); `tape_play` adds an edge event without removing one that is pending (`tape.c:369`).

## 7. What is left

In the order of what it would add:

1. Times for the events of `Fdd`, `WdFdc` and `UpdFdc`, so that they become entries of
   `EventLoop`'s list and some liberties turn out impossible or unavoidable.
2. `Match` composed with `W5100` and `Controller`.
3. New modules for the tape's edges, the flash chip's command sequences, XFS handles,
   the packet deframer and the startup manager.
