------------------------------ MODULE SoundFifo ------------------------------
(***************************************************************************)
(* The FIFO between the emulator and the audio callback (sound/sfifo.c,    *)
(* sfifo.h), as sound/sdlsound.c and sdl2sound.c use it: the emulator      *)
(* writes each frame's samples and waits while there is no room; the       *)
(* callback, on a thread of the audio library, reads what it is asked for  *)
(* or what there is.  There is no lock: each side stores its own position  *)
(* after it has copied, and reads the other's before.                      *)
(***************************************************************************)
EXTENDS Integers, Sequences

CONSTANTS
  Frames,    \* the lengths a frame's sound may have, in bytes
  Requested, \* what sfifo_init is asked for: two frames and a byte; masked with 16 bits
  Period,    \* the bytes the callback is asked for
  Sample,    \* bytes of a sample, of all channels
  Word       \* bound: bytes are numbered modulo this

ASSUME SoundAssumption ==
  /\ Sample \in {2, 4} /\ Requested \in 1 .. 32767 /\ Word \in Nat \ {0}
  /\ Period \in Nat /\ Period % Sample = 0
  /\ \A n \in Frames : n \in 1 .. Requested /\ n % Sample = 0

\* sfifo_init: the smallest power of two above the request.
PowersOfTwo == {2, 4, 8, 16, 32, 64, 128, 256, 512, 1024, 2048, 4096, 8192, 16384, 32768}
Size == CHOOSE size \in PowersOfTwo : size > Requested /\ size <= 2 * Requested

VARIABLES
  buffer, readpos, writepos, \* sound_fifo
  audio,     \* the device: "closed", "paused" or "playing"
  writing, left, wlen, \* the emulator: where it is, what is left, what it copies
  reading, rlen, take, \* the callback likewise
  sent, heard      \* the next byte's number; the bytes the callback read last

fifoVars == <<buffer, readpos, writepos>>
writerVars == <<writing, left, wlen, sent>>
readerVars == <<reading, rlen, take, heard>>
soundVars == <<fifoVars, audio, writerVars, readerVars>>

Fresh == [i \in 0 .. Size - 1 |-> 0]

SoundInit ==
  /\ buffer = Fresh /\ readpos = 0 /\ writepos = 0
  /\ audio = "closed"
  /\ writing = "idle" /\ left = 0 /\ wlen = 0 /\ sent = 0
  /\ reading = "idle" /\ rlen = 0 /\ take = 0 /\ heard = <<>>

\* sfifo_used, sfifo_space.  A position may be Size.
Used == (writepos - readpos) % Size
Space(used) == Size - 1 - used

Lesser(a, b) == IF a < b THEN a ELSE b
Advanced(pos, n) == IF pos + n > Size THEN pos + n - Size ELSE pos + n
Region(pos, n) == {(pos + i) % Size : i \in 0 .. n - 1}

-----------------------------------------------------------------------------
sound_lowlevel_init ==
  /\ audio = "closed" /\ audio' = "paused"
  /\ UNCHANGED <<fifoVars, writerVars, readerVars>>

\* The device is closed, the callback with it, before the FIFO is flushed.  The
\* next sfifo_init takes a new buffer, and bytes are numbered anew.
sound_lowlevel_end ==
  /\ audio # "closed" /\ writing = "idle" /\ reading = "idle"
  /\ audio' = "closed" /\ buffer' = Fresh /\ readpos' = 0 /\ writepos' = 0
  /\ sent' = 0 /\ heard' = <<>>
  /\ UNCHANGED <<writing, left, wlen, reading, rlen, take>>

sound_lowlevel_frame(n) ==
  /\ audio # "closed" /\ writing = "idle"
  /\ writing' = "space" /\ left' = n
  /\ UNCHANGED <<fifoVars, audio, wlen, sent, readerVars>>

(* Faulty variant: the position is stored before the bytes.                 *)
StoresPositionFirst ==
  /\ writing = "space" /\ left > 0 /\ Space(Used) > 0
  /\ wlen' = Lesser(left, Space(Used)) /\ writing' = "copy"
  /\ writepos' = Advanced(writepos, wlen')
  /\ UNCHANGED <<buffer, readpos, audio, left, sent, readerVars>>

\* sfifo_write, as long as it is given bytes: how much there is room for ...
WriteBegins ==
  /\ writing = "space" /\ left > 0 /\ Space(Used) > 0
  /\ wlen' = Lesser(left, Space(Used)) /\ writing' = "copy"
  /\ UNCHANGED <<fifoVars, audio, left, sent, readerVars>>

\* ... and the bytes are there, then the position.
WriteEnds ==
  /\ writing = "copy"
  /\ buffer' = [i \in 0 .. Size - 1 |->
                  IF i \in Region(writepos, wlen)
                  THEN (sent + ((i - writepos) % Size)) % Word ELSE buffer[i]]
  /\ writepos' = Advanced(writepos, wlen)
  /\ sent' = (sent + wlen) % Word /\ left' = left - wlen /\ writing' = "space"
  /\ UNCHANGED <<readpos, audio, wlen, readerVars>>

\* The first frame starts the device.
FrameEnds ==
  /\ writing = "space" /\ left = 0
  /\ writing' = "idle" /\ audio' = IF audio = "paused" THEN "playing" ELSE audio
  /\ UNCHANGED <<fifoVars, left, wlen, sent, readerVars>>

Emulator == WriteBegins \/ WriteEnds \/ FrameEnds

-----------------------------------------------------------------------------
Reader == UNCHANGED <<buffer, writepos, audio, writerVars>>

\* sdlwrite: MIN evaluates sfifo_used once ...
Callback ==
  /\ audio = "playing" /\ reading = "idle" /\ Reader /\ UNCHANGED <<readpos, take, heard>>
  /\ IF Period < Used THEN rlen' = Period /\ reading' = "mask"
                      ELSE rlen' = Used /\ reading' = "again"

\* ... and once more if the first was not above, unless the compiler kept it.
MeasuresAgain ==
  /\ reading = "again" /\ Reader /\ UNCHANGED <<readpos, take, heard>>
  /\ rlen' \in {rlen, Used} /\ reading' = "mask"

(* Faulty variant: bytes are bytes.                                         *)
KeepsOddBytes ==
  /\ reading = "mask" /\ Reader /\ UNCHANGED <<readpos, take, heard>>
  /\ rlen' = rlen /\ reading' = "read"

(* Faulty variant: the mask is the wrong way round.                         *)
KeepsLowBits ==
  /\ reading = "mask" /\ Reader /\ UNCHANGED <<readpos, take, heard>>
  /\ rlen' = rlen % Sample /\ reading' = "read"

\* Whole samples only.
MasksLength ==
  /\ reading = "mask" /\ Reader /\ UNCHANGED <<readpos, take, heard>>
  /\ rlen' = rlen - (rlen % Sample) /\ reading' = "read"

\* sfifo_read until it returns nothing: how much there is, the bytes, the position.
ReadBegins ==
  /\ reading = "read" /\ Reader /\ UNCHANGED <<readpos, rlen, heard>>
  /\ take' = Lesser(rlen, Used)
  /\ reading' = IF take' = 0 THEN "idle" ELSE "copy"

ReadEnds ==
  /\ reading = "copy" /\ Reader /\ UNCHANGED take
  /\ heard' = [i \in 1 .. take |-> buffer[(readpos + i - 1) % Size]]
  /\ readpos' = Advanced(readpos, take)
  /\ rlen' = rlen - take /\ reading' = "read"

CallbackStep == Callback \/ MeasuresAgain \/ MasksLength \/ ReadBegins \/ ReadEnds

-----------------------------------------------------------------------------
SoundNext ==
  \/ sound_lowlevel_init \/ sound_lowlevel_end
  \/ \E n \in Frames : sound_lowlevel_frame(n)
  \/ Emulator \/ CallbackStep

SoundSpec == SoundInit /\ [][SoundNext]_soundVars

\* The emulator runs on, and a device that plays calls back.
SoundFairness == WF_soundVars(Emulator) /\ WF_soundVars(CallbackStep)

-----------------------------------------------------------------------------
(***************************************************************************)
(* Properties.                                                             *)
(***************************************************************************)

\* Type invariant of the FIFO and of its two users.
SoundTypeOK ==
  /\ readpos \in 0 .. Size /\ writepos \in 0 .. Size
  /\ audio \in {"closed", "paused", "playing"}
  /\ writing \in {"idle", "space", "copy"} /\ left \in 0 .. Requested /\ wlen \in 0 .. Size - 1
  /\ reading \in {"idle", "again", "mask", "read", "copy"}
  /\ rlen \in 0 .. Size - 1 /\ take \in 0 .. Size - 1
  /\ sent \in 0 .. Word - 1

\* The two sides never touch the same byte at the same time, whatever the order of
\* their steps and wherever the copies wrap.
SoundApart ==
  /\ SoundTypeOK
  /\ writing = "copy" /\ reading = "copy" => Region(writepos, wlen) \cap Region(readpos, take) = {}

\* The positions and the buffer are a bounded queue of bytes that is heard in order
\* and in whole samples, although the callback may find an odd number of bytes.
Queue == INSTANCE SoundQueue WITH
  Room <- Size - 1,
  queue <- [i \in 1 .. Used |-> buffer[(readpos + i - 1) % Size]]
ImplementsQueue == Queue!QueueSpec

\* sound_lowlevel_frame returns: there is room for the first frame before the device
\* plays, and the callback makes room for the others.
FrameReturns == (writing = "space") ~> (writing = "idle")

=============================================================================
