----------------------------- MODULE SoundQueue -----------------------------
(***************************************************************************)
(* What the sound FIFO promises: what the emulator has written is heard    *)
(* once, in order and in whole samples, and nobody has to wait for room as *)
(* long as there is some.  Bytes are numbered in the order of writing.     *)
(***************************************************************************)
EXTENDS Integers, Sequences

CONSTANTS
  Room,   \* bytes that fit
  Sample, \* bytes of a sample, of all channels
  Word    \* the bytes' numbers are modulo this

VARIABLES
  queue,  \* the bytes written and not yet heard
  sent,   \* the number of the next byte to be written
  heard   \* the bytes heard last

queueVars == <<queue, sent, heard>>

QueueInit == queue = <<>> /\ sent = 0 /\ heard = <<>>

Write(n) ==
  /\ n <= Room - Len(queue)
  /\ queue' = queue \o [i \in 1 .. n |-> (sent + i - 1) % Word]
  /\ sent' = (sent + n) % Word
  /\ UNCHANGED heard

Play(n) ==
  /\ n <= Len(queue) /\ n % Sample = 0
  /\ heard' = SubSeq(queue, 1, n)
  /\ queue' = SubSeq(queue, n + 1, Len(queue))
  /\ UNCHANGED sent

Flush == queue' = <<>> /\ sent' = 0 /\ heard' = <<>>

QueueNext == Flush \/ \E n \in 1 .. Room : Write(n) \/ Play(n)

QueueSpec == QueueInit /\ [][QueueNext]_queueVars

=============================================================================
