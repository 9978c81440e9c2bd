---------------------------- MODULE PartsProofs ----------------------------
(* Proofs about two of the parts of MCParts.                                  *)
(*                                                                            *)
(* The sound FIFO: its two sides never touch the same byte, and it implements *)
(* a bounded queue, for every size of ring, frame, period and sample. No lock *)
(* is needed because each side's measure of the other can only be too small.  *)
(*                                                                            *)
(* The recording: its automatic snapshots are thinned out as their ages say,  *)
(* for every interval and every ages that are multiples of each other.        *)
EXTENDS SoundFifo, RzxRecording, SequenceTheorems, WellFoundedInduction, TLAPS

(******************************************************************************)
(* The sound FIFO.                                                            *)
(******************************************************************************)

\* The loop of sfifo_init finds a size; it is at least 2.
LEMMA SizeType == Size \in PowersOfTwo /\ Size \in Nat /\ Size >= 2 /\ Size > Requested
<1>1. \E size \in PowersOfTwo : size > Requested /\ size <= 2 * Requested
  BY SMTT(30), SoundAssumption DEF PowersOfTwo
<1>2. Size \in PowersOfTwo /\ Size > Requested
  BY <1>1 DEF Size
<1> QED
  BY <1>2 DEF PowersOfTwo

\* Masking with Size - 1 is one subtraction or addition at most.
LEMMA Wraps ==
  ASSUME NEW a \in Int, -Size <= a, a < 2 * Size
  PROVE  a % Size = IF a < 0 THEN a + Size ELSE IF a < Size THEN a ELSE a - Size
<1>1. ASSUME NEW s \in PowersOfTwo, -s <= a, a < 2 * s
      PROVE  a % s = IF a < 0 THEN a + s ELSE IF a < s THEN a ELSE a - s
  BY <1>1, SMTT(30) DEF PowersOfTwo
<1> QED
  BY <1>1, SizeType

\* How far one position is ahead of another, without the modulo.
LEMMA Distance ==
  ASSUME NEW w \in 0 .. Size, NEW r \in 0 .. Size
  PROVE  (w - r) % Size = IF w < r THEN w - r + Size ELSE IF w - r < Size THEN w - r ELSE 0
<1>1. w - r \in Int /\ -Size <= w - r /\ w - r < 2 * Size
  BY SizeType
<1>2. (w - r) % Size = IF w - r < 0 THEN w - r + Size
                       ELSE IF w - r < Size THEN w - r ELSE w - r - Size
  BY <1>1, Wraps
<1> QED
  BY <1>2, SizeType

\* The place of a byte some way behind a position.
LEMMA Place ==
  ASSUME NEW pos \in 0 .. Size, NEW k \in 0 .. Size - 1
  PROVE  (pos + k) % Size = IF pos + k < Size THEN pos + k ELSE pos + k - Size
<1>1. 0 <= pos + k /\ pos + k < 2 * Size /\ pos \in Int /\ k \in Int
  BY SizeType
<1>2. ASSUME NEW s \in PowersOfTwo, pos + k < 2 * s
      PROVE  (pos + k) % s = IF pos + k < s THEN pos + k ELSE pos + k - s
  BY <1>1, <1>2, SMTT(30) DEF PowersOfTwo
<1> QED
  BY <1>1, <1>2, SizeType

LEMMA PlaceType ==
  ASSUME NEW pos \in 0 .. Size, NEW k \in 0 .. Size - 1
  PROVE  (pos + k) % Size \in 0 .. Size - 1
<1>1. pos \in Int /\ k \in Int
  BY SizeType
<1> QED
  BY <1>1, Place, SizeType

\* The bytes in the ring.
LEMMA UsedIs ==
  ASSUME SoundTypeOK
  PROVE  /\ Used \in 0 .. Size - 1
         /\ Used = IF writepos < readpos THEN writepos - readpos + Size
                   ELSE IF writepos - readpos < Size THEN writepos - readpos ELSE 0
  BY SizeType, Distance DEF SoundTypeOK, Used

-----------------------------------------------------------------------------
(* The inductive invariant.                                                  *)

\* The emulator copies what there is room for, of what is left of the frame.
WriterFits == writing = "copy" => 0 < wlen /\ wlen <= Size - 1 - Used /\ wlen <= left

\* What the callback decided to read is there, whole samples of it once the
\* length is masked, and all of it is read at once.
ReaderFits ==
  /\ reading # "idle" => rlen <= Used
  /\ reading \in {"read", "copy"} => rlen % Sample = 0
  /\ reading = "copy" => 0 < take /\ take = rlen

SoundIInv == SoundTypeOK /\ WriterFits /\ ReaderFits

LEMMA SoundInitIInv == SoundInit => SoundIInv
  BY SMTT(30), SizeType, SoundAssumption
  DEF SoundInit, SoundIInv, SoundTypeOK, WriterFits, ReaderFits

LEMMA UsedEmpty == ASSUME readpos' = 0, writepos' = 0 PROVE Used' = 0
<1>1. (0 - 0) % Size = 0
  BY SizeType, Distance
<1> QED
  BY <1>1 DEF Used

\* A step that moves no position leaves the fill alone.
LEMMA UsedStays == ASSUME UNCHANGED <<readpos, writepos>> PROVE Used' = Used
  BY DEF Used

\* The emulator has stored its position: the ring is fuller by what it copied.
LEMMA UsedGrows ==
  ASSUME SoundIInv, WriteEnds
  PROVE  writepos' \in 0 .. Size /\ Used' = Used + wlen /\ Used' \in 0 .. Size - 1
<1> USE SizeType
<1>1. /\ writepos \in 0 .. Size /\ readpos \in 0 .. Size /\ wlen \in 1 .. Size - 1 - Used
      /\ readpos' = readpos /\ Used \in 0 .. Size - 1
  BY UsedIs DEF SoundIInv, SoundTypeOK, WriterFits, WriteEnds, readerVars
<1>2. writepos' = IF writepos + wlen > Size THEN writepos + wlen - Size ELSE writepos + wlen
  BY DEF WriteEnds, Advanced
<1>3. writepos' \in 0 .. Size
  BY <1>1, <1>2
<1>4. Used' = IF writepos' < readpos' THEN writepos' - readpos' + Size
              ELSE IF writepos' - readpos' < Size THEN writepos' - readpos' ELSE 0
  BY <1>1, <1>3, Distance DEF Used
<1>5. Used = IF writepos < readpos THEN writepos - readpos + Size
             ELSE IF writepos - readpos < Size THEN writepos - readpos ELSE 0
  BY UsedIs DEF SoundIInv
<1> QED
  BY <1>1, <1>2, <1>3, <1>4, <1>5

\* The callback has stored its position: the ring is emptier by what it took.
LEMMA UsedShrinks ==
  ASSUME SoundIInv, ReadEnds
  PROVE  readpos' \in 0 .. Size /\ Used' = Used - take /\ Used' \in 0 .. Size - 1
<1> USE SizeType
<1>1. /\ writepos \in 0 .. Size /\ readpos \in 0 .. Size /\ take \in 1 .. Used
      /\ writepos' = writepos /\ Used \in 0 .. Size - 1
  BY UsedIs DEF SoundIInv, SoundTypeOK, ReaderFits, ReadEnds, Reader
<1>2. readpos' = IF readpos + take > Size THEN readpos + take - Size ELSE readpos + take
  BY DEF ReadEnds, Advanced
<1>3. readpos' \in 0 .. Size
  BY <1>1, <1>2
<1>4. Used' = IF writepos' < readpos' THEN writepos' - readpos' + Size
              ELSE IF writepos' - readpos' < Size THEN writepos' - readpos' ELSE 0
  BY <1>1, <1>3, Distance DEF Used
<1>5. Used = IF writepos < readpos THEN writepos - readpos + Size
             ELSE IF writepos - readpos < Size THEN writepos - readpos ELSE 0
  BY UsedIs DEF SoundIInv
<1> QED
  BY <1>1, <1>2, <1>3, <1>4, <1>5

-----------------------------------------------------------------------------
(* Steps of the emulator.                                                    *)

LEMMA EmulatorSteps ==
  ASSUME SoundIInv,
         sound_lowlevel_init \/ sound_lowlevel_end \/ Emulator
           \/ \E n \in Frames : sound_lowlevel_frame(n)
  PROVE  SoundIInv'
<1> USE SizeType
<1>1. Used \in 0 .. Size - 1
  BY UsedIs DEF SoundIInv
<1>2. CASE sound_lowlevel_init
  <2>1. Used' = Used
    BY <1>2, UsedStays DEF sound_lowlevel_init, fifoVars
  <2> QED
    BY <1>1, <1>2, <2>1 DEF SoundIInv, SoundTypeOK, WriterFits, ReaderFits,
       sound_lowlevel_init, fifoVars, writerVars, readerVars
<1>3. CASE sound_lowlevel_end
  BY SMTT(30), <1>3, SoundAssumption DEF SoundIInv, SoundTypeOK, WriterFits, ReaderFits,
     sound_lowlevel_end
<1>4. ASSUME NEW n \in Frames, sound_lowlevel_frame(n)
      PROVE  SoundIInv'
  <2>1. Used' = Used
    BY <1>4, UsedStays DEF sound_lowlevel_frame, fifoVars
  <2>2. n \in 1 .. Requested
    BY SoundAssumption
  <2> QED
    BY SMTT(30), <1>1, <1>4, <2>1, <2>2, SoundAssumption DEF SoundIInv, SoundTypeOK, WriterFits,
       ReaderFits, sound_lowlevel_frame, fifoVars, readerVars
<1>5. CASE WriteBegins
  <2>1. Used' = Used
    BY <1>5, UsedStays DEF WriteBegins, fifoVars
  <2> QED
    BY SMTT(30), <1>1, <1>5, <2>1, SoundAssumption DEF SoundIInv, SoundTypeOK, WriterFits, ReaderFits,
       WriteBegins, fifoVars, readerVars, Space, Lesser
<1>6. CASE WriteEnds
  <2>1. sent' \in 0 .. Word - 1
    BY SMTT(30), <1>6, SoundAssumption DEF WriteEnds, SoundIInv, SoundTypeOK
  <2> QED
    BY SMTT(30), <1>1, <1>6, <2>1, UsedGrows, SoundAssumption DEF SoundIInv, SoundTypeOK, WriterFits,
       ReaderFits, WriteEnds, readerVars
<1>7. CASE FrameEnds
  <2>1. Used' = Used
    BY <1>7, UsedStays DEF FrameEnds, fifoVars
  <2> QED
    BY <1>1, <1>7, <2>1 DEF SoundIInv, SoundTypeOK, WriterFits, ReaderFits, FrameEnds,
       fifoVars, readerVars
<1> QED
  BY <1>2, <1>3, <1>4, <1>5, <1>6, <1>7 DEF Emulator

-----------------------------------------------------------------------------
(* Steps of the callback.                                                    *)

\* The mask leaves whole samples, and no more than there were.
LEMMA Masked ==
  ASSUME NEW n \in Nat
  PROVE  n - (n % Sample) \in 0 .. n /\ (n - (n % Sample)) % Sample = 0
<1>1. CASE Sample = 2
  BY <1>1
<1>2. CASE Sample = 4
  BY <1>2
<1> QED
  BY SMTT(30), <1>1, <1>2, SoundAssumption

LEMMA CallbackSteps ==
  ASSUME SoundIInv, CallbackStep
  PROVE  SoundIInv'
<1> USE SizeType, SoundAssumption
<1>1. Used \in 0 .. Size - 1
  BY UsedIs DEF SoundIInv
<1>2. CASE Callback
  <2>1. Used' = Used
    BY SMTT(30), <1>2, UsedStays DEF Callback, Reader
  <2> QED
    BY SMTT(30), <1>1, <1>2, <2>1 DEF SoundIInv, SoundTypeOK, WriterFits, ReaderFits, Callback,
       Reader, writerVars
<1>3. CASE MeasuresAgain
  <2>1. Used' = Used
    BY SMTT(30), <1>3, UsedStays DEF MeasuresAgain, Reader
  <2> QED
    BY SMTT(30), <1>1, <1>3, <2>1 DEF SoundIInv, SoundTypeOK, WriterFits, ReaderFits, MeasuresAgain,
       Reader, writerVars
<1>4. CASE MasksLength
  <2>1. Used' = Used
    BY SMTT(30), <1>4, UsedStays DEF MasksLength, Reader
  <2>2. rlen \in 0 .. Size - 1 /\ rlen \in Nat
    BY SMTT(30) DEF SoundIInv, SoundTypeOK
  <2>3. rlen' \in 0 .. rlen /\ rlen' % Sample = 0
    BY SMTT(30), <1>4, <2>2, Masked DEF MasksLength
  <2> QED
    BY SMTT(30), <1>1, <1>4, <2>1, <2>2, <2>3 DEF SoundIInv, SoundTypeOK, WriterFits, ReaderFits,
       MasksLength, Reader, writerVars
<1>5. CASE ReadBegins
  <2>1. Used' = Used
    BY SMTT(30), <1>5, UsedStays DEF ReadBegins, Reader
  <2> QED
    BY SMTT(30), <1>1, <1>5, <2>1 DEF SoundIInv, SoundTypeOK, WriterFits, ReaderFits, ReadBegins,
       Reader, writerVars, Lesser
<1>6. CASE ReadEnds
  <2>1. rlen' = 0 /\ 0 % Sample = 0
    BY SMTT(30), <1>6 DEF ReadEnds, SoundIInv, SoundTypeOK, ReaderFits
  <2> QED
    BY SMTT(30), <1>1, <1>6, <2>1, UsedShrinks DEF SoundIInv, SoundTypeOK, WriterFits, ReaderFits,
       ReadEnds, Reader, writerVars
<1> QED
  BY <1>2, <1>3, <1>4, <1>5, <1>6 DEF CallbackStep

LEMMA SoundNextIInv == SoundIInv /\ [SoundNext]_soundVars => SoundIInv'
<1> SUFFICES ASSUME SoundIInv, [SoundNext]_soundVars
             PROVE  SoundIInv'
  OBVIOUS
<1>1. CASE UNCHANGED soundVars
  <2>1. Used' = Used
    BY <1>1, UsedStays DEF soundVars, fifoVars
  <2> QED
    BY <1>1, <2>1 DEF soundVars, fifoVars, writerVars, readerVars, SoundIInv, SoundTypeOK,
       WriterFits, ReaderFits
<1> QED
  BY <1>1, EmulatorSteps, CallbackSteps DEF SoundNext

\* The ranges of positions and lengths, and that neither side ever means to copy
\* more than there is room for, or than there is: sfifo_write and sfifo_read measure
\* before they copy, and only the other side can change the measure meanwhile.
THEOREM SoundInvariance == SoundSpec => []SoundIInv
  BY SoundInitIInv, SoundNextIInv, PTL DEF SoundSpec

\* The two sides of the FIFO never touch the same byte at the same time, wherever
\* their copies wrap, although neither takes a lock.
THEOREM SoundKeptApart == SoundSpec => []SoundApart
<1>1. SoundIInv => SoundApart
  <2> SUFFICES ASSUME SoundIInv, writing = "copy", reading = "copy",
                      NEW i \in 0 .. wlen - 1, NEW j \in 0 .. take - 1
               PROVE  (writepos + i) % Size # (readpos + j) % Size
    BY DEF SoundIInv, SoundApart, Region
  <2>1. /\ writepos \in 0 .. Size /\ readpos \in 0 .. Size /\ Used \in 0 .. Size - 1
        /\ wlen <= Size - 1 - Used /\ take <= Used /\ wlen \in Nat /\ take \in Nat
    BY SizeType, UsedIs DEF SoundIInv, SoundTypeOK, WriterFits, ReaderFits
  <2>2. i \in 0 .. Size - 1 /\ j \in 0 .. Size - 1
    BY <2>1, SizeType
  <2>3. /\ (writepos + i) % Size = IF writepos + i < Size THEN writepos + i ELSE writepos + i - Size
        /\ (readpos + j) % Size = IF readpos + j < Size THEN readpos + j ELSE readpos + j - Size
    BY <2>1, <2>2, Place
  <2>4. Used = IF writepos < readpos THEN writepos - readpos + Size
               ELSE IF writepos - readpos < Size THEN writepos - readpos ELSE 0
    BY UsedIs DEF SoundIInv
  <2> QED
    BY <2>1, <2>3, <2>4, SizeType
<1> QED
  BY <1>1, SoundInvariance, PTL

-----------------------------------------------------------------------------
(* The refinement.                                                           *)

\* The bytes that are there, oldest first.
Stored == [i \in 1 .. Used |-> buffer[(readpos + i - 1) % Size]]

LEMMA StoredLength == ASSUME SoundIInv PROVE Len(Stored) \in 0 .. Size - 1
<1>1. Used \in 0 .. Size - 1
  BY UsedIs DEF SoundIInv
<1> QED
  BY <1>1, SizeType DEF Stored

\* No step but those that store a position changes what is stored.
LEMMA StoredStays ==
  ASSUME UNCHANGED fifoVars
  PROVE  Stored' = Stored
  BY UsedStays DEF Stored, fifoVars

\* Storing the emulator's position appends what it copied, and nothing that was
\* stored is overwritten.
LEMMA StoredGrows ==
  ASSUME SoundIInv, WriteEnds
  PROVE  /\ wlen \in 1 .. Size - 1 - Len(Stored)
         /\ Stored' = Stored \o [i \in 1 .. wlen |-> (sent + i - 1) % Word]
<1> USE SizeType
<1>1. /\ writepos \in 0 .. Size /\ readpos \in 0 .. Size /\ wlen \in 1 .. Size - 1 - Used
      /\ readpos' = readpos /\ Used \in 0 .. Size - 1
  BY UsedIs DEF SoundIInv, SoundTypeOK, WriterFits, WriteEnds, readerVars
<1>2. Used' = Used + wlen
  BY UsedGrows
<1>3. ASSUME NEW i \in 1 .. Used
      PROVE  buffer'[(readpos + i - 1) % Size] = buffer[(readpos + i - 1) % Size]
  <2> DEFINE p == (readpos + (i - 1)) % Size
  <2>1. i - 1 \in 0 .. Size - 1 /\ readpos + i - 1 = readpos + (i - 1)
    BY <1>1
  <2>2. p \in 0 .. Size - 1 /\ p = IF readpos + (i - 1) < Size THEN readpos + (i - 1)
                                   ELSE readpos + (i - 1) - Size
    BY <1>1, <2>1, Place, PlaceType
  <2>3. ASSUME NEW k \in 0 .. wlen - 1
        PROVE  p # (writepos + k) % Size
    <3>1. k \in 0 .. Size - 1
      BY <1>1
    <3>2. (writepos + k) % Size = IF writepos + k < Size THEN writepos + k
                                  ELSE writepos + k - Size
      BY <1>1, <3>1, Place
    <3>3. Used = IF writepos < readpos THEN writepos - readpos + Size
                 ELSE IF writepos - readpos < Size THEN writepos - readpos ELSE 0
      BY UsedIs DEF SoundIInv
    <3> HIDE DEF p
    <3> QED
      BY <1>1, <1>3, <2>2, <3>2, <3>3
  <2>4. p \notin Region(writepos, wlen)
    BY <2>3 DEF Region
  <2> HIDE DEF p
  <2>5. buffer'[p] = buffer[p]
    BY <2>2, <2>4 DEF WriteEnds
  <2> QED
    BY <2>1, <2>5 DEF p
<1>4. ASSUME NEW i \in Used + 1 .. Used + wlen
      PROVE  buffer'[(readpos + i - 1) % Size] = (sent + (i - Used) - 1) % Word
  <2> DEFINE k == i - Used - 1
             p == (writepos + k) % Size
  <2>1. k \in 0 .. wlen - 1 /\ k \in 0 .. Size - 1 /\ i - 1 \in 0 .. Size - 1
        /\ readpos + i - 1 = readpos + (i - 1)
    BY <1>1
  <2>2. p \in 0 .. Size - 1 /\ p = IF writepos + k < Size THEN writepos + k
                                   ELSE writepos + k - Size
    BY <1>1, <2>1, Place, PlaceType
  <2>3. (readpos + (i - 1)) % Size = IF readpos + (i - 1) < Size THEN readpos + (i - 1)
                                     ELSE readpos + (i - 1) - Size
    BY <1>1, <2>1, Place
  <2>4. Used = IF writepos < readpos THEN writepos - readpos + Size
               ELSE IF writepos - readpos < Size THEN writepos - readpos ELSE 0
    BY UsedIs DEF SoundIInv
  <2>5. (readpos + (i - 1)) % Size = p
    <3> HIDE DEF p
    <3> QED
      BY <1>1, <2>1, <2>2, <2>3, <2>4
  <2>6. (p - writepos) % Size = k
    <3>1. (p - writepos) % Size = IF p < writepos THEN p - writepos + Size
                                  ELSE IF p - writepos < Size THEN p - writepos ELSE 0
      <4> HIDE DEF p
      <4> QED
        BY <1>1, <2>2, Distance
    <3> HIDE DEF p
    <3> QED
      BY <1>1, <2>1, <2>2, <3>1
  <2>7. p \in Region(writepos, wlen)
    BY <2>1 DEF Region
  <2>8. buffer'[p] = (sent + k) % Word
    <3> HIDE DEF p, k
    <3> QED
      BY <2>2, <2>6, <2>7 DEF WriteEnds
  <2>9. sent + k = sent + (i - Used) - 1
    BY <1>1 DEF SoundIInv, SoundTypeOK
  <2> QED
    BY <2>1, <2>5, <2>8, <2>9
<1> DEFINE bytes == [i \in 1 .. wlen |-> (sent + i - 1) % Word]
           both == Stored \o bytes
<1>5. Len(Stored) = Used /\ DOMAIN Stored = 1 .. Used
  BY <1>1 DEF Stored
<1>6. Len(bytes) = wlen
  BY <1>1
<1>7. both = [i \in 1 .. Used + wlen |-> IF i <= Used THEN Stored[i] ELSE bytes[i - Used]]
  <2> DEFINE S == {Stored[i] : i \in 1 .. Used} \union {bytes[i] : i \in 1 .. wlen}
  <2>1. Stored \in Seq(S)
    <3>1. Stored = [i \in 1 .. Used |-> Stored[i]]
      BY DEF Stored
    <3>2. \A i \in 1 .. Used : Stored[i] \in S
      OBVIOUS
    <3> HIDE DEF S
    <3> QED
      BY <1>1, <3>1, <3>2
  <2>2. bytes \in Seq(S)
    <3>1. \A i \in 1 .. wlen : bytes[i] \in S
      OBVIOUS
    <3>2. bytes = [i \in 1 .. wlen |-> bytes[i]]
      OBVIOUS
    <3> HIDE DEF S, bytes
    <3> QED
      BY <1>1, <3>1, <3>2
  <2> HIDE DEF S, bytes
  <2>3. /\ both \in Seq(S) /\ Len(both) = Used + wlen
        /\ \A i \in 1 .. Used + wlen :
             both[i] = IF i <= Used THEN Stored[i] ELSE bytes[i - Used]
    BY <1>5, <1>6, <2>1, <2>2, ConcatProperties
  <2> HIDE DEF both
  <2>4. both = [i \in 1 .. Used + wlen |-> both[i]]
    BY <2>3
  <2> QED
    BY <2>3, <2>4
<1>8. Stored' = [i \in 1 .. Used + wlen |-> buffer'[(readpos + i - 1) % Size]]
  BY <1>1, <1>2 DEF Stored
<1>9. ASSUME NEW i \in 1 .. Used + wlen
      PROVE  buffer'[(readpos + i - 1) % Size]
               = IF i <= Used THEN Stored[i] ELSE bytes[i - Used]
  <2>1. CASE i <= Used
    <3>1. i \in 1 .. Used
      BY <1>1, <2>1
    <3> QED
      BY <1>3, <2>1, <3>1 DEF Stored
  <2>2. CASE ~(i <= Used)
    <3>1. i \in Used + 1 .. Used + wlen /\ i - Used \in 1 .. wlen
      BY <1>1, <2>2
    <3> QED
      BY <1>4, <2>2, <3>1
  <2> QED
    BY <2>1, <2>2
<1>10. Stored' = both
  <2> HIDE DEF both, bytes
  <2> QED
    BY <1>7, <1>8, <1>9
<1> QED
  BY <1>1, <1>5, <1>10

\* A part of a sequence, as a function.
LEMMA PartOf ==
  ASSUME NEW s, NEW m \in Int, NEW n \in Int, m <= n + 1
  PROVE  SubSeq(s, m, n) = [i \in 1 .. n - m + 1 |-> s[m + i - 1]]
<1> DEFINE S == {s[i] : i \in m .. n}
           part == SubSeq(s, m, n)
<1>1. \A i \in m .. n : s[i] \in S
  OBVIOUS
<1> HIDE DEF S
<1>2. /\ part \in Seq(S) /\ Len(part) = n - m + 1
      /\ \A i \in 1 .. n - m + 1 : part[i] = s[m + i - 1]
  BY <1>1, SubSeqProperties
<1> HIDE DEF part
<1>3. part = [i \in 1 .. n - m + 1 |-> part[i]]
  BY <1>2
<1>4. part = [i \in 1 .. n - m + 1 |-> s[m + i - 1]]
  BY <1>2, <1>3
<1> QED
  BY <1>4 DEF part

\* Storing the callback's position removes what it copied from the front, and what
\* it copied is what was stored there.
LEMMA StoredShrinks ==
  ASSUME SoundIInv, ReadEnds
  PROVE  /\ take \in 1 .. Len(Stored) /\ take % Sample = 0
         /\ heard' = SubSeq(Stored, 1, take)
         /\ Stored' = SubSeq(Stored, take + 1, Len(Stored))
<1> USE SizeType
<1>1. /\ writepos \in 0 .. Size /\ readpos \in 0 .. Size /\ take \in 1 .. Used
      /\ take % Sample = 0 /\ buffer' = buffer /\ Used \in 0 .. Size - 1
  BY UsedIs DEF SoundIInv, SoundTypeOK, ReaderFits, ReadEnds, Reader
<1>2. Used' = Used - take /\ readpos' \in 0 .. Size
  BY UsedShrinks
<1>3. Len(Stored) = Used
  BY <1>1 DEF Stored
<1>4. heard' = SubSeq(Stored, 1, take)
  <2>1. heard' = [i \in 1 .. take |-> buffer[(readpos + i - 1) % Size]]
    BY DEF ReadEnds
  <2>2. SubSeq(Stored, 1, take) = [i \in 1 .. take - 1 + 1 |-> Stored[1 + i - 1]]
    BY <1>1, PartOf
  <2>3. take - 1 + 1 = take /\ \A i \in 1 .. take : 1 + i - 1 = i /\ i \in 1 .. Used
    BY <1>1
  <2>4. \A i \in 1 .. take : Stored[1 + i - 1] = buffer[(readpos + i - 1) % Size]
    BY <2>3 DEF Stored
  <2> QED
    BY <2>1, <2>2, <2>3, <2>4
<1>5. ASSUME NEW i \in 1 .. Used - take
      PROVE  (readpos' + i - 1) % Size = (readpos + (take + 1 + i - 1) - 1) % Size
  <2>1. readpos' = IF readpos + take > Size THEN readpos + take - Size ELSE readpos + take
    BY DEF ReadEnds, Advanced
  <2>2. /\ i - 1 \in 0 .. Size - 1 /\ take + i - 1 \in 0 .. Size - 1
        /\ readpos' + i - 1 = readpos' + (i - 1)
        /\ readpos + (take + 1 + i - 1) - 1 = readpos + (take + i - 1)
    BY <1>1, <1>2
  <2>3. (readpos' + (i - 1)) % Size = IF readpos' + (i - 1) < Size THEN readpos' + (i - 1)
                                      ELSE readpos' + (i - 1) - Size
    BY <1>2, <2>2, Place
  <2>4. (readpos + (take + i - 1)) % Size
          = IF readpos + (take + i - 1) < Size THEN readpos + (take + i - 1)
            ELSE readpos + (take + i - 1) - Size
    BY <1>1, <2>2, Place
  <2>5. (readpos' + (i - 1)) % Size = (readpos + (take + i - 1)) % Size
    BY <1>1, <1>2, <2>1, <2>3, <2>4
  <2> QED
    BY <2>2, <2>5
<1>6. Stored' = SubSeq(Stored, take + 1, Len(Stored))
  <2>1. Stored' = [i \in 1 .. Used - take |-> buffer[(readpos' + i - 1) % Size]]
    BY <1>1, <1>2 DEF Stored
  <2>2. SubSeq(Stored, take + 1, Used)
          = [i \in 1 .. Used - (take + 1) + 1 |-> Stored[take + 1 + i - 1]]
    BY <1>1, PartOf
  <2>3. Used - (take + 1) + 1 = Used - take
        /\ \A i \in 1 .. Used - take : take + 1 + i - 1 \in 1 .. Used
    BY <1>1
  <2>4. \A i \in 1 .. Used - take :
          Stored[take + 1 + i - 1] = buffer[(readpos' + i - 1) % Size]
    BY <1>5, <2>3 DEF Stored
  <2> QED
    BY <1>3, <2>1, <2>2, <2>3, <2>4
<1> QED
  BY <1>1, <1>3, <1>4, <1>6

LEMMA QueueInitially == SoundInit => Queue!QueueInit
<1> SUFFICES ASSUME SoundInit PROVE Queue!QueueInit
  OBVIOUS
<1>1. Used = 0
  BY SizeType, SoundInitIInv, UsedIs DEF SoundInit, SoundIInv
<1> QED
  BY <1>1 DEF SoundInit, Queue!QueueInit

LEMMA QueueStep ==
  ASSUME SoundIInv, [SoundNext]_soundVars
  PROVE  [Queue!QueueNext]_(Queue!queueVars)
<1>1. ASSUME UNCHANGED fifoVars, UNCHANGED <<sent, heard>>
      PROVE  UNCHANGED Queue!queueVars
  BY <1>1, StoredStays DEF Stored, Queue!queueVars
<1>2. CASE WriteEnds
  <2>1. PICK n \in 1 .. Size - 1 : n = wlen
    BY <1>2, SizeType, UsedIs DEF SoundIInv, SoundTypeOK, WriterFits, WriteEnds
  <2>2. n \in 1 .. Size - 1 - Len(Stored)
    BY <1>2, <2>1, StoredGrows
  <2>3. n <= Size - 1 - Len(Stored)
    BY <2>2, SizeType, StoredLength
  <2>4. Stored' = Stored \o [i \in 1 .. n |-> (sent + i - 1) % Word]
    BY <1>2, <2>1, StoredGrows
  <2>5. sent' = (sent + n) % Word /\ UNCHANGED heard
    BY <1>2, <2>1 DEF WriteEnds, readerVars
  <2>6. Queue!Write(n)
    BY <2>3, <2>4, <2>5 DEF Stored, Queue!Write
  <2> QED
    BY <2>6 DEF Queue!QueueNext
<1>3. CASE ReadEnds
  <2>1. PICK n \in 1 .. Size - 1 : n = take
    BY <1>3, SizeType, UsedIs DEF SoundIInv, SoundTypeOK, ReaderFits, ReadEnds
  <2>2. n \in 1 .. Len(Stored) /\ n % Sample = 0
    BY <1>3, <2>1, StoredShrinks
  <2>3. n <= Len(Stored)
    BY <2>2, StoredLength
  <2>4. heard' = SubSeq(Stored, 1, n) /\ Stored' = SubSeq(Stored, n + 1, Len(Stored))
    BY <1>3, <2>1, StoredShrinks
  <2>5. UNCHANGED sent
    BY <1>3 DEF ReadEnds, Reader, writerVars
  <2>6. Queue!Play(n)
    BY <2>2, <2>3, <2>4, <2>5 DEF Stored, Queue!Play
  <2> QED
    BY <2>6 DEF Queue!QueueNext
<1>4. CASE sound_lowlevel_end
  <2>1. Used' = 0
    BY <1>4, SizeType, UsedEmpty DEF sound_lowlevel_end
  <2>2. Queue!Flush
    BY <1>4, <2>1 DEF sound_lowlevel_end, Queue!Flush
  <2> QED
    BY <2>2 DEF Queue!QueueNext
<1>5. ASSUME NEW n \in Frames, sound_lowlevel_frame(n)
      PROVE  UNCHANGED fifoVars /\ UNCHANGED <<sent, heard>>
  BY <1>5 DEF sound_lowlevel_frame, readerVars
<1>6. CASE sound_lowlevel_init \/ WriteBegins \/ FrameEnds \/ UNCHANGED soundVars
  <2>1. UNCHANGED fifoVars /\ UNCHANGED <<sent, heard>>
    BY <1>6 DEF sound_lowlevel_init, WriteBegins, FrameEnds, soundVars, writerVars, readerVars
  <2> QED
    BY <1>1, <2>1
<1>7. CASE Callback \/ MeasuresAgain \/ MasksLength \/ ReadBegins
  <2>1. UNCHANGED fifoVars /\ UNCHANGED <<sent, heard>>
    BY <1>7 DEF Callback, MeasuresAgain, MasksLength, ReadBegins, Reader, fifoVars, writerVars
  <2> QED
    BY <1>1, <2>1
<1> QED
  BY <1>1, <1>2, <1>3, <1>4, <1>5, <1>6, <1>7 DEF SoundNext, Emulator, CallbackStep

\* The FIFO, written by one thread and read by another with no lock between them,
\* is a bounded queue: what sound_lowlevel_frame wrote is heard once, in order and
\* in whole samples.
THEOREM SoundIsQueue == SoundSpec => ImplementsQueue
  BY SoundInvariance, QueueInitially, QueueStep, PTL
  DEF SoundSpec, ImplementsQueue, Queue!QueueSpec

(******************************************************************************)
(* The recording.                                                             *)
(******************************************************************************)
-----------------------------------------------------------------------------
(* Multiples.                                                                 *)

Multiples(d) == {d * k : k \in Int}

LEMMA MultiplesClosed ==
  ASSUME NEW d \in Int, NEW m \in Multiples(d), NEW n \in Multiples(d)
  PROVE  m + n \in Multiples(d) /\ m - n \in Multiples(d) /\ m \in Int
<1>1. PICK i \in Int, j \in Int : m = d * i /\ n = d * j
  BY DEF Multiples
<1>2. /\ d * i + d * j = d * (i + j) /\ d * i - d * j = d * (i - j)
      /\ i + j \in Int /\ i - j \in Int /\ d * i \in Int
  OBVIOUS
<1> QED
  BY <1>1, <1>2 DEF Multiples

LEMMA MultiplesApart ==
  ASSUME NEW d \in Nat \ {0}, NEW m \in Multiples(d), m > 0
  PROVE  m >= d
<1>1. PICK k \in Int : m = d * k
  BY DEF Multiples
<1>2. \A i, j \in Nat : i * j \in Nat
  OBVIOUS
<1>3. k > 0
  <2> SUFFICES ASSUME k <= 0 PROVE FALSE
    BY <1>1
  <2>1. d * (0 - k) \in Nat
    BY <1>2
  <2>2. d * (0 - k) = 0 - d * k /\ d * k \in Int
    OBVIOUS
  <2> QED
    BY <1>1, <2>1, <2>2
<1>4. d * (k - 1) \in Nat
  BY <1>2, <1>3
<1>5. d * (k - 1) = d * k - d /\ d * k \in Int
  OBVIOUS
<1> QED
  BY <1>1, <1>4, <1>5

\* A multiple below another is a whole step below it.
LEMMA MultiplesBelow ==
  ASSUME NEW d \in Nat \ {0}, NEW m \in Multiples(d), NEW n \in Multiples(d), m < n
  PROVE  m + d <= n
<1>1. n - m \in Multiples(d) /\ m \in Int /\ n \in Int
  <2>1. d \in Int
    OBVIOUS
  <2> QED
    BY <2>1, MultiplesClosed, Zenon
<1>2. PICK e \in Multiples(d) : e = n - m
  BY <1>1
<1>3. e > 0
  BY <1>1, <1>2
<1>4. e >= d
  BY <1>3, MultiplesApart
<1> QED
  BY <1>1, <1>2, <1>4

LEMMA MultiplesOf ==
  ASSUME NEW d \in Int, NEW e \in Multiples(d), NEW m \in Multiples(e)
  PROVE  m \in Multiples(d)
<1>1. PICK i \in Int, j \in Int : e = d * i /\ m = e * j
  BY DEF Multiples
<1>2. (d * i) * j = d * (i * j) /\ i * j \in Int
  OBVIOUS
<1> QED
  BY <1>1, <1>2 DEF Multiples

LEMMA MultiplesAre ==
  ASSUME NEW d \in Nat \ {0}
  PROVE  /\ 0 \in Multiples(d) /\ d \in Multiples(d) /\ 2 * d \in Multiples(d)
         /\ \A n \in Nat : n % d = 0 => n \in Multiples(d)
         /\ \A n \in Nat : n % d \in 0 .. d - 1 /\ n % d <= n /\ n - (n % d) \in Multiples(d)
<1>1. 0 = d * 0 /\ d = d * 1 /\ 2 * d = d * 2
  OBVIOUS
<1>2. ASSUME NEW n \in Nat
      PROVE  n % d \in 0 .. d - 1 /\ n % d <= n /\ n - (n % d) \in Multiples(d)
  <2>1. n = d * (n \div d) + (n % d) /\ n \div d \in Int /\ n % d \in 0 .. d - 1
    OBVIOUS
  <2>2. n \div d >= 0
    OBVIOUS
  <2>3. \A i, j \in Nat : i * j \in Nat
    OBVIOUS
  <2>4. d * (n \div d) \in Nat
    BY <2>1, <2>2, <2>3
  <2> QED
    BY <2>1, <2>4 DEF Multiples
<1>3. ASSUME NEW n \in Nat, n % d = 0 PROVE n \in Multiples(d)
  BY <1>2, <1>3
<1> QED
  BY <1>1, <1>2, <1>3 DEF Multiples

\* Counting frames.
LEMMA OneMore ==
  ASSUME NEW d \in Nat \ {0}, NEW c \in 0 .. d - 1
  PROVE  (c + 1) % d = IF c + 1 < d THEN c + 1 ELSE 0
<1>1. c + 1 \in Nat /\ (c + 1) % d \in 0 .. d - 1
      /\ (c + 1) - ((c + 1) % d) \in Multiples(d) /\ (c + 1) % d <= c + 1
  <2>1. c + 1 \in Nat
    OBVIOUS
  <2> QED
    BY <2>1, MultiplesAre, Zenon
<1>2. CASE c + 1 < d
  <2>1. ~((c + 1) - ((c + 1) % d) > 0)
    <3> SUFFICES ASSUME (c + 1) - ((c + 1) % d) > 0 PROVE FALSE
      OBVIOUS
    <3>1. PICK e \in Multiples(d) : e = (c + 1) - ((c + 1) % d)
      BY <1>1
    <3>2. e >= d
      BY <3>1, MultiplesApart
    <3> QED
      BY <1>1, <1>2, <3>1, <3>2
  <2> QED
    BY <1>1, <1>2, <2>1
<1>3. CASE c + 1 = d
  <2>1. d - (d % d) \in Multiples(d) /\ d \in Multiples(d) /\ d % d \in 0 .. d - 1
    BY <1>1, <1>3, MultiplesAre
  <2>2. PICK e \in Multiples(d) : e = d - (d % d)
    BY <2>1
  <2>3. d - e \in Multiples(d) /\ d - e = d % d
    BY <2>1, <2>2, MultiplesClosed
  <2>4. PICK f \in Multiples(d) : f = d % d
    BY <2>3
  <2>5. ~(f > 0)
    BY <2>1, <2>4, MultiplesApart
  <2> QED
    BY <1>3, <2>1, <2>4, <2>5
<1> QED
  BY <1>2, <1>3

-----------------------------------------------------------------------------
(* Sets of places in the stream.                                              *)

LEMMA LeastOf ==
  ASSUME NEW A, A \subseteq Nat, A # {}
  PROVE  \E x \in A : \A y \in A : x <= y
<1>1. \E x \in A : \A y \in A : ~(<<y, x>> \in OpToRel(<, Nat))
  BY NatLessThanWellFounded, WFMin
<1>2. \A x, y \in Nat : ~(<<y, x>> \in OpToRel(<, Nat)) => x <= y
  BY DEF OpToRel
<1> QED
  BY <1>1, <1>2

\* Induction, with a set in place of a predicate.
LEMMA InductionOf ==
  ASSUME NEW S, 0 \in S, \A k \in Nat : k \in S => k + 1 \in S
  PROVE  Nat \subseteq S
<1> DEFINE B == Nat \ S
<1> SUFFICES ASSUME B # {} PROVE FALSE
  OBVIOUS
<1>1. PICK k \in B : \A j \in B : k <= j
  BY LeastOf
<1>2. k \in Nat /\ k \notin S /\ k # 0
  OBVIOUS
<1>3. k - 1 \in Nat /\ k - 1 \notin B /\ (k - 1) + 1 = k
  BY <1>1, <1>2
<1>4. k - 1 \in S
  BY <1>3
<1> QED
  BY <1>2, <1>3, <1>4

LEMMA GreatestOf ==
  ASSUME NEW n \in Nat, NEW A, A \subseteq 0 .. n, A # {}
  PROVE  \E x \in A : \A y \in A : y <= x
<1> DEFINE B == {n - x : x \in A}
<1>1. B \subseteq Nat /\ B # {}
  <2>1. \A x \in A : n - x \in Nat
    OBVIOUS
  <2> QED
    BY <2>1
<1>2. PICK b \in B : \A y \in B : b <= y
  BY <1>1, LeastOf
<1>3. PICK x \in A : b = n - x
  OBVIOUS
<1>4. ASSUME NEW y \in A PROVE y <= x
  <2>1. n - y \in B
    OBVIOUS
  <2>2. b <= n - y
    BY <1>2, <2>1
  <2> QED
    BY <1>3, <2>2
<1> QED
  BY <1>4

LEMMA MaxOf ==
  ASSUME NEW n \in Nat, NEW A, A \subseteq 0 .. n, A # {}
  PROVE  Max(A) \in A /\ \A y \in A : y <= Max(A)
<1>1. \E x \in A : \A y \in A : x >= y
  BY GreatestOf
<1> QED
  BY <1>1 DEF Max

\* Two of the set with none between them, and its last.
Adjacent(A, x, y) == x \in A /\ y \in A /\ x < y /\ \A z \in A : ~(x < z /\ z < y)
Newest(A, x) == x \in A /\ \A y \in A : y <= x

LEMMA Successor ==
  ASSUME NEW A, A \subseteq Nat, NEW x \in A, NEW y \in A, x < y
  PROVE  \E z \in A : Adjacent(A, x, z) /\ z <= y
<1> DEFINE B == {z \in A : x < z}
<1>1. PICK z \in B : \A b \in B : z <= b
  BY LeastOf
<1>2. ASSUME NEW b \in A, x < b PROVE z <= b
  BY <1>1, <1>2
<1> QED
  BY <1>1, <1>2 DEF Adjacent

LEMMA Predecessor ==
  ASSUME NEW n \in Nat, NEW A, A \subseteq 0 .. n, NEW x \in A, NEW y \in A, x < y
  PROVE  \E z \in A : Adjacent(A, z, y) /\ x <= z
<1> DEFINE B == {z \in A : z < y}
<1>1. PICK z \in B : \A b \in B : b <= z
  <2>1. B \subseteq 0 .. n /\ B # {}
    OBVIOUS
  <2> QED
    BY <2>1, GreatestOf
<1>2. ASSUME NEW b \in A, b < y PROVE b <= z
  BY <1>1, <1>2
<1> QED
  BY <1>1, <1>2 DEF Adjacent

\* What the code's numbers satisfy: the ages are multiples of the interval and of each
\* other.
LEMMA AgesAre ==
  /\ Interval \in Nat \ {0} /\ Ages \subseteq Nat \ {0}
  /\ \A age \in Ages : age \in Multiples(Interval) /\ Interval <= age
  /\ \A age, older \in Ages : age < older => older \in Multiples(age)
<1>1. Interval \in Nat \ {0} /\ Ages \subseteq Nat \ {0}
  BY RecordingAssumption
<1>2. ASSUME NEW age \in Ages PROVE age \in Multiples(Interval) /\ Interval <= age
  <2>1. age % Interval = 0 /\ age \in Nat /\ age > 0
    BY RecordingAssumption
  <2>2. age \in Multiples(Interval)
    BY <1>1, <2>1, MultiplesAre
  <2> QED
    BY <1>1, <2>1, <2>2, MultiplesApart
<1>3. ASSUME NEW age \in Ages, NEW older \in Ages, age < older PROVE older \in Multiples(age)
  <2>1. older % age = 0
    BY <1>3, RecordingAssumption
  <2> QED
    BY <1>1, <2>1, MultiplesAre
<1> QED
  BY <1>1, <1>2, <1>3

LEMMA SpacingIs ==
  ASSUME NEW age \in Nat
  PROVE  /\ Spacing(age) \in Nat /\ Spacing(age) >= Interval
         /\ Spacing(age) = Interval \/ (Spacing(age) \in Ages /\ Spacing(age) < age)
         /\ \A a \in Ages : a < age => a <= Spacing(age)
<1> DEFINE reached == {a \in Ages : a < age}
<1>1. Interval \in Nat /\ age + Interval \in Nat /\ Ages \subseteq Nat
  BY AgesAre
<1>2. {Interval} \cup reached \subseteq 0 .. (age + Interval)
  <2>1. \A a \in reached : a \in 0 .. (age + Interval)
    BY <1>1
  <2>2. Interval \in 0 .. (age + Interval)
    BY <1>1
  <2> QED
    BY <2>1, <2>2, Zenon
<1>3. /\ Spacing(age) \in {Interval} \cup reached
      /\ \A y \in {Interval} \cup reached : y <= Spacing(age)
  <2> DEFINE R == {Interval} \cup reached
  <2>1. R \subseteq 0 .. (age + Interval) /\ R # {}
    BY <1>2
  <2>2. Max(R) \in R /\ \A y \in R : y <= Max(R)
    <3> HIDE DEF R
    <3> QED
      BY <1>1, <2>1, MaxOf
  <2> QED
    BY <2>2 DEF Spacing
<1> HIDE DEF reached
<1>4. \A y \in reached : y \in Ages /\ y < age
  BY DEF reached
<1>5. \A a \in Ages : a < age => a \in reached
  BY DEF reached
<1> QED
  BY <1>1, <1>3, <1>4, <1>5

LEMMA SpacingGrows ==
  ASSUME NEW age \in Nat, NEW older \in Nat, age <= older
  PROVE  Spacing(age) <= Spacing(older)
<1>1. Interval \in Nat /\ Ages \subseteq Nat
  BY AgesAre
<1>2. Spacing(age) \in Nat /\ Spacing(older) \in Nat
  BY SpacingIs
<1>3. CASE Spacing(age) = Interval
  BY <1>3, SpacingIs
<1>4. CASE Spacing(age) \in Ages /\ Spacing(age) < age
  <2>1. Spacing(age) < older
    BY <1>2, <1>4
  <2> QED
    BY <1>4, <2>1, SpacingIs
<1> QED
  BY <1>3, <1>4, SpacingIs

-----------------------------------------------------------------------------
(* How the automatic snapshots are spaced: "A" is where they are, "now" the    *)
(* length of the stream, "c" the frames counted, "end" the longest it was.     *)

\* They are whole intervals apart, and the next comes after a whole one.
Punctual(A, now, c) == \A x \in A : x + c <= now /\ (now - x) - c \in Multiples(Interval)

\* None is closer to an older one than its age allows.
Sparse(A, now) ==
  \A x, y \in A : x < y => \A age \in Ages : now - y >= age => y - x >= age

\* Two neighbours, the last and the next that will come included, are less than twice
\* as far apart as they should be.
Loose(A, now, c, end) ==
  /\ \A x, y \in A : Adjacent(A, x, y) => y - x < 2 * Spacing(end - x)
  /\ \A x \in A : Newest(A, x) => (now - x) + Interval - c < 2 * Spacing(end - x)

\* Without rollbacks nothing is late: what has reached an age is whole ages from
\* everything older, and what has not is no further from its neighbour than that age.
Tight(A, now, c) ==
  /\ \A x \in A : Newest(A, x) => x + c = now
  /\ \A x, y \in A : x < y => \A age \in Ages : now - y >= age => y - x \in Multiples(age)
  /\ \A x, y \in A : Adjacent(A, x, y) =>
       /\ \A age \in Ages : now - y < age => y - x <= age
       /\ y - x <= Spacing(now - x)

Spaced(A, now, c, end, back) ==
  /\ Punctual(A, now, c) /\ Sparse(A, now)
  /\ IF back THEN Loose(A, now, c, end) ELSE end = now /\ Tight(A, now, c)

\* What autosave_prune leaves.
Pruned(A, now) ==
  {y \in A : ~(now - y \in Ages /\ \E x \in A : x < y /\ now - x < 2 * (now - y))}

LEMMA NoneSpaced ==
  ASSUME NEW now, NEW c, NEW end, NEW back \in BOOLEAN, back \/ end = now
  PROVE  Spaced({}, now, c, end, back)
BY DEF Spaced, Punctual, Sparse, Loose, Tight

LEMMA WholeIntervals ==
  ASSUME NEW now \in Nat, NEW A, A \subseteq 0 .. now, NEW c \in Nat, Punctual(A, now, c),
         NEW x \in A, NEW y \in A
  PROVE  y - x \in Multiples(Interval)
<1>1. x \in Int /\ y \in Int /\ now \in Int /\ c \in Int /\ Interval \in Int
  BY AgesAre
<1>2. PICK m \in Multiples(Interval), n \in Multiples(Interval) :
        m = (now - x) - c /\ n = (now - y) - c
  BY DEF Punctual
<1>3. m - n \in Multiples(Interval)
  BY <1>1, MultiplesClosed
<1>4. m - n = y - x
  BY <1>1, <1>2
<1> QED
  BY <1>3, <1>4

\* Between two snapshots no save reaches an age.
LEMMA NoneReaches ==
  ASSUME NEW now \in Nat, NEW A, A \subseteq 0 .. now, NEW c \in Nat, Punctual(A, now, c),
         c + 1 < Interval, NEW y \in A, NEW age \in Ages, (now + 1) - y >= age
  PROVE  now - y >= age
<1>1. y \in Int /\ now \in Int /\ c \in Int /\ Interval \in Nat \ {0} /\ age \in Nat
      /\ age \in Multiples(Interval)
  BY AgesAre
<1> SUFFICES ASSUME (now + 1) - y = age PROVE FALSE
  BY <1>1
<1>2. PICK m \in Multiples(Interval) : m = (now - y) - c
  BY DEF Punctual
<1>3. age - m \in Multiples(Interval) /\ age - m = c + 1
  <2>1. age - m \in Multiples(Interval)
    BY <1>1, MultiplesClosed
  <2> QED
    BY <1>1, <1>2, <2>1
<1>4. PICK e \in Multiples(Interval) : e = c + 1
  BY <1>3
<1>5. e >= Interval
  BY <1>1, <1>4, MultiplesApart
<1> QED
  BY <1>1, <1>4, <1>5

LEMMA TickSpaced ==
  ASSUME NEW now \in Nat, NEW A, A \subseteq 0 .. now, NEW c \in Nat, NEW end \in Nat,
         NEW back \in BOOLEAN, Spaced(A, now, c, end, back), now <= end,
         c + 1 < Interval, NEW later \in Nat, end <= later, back \/ later = now + 1
  PROVE  Spaced(A, now + 1, c + 1, later, back)
<1>1. Interval \in Nat /\ now \in Int /\ c \in Int /\ end \in Int /\ later \in Int
      /\ (\A x \in A : x \in Nat /\ x <= now)
  BY AgesAre
<1>2. Punctual(A, now, c) /\ Sparse(A, now)
  BY DEF Spaced
<1>3. Punctual(A, now + 1, c + 1)
  <2> SUFFICES ASSUME NEW x \in A
               PROVE  /\ x + (c + 1) <= now + 1
                      /\ ((now + 1) - x) - (c + 1) \in Multiples(Interval)
    BY DEF Punctual
  <2>1. x + c <= now /\ (now - x) - c \in Multiples(Interval)
    BY <1>2 DEF Punctual
  <2>2. ((now + 1) - x) - (c + 1) = (now - x) - c
    BY <1>1
  <2> QED
    BY <1>1, <2>1, <2>2
<1>4. \A y \in A : \A age \in Ages : (now + 1) - y >= age => now - y >= age
  BY <1>2, NoneReaches
<1>5. Sparse(A, now + 1)
  BY <1>2, <1>4 DEF Sparse
<1>6. \A x \in A : /\ end - x \in Nat /\ later - x \in Nat /\ Spacing(end - x) \in Nat
                   /\ Spacing(later - x) \in Nat /\ Spacing(end - x) <= Spacing(later - x)
  <2> SUFFICES ASSUME NEW x \in A
               PROVE  /\ end - x \in Nat /\ later - x \in Nat /\ Spacing(end - x) \in Nat
                      /\ Spacing(later - x) \in Nat /\ Spacing(end - x) <= Spacing(later - x)
    OBVIOUS
  <2>1. end - x \in Nat /\ later - x \in Nat /\ end - x <= later - x
    BY <1>1
  <2> QED
    BY <2>1, SpacingIs, SpacingGrows
<1>7. CASE back
  <2>1. Loose(A, now, c, end)
    BY <1>7 DEF Spaced
  <2>2. ASSUME NEW x \in A, NEW y \in A, Adjacent(A, x, y)
        PROVE  y - x < 2 * Spacing(later - x)
    <3>1. y - x < 2 * Spacing(end - x)
      BY <2>1, <2>2 DEF Loose
    <3> QED
      BY <1>1, <1>6, <3>1
  <2>3. ASSUME NEW x \in A, Newest(A, x)
        PROVE  ((now + 1) - x) + Interval - (c + 1) < 2 * Spacing(later - x)
    <3>1. (now - x) + Interval - c < 2 * Spacing(end - x)
      BY <2>1, <2>3 DEF Loose
    <3> QED
      BY <1>1, <1>6, <3>1
  <2> QED
    BY <1>3, <1>5, <1>7, <2>2, <2>3 DEF Spaced, Loose
<1>8. CASE ~back
  <2>1. Tight(A, now, c) /\ end = now /\ later = now + 1
    BY <1>8 DEF Spaced
  <2>2. \A x \in A : Newest(A, x) => x + (c + 1) = now + 1
    BY <1>1, <2>1 DEF Tight
  <2>3. \A x, y \in A : x < y =>
          \A age \in Ages : (now + 1) - y >= age => y - x \in Multiples(age)
    BY <1>4, <2>1 DEF Tight
  <2>4. ASSUME NEW x \in A, NEW y \in A, Adjacent(A, x, y)
        PROVE  /\ \A age \in Ages : (now + 1) - y < age => y - x <= age
               /\ y - x <= Spacing((now + 1) - x)
    <3>1. /\ \A age \in Ages : now - y < age => y - x <= age
          /\ y - x <= Spacing(now - x)
      BY <2>1, <2>4 DEF Tight
    <3>2. Ages \subseteq Nat
      BY AgesAre
    <3> QED
      BY <1>1, <1>6, <2>1, <3>1, <3>2
  <2>5. Tight(A, now + 1, c + 1)
    BY <2>2, <2>3, <2>4 DEF Tight
  <2> QED
    BY <1>3, <1>5, <1>8, <2>1, <2>5 DEF Spaced
<1> QED
  BY <1>7, <1>8

\* The same with a snapshot just taken: what reaches an age on this frame has not been
\* looked at.
Unpruned(A, now, end, back) ==
  /\ now \in A /\ \A x \in A : now - x \in Multiples(Interval)
  /\ \A x, y \in A : x < y => \A age \in Ages : now - y > age => y - x >= age
  /\ IF back
     THEN \A x, y \in A : Adjacent(A, x, y) => y - x < 2 * Spacing(end - x)
     ELSE /\ end = now
          /\ \A x, y \in A : x < y =>
               \A age \in Ages : now - y > age => y - x \in Multiples(age)
          /\ \A x, y \in A : Adjacent(A, x, y) =>
               /\ \A age \in Ages : now - y <= age => y - x <= age
               /\ y - x <= Spacing(now - x)

LEMMA SaveUnpruned ==
  ASSUME NEW now \in Nat, NEW A, A \subseteq 0 .. now, NEW c \in Nat, NEW end \in Nat,
         NEW back \in BOOLEAN, Spaced(A, now, c, end, back), now <= end,
         c + 1 = Interval, NEW later \in Nat, end <= later, now + 1 <= later,
         back \/ later = now + 1
  PROVE  Unpruned(A \cup {now + 1}, now + 1, later, back)
<1> DEFINE t == now + 1
           B == A \cup {t}
<1>1. /\ Interval \in Nat /\ Interval > 0 /\ now \in Int /\ c \in Int /\ end \in Int
      /\ later \in Int /\ Ages \subseteq Nat /\ t \in Nat /\ t = now + 1
      /\ \A age \in Ages : age > 0 /\ Interval <= age
      /\ \A x \in A : x \in Nat /\ x <= now
  BY AgesAre
<1>2. t \in B /\ \A x \in B : x \in Nat /\ x <= t /\ (x \in A \/ x = t)
  BY <1>1
<1>3. Punctual(A, now, c) /\ Sparse(A, now)
  BY DEF Spaced
<1>4. \A x \in B : x # t => x \in A
  OBVIOUS
<1>5. ASSUME NEW x \in B, NEW y \in B, x < y PROVE x \in A /\ (y \in A \/ y = t)
  BY <1>1, <1>2, <1>5
<1>6. ASSUME NEW x \in B, NEW y \in A, Adjacent(B, x, y) PROVE x \in A /\ Adjacent(A, x, y)
  <2>1. x < y /\ \A z \in B : ~(x < z /\ z < y)
    BY <1>6 DEF Adjacent
  <2> QED
    BY <1>5, <2>1 DEF Adjacent
<1>7. ASSUME NEW x \in B, Adjacent(B, x, t) PROVE x \in A /\ Newest(A, x)
  <2>1. x < t /\ \A z \in B : ~(x < z /\ z < t)
    BY <1>7 DEF Adjacent
  <2>2. x \in A
    BY <1>2, <1>5, <2>1
  <2>3. ASSUME NEW z \in A PROVE z <= x
    BY <1>1, <1>2, <2>1
  <2> QED
    BY <2>2, <2>3 DEF Newest
<1> HIDE DEF B
<1>8. \A x \in B : t - x \in Multiples(Interval)
  <2> SUFFICES ASSUME NEW x \in B PROVE t - x \in Multiples(Interval)
    OBVIOUS
  <2>1. CASE x = t
    <3>1. t - x = 0
      BY <1>1, <2>1
    <3> QED
      BY <1>1, <3>1, MultiplesAre
  <2>2. CASE x \in A
    <3>1. PICK m \in Multiples(Interval) : m = (now - x) - c
      BY <1>3, <2>2 DEF Punctual
    <3>2. m + Interval \in Multiples(Interval)
      BY <1>1, MultiplesAre, MultiplesClosed
    <3>3. m + Interval = t - x
      BY <1>1, <2>2, <3>1
    <3> QED
      BY <3>2, <3>3
  <2> QED
    BY <1>2, <2>1, <2>2
<1>9. ASSUME NEW x \in B, NEW y \in B, x < y, NEW age \in Ages, t - y > age
      PROVE  x \in A /\ y \in A /\ now - y >= age
  BY <1>1, <1>2, <1>5, <1>9
<1>10. \A x, y \in B : x < y => \A age \in Ages : t - y > age => y - x >= age
  BY <1>3, <1>9 DEF Sparse
<1>11. ASSUME NEW x \in A
       PROVE  /\ later - x \in Nat /\ end - x \in Nat /\ end - x <= later - x
              /\ Spacing(end - x) \in Nat /\ Spacing(later - x) \in Nat
              /\ Spacing(end - x) <= Spacing(later - x)
              /\ Spacing(later - x) >= Interval
  <2>1. end - x \in Nat /\ later - x \in Nat /\ end - x <= later - x
    BY <1>1
  <2> QED
    BY <2>1, SpacingIs, SpacingGrows
<1>12. CASE back
  <2>1. Loose(A, now, c, end)
    BY <1>12 DEF Spaced
  <2>2. ASSUME NEW x \in B, NEW y \in B, Adjacent(B, x, y)
        PROVE  y - x < 2 * Spacing(later - x)
    <3>1. CASE y \in A
      <4>1. x \in A /\ y - x < 2 * Spacing(end - x)
        BY <1>6, <2>1, <2>2, <3>1 DEF Loose
      <4> QED
        BY <1>1, <1>11, <3>1, <4>1
    <3>2. CASE y = t
      <4>1. x \in A /\ Newest(A, x)
        BY <1>7, <2>2, <3>2
      <4>2. (now - x) + Interval - c < 2 * Spacing(end - x)
        BY <2>1, <4>1 DEF Loose
      <4> QED
        BY <1>1, <1>11, <3>2, <4>1, <4>2
    <3> QED
      BY <1>2, <3>1, <3>2
  <2>3. Unpruned(B, t, later, back)
    BY <1>2, <1>8, <1>10, <1>12, <2>2 DEF Unpruned
  <2> QED
    BY <2>3 DEF B
<1>13. CASE ~back
  <2>1. Tight(A, now, c) /\ end = now /\ later = t
    BY <1>13 DEF Spaced
  <2>2. \A x, y \in B : x < y => \A age \in Ages : t - y > age => y - x \in Multiples(age)
    BY <1>9, <2>1 DEF Tight
  <2>3. ASSUME NEW x \in B, NEW y \in B, Adjacent(B, x, y)
        PROVE  /\ \A age \in Ages : t - y <= age => y - x <= age
               /\ y - x <= Spacing(t - x)
    <3>1. CASE y \in A
      <4>1. x \in A /\ (\A age \in Ages : now - y < age => y - x <= age)
            /\ y - x <= Spacing(now - x)
        BY <1>6, <2>1, <2>3, <3>1 DEF Tight
      <4>2. \A age \in Ages : t - y <= age => now - y < age
        BY <1>1, <3>1
      <4>3. y - x <= Spacing(t - x)
        BY <1>1, <1>11, <2>1, <3>1, <4>1
      <4> QED
        BY <4>1, <4>2, <4>3
    <3>2. CASE y = t
      <4>1. x \in A /\ x + c = now
        BY <1>7, <2>1, <2>3, <3>2 DEF Tight
      <4>2. y - x = Interval
        BY <1>1, <3>2, <4>1
      <4> QED
        BY <1>1, <1>11, <2>1, <4>1, <4>2
    <3> QED
      BY <1>2, <3>1, <3>2
  <2>4. Unpruned(B, t, later, back)
    BY <1>2, <1>8, <1>10, <1>13, <2>1, <2>2, <2>3 DEF Unpruned
  <2> QED
    BY <2>4 DEF B
<1> QED
  BY <1>12, <1>13

-----------------------------------------------------------------------------
(* autosave_prune keeps the spacing.                                           *)

LEMMA NotPruned ==
  ASSUME NEW now \in Nat, NEW A, A \subseteq 0 .. now, NEW y \in Pruned(A, now),
         now - y \in Ages, NEW x \in A, x < y
  PROVE  now - x >= 2 * (now - y) /\ y - x >= now - y
<1>1. x \in Int /\ y \in Int /\ now \in Int
  BY DEF Pruned
<1>2. ~(now - x < 2 * (now - y))
  BY DEF Pruned
<1> QED
  BY <1>1, <1>2

\* Whatever goes has a younger neighbour that is closer than the age it has reached,
\* and an older one too.
LEMMA PrunedNeighbour ==
  ASSUME NEW now \in Nat, NEW A, A \subseteq 0 .. now, NEW x \in Pruned(A, now),
         NEW y \in A, Adjacent(A, x, y), y \notin Pruned(A, now)
  PROVE  now - y \in Ages /\ now - x < 2 * (now - y)
<1>1. PICK z \in A : z < y /\ now - z < 2 * (now - y) /\ now - y \in Ages
  BY DEF Pruned
<1>2. z <= x /\ x \in Int /\ z \in Int /\ y \in Int /\ now \in Int
  BY <1>1 DEF Adjacent, Pruned
<1> QED
  BY <1>1, <1>2

LEMMA PruneSparse ==
  ASSUME NEW now \in Nat, NEW A, A \subseteq 0 .. now, NEW end, NEW back,
         Unpruned(A, now, end, back)
  PROVE  Punctual(Pruned(A, now), now, 0) /\ Sparse(Pruned(A, now), now)
<1> DEFINE P == Pruned(A, now)
<1>1. (\A x \in P : x \in A /\ x \in Nat /\ x <= now) /\ Ages \subseteq Nat /\ now \in Int
      /\ \A x \in A : x \in Nat /\ x <= now
  BY AgesAre DEF Pruned
<1>2. Punctual(P, now, 0)
  <2> SUFFICES ASSUME NEW x \in P PROVE x + 0 <= now /\ (now - x) - 0 \in Multiples(Interval)
    BY DEF Punctual
  <2>1. (now - x) - 0 = now - x /\ x + 0 = x
    BY <1>1
  <2> QED
    BY <1>1, <2>1 DEF Unpruned
<1>3. ASSUME NEW x \in P, NEW y \in P, x < y, NEW age \in Ages, now - y >= age
      PROVE  y - x >= age
  <2>1. CASE now - y = age
    <3>1. x \in A /\ now - y \in Ages
      BY <1>1, <2>1
    <3>2. y - x >= now - y
      BY <1>3, <3>1, NotPruned
    <3> QED
      BY <1>1, <2>1, <3>2
  <2>2. CASE now - y > age
    BY <1>1, <1>3, <2>2 DEF Unpruned
  <2> QED
    BY <1>1, <1>3, <2>1, <2>2
<1> QED
  BY <1>2, <1>3 DEF Sparse

LEMMA PruneLoose ==
  ASSUME NEW now \in Nat, NEW A, A \subseteq 0 .. now, NEW end \in Nat, now <= end,
         Unpruned(A, now, end, TRUE)
  PROVE  Loose(Pruned(A, now), now, 0, end)
<1> DEFINE P == Pruned(A, now)
<1>1. (\A x \in P : x \in A /\ x \in Nat /\ x <= now) /\ Ages \subseteq Nat \ {0} /\ now \in Int /\ end \in Int /\ now \in A
      /\ A \subseteq Nat /\ Interval \in Nat /\ Interval > 0
      /\ \A x \in A : x \in Nat /\ x <= now
  BY AgesAre DEF Pruned, Unpruned
<1>2. now \in P
  BY <1>1 DEF Pruned
<1>3. ASSUME NEW x \in A
      PROVE  end - x \in Nat /\ Spacing(end - x) \in Nat /\ Spacing(end - x) >= Interval
             /\ \A age \in Ages : age < end - x => age <= Spacing(end - x)
  <2>1. end - x \in Nat
    BY <1>1
  <2> QED
    BY <2>1, SpacingIs
<1>4. ASSUME NEW x \in P, NEW y \in P, Adjacent(P, x, y)
      PROVE  y - x < 2 * Spacing(end - x)
  <2>1. x < y /\ x \in A /\ y \in A
    BY <1>1, <1>4 DEF Adjacent
  <2>2. PICK z \in A : Adjacent(A, x, z) /\ z <= y
    BY <1>1, <2>1, Successor
  <2>3. CASE z \in P
    <3>1. z = y
      BY <1>1, <1>4, <2>1, <2>2, <2>3 DEF Adjacent
    <3> QED
      BY <2>1, <2>2, <3>1 DEF Unpruned
  <2>4. CASE z \notin P
    <3>1. now - z \in Ages /\ now - x < 2 * (now - z)
      BY <2>2, <2>4, PrunedNeighbour
    <3>2. now - z < end - x
      BY <1>1, <2>1, <2>2 DEF Adjacent
    <3>3. now - z <= Spacing(end - x)
      BY <1>3, <2>1, <3>1, <3>2
    <3> QED
      BY <1>1, <1>3, <2>1, <3>1, <3>3
  <2> QED
    BY <2>3, <2>4
<1>5. ASSUME NEW x \in P, Newest(P, x)
      PROVE  (now - x) + Interval - 0 < 2 * Spacing(end - x)
  <2>1. x = now
    BY <1>1, <1>2, <1>5 DEF Newest
  <2> QED
    BY <1>1, <1>3, <2>1
<1> QED
  BY <1>4, <1>5 DEF Loose

\* Without rollbacks: a save s that goes, p before it, u after it.  The gaps are multiples
\* of the next smaller age, so together they are no wider than the age that s has reached.
LEMMA PrunedBetween ==
  ASSUME NEW now \in Nat, NEW A, A \subseteq 0 .. now, NEW end,
         Unpruned(A, now, end, FALSE),
         NEW p \in Pruned(A, now), NEW s \in A, Adjacent(A, p, s), s \notin Pruned(A, now),
         NEW u \in A, Adjacent(A, s, u)
  PROVE  /\ u \in Pruned(A, now)
         /\ now - s \in Ages /\ now - s < now - p /\ u - p <= now - s
         /\ \A age \in Ages : now - u < age => now - s <= age
<1> DEFINE a == now - s
           b == Spacing(a)
<1>1. p \in A /\ p < s /\ s < u /\ now \in Int
      /\ (\A x \in A : x \in Nat /\ x <= now)
  BY DEF Adjacent, Pruned
<1>2. a \in Ages /\ now - p < 2 * a
  BY PrunedNeighbour
<1>3. /\ Interval \in Nat \ {0} /\ Ages \subseteq Nat \ {0} /\ a \in Nat /\ a = now - s
      /\ p \in Int /\ s \in Int /\ u \in Int
  BY <1>1, <1>2, AgesAre
<1>4. /\ b \in Nat /\ b >= Interval /\ (b = Interval \/ (b \in Ages /\ b < a))
      /\ \A age \in Ages : age < a => age <= b
  BY <1>3, SpacingIs
<1>5. u - s <= b
  BY DEF Unpruned
<1>6. s - p < a /\ s - p > 0
  BY <1>1, <1>2, <1>3
<1>7. s - p \in Multiples(b)
  <2>1. CASE b \in Ages /\ b < a
    BY <1>1, <2>1 DEF Unpruned
  <2>2. CASE b = Interval
    <3>1. PICK m \in Multiples(Interval), n \in Multiples(Interval) : m = now - p /\ n = now - s
      BY <1>1 DEF Unpruned
    <3>2. m - n \in Multiples(Interval)
      BY <1>3, MultiplesClosed
    <3> QED
      BY <1>1, <1>3, <2>2, <3>1, <3>2
  <2> QED
    BY <1>4, <2>1, <2>2
<1>8. a \in Multiples(b)
  BY <1>2, <1>4, AgesAre
<1>9. b \in Nat \ {0}
  BY <1>3, <1>4
<1> HIDE DEF a, b
<1>10. (s - p) + b <= a /\ b <= s - p
  <2>1. PICK m \in Multiples(b) : m = s - p
    BY <1>7
  <2>2. m + b <= a
    BY <1>6, <1>8, <1>9, <2>1, MultiplesBelow
  <2>3. m >= b
    BY <1>6, <1>9, <2>1, MultiplesApart
  <2> QED
    BY <2>1, <2>2, <2>3
<1>11. now - u = a - (u - s) /\ now - u >= b /\ now - u < a
  BY <1>1, <1>3, <1>4, <1>5, <1>10
<1>12. u \in Pruned(A, now)
  <2> SUFFICES ASSUME u \notin Pruned(A, now) PROVE FALSE
    OBVIOUS
  <2>1. PICK z \in A : z < u /\ now - z < 2 * (now - u) /\ now - u \in Ages
    BY DEF Pruned
  <2>2. z <= s
    BY <1>1, <2>1 DEF Adjacent
  <2>3. now - u <= b
    BY <1>4, <1>11, <2>1
  <2>4. z \in Int
    BY <1>1
  <2> QED
    BY <1>1, <1>3, <1>4, <1>5, <1>10, <1>11, <2>1, <2>2, <2>3, <2>4
<1>13. u - p <= a
  BY <1>3, <1>4, <1>5, <1>10
<1>14. ASSUME NEW age \in Ages, now - u < age PROVE a <= age
  <2>1. ~(age < a)
    BY <1>1, <1>3, <1>4, <1>11, <1>14
  <2> QED
    BY <1>3, <2>1
<1> QED
  BY <1>1, <1>2, <1>3, <1>12, <1>13, <1>14

LEMMA PruneTight ==
  ASSUME NEW now \in Nat, NEW A, A \subseteq 0 .. now, NEW end,
         Unpruned(A, now, end, FALSE)
  PROVE  Tight(Pruned(A, now), now, 0)
<1> DEFINE P == Pruned(A, now)
<1>1. (\A x \in P : x \in A /\ x \in Nat /\ x <= now) /\ Ages \subseteq Nat \ {0} /\ now \in Int /\ now \in A
      /\ A \subseteq Nat /\ Interval \in Nat /\ Interval > 0
      /\ \A x \in A : x \in Nat /\ x <= now
  BY AgesAre DEF Pruned, Unpruned
<1>2. now \in P
  BY <1>1 DEF Pruned
<1>3. \A x \in P : Newest(P, x) => x + 0 = now
  BY <1>1, <1>2 DEF Newest
<1>4. ASSUME NEW x \in P, NEW y \in P, x < y, NEW age \in Ages, now - y >= age
      PROVE  y - x \in Multiples(age)
  <2>1. x \in A /\ y \in A /\ x \in Int /\ y \in Int /\ age \in Nat \ {0}
    BY <1>1
  <2>2. CASE now - y > age
    BY <1>4, <2>1, <2>2 DEF Unpruned
  <2>3. CASE now - y = age
    <3>1. PICK z \in A : Adjacent(A, z, y) /\ x <= z
      BY <1>4, <2>1, Predecessor
    <3>2. z < y /\ z \in Int
      BY <1>1, <3>1 DEF Adjacent
    <3>3. y - z <= age
      BY <1>1, <2>3, <3>1 DEF Unpruned
    <3>4. y - z >= age
      BY <2>3, <3>2, NotPruned
    <3>5. y - z = age /\ now - z > age
      BY <1>1, <2>1, <2>3, <3>2, <3>3, <3>4
    <3>6. age \in Multiples(age)
      BY <2>1, MultiplesAre
    <3>7. CASE x = z
      BY <3>5, <3>6, <3>7
    <3>8. CASE x < z
      <4>1. PICK m \in Multiples(age) : m = z - x
        BY <2>1, <3>5, <3>8 DEF Unpruned
      <4>2. m + age \in Multiples(age)
        BY <2>1, <3>6, MultiplesClosed
      <4> QED
        BY <2>1, <3>2, <3>5, <4>1, <4>2
    <3> QED
      BY <2>1, <3>1, <3>2, <3>7, <3>8
  <2> QED
    BY <1>1, <1>4, <2>1, <2>2, <2>3
<1>5. ASSUME NEW x \in P, NEW y \in P, Adjacent(P, x, y)
      PROVE  /\ \A age \in Ages : now - y < age => y - x <= age
             /\ y - x <= Spacing(now - x)
  <2>1. x < y /\ x \in A /\ y \in A /\ x \in Int /\ y \in Int
    BY <1>1, <1>5 DEF Adjacent
  <2>2. PICK s \in A : Adjacent(A, x, s) /\ s <= y
    BY <1>1, <2>1, Successor
  <2>3. CASE s \in P
    <3>1. s = y
      BY <1>1, <1>5, <2>1, <2>2, <2>3 DEF Adjacent
    <3>2. \A age \in Ages : now - y < age => now - y <= age
      BY <1>1, <2>1
    <3> QED
      BY <2>1, <2>2, <3>1, <3>2 DEF Unpruned
  <2>4. CASE s \notin P
    <3>1. s < y /\ s \in Int
      BY <1>1, <2>1, <2>2, <2>4
    <3>2. PICK u \in A : Adjacent(A, s, u) /\ u <= y
      BY <1>1, <2>1, <3>1, Successor
    <3>3. /\ u \in P /\ now - s \in Ages /\ now - s < now - x /\ u - x <= now - s
          /\ \A age \in Ages : now - u < age => now - s <= age
      BY <2>2, <2>4, <3>2, PrunedBetween
    <3>4. u = y
      BY <1>1, <1>5, <2>1, <2>2, <3>2, <3>3 DEF Adjacent
    <3>5. now - x \in Nat
      BY <1>1, <2>1
    <3>6. Spacing(now - x) \in Nat /\ now - s <= Spacing(now - x)
      BY <3>3, <3>5, SpacingIs
    <3> QED
      BY <1>1, <2>1, <3>1, <3>3, <3>4, <3>6
  <2> QED
    BY <2>3, <2>4
<1> QED
  BY <1>3, <1>4, <1>5 DEF Tight

LEMMA PruneSpaced ==
  ASSUME NEW now \in Nat, NEW A, A \subseteq 0 .. now, NEW end \in Nat, now <= end,
         NEW back \in BOOLEAN, Unpruned(A, now, end, back)
  PROVE  Spaced(Pruned(A, now), now, 0, end, back)
<1>1. Punctual(Pruned(A, now), now, 0) /\ Sparse(Pruned(A, now), now)
  BY PruneSparse
<1>2. CASE back
  <2>1. Unpruned(A, now, end, TRUE)
    BY <1>2
  <2>2. Loose(Pruned(A, now), now, 0, end)
    BY <2>1, PruneLoose
  <2> QED
    BY <1>1, <1>2, <2>2 DEF Spaced
<1>3. CASE ~back
  <2>1. Unpruned(A, now, end, FALSE) /\ end = now
    BY <1>3 DEF Unpruned
  <2>2. Tight(Pruned(A, now), now, 0)
    BY <2>1, PruneTight
  <2> QED
    BY <1>1, <1>3, <2>1, <2>2 DEF Spaced
<1> QED
  BY <1>2, <1>3

-----------------------------------------------------------------------------
(* Rollbacks.                                                                 *)

LEMMA SpacedLoose ==
  ASSUME NEW now \in Nat, NEW A, A \subseteq 0 .. now, NEW c \in Nat, NEW end \in Nat,
         NEW back \in BOOLEAN, Spaced(A, now, c, end, back), now <= end
  PROVE  Loose(A, now, c, end)
<1>1. CASE back
  BY <1>1 DEF Spaced
<1>2. CASE ~back
  <2>1. Tight(A, now, c) /\ end = now
    BY <1>2 DEF Spaced
  <2>2. ASSUME NEW x \in A
        PROVE  /\ x \in Nat /\ end - x \in Nat /\ Spacing(end - x) \in Nat
               /\ Spacing(end - x) >= Interval /\ Interval \in Nat /\ Interval > 0
    <3>1. x \in Nat /\ end - x \in Nat
      BY <2>1
    <3> QED
      BY <3>1, SpacingIs, AgesAre
  <2>3. ASSUME NEW x \in A, NEW y \in A, Adjacent(A, x, y)
        PROVE  y - x < 2 * Spacing(end - x)
    <3>1. y - x <= Spacing(end - x)
      BY <2>1, <2>3 DEF Tight
    <3> QED
      BY <2>2, <3>1
  <2>4. ASSUME NEW x \in A, Newest(A, x)
        PROVE  (now - x) + Interval - c < 2 * Spacing(end - x)
    <3>1. x + c = now
      BY <2>1, <2>4 DEF Tight
    <3> QED
      BY <2>2, <3>1
  <2> QED
    BY <2>3, <2>4 DEF Loose
<1> QED
  BY <1>1, <1>2

LEMMA CutSpaced ==
  ASSUME NEW now \in Nat, NEW A, A \subseteq 0 .. now, NEW c \in Nat, NEW end \in Nat,
         NEW back \in BOOLEAN, Spaced(A, now, c, end, back), now <= end, c < Interval,
         NEW to \in 0 .. now, NEW B, B = {x \in A : x <= to}, NEW d \in Nat,
         \A x \in B : Newest(B, x) => d = (to - x) % Interval
  PROVE  Spaced(B, to, d, end, TRUE)
<1>1. /\ Interval \in Nat \ {0} /\ now \in Int /\ to \in Int /\ end \in Int /\ c \in Int
      /\ \A x \in B : x \in A /\ x \in Nat /\ x <= to /\ x <= now
      /\ \A x \in A : x <= to => x \in B
      /\ \A x \in A : x \in Nat
  BY AgesAre
<1>2. Punctual(A, now, c) /\ Sparse(A, now) /\ Loose(A, now, c, end)
  BY SpacedLoose DEF Spaced
<1>3. ASSUME NEW x \in B, Newest(B, x)
      PROVE  d <= to - x /\ (to - x) - d \in Multiples(Interval)
  <2>1. to - x \in Nat /\ d = (to - x) % Interval
    BY <1>1, <1>3
  <2> QED
    BY <1>1, <2>1, MultiplesAre
<1>4. ASSUME NEW x \in B
      PROVE  x + d <= to /\ (to - x) - d \in Multiples(Interval)
  <2>1. B \subseteq 0 .. to /\ B # {}
    <3>1. \A y \in B : y \in 0 .. to
      BY <1>1
    <3> QED
      BY <3>1, Zenon
  <2>2. PICK l \in B : Newest(B, l)
    BY <2>1, GreatestOf DEF Newest
  <2>3. d <= to - l /\ (to - l) - d \in Multiples(Interval)
    BY <1>3, <2>2
  <2>4. x <= l /\ x \in Int /\ l \in Int /\ x \in A /\ l \in A
    BY <1>1, <2>2 DEF Newest
  <2>5. PICK m \in Multiples(Interval), n \in Multiples(Interval) : m = (to - l) - d /\ n = l - x
    BY <1>2, <2>3, <2>4, WholeIntervals
  <2>6. m + n \in Multiples(Interval)
    BY <1>1, MultiplesClosed
  <2>7. m + n = (to - x) - d
    BY <1>1, <2>4, <2>5
  <2> QED
    BY <1>1, <2>3, <2>4, <2>6, <2>7
<1>5. Sparse(B, to)
  <2> SUFFICES ASSUME NEW x \in B, NEW y \in B, x < y, NEW age \in Ages, to - y >= age
               PROVE  y - x >= age
    BY DEF Sparse
  <2>1. now - y >= age
    BY <1>1, AgesAre
  <2> QED
    BY <1>1, <1>2, <2>1 DEF Sparse
<1>6. ASSUME NEW x \in B, NEW y \in B, Adjacent(B, x, y)
      PROVE  y - x < 2 * Spacing(end - x)
  <2>1. Adjacent(A, x, y)
    <3>1. x < y /\ \A z \in B : ~(x < z /\ z < y)
      BY <1>6 DEF Adjacent
    <3>2. ASSUME NEW z \in A, x < z, z < y PROVE FALSE
      <4>1. z \in B
        BY <1>1, <3>2
      <4> QED
        BY <3>1, <3>2, <4>1
    <3> QED
      BY <1>1, <3>1, <3>2 DEF Adjacent
  <2> QED
    BY <1>1, <1>2, <2>1 DEF Loose
<1>7. ASSUME NEW x \in B, Newest(B, x)
      PROVE  (to - x) + Interval - d < 2 * Spacing(end - x)
  <2>1. x \in A /\ x \in Int /\ x <= to
    BY <1>1
  <2>2. end - x \in Nat /\ Spacing(end - x) \in Nat
    <3>1. end - x \in Nat
      BY <1>1
    <3> QED
      BY <3>1, SpacingIs
  <2>3. PICK m \in Multiples(Interval) : m = (to - x) - d
    BY <1>3, <1>7
  <2>4. CASE Newest(A, x)
    <3>1. (now - x) + Interval - c < 2 * Spacing(end - x)
      BY <1>2, <2>1, <2>4 DEF Loose
    <3>2. PICK n \in Multiples(Interval) : n = (now - x) - c
      BY <1>2, <2>1 DEF Punctual
    <3>3. PICK o \in Multiples(Interval) : o = n + Interval
      BY <1>1, MultiplesAre, MultiplesClosed
    <3>4. m < o
      BY <1>1, <2>1, <2>3, <3>2, <3>3
    <3>5. m + Interval <= o
      BY <1>1, <3>4, MultiplesBelow
    <3> QED
      BY <1>1, <2>1, <2>2, <2>3, <3>1, <3>2, <3>3, <3>5
  <2>5. CASE ~Newest(A, x)
    <3>1. PICK y \in A : x < y
      BY <1>1, <2>1, <2>5 DEF Newest
    <3>2. A \subseteq Nat
      BY <1>1
    <3>3. PICK z \in A : Adjacent(A, x, z)
      BY <2>1, <3>1, <3>2, Successor
    <3>4. z - x < 2 * Spacing(end - x) /\ x < z /\ z \in Int
      BY <1>1, <1>2, <2>1, <3>3 DEF Loose, Adjacent
    <3>5. z > to
      <4>1. z \notin B
        BY <1>1, <1>7, <3>4 DEF Newest
      <4> QED
        BY <1>1, <3>4, <4>1
    <3>6. PICK n \in Multiples(Interval) : n = z - x
      BY <1>2, <2>1, WholeIntervals
    <3>7. m + Interval <= n
      BY <1>1, <2>1, <2>3, <3>4, <3>5, <3>6, MultiplesBelow
    <3> QED
      BY <1>1, <2>1, <2>2, <2>3, <3>4, <3>6, <3>7
  <2> QED
    BY <2>4, <2>5
<1>8. Punctual(B, to, d) /\ Loose(B, to, d, end)
  BY <1>4, <1>6, <1>7 DEF Punctual, Loose
<1> QED
  BY <1>5, <1>8 DEF Spaced

-----------------------------------------------------------------------------
(* The stream.                                                                *)

\* The loop that deletes, after i snapshots.
Step(stream, doomed, f, i) ==
  IF i = 0 THEN <<>>
  ELSE IF stream[i] \in doomed THEN f[i - 1] ELSE Append(f[i - 1], stream[i])

LEMMA LoopExists ==
  ASSUME NEW stream, NEW doomed, NEW n \in Nat
  PROVE  \E f : f = [i \in 0 .. n |-> Step(stream, doomed, f, i)]
<1> DEFINE Has(k) == \E f : f = [i \in 0 .. k |-> Step(stream, doomed, f, i)]
<1>1. Has(0)
  <2> DEFINE f == [i \in 0 .. 0 |-> <<>>]
  <2>1. \A i \in 0 .. 0 : Step(stream, doomed, f, i) = <<>>
    BY DEF Step
  <2>2. f = [i \in 0 .. 0 |-> Step(stream, doomed, f, i)]
    BY <2>1
  <2> QED
    BY <2>2
<1>2. ASSUME NEW k \in Nat, Has(k) PROVE Has(k + 1)
  <2>1. PICK g : g = [i \in 0 .. k |-> Step(stream, doomed, g, i)]
    BY <1>2
  <2> DEFINE f == [i \in 0 .. k + 1 |-> IF i \in 0 .. k THEN g[i] ELSE Step(stream, doomed, g, k + 1)]
  <2>2. \A i \in 0 .. k : f[i] = g[i] /\ g[i] = Step(stream, doomed, g, i)
    <3>1. \A i \in 0 .. k : i \in 0 .. k + 1
      OBVIOUS
    <3>2. \A i \in 0 .. k : g[i] = Step(stream, doomed, g, i)
      BY <2>1
    <3> QED
      BY <3>1, <3>2
  <2>3. f[k + 1] = Step(stream, doomed, g, k + 1)
    OBVIOUS
  <2>4. \A i \in 0 .. k + 1 : i \in 0 .. k \/ i = k + 1
    OBVIOUS
  <2>5. f = [i \in 0 .. k + 1 |-> f[i]]
    OBVIOUS
  <2> HIDE DEF f
  <2>6. \A i \in 0 .. k + 1 : Step(stream, doomed, f, i) = Step(stream, doomed, g, i)
    <3> SUFFICES ASSUME NEW i \in 0 .. k + 1
                 PROVE  Step(stream, doomed, f, i) = Step(stream, doomed, g, i)
      OBVIOUS
    <3>1. CASE i = 0
      BY <3>1 DEF Step
    <3>2. CASE i # 0
      <4>1. i - 1 \in 0 .. k
        BY <3>2
      <4>2. f[i - 1] = g[i - 1]
        BY <2>2, <4>1
      <4> QED
        BY <4>2 DEF Step
    <3> QED
      BY <3>1, <3>2
  <2>7. \A i \in 0 .. k + 1 : f[i] = Step(stream, doomed, f, i)
    BY <2>2, <2>3, <2>4, <2>6
  <2>8. f = [i \in 0 .. k + 1 |-> Step(stream, doomed, f, i)]
    BY <2>5, <2>7
  <2> QED
    BY <2>8
<1> HIDE DEF Has
<1>3. Nat \subseteq {k \in Nat : Has(k)}
  <2> DEFINE S == {k \in Nat : Has(k)}
  <2>1. 0 \in S /\ \A k \in Nat : k \in S => k + 1 \in S
    BY <1>1, <1>2
  <2> HIDE DEF S
  <2>2. Nat \subseteq S
    BY <2>1, InductionOf
  <2> QED
    BY <2>2 DEF S
<1>4. Has(n)
  BY <1>3
<1> QED
  BY <1>4 DEF Has

LEMMA WithoutIs ==
  ASSUME NEW stream, NEW doomed, Len(stream) \in Nat
  PROVE  \E f : /\ Without(stream, doomed) = f[Len(stream)]
                /\ \A i \in 0 .. Len(stream) : f[i] = Step(stream, doomed, f, i)
<1> DEFINE Is(f) == f = [i \in 0 .. Len(stream) |->
                           IF i = 0 THEN <<>>
                           ELSE IF stream[i] \in doomed THEN f[i - 1]
                           ELSE Append(f[i - 1], stream[i])]
           f == CHOOSE g : Is(g)
<1>1. \E g : Is(g)
  <2>1. PICK g : g = [i \in 0 .. Len(stream) |-> Step(stream, doomed, g, i)]
    BY LoopExists
  <2>2. Is(g)
    BY <2>1 DEF Step
  <2> QED
    BY <2>2
<1>2. Is(f)
  BY <1>1
<1>3. Without(stream, doomed) = f[Len(stream)]
  BY DEF Without
<1> HIDE DEF f
<1>4. \A i \in 0 .. Len(stream) : f[i] = Step(stream, doomed, f, i)
  BY <1>2 DEF Step
<1> QED
  BY <1>3, <1>4

\* The snapshots stand in order, and an automatic one before what was put in on its
\* frame.
Before(x, y) == x.at <= y.at /\ (~x.auto /\ y.auto => x.at < y.at)
Ordered(stream) == \A i, j \in DOMAIN stream : i < j => Before(stream[i], stream[j])

\* What is left of the first n: some of them, in their order, and all that was not doomed.
Kept(stream, doomed, kept, n) ==
  /\ kept \in Seq(Snapshot) /\ Ordered(kept)
  /\ \A k \in DOMAIN kept : \E i \in 1 .. n : kept[k] = stream[i] /\ stream[i] \notin doomed
  /\ \A i \in 1 .. n : stream[i] \notin doomed => \E k \in DOMAIN kept : kept[k] = stream[i]

LEMMA AppendOrdered ==
  ASSUME NEW stream \in Seq(Snapshot), Ordered(stream), NEW snap \in Snapshot,
         \A i \in DOMAIN stream : Before(stream[i], snap)
  PROVE  Append(stream, snap) \in Seq(Snapshot) /\ Ordered(Append(stream, snap))
<1> DEFINE longer == Append(stream, snap)
<1>1. /\ longer \in Seq(Snapshot) /\ Len(stream) \in Nat /\ Len(longer) = Len(stream) + 1
      /\ DOMAIN stream = 1 .. Len(stream) /\ DOMAIN longer = 1 .. Len(stream) + 1
      /\ longer[Len(stream) + 1] = snap
      /\ \A i \in 1 .. Len(stream) : longer[i] = stream[i]
  OBVIOUS
<1> HIDE DEF longer
<1>2. ASSUME NEW i \in DOMAIN longer, NEW j \in DOMAIN longer, i < j
      PROVE  Before(longer[i], longer[j])
  <2>1. i \in 1 .. Len(stream) /\ (j \in 1 .. Len(stream) \/ j = Len(stream) + 1)
    BY <1>1, <1>2
  <2> QED
    BY <1>1, <1>2, <2>1 DEF Ordered
<1> QED
  BY <1>1, <1>2 DEF Ordered, longer

LEMMA WithoutKept ==
  ASSUME NEW stream \in Seq(Snapshot), Ordered(stream), NEW doomed
  PROVE  Kept(stream, doomed, Without(stream, doomed), Len(stream))
<1>1. Len(stream) \in Nat /\ DOMAIN stream = 1 .. Len(stream)
  OBVIOUS
<1>2. PICK f : /\ Without(stream, doomed) = f[Len(stream)]
               /\ \A i \in 0 .. Len(stream) : f[i] = Step(stream, doomed, f, i)
  BY <1>1, WithoutIs
<1> DEFINE Done == {k \in Nat : k <= Len(stream) => Kept(stream, doomed, f[k], k)}
<1>3. 0 \in Done
  <2>1. f[0] = <<>>
    BY <1>1, <1>2 DEF Step
  <2>2. <<>> \in Seq(Snapshot) /\ DOMAIN <<>> = {} /\ 1 .. 0 = {}
    OBVIOUS
  <2>3. Kept(stream, doomed, <<>>, 0)
    BY <2>2, Zenon DEF Kept, Ordered
  <2> QED
    BY <2>1, <2>3
<1>4. ASSUME NEW k \in Nat, k \in Done, k + 1 <= Len(stream)
      PROVE  Kept(stream, doomed, f[k + 1], k + 1)
  <2>1. k + 1 \in 1 .. Len(stream) /\ k + 1 \in 0 .. Len(stream) /\ (k + 1) - 1 = k
        /\ k + 1 # 0
    BY <1>1, <1>4
  <2> DEFINE snap == stream[k + 1]
  <2>2. f[k + 1] = IF snap \in doomed THEN f[k] ELSE Append(f[k], snap)
    BY <1>2, <2>1 DEF Step
  <2>3. Kept(stream, doomed, f[k], k) /\ f[k] \in Seq(Snapshot)
    BY <1>1, <1>4 DEF Kept
  <2>4. snap \in Snapshot
    BY <1>1, <2>1
  <2>5. \A i \in 1 .. k + 1 : i \in 1 .. k \/ i = k + 1
    OBVIOUS
  <2>6. \A i \in 1 .. k : i \in 1 .. k + 1 /\ i \in DOMAIN stream /\ k + 1 \in DOMAIN stream
                          /\ i < k + 1
    BY <1>1, <2>1
  <2> HIDE DEF snap
  <2>7. CASE snap \in doomed
    <3>1. f[k + 1] = f[k]
      BY <2>2, <2>7
    <3>2. \A i \in 1 .. k + 1 : stream[i] \notin doomed => i \in 1 .. k
      BY <2>5, <2>7 DEF snap
    <3> QED
      BY <2>3, <2>6, <3>1, <3>2 DEF Kept
  <2>8. CASE snap \notin doomed
    <3>1. f[k + 1] = Append(f[k], snap)
      BY <2>2, <2>8
    <3>2. \A i \in DOMAIN f[k] : Before(f[k][i], snap)
      <4> SUFFICES ASSUME NEW i \in DOMAIN f[k] PROVE Before(f[k][i], snap)
        OBVIOUS
      <4>1. PICK j \in 1 .. k : f[k][i] = stream[j]
        BY <2>3 DEF Kept
      <4> QED
        BY <2>6, <4>1 DEF Ordered, snap
    <3>3. Append(f[k], snap) \in Seq(Snapshot) /\ Ordered(Append(f[k], snap))
      BY <2>3, <2>4, <3>2, AppendOrdered DEF Kept
    <3>4. /\ DOMAIN Append(f[k], snap) = DOMAIN f[k] \cup {Len(f[k]) + 1}
          /\ Append(f[k], snap)[Len(f[k]) + 1] = snap
          /\ \A i \in DOMAIN f[k] : Append(f[k], snap)[i] = f[k][i]
      BY <2>3, <2>4
    <3> DEFINE g == Append(f[k], snap)
    <3> HIDE DEF g
    <3>5. \A i \in DOMAIN g : \E j \in 1 .. k + 1 : g[i] = stream[j] /\ stream[j] \notin doomed
      <4> SUFFICES ASSUME NEW i \in DOMAIN g
                   PROVE  \E j \in 1 .. k + 1 : g[i] = stream[j] /\ stream[j] \notin doomed
        OBVIOUS
      <4>1. CASE i \in DOMAIN f[k]
        <5>1. PICK j \in 1 .. k : f[k][i] = stream[j] /\ stream[j] \notin doomed
          BY <2>3, <4>1 DEF Kept
        <5> QED
          BY <2>6, <3>4, <4>1, <5>1 DEF g
      <4>2. CASE i = Len(f[k]) + 1
        <5>1. k + 1 \in 1 .. k + 1
          BY <2>1
        <5> QED
          BY <2>8, <3>4, <4>2, <5>1 DEF g, snap
      <4> QED
        BY <3>4, <4>1, <4>2 DEF g
    <3>6. \A j \in 1 .. k + 1 : stream[j] \notin doomed => \E i \in DOMAIN g : g[i] = stream[j]
      <4> SUFFICES ASSUME NEW j \in 1 .. k + 1, stream[j] \notin doomed
                   PROVE  \E i \in DOMAIN g : g[i] = stream[j]
        OBVIOUS
      <4>1. CASE j \in 1 .. k
        <5>1. PICK i \in DOMAIN f[k] : f[k][i] = stream[j]
          BY <2>3, <4>1 DEF Kept
        <5> QED
          BY <3>4, <5>1 DEF g
      <4>2. CASE j = k + 1
        BY <3>4, <4>2 DEF g, snap
      <4> QED
        BY <2>5, <4>1, <4>2
    <3> QED
      BY <3>1, <3>3, <3>5, <3>6 DEF Kept, g
  <2> QED
    BY <2>7, <2>8
<1>5. Nat \subseteq Done
  <2>1. \A k \in Nat : k \in Done => k + 1 \in Done
    BY <1>4
  <2> HIDE DEF Done
  <2> QED
    BY <1>3, <2>1, InductionOf
<1> QED
  BY <1>1, <1>2, <1>5

\* Where the automatic snapshots are.
Saves(stream) == {save.at : save \in Automatic(stream)}

LEMMA SavesAre ==
  ASSUME NEW stream \in Seq(Snapshot)
  PROVE  /\ \A i \in DOMAIN stream : stream[i] \in Snapshot
         /\ \A n : n \in Saves(stream) <=> \E i \in DOMAIN stream : stream[i].auto /\ stream[i].at = n
         /\ \A save \in Automatic(stream) :
              save \in Snapshot /\ save.auto /\ save.at \in Saves(stream)
              /\ \E i \in DOMAIN stream : stream[i] = save
         /\ \A i \in DOMAIN stream : stream[i].auto => stream[i] \in Automatic(stream)
         /\ \A n \in Saves(stream) : n \in Nat /\ \E save \in Automatic(stream) : save.at = n
<1>1. \A i \in DOMAIN stream : stream[i] \in Snapshot /\ stream[i].at \in Nat
  <2>1. \A i \in DOMAIN stream : stream[i] \in Snapshot
    OBVIOUS
  <2>2. MaxFrames \in Nat
    BY RecordingAssumption
  <2>3. \A snap \in Snapshot : snap.at \in Nat
    BY <2>2 DEF Snapshot
  <2> QED
    BY <2>1, <2>3
<1>2. \A save : save \in Automatic(stream)
                  <=> \E i \in DOMAIN stream : stream[i].auto /\ stream[i] = save
  BY DEF Automatic
<1>3. \A n : n \in Saves(stream) <=> \E save \in Automatic(stream) : save.at = n
  BY DEF Saves
<1> QED
  BY <1>1, <1>2, <1>3

LEMMA AppendSaves ==
  ASSUME NEW stream \in Seq(Snapshot), NEW snap \in Snapshot
  PROVE  Saves(Append(stream, snap)) = Saves(stream) \cup (IF snap.auto THEN {snap.at} ELSE {})
<1> DEFINE longer == Append(stream, snap)
<1>1. /\ longer \in Seq(Snapshot)
      /\ DOMAIN longer = DOMAIN stream \cup {Len(stream) + 1}
      /\ longer[Len(stream) + 1] = snap
      /\ \A i \in DOMAIN stream : longer[i] = stream[i]
  OBVIOUS
<1> HIDE DEF longer
<1>2. ASSUME NEW n
      PROVE  n \in Saves(longer) <=> n \in Saves(stream) \/ (snap.auto /\ snap.at = n)
  <2>1. n \in Saves(longer) <=> \E i \in DOMAIN longer : longer[i].auto /\ longer[i].at = n
    BY <1>1, SavesAre
  <2>2. n \in Saves(stream) <=> \E i \in DOMAIN stream : stream[i].auto /\ stream[i].at = n
    BY SavesAre
  <2> QED
    BY <1>1, <2>1, <2>2
<1>3. Saves(longer) = Saves(stream) \cup (IF snap.auto THEN {snap.at} ELSE {})
  BY <1>2
<1> QED
  BY <1>3 DEF longer

LEMMA PruneSaves ==
  ASSUME NEW stream \in Seq(Snapshot), Ordered(stream), NEW now \in Nat,
         \A i \in DOMAIN stream : stream[i].at <= now
  PROVE  LET pruned == autosave_prune(stream, now) IN
         /\ pruned \in Seq(Snapshot) /\ Ordered(pruned)
         /\ \A i \in DOMAIN pruned : pruned[i].at <= now
         /\ Saves(pruned) = Pruned(Saves(stream), now)
<1> DEFINE doomed == {save \in Automatic(stream) :
                        /\ Age(save, now) \in Ages
                        /\ \E older \in Automatic(stream) :
                             older.at < save.at /\ Age(older, now) < 2 * Age(save, now)}
           pruned == autosave_prune(stream, now)
<1>1. pruned = Without(stream, doomed)
  BY DEF autosave_prune
<1>2. Kept(stream, doomed, pruned, Len(stream))
  BY <1>1, WithoutKept
<1>3. DOMAIN stream = 1 .. Len(stream)
  OBVIOUS
<1>4. ASSUME NEW save \in Automatic(stream)
      PROVE  save \notin doomed <=> save.at \in Pruned(Saves(stream), now)
  <2>1. save \in doomed
          <=> /\ now - save.at \in Ages
              /\ \E older \in Automatic(stream) :
                   older.at < save.at /\ now - older.at < 2 * (now - save.at)
    BY DEF Age
  <2>2. (\E older \in Automatic(stream) :
           older.at < save.at /\ now - older.at < 2 * (now - save.at))
        <=> \E x \in Saves(stream) : x < save.at /\ now - x < 2 * (now - save.at)
    BY SMTT(30), SavesAre
  <2>3. save.at \in Saves(stream)
    BY SavesAre
  <2> HIDE DEF doomed
  <2> QED
    BY <2>1, <2>2, <2>3 DEF Pruned
<1> HIDE DEF doomed, pruned
<1>5. pruned \in Seq(Snapshot) /\ Ordered(pruned)
  BY <1>2 DEF Kept
<1>6. \A i \in DOMAIN pruned : pruned[i].at <= now
  BY <1>2, <1>3 DEF Kept
<1>7. ASSUME NEW n \in Saves(pruned) PROVE n \in Pruned(Saves(stream), now)
  <2>1. PICK k \in DOMAIN pruned : pruned[k].auto /\ pruned[k].at = n
    BY <1>5, SavesAre
  <2>2. PICK i \in DOMAIN stream : pruned[k] = stream[i] /\ stream[i] \notin doomed
    BY <1>2, <1>3 DEF Kept
  <2>3. stream[i] \in Automatic(stream)
    BY <2>1, <2>2, SavesAre
  <2> QED
    BY <1>4, <2>1, <2>2, <2>3
<1>8. ASSUME NEW n \in Pruned(Saves(stream), now) PROVE n \in Saves(pruned)
  <2>1. n \in Saves(stream)
    BY DEF Pruned
  <2>2. PICK i \in DOMAIN stream : stream[i].auto /\ stream[i].at = n
    BY <2>1, SavesAre
  <2>3. stream[i] \notin doomed
    BY <1>4, <2>2, SavesAre
  <2>4. PICK k \in DOMAIN pruned : pruned[k] = stream[i]
    BY <1>2, <1>3, <2>3 DEF Kept
  <2> QED
    BY <1>5, <2>2, <2>4, SavesAre
<1>9. Saves(pruned) = Pruned(Saves(stream), now)
  BY <1>7, <1>8
<1> QED
  BY <1>5, <1>6, <1>9 DEF pruned

LEMMA CutSaves ==
  ASSUME NEW stream \in Seq(Snapshot), Ordered(stream), NEW which \in DOMAIN stream
  PROVE  LET cut == SubSeq(stream, 1, which) IN
         /\ cut \in Seq(Snapshot) /\ Ordered(cut)
         /\ \A i \in DOMAIN cut : cut[i].at <= stream[which].at
         /\ Saves(cut) = {x \in Saves(stream) : x <= stream[which].at}
<1> DEFINE cut == SubSeq(stream, 1, which)
<1>1. /\ cut \in Seq(Snapshot) /\ DOMAIN cut = 1 .. which
      /\ DOMAIN stream = 1 .. Len(stream) /\ which \in Nat /\ which <= Len(stream)
      /\ Len(stream) \in Nat
      /\ \A i \in 1 .. which : cut[i] = stream[i]
  OBVIOUS
<1> HIDE DEF cut
<1>2. \A i \in 1 .. which : i \in DOMAIN stream /\ i \in DOMAIN cut
  BY <1>1
<1>3. Ordered(cut)
  BY <1>1, <1>2 DEF Ordered
<1>4. \A i \in DOMAIN stream : stream[i].at \in Nat /\ stream[i].auto \in BOOLEAN
  <2>1. \A i \in DOMAIN stream : stream[i] \in Snapshot
    OBVIOUS
  <2>2. MaxFrames \in Nat
    BY RecordingAssumption
  <2> QED
    BY <2>1, <2>2 DEF Snapshot
<1>5. \A i \in DOMAIN cut : cut[i].at <= stream[which].at
  <2> SUFFICES ASSUME NEW i \in 1 .. which PROVE stream[i].at <= stream[which].at
    BY <1>1
  <2>1. CASE i = which
    BY <1>4, <2>1
  <2>2. CASE i < which
    BY <1>2, <2>2 DEF Ordered, Before
  <2> QED
    BY <1>1, <2>1, <2>2
<1>6. ASSUME NEW n \in Saves(cut) PROVE n \in Saves(stream) /\ n <= stream[which].at
  <2>1. PICK i \in DOMAIN cut : cut[i].auto /\ cut[i].at = n
    BY <1>1, SavesAre
  <2>2. i \in DOMAIN stream /\ stream[i] = cut[i]
    BY <1>1, <1>2
  <2> QED
    BY <1>5, <2>1, <2>2, SavesAre
<1>7. ASSUME NEW n \in Saves(stream), n <= stream[which].at PROVE n \in Saves(cut)
  <2>1. PICK i \in DOMAIN stream : stream[i].auto /\ stream[i].at = n
    BY SavesAre
  <2>2. CASE i \in 1 .. which
    BY <1>1, <2>1, <2>2, SavesAre
  <2>3. CASE which < i
    <3>1. /\ stream[which].at <= stream[i].at
          /\ ~stream[which].auto => stream[which].at < stream[i].at
      BY <2>1, <2>3 DEF Ordered, Before
    <3>2. stream[which].auto /\ stream[which].at = n
      BY <1>4, <1>7, <2>1, <3>1
    <3>3. which \in DOMAIN cut /\ cut[which] = stream[which]
      BY <1>1
    <3> QED
      BY <1>1, <3>2, <3>3, SavesAre
  <2> QED
    BY <1>1, <2>2, <2>3
<1>8. Saves(cut) = {x \in Saves(stream) : x <= stream[which].at}
  BY <1>6, <1>7
<1> QED
  BY <1>1, <1>3, <1>5, <1>8 DEF cut

-----------------------------------------------------------------------------
(* The invariant, and every action of the recording.                          *)

\* Until a save is missed, the automatic snapshots are spaced and none is waited for; and
\* only a recording that counts its frames has any.
RecordingInv ==
  /\ RecordingTypeOK /\ Ordered(snaps)
  /\ ~recording => snaps = <<>>
  /\ steady => /\ ~pending /\ (Saves(snaps) # {} => Counts)
               /\ Spaced(Saves(snaps), frames, count, longest, rolled)

LEMMA TypeIs ==
  ASSUME RecordingTypeOK
  PROVE  /\ recording \in BOOLEAN /\ competition \in BOOLEAN /\ autosaves \in BOOLEAN
         /\ pending \in BOOLEAN /\ delayed \in BOOLEAN /\ steady \in BOOLEAN
         /\ rolled \in BOOLEAN
         /\ frames \in Nat /\ frames <= MaxFrames /\ longest \in Nat /\ frames <= longest
         /\ longest <= MaxFrames /\ count \in Nat /\ count < Interval /\ count \in 0 .. Interval - 1
         /\ Interval \in Nat \ {0} /\ MaxFrames \in Nat
         /\ snaps \in Seq(Snapshot) /\ \A i \in DOMAIN snaps : snaps[i].at <= frames
         /\ Saves(snaps) \subseteq 0 .. frames
<1>1. /\ recording \in BOOLEAN /\ competition \in BOOLEAN /\ autosaves \in BOOLEAN
      /\ pending \in BOOLEAN /\ delayed \in BOOLEAN /\ steady \in BOOLEAN
      /\ rolled \in BOOLEAN
      /\ snaps \in Seq(Snapshot) /\ (\A i \in DOMAIN snaps : snaps[i].at <= frames)
  BY DEF RecordingTypeOK
<1>2. /\ frames \in Nat /\ frames <= MaxFrames /\ longest \in Nat /\ frames <= longest
      /\ longest <= MaxFrames /\ count \in Nat /\ count < Interval
      /\ Interval \in Nat \ {0} /\ MaxFrames \in Nat /\ count \in 0 .. Interval - 1
  BY RecordingAssumption DEF RecordingTypeOK
<1>3. ASSUME NEW n \in Saves(snaps) PROVE n \in 0 .. frames
  <2>1. n \in Nat /\ \E i \in DOMAIN snaps : snaps[i].auto /\ snaps[i].at = n
    BY <1>1, SavesAre
  <2> QED
    BY <1>1, <1>2, <2>1
<1> QED
  BY <1>1, <1>2, <1>3

\* The type invariant of the next state, from that of its parts.
LEMMA TypeNext ==
  ASSUME recording' \in BOOLEAN, competition' \in BOOLEAN, autosaves' \in BOOLEAN,
         pending' \in BOOLEAN, delayed' \in BOOLEAN, steady' \in BOOLEAN, rolled' \in BOOLEAN,
         frames' \in Nat, longest' \in Nat, frames' <= longest', longest' <= MaxFrames,
         count' \in 0 .. Interval - 1,
         snaps' \in Seq(Snapshot), Ordered(snaps'), \A i \in DOMAIN snaps' : snaps'[i].at <= frames'
  PROVE  RecordingTypeOK'
<1>1. MaxFrames \in Nat
  BY RecordingAssumption
<1>2. frames' \in 0 .. MaxFrames /\ longest' \in frames' .. MaxFrames
  BY <1>1
<1>3. ASSUME NEW i \in DOMAIN snaps', NEW j \in DOMAIN snaps', i <= j
      PROVE  snaps'[i].at <= snaps'[j].at
  <2>1. snaps'[i] \in Snapshot /\ i \in Int /\ j \in Int
    OBVIOUS
  <2>2. snaps'[i].at \in Int
    BY <1>1, <2>1 DEF Snapshot
  <2> QED
    BY <1>3, <2>1, <2>2 DEF Ordered, Before
<1> QED
  BY <1>2, <1>3 DEF RecordingTypeOK

LEMMA MaxOfTwo ==
  ASSUME NEW a \in Nat, NEW b \in Nat
  PROVE  Max({a, b}) \in Nat /\ Max({a, b}) >= a /\ Max({a, b}) >= b /\ Max({a, b}) \in {a, b}
<1>1. {a, b} \subseteq 0 .. (a + b) /\ {a, b} # {} /\ a + b \in Nat
  OBVIOUS
<1>2. Max({a, b}) \in {a, b} /\ \A y \in {a, b} : y <= Max({a, b})
  BY <1>1, MaxOf
<1> QED
  BY <1>2

LEMMA FrameStored ==
  ASSUME RecordingInv, StoresFrame
  PROVE  /\ frames' = frames + 1 /\ frames' \in Nat /\ longest' \in Nat /\ frames' <= longest'
         /\ longest' <= MaxFrames /\ longest <= longest'
         /\ count' \in 0 .. Interval - 1
         /\ Counts => count' = IF count + 1 < Interval THEN count + 1 ELSE 0
         /\ steady => rolled \/ longest' = frames'
<1>1. RecordingTypeOK /\ (steady => Spaced(Saves(snaps), frames, count, longest, rolled))
  BY DEF RecordingInv
<1>2. frames \in Nat /\ longest \in Nat /\ count \in 0 .. Interval - 1 /\ Interval \in Nat \ {0}
      /\ MaxFrames \in Nat /\ longest <= MaxFrames
  BY <1>1, TypeIs
<1>3. frames' = frames + 1 /\ frames' \in Nat /\ frames' <= MaxFrames
      /\ longest' = Max({longest, frames'})
  BY <1>2, RecordingAssumption DEF StoresFrame
<1>4. longest' \in Nat /\ longest <= longest' /\ frames' <= longest' /\ longest' \in {longest, frames'}
  BY <1>2, <1>3, MaxOfTwo
<1>5. (count + 1) % Interval = IF count + 1 < Interval THEN count + 1 ELSE 0
  BY <1>2, OneMore
<1>6. count' \in 0 .. Interval - 1 /\ (Counts => count' = (count + 1) % Interval)
  BY <1>2, <1>5 DEF StoresFrame
<1>7. steady => rolled \/ longest' = frames'
  BY <1>1, <1>2, <1>3, <1>4 DEF Spaced
<1> QED
  BY <1>2, <1>3, <1>4, <1>5, <1>6, <1>7

\* A frame after which no snapshot is due.
LEMMA QuietFrame ==
  ASSUME RecordingInv, steady, StoresFrame, ~(Counts /\ count' = 0)
  PROVE  Spaced(Saves(snaps), frames', count', longest', rolled)
<1>1. /\ RecordingTypeOK /\ Spaced(Saves(snaps), frames, count, longest, rolled)
      /\ (Saves(snaps) # {} => Counts)
  BY DEF RecordingInv
<1>2. /\ frames' = frames + 1 /\ longest' \in Nat /\ longest <= longest'
      /\ (Counts => count' = IF count + 1 < Interval THEN count + 1 ELSE 0)
      /\ (rolled \/ longest' = frames')
  BY FrameStored
<1>3. /\ frames \in Nat /\ Saves(snaps) \subseteq 0 .. frames /\ count \in Nat /\ longest \in Nat
      /\ rolled \in BOOLEAN /\ frames <= longest
  BY <1>1, TypeIs
<1>4. CASE Saves(snaps) = {}
  BY <1>2, <1>3, <1>4, NoneSpaced
<1>5. CASE Saves(snaps) # {}
  <2>1. count + 1 < Interval /\ count' = count + 1
    BY <1>1, <1>2, <1>5
  <2>2. Spaced(Saves(snaps), frames + 1, count + 1, longest', rolled)
    BY <1>1, <1>2, <1>3, <2>1, TickSpaced
  <2> QED
    BY <1>2, <2>1, <2>2
<1> QED
  BY <1>4, <1>5

\* One after which it is, and is taken.
LEMMA SavedFrame ==
  ASSUME RecordingInv, steady, StoresFrame, Counts, count' = 0
  PROVE  Spaced(Pruned(Saves(snaps) \cup {frames'}, frames'), frames', count', longest', rolled)
<1>1. RecordingTypeOK /\ Spaced(Saves(snaps), frames, count, longest, rolled)
  BY DEF RecordingInv
<1>2. /\ frames' = frames + 1 /\ longest' \in Nat /\ longest <= longest' /\ frames' <= longest'
      /\ count' = IF count + 1 < Interval THEN count + 1 ELSE 0
      /\ (rolled \/ longest' = frames')
  BY FrameStored
<1>3. /\ frames \in Nat /\ Saves(snaps) \subseteq 0 .. frames /\ count \in Nat /\ longest \in Nat
      /\ rolled \in BOOLEAN /\ frames <= longest /\ count < Interval /\ Interval \in Nat
  BY <1>1, TypeIs
<1>4. count + 1 = Interval /\ frames + 1 <= longest' /\ (rolled \/ longest' = frames + 1)
  BY <1>2, <1>3
<1>5. Unpruned(Saves(snaps) \cup {frames + 1}, frames + 1, longest', rolled)
  BY <1>1, <1>2, <1>3, <1>4, SaveUnpruned
<1> DEFINE B == Saves(snaps) \cup {frames + 1}
<1>6. B \subseteq 0 .. (frames + 1) /\ frames + 1 \in Nat
  <2>1. \A x \in Saves(snaps) : x \in 0 .. (frames + 1)
    BY <1>3
  <2>2. frames + 1 \in 0 .. (frames + 1) /\ frames + 1 \in Nat
    BY <1>3
  <2> QED
    BY <2>1, <2>2, Zenon
<1> HIDE DEF B
<1>7. Spaced(Pruned(B, frames + 1), frames + 1, 0, longest', rolled)
  <2>1. Unpruned(B, frames + 1, longest', rolled)
    BY <1>5 DEF B
  <2> QED
    BY <1>2, <1>3, <1>4, <1>6, <2>1, PruneSpaced
<1> QED
  BY <1>2, <1>7 DEF B

LEMMA FrameKeeps ==
  ASSUME RecordingInv, recording, StoresFrame, Completes(Pends),
         steady' \in BOOLEAN, steady' => steady, delayed' \in BOOLEAN
  PROVE  RecordingInv'
<1>1. /\ RecordingTypeOK /\ Ordered(snaps)
      /\ steady => /\ ~pending /\ (Saves(snaps) # {} => Counts)
                   /\ Spaced(Saves(snaps), frames, count, longest, rolled)
  BY DEF RecordingInv
<1>2. /\ recording' = recording /\ competition' = competition /\ autosaves' = autosaves
      /\ rolled' = rolled /\ pending' = FALSE
      /\ snaps' = IF Pends
                  THEN autosave_prune(Append(snaps, [at |-> frames', auto |-> TRUE]), frames')
                  ELSE snaps
  BY DEF StoresFrame, Completes
<1>3. /\ frames' = frames + 1 /\ frames' \in Nat /\ longest' \in Nat /\ frames' <= longest'
      /\ longest' <= MaxFrames /\ count' \in 0 .. Interval - 1
  BY FrameStored
<1>4. /\ recording \in BOOLEAN /\ competition \in BOOLEAN /\ autosaves \in BOOLEAN
      /\ rolled \in BOOLEAN /\ frames \in Nat /\ MaxFrames \in Nat
      /\ snaps \in Seq(Snapshot) /\ (\A i \in DOMAIN snaps : snaps[i].at <= frames)
      /\ \A i \in DOMAIN snaps : snaps[i].at \in Nat
  <2>1. \A i \in DOMAIN snaps : snaps[i] \in Snapshot
    BY <1>1, TypeIs
  <2>2. \A i \in DOMAIN snaps : snaps[i].at \in Nat
    BY <1>1, <2>1, TypeIs DEF Snapshot
  <2> QED
    BY <1>1, <2>2, TypeIs
<1>5. CASE Pends
  <2> DEFINE snap == [at |-> frames', auto |-> TRUE]
             longer == Append(snaps, snap)
  <2>1. snap \in Snapshot /\ snap.auto /\ snap.at = frames'
    BY <1>3, <1>4 DEF Snapshot
  <2>2. \A i \in DOMAIN snaps : Before(snaps[i], snap)
    BY <1>3, <1>4, <2>1 DEF Before
  <2> HIDE DEF snap
  <2>3. longer \in Seq(Snapshot) /\ Ordered(longer)
    BY <1>1, <1>4, <2>1, <2>2, AppendOrdered
  <2>4. \A i \in DOMAIN longer : longer[i].at <= frames'
    <3>1. /\ DOMAIN longer = DOMAIN snaps \cup {Len(snaps) + 1}
          /\ longer[Len(snaps) + 1] = snap /\ \A i \in DOMAIN snaps : longer[i] = snaps[i]
      BY <1>4, <2>1
    <3> HIDE DEF longer
    <3> QED
      BY <1>3, <1>4, <2>1, <3>1
  <2>5. Saves(longer) = Saves(snaps) \cup {frames'}
    BY <1>4, <2>1, AppendSaves
  <2>6. snaps' = autosave_prune(longer, frames')
    BY <1>2, <1>5 DEF snap
  <2> HIDE DEF longer
  <2>7. /\ snaps' \in Seq(Snapshot) /\ Ordered(snaps')
        /\ \A i \in DOMAIN snaps' : snaps'[i].at <= frames'
        /\ Saves(snaps') = Pruned(Saves(snaps) \cup {frames'}, frames')
    BY <1>3, <2>3, <2>4, <2>5, <2>6, PruneSaves
  <2>8. RecordingTypeOK'
    BY <1>2, <1>3, <1>4, <2>7, TypeNext
  <2>9. ASSUME steady'
        PROVE  Counts' /\ Spaced(Saves(snaps'), frames', count', longest', rolled')
    <3>1. steady /\ Counts /\ count' = 0
      BY <1>1, <1>5, <2>9 DEF Pends
    <3>2. Spaced(Saves(snaps'), frames', count', longest', rolled)
      BY <2>7, <3>1, SavedFrame
    <3> QED
      BY <1>2, <3>1, <3>2 DEF Counts
  <2> QED
    BY <1>2, <2>7, <2>8, <2>9 DEF RecordingInv
<1>6. CASE ~Pends
  <2>1. snaps' = snaps
    BY <1>2, <1>6
  <2>2. \A i \in DOMAIN snaps : snaps[i].at <= frames'
    BY <1>3, <1>4
  <2>3. RecordingTypeOK'
    BY <1>1, <1>2, <1>3, <1>4, <2>1, <2>2, TypeNext
  <2>4. ASSUME steady'
        PROVE  /\ Saves(snaps') # {} => Counts'
               /\ Spaced(Saves(snaps'), frames', count', longest', rolled')
    <3>1. steady /\ ~(Counts /\ count' = 0)
      BY <1>6, <2>4 DEF Pends
    <3>2. Spaced(Saves(snaps), frames', count', longest', rolled)
      BY <3>1, QuietFrame
    <3> QED
      BY <1>1, <1>2, <2>1, <3>1, <3>2 DEF Counts
  <2> QED
    BY <1>1, <1>2, <2>1, <2>3, <2>4 DEF RecordingInv
<1> QED
  BY <1>5, <1>6

LEMMA WaitingFrameKeeps == RecordingInv /\ FrameEndAfterEI => RecordingInv'
<1> SUFFICES ASSUME RecordingInv, FrameEndAfterEI PROVE RecordingInv'
  OBVIOUS
<1>1. /\ RecordingTypeOK /\ Ordered(snaps)
      /\ steady => /\ ~pending /\ (Saves(snaps) # {} => Counts)
                   /\ Spaced(Saves(snaps), frames, count, longest, rolled)
  BY DEF RecordingInv
<1>2. /\ StoresFrame /\ recording /\ recording' = recording /\ competition' = competition
      /\ autosaves' = autosaves /\ rolled' = rolled /\ pending' = Pends
      /\ steady' = (steady /\ ~pending') /\ snaps' = snaps /\ delayed' = TRUE
  BY DEF FrameEndAfterEI, StoresFrame
<1>3. /\ frames' = frames + 1 /\ frames' \in Nat /\ longest' \in Nat /\ frames' <= longest'
      /\ longest' <= MaxFrames /\ count' \in 0 .. Interval - 1
  BY <1>2, FrameStored
<1>4. /\ recording \in BOOLEAN /\ competition \in BOOLEAN /\ autosaves \in BOOLEAN
      /\ rolled \in BOOLEAN /\ frames \in Nat /\ pending \in BOOLEAN
      /\ snaps \in Seq(Snapshot) /\ \A i \in DOMAIN snaps : snaps[i].at <= frames
  BY <1>1, TypeIs
<1>5. \A i \in DOMAIN snaps : snaps[i].at \in Nat
  <2>1. \A i \in DOMAIN snaps : snaps[i] \in Snapshot
    BY <1>4
  <2> QED
    BY <2>1, RecordingAssumption DEF Snapshot
<1>6. pending' \in BOOLEAN /\ steady' \in BOOLEAN
  BY <1>2, <1>4 DEF Pends, Counts
<1>7. \A i \in DOMAIN snaps' : snaps'[i].at <= frames'
  BY <1>2, <1>3, <1>4, <1>5
<1>8. RecordingTypeOK'
  BY <1>1, <1>2, <1>3, <1>4, <1>6, <1>7, TypeNext
<1>9. ASSUME steady'
      PROVE  /\ ~pending' /\ (Saves(snaps') # {} => Counts')
             /\ Spaced(Saves(snaps'), frames', count', longest', rolled')
  <2>1. steady /\ ~pending' /\ ~(Counts /\ count' = 0)
    BY <1>2, <1>9 DEF Pends
  <2>2. Spaced(Saves(snaps), frames', count', longest', rolled)
    BY <1>2, <2>1, QuietFrame
  <2> QED
    BY <1>1, <1>2, <2>1, <2>2 DEF Counts
<1> QED
  BY <1>1, <1>2, <1>8, <1>9 DEF RecordingInv

LEMMA RollbackKeeps ==
  ASSUME RecordingInv, NEW which \in DOMAIN snaps, RollsBackTo(which)
  PROVE  RecordingInv'
<1>1. /\ RecordingTypeOK /\ Ordered(snaps)
      /\ steady => /\ ~pending /\ (Saves(snaps) # {} => Counts)
                   /\ Spaced(Saves(snaps), frames, count, longest, rolled)
  BY DEF RecordingInv
<1>2. /\ recording /\ ~competition /\ recording' = recording /\ competition' = competition
      /\ autosaves' = autosaves /\ delayed' = delayed /\ longest' = longest
      /\ snaps' = SubSeq(snaps, 1, which) /\ frames' = snaps[which].at
      /\ pending' = FALSE /\ steady' = (steady /\ autosaves) /\ rolled' = TRUE
      /\ count' = IF autosaves THEN autosave_reset(snaps', frames') ELSE count
  BY DEF RollsBackTo
<1>3. /\ recording \in BOOLEAN /\ competition \in BOOLEAN /\ autosaves \in BOOLEAN
      /\ rolled \in BOOLEAN /\ frames \in Nat /\ delayed \in BOOLEAN /\ steady \in BOOLEAN
      /\ longest \in Nat /\ frames <= longest /\ longest <= MaxFrames
      /\ count \in 0 .. Interval - 1 /\ count \in Nat /\ count < Interval
      /\ Interval \in Nat \ {0}
      /\ snaps \in Seq(Snapshot) /\ (\A i \in DOMAIN snaps : snaps[i].at <= frames)
      /\ Saves(snaps) \subseteq 0 .. frames
  BY <1>1, TypeIs
<1>4. frames' \in Nat /\ frames' <= frames /\ frames' \in 0 .. frames
  <2>1. snaps[which] \in Snapshot /\ snaps[which].at <= frames
    BY <1>3
  <2>2. snaps[which].at \in Nat
    BY <2>1, RecordingAssumption DEF Snapshot
  <2> QED
    BY <1>2, <1>3, <2>1, <2>2
<1>5. /\ snaps' \in Seq(Snapshot) /\ Ordered(snaps')
      /\ \A i \in DOMAIN snaps' : snaps'[i].at <= frames'
      /\ Saves(snaps') = {x \in Saves(snaps) : x <= frames'}
  BY <1>1, <1>2, <1>3, CutSaves
<1> DEFINE B == Saves(snaps')
<1>6. \A x \in B : x \in Nat /\ x <= frames'
  BY <1>3, <1>5
<1>7. PICK now \in Nat : now = frames'
  BY <1>4
<1>8. PICK found \in Nat : /\ found <= now /\ (found = 0 \/ found \in B)
                           /\ \A x \in B : x <= found
                           /\ autosave_reset(snaps', frames') = (now - found) % Interval
  <2> DEFINE C == {0} \cup B
  <2>1. C \subseteq 0 .. now /\ C # {}
    <3>1. 0 \in 0 .. now /\ \A x \in B : x \in 0 .. now
      BY <1>6, <1>7
    <3> QED
      BY <3>1, Zenon
  <2>2. autosave_reset(snaps', frames') = (now - Max(C)) % Interval
    BY <1>7 DEF autosave_reset, Saves
  <2>3. B \subseteq C
    OBVIOUS
  <2> HIDE DEF C
  <2>4. Max(C) \in C /\ \A x \in C : x <= Max(C)
    BY <2>1, MaxOf
  <2>5. Max(C) \in 0 .. now /\ \A x \in B : x <= Max(C)
    BY <2>1, <2>3, <2>4, Zenon
  <2>6. Max(C) = 0 \/ Max(C) \in B
    BY <2>4 DEF C
  <2>7. Max(C) \in Nat /\ Max(C) <= now
    BY <2>5
  <2> QED
    BY <2>2, <2>5, <2>6, <2>7
<1> HIDE DEF B
<1>9. count' \in 0 .. Interval - 1 /\ count' \in Nat
  <2>1. now - found \in Nat
    BY <1>8
  <2>2. (now - found) % Interval \in 0 .. Interval - 1
    BY <1>3, <2>1, MultiplesAre
  <2> QED
    BY <1>2, <1>3, <1>8, <2>2
<1>10. RecordingTypeOK'
  <2>1. frames' <= longest' /\ longest' <= MaxFrames /\ longest' \in Nat /\ steady' \in BOOLEAN
    BY <1>2, <1>3, <1>4
  <2> QED
    BY <1>2, <1>3, <1>4, <1>5, <1>9, <2>1, TypeNext
<1>11. ASSUME steady'
       PROVE  /\ ~pending' /\ Counts'
              /\ Spaced(Saves(snaps'), frames', count', longest', rolled')
  <2>1. steady /\ autosaves /\ count' = (now - found) % Interval
    BY <1>2, <1>8, <1>11
  <2>2. ASSUME NEW x \in B, Newest(B, x) PROVE count' = (now - x) % Interval
    <3>1. x \in Nat /\ x <= found
      BY <1>6, <1>8
    <3>2. found <= x
      BY <1>8, <2>2, <3>1 DEF Newest
    <3>3. x = found
      BY <1>8, <3>1, <3>2
    <3> QED
      BY <2>1, <3>3
  <2>3. now \in 0 .. frames /\ B = {x \in Saves(snaps) : x <= now}
    BY <1>4, <1>5, <1>7 DEF B
  <2>4. Spaced(B, now, count', longest, TRUE)
    BY <1>1, <1>3, <1>9, <2>1, <2>2, <2>3, CutSpaced
  <2>5. Spaced(Saves(snaps'), frames', count', longest', rolled')
    BY <1>2, <1>7, <2>4 DEF B
  <2> QED
    BY <1>2, <2>1, <2>5 DEF Counts
<1> QED
  BY <1>2, <1>5, <1>10, <1>11 DEF RecordingInv

LEMMA NothingIn ==
  /\ <<>> \in Seq(Snapshot) /\ Ordered(<<>>) /\ Saves(<<>>) = {}
  /\ \A i \in DOMAIN <<>> : <<>>[i].at <= frames
<1>1. <<>> \in Seq(Snapshot) /\ DOMAIN <<>> = {}
  OBVIOUS
<1>2. Saves(<<>>) = {}
  BY <1>1, SavesAre
<1> QED
  BY <1>1, <1>2 DEF Ordered

LEMMA StartKeeps ==
  ASSUME RecordingInv, NEW stream \in Seq(Snapshot), Ordered(stream), NEW length \in 0 .. MaxFrames,
         \A i \in DOMAIN stream : stream[i].at <= length, NEW mode \in BOOLEAN,
         StartsWith(stream, length, mode)
  PROVE  RecordingInv'
<1>1. RecordingTypeOK
  BY DEF RecordingInv
<1>2. /\ autosaves \in BOOLEAN /\ delayed \in BOOLEAN /\ Interval \in Nat \ {0}
      /\ MaxFrames \in Nat /\ 0 \in 0 .. Interval - 1
  BY <1>1, TypeIs
<1>3. /\ recording' = TRUE /\ competition' = mode /\ snaps' = stream /\ frames' = length
      /\ count' = 0 /\ pending' = FALSE /\ steady' = (Automatic(stream) = {})
      /\ longest' = length /\ rolled' = FALSE /\ autosaves' = autosaves /\ delayed' = delayed
  BY DEF StartsWith
<1>4. length \in Nat /\ length <= length /\ length <= MaxFrames /\ steady' \in BOOLEAN
  BY <1>2, <1>3
<1>5. RecordingTypeOK'
  BY <1>2, <1>3, <1>4, TypeNext
<1>6. ASSUME steady'
      PROVE  Saves(snaps') = {} /\ Spaced(Saves(snaps'), frames', count', longest', rolled')
  <2>1. Saves(snaps') = {}
    BY <1>3, <1>6 DEF Saves
  <2>2. Spaced({}, length, 0, length, FALSE)
    BY NoneSpaced
  <2> QED
    BY <1>3, <2>1, <2>2
<1> QED
  BY <1>3, <1>5, <1>6 DEF RecordingInv

LEMMA StartRecordingKeeps == RecordingInv /\ rzx_start_recording => RecordingInv'
<1> SUFFICES ASSUME RecordingInv, rzx_start_recording PROVE RecordingInv'
  OBVIOUS
<1>1. PICK mode \in BOOLEAN, embedded \in {<<>>, <<[at |-> 0, auto |-> FALSE]>>} :
        StartsWith(embedded, 0, mode)
  BY DEF rzx_start_recording
<1>2. MaxFrames \in Nat
  BY RecordingAssumption
<1>3. /\ embedded \in Seq(Snapshot) /\ Ordered(embedded)
      /\ \A i \in DOMAIN embedded : embedded[i].at <= 0
  <2>1. CASE embedded = <<>>
    <3>1. DOMAIN <<>> = {}
      OBVIOUS
    <3> QED
      BY <2>1, <3>1, NothingIn
  <2>2. CASE embedded = <<[at |-> 0, auto |-> FALSE]>>
    <3> DEFINE snap == [at |-> 0, auto |-> FALSE]
    <3>1. snap \in Snapshot /\ snap.at = 0
      BY <1>2 DEF Snapshot
    <3> HIDE DEF snap
    <3>2. <<snap>> \in Seq(Snapshot) /\ DOMAIN <<snap>> = {1} /\ <<snap>>[1] = snap
      BY <3>1
    <3>3. Ordered(<<snap>>)
      BY <3>2 DEF Ordered
    <3> QED
      BY <2>2, <3>1, <3>2, <3>3 DEF snap
  <2> QED
    BY <2>1, <2>2
<1> QED
  BY <1>1, <1>2, <1>3, StartKeeps

LEMMA ContinueRecordingKeeps == RecordingInv /\ rzx_continue_recording => RecordingInv'
<1> SUFFICES ASSUME RecordingInv, rzx_continue_recording PROVE RecordingInv'
  OBVIOUS
<1>1. PICK length \in 1 .. Interval + 1, auto \in BOOLEAN :
        StartsWith(<<[at |-> 1, auto |-> auto], [at |-> length, auto |-> FALSE]>>, length, FALSE)
  BY DEF rzx_continue_recording
<1>2. MaxFrames \in Nat /\ length \in Nat /\ length <= MaxFrames /\ 1 <= length
  BY RecordingAssumption
<1> DEFINE first == [at |-> 1, auto |-> auto]
           second == [at |-> length, auto |-> FALSE]
           stream == <<first, second>>
<1>3. /\ first \in Snapshot /\ second \in Snapshot /\ Before(first, second)
      /\ first.at <= length /\ second.at <= length
  BY <1>2 DEF Snapshot, Before
<1>4. StartsWith(stream, length, FALSE)
  BY <1>1
<1> HIDE DEF first, second
<1>5. /\ stream \in Seq(Snapshot) /\ DOMAIN stream = {1, 2}
      /\ stream[1] = first /\ stream[2] = second
  BY <1>3
<1> HIDE DEF stream
<1>6. Ordered(stream) /\ \A i \in DOMAIN stream : stream[i].at <= length
  BY <1>3, <1>5 DEF Ordered
<1>7. length \in 0 .. MaxFrames
  BY <1>2
<1> QED
  BY <1>4, <1>5, <1>6, <1>7, StartKeeps

LEMMA StopKeeps ==
  ASSUME RecordingInv, Stopped, delayed' \in BOOLEAN
  PROVE  RecordingInv'
<1>1. RecordingTypeOK
  BY DEF RecordingInv
<1>2. /\ autosaves \in BOOLEAN /\ competition \in BOOLEAN /\ steady \in BOOLEAN
      /\ count \in 0 .. Interval - 1 /\ MaxFrames \in Nat
  BY <1>1, TypeIs
<1>3. /\ recording' = FALSE /\ pending' = FALSE /\ snaps' = <<>> /\ frames' = 0 /\ longest' = 0
      /\ rolled' = FALSE /\ competition' = competition /\ autosaves' = autosaves
      /\ count' = count /\ steady' = steady
  BY DEF Stopped
<1>4. DOMAIN <<>> = {} /\ 0 \in Nat /\ 0 <= 0 /\ 0 <= MaxFrames
  BY <1>2
<1>5. RecordingTypeOK'
  BY <1>2, <1>3, <1>4, NothingIn, TypeNext
<1>6. Spaced(Saves(snaps'), frames', count', longest', rolled') /\ Saves(snaps') = {}
  BY <1>3, NothingIn, NoneSpaced
<1> QED
  BY <1>3, <1>5, <1>6, NothingIn DEF RecordingInv

LEMMA ToggleKeeps == RecordingInv /\ ToggleAutosaves => RecordingInv'
<1> SUFFICES ASSUME RecordingInv, ToggleAutosaves PROVE RecordingInv'
  OBVIOUS
<1>1. RecordingTypeOK /\ Ordered(snaps) /\ (~recording => snaps = <<>>)
      /\ (steady => ~pending /\ Spaced(Saves(snaps), frames, count, longest, rolled))
  BY DEF RecordingInv
<1>2. /\ autosaves' = ~autosaves /\ steady' = (steady /\ ~recording)
      /\ recording' = recording /\ competition' = competition /\ frames' = frames
      /\ snaps' = snaps /\ count' = count /\ pending' = pending /\ delayed' = delayed
      /\ longest' = longest /\ rolled' = rolled
  BY DEF ToggleAutosaves
<1>3. autosaves' \in BOOLEAN /\ steady' \in BOOLEAN
  BY <1>1, <1>2, TypeIs
<1>4. RecordingTypeOK'
  BY <1>1, <1>2, <1>3 DEF RecordingTypeOK
<1>5. steady' => Saves(snaps') = {}
  BY <1>1, <1>2, NothingIn
<1> QED
  BY <1>1, <1>2, <1>4, <1>5 DEF RecordingInv

LEMMA RefusedKeeps == RecordingInv /\ DelayedInterruptRefused => RecordingInv'
<1> SUFFICES ASSUME RecordingInv, DelayedInterruptRefused PROVE RecordingInv'
  OBVIOUS
<1>1. /\ recording' = recording /\ competition' = competition /\ autosaves' = autosaves
      /\ frames' = frames /\ snaps' = snaps /\ count' = count /\ pending' = pending
      /\ steady' = steady /\ longest' = longest /\ rolled' = rolled /\ delayed' = FALSE
  BY DEF DelayedInterruptRefused
<1>2. RecordingTypeOK'
  BY <1>1 DEF RecordingInv, RecordingTypeOK
<1> QED
  BY <1>1, <1>2 DEF RecordingInv, Counts

LEMMA InsertKeeps == RecordingInv /\ menu_file_recording_insertsnapshot => RecordingInv'
<1> SUFFICES ASSUME RecordingInv, menu_file_recording_insertsnapshot PROVE RecordingInv'
  OBVIOUS
<1> DEFINE snap == [at |-> frames, auto |-> FALSE]
<1>1. RecordingTypeOK /\ Ordered(snaps)
      /\ (steady => ~pending /\ (Saves(snaps) # {} => Counts)
                    /\ Spaced(Saves(snaps), frames, count, longest, rolled))
  BY DEF RecordingInv
<1>2. /\ recording /\ snaps' = Append(snaps, snap)
      /\ recording' = recording /\ competition' = competition /\ autosaves' = autosaves
      /\ frames' = frames /\ count' = count /\ pending' = pending /\ delayed' = delayed
      /\ steady' = steady /\ longest' = longest /\ rolled' = rolled
  BY DEF menu_file_recording_insertsnapshot
<1>3. /\ frames \in Nat /\ frames <= MaxFrames /\ MaxFrames \in Nat /\ snaps \in Seq(Snapshot)
      /\ \A i \in DOMAIN snaps : snaps[i].at <= frames
  BY <1>1, TypeIs
<1>4. snap \in Snapshot /\ snap.at = frames /\ snap.auto = FALSE
  BY <1>3 DEF Snapshot
<1> HIDE DEF snap
<1>5. \A i \in DOMAIN snaps : Before(snaps[i], snap)
  BY <1>3, <1>4 DEF Before
<1>6. snaps' \in Seq(Snapshot) /\ Ordered(snaps')
  BY <1>1, <1>2, <1>3, <1>4, <1>5, AppendOrdered
<1>7. Saves(snaps') = Saves(snaps)
  BY <1>2, <1>3, <1>4, AppendSaves
<1>8. \A i \in DOMAIN snaps' : snaps'[i].at <= frames'
  <2>1. /\ DOMAIN snaps' = DOMAIN snaps \cup {Len(snaps) + 1}
        /\ snaps'[Len(snaps) + 1] = snap /\ \A i \in DOMAIN snaps : snaps'[i] = snaps[i]
    BY <1>2, <1>3, <1>4
  <2> QED
    BY <1>2, <1>3, <1>4, <2>1
<1>9. RecordingTypeOK'
  BY <1>1, <1>2, <1>6, <1>8, TypeIs, TypeNext
<1> QED
  BY <1>1, <1>2, <1>6, <1>7, <1>9 DEF RecordingInv, Counts

LEMMA RecordingStarts == RecordingInit => RecordingInv
<1> SUFFICES ASSUME RecordingInit PROVE RecordingInv
  OBVIOUS
<1>1. Interval \in Nat \ {0} /\ MaxFrames \in Nat
  BY RecordingAssumption
<1>2. DOMAIN <<>> = {} /\ 0 \in 0 .. Interval - 1 /\ 0 \in 0 .. MaxFrames
  BY <1>1
<1>3. RecordingTypeOK
  BY <1>1, <1>2, NothingIn DEF RecordingInit, RecordingTypeOK
<1>4. Spaced(Saves(snaps), frames, count, longest, rolled) /\ Saves(snaps) = {} /\ Ordered(snaps)
  BY NothingIn, NoneSpaced DEF RecordingInit
<1> QED
  BY <1>3, <1>4 DEF RecordingInv, RecordingInit

LEMMA RecordingInvNext == RecordingInv /\ [RecordingNext]_recordingVars => RecordingInv'
<1> SUFFICES ASSUME RecordingInv, [RecordingNext]_recordingVars PROVE RecordingInv'
  OBVIOUS
<1>1. /\ steady \in BOOLEAN /\ delayed \in BOOLEAN /\ snaps \in Seq(Snapshot)
      /\ (steady => ~pending)
  BY TypeIs DEF RecordingInv
<1>2. CASE rzx_start_recording
  BY <1>2, StartRecordingKeeps
<1>3. CASE rzx_continue_recording
  BY <1>3, ContinueRecordingKeeps
<1>4. CASE rzx_stop_recording
  BY <1>1, <1>4, StopKeeps DEF rzx_stop_recording
<1>5. CASE ToggleAutosaves
  BY <1>5, ToggleKeeps
<1>6. CASE FrameEnd
  BY <1>1, <1>6, FrameKeeps DEF FrameEnd
<1>7. CASE FrameEndAfterEI
  BY <1>7, WaitingFrameKeeps
<1>8. CASE OffSpeed
  BY <1>1, <1>8, StopKeeps DEF OffSpeed
<1>9. CASE DelayedInterrupt
  BY <1>1, <1>9, FrameKeeps DEF DelayedInterrupt
<1>10. CASE DelayedInterruptRefused
  BY <1>10, RefusedKeeps
<1>11. CASE RetriggeredInterrupt
  BY <1>1, <1>11, FrameKeeps DEF RetriggeredInterrupt
<1>12. CASE menu_file_recording_insertsnapshot
  BY <1>12, InsertKeeps
<1>13. CASE rzx_rollback
  <2>1. Len(snaps) \in DOMAIN snaps
    BY <1>1, <1>13 DEF rzx_rollback
  <2> QED
    BY <1>13, <2>1, RollbackKeeps DEF rzx_rollback
<1>14. CASE rzx_rollback_to
  BY <1>14, RollbackKeeps DEF rzx_rollback_to
<1>15. CASE UNCHANGED recordingVars
  BY <1>15 DEF RecordingInv, RecordingTypeOK, recordingVars, Counts
<1> QED
  BY <1>2, <1>3, <1>4, <1>5, <1>6, <1>7, <1>8, <1>9, <1>10, <1>11, <1>12, <1>13, <1>14, <1>15
     DEF RecordingNext

LEMMA InvSpaced == RecordingInv => AutosavesSpaced
<1> SUFFICES ASSUME RecordingInv PROVE AutosavesSpaced
  OBVIOUS
<1>1. RecordingTypeOK
  BY DEF RecordingInv
<1> SUFFICES ASSUME steady, NEW save \in Automatic(snaps), NEW older \in Automatic(snaps),
                    older.at < save.at
             PROVE  /\ \A age \in Ages : Age(save, frames) >= age => save.at - older.at >= age
                    /\ \/ \E other \in Automatic(snaps) :
                            older.at < other.at /\ other.at < save.at
                       \/ ~rolled /\ save.at - older.at <= Spacing(Age(older, longest))
                       \/ rolled /\ save.at - older.at < 2 * Spacing(Age(older, longest))
  BY <1>1 DEF AutosavesSpaced
<1> DEFINE A == Saves(snaps)
<1>2. Spaced(A, frames, count, longest, rolled)
  BY DEF RecordingInv
<1>3. snaps \in Seq(Snapshot) /\ rolled \in BOOLEAN
  BY <1>1, TypeIs
<1>4. save.at \in A /\ older.at \in A
  BY <1>3, SavesAre
<1>5. \A age \in Ages : Age(save, frames) >= age => save.at - older.at >= age
  BY <1>2, <1>4 DEF Spaced, Sparse, Age
<1>6. CASE \E z \in A : older.at < z /\ z < save.at
  <2>1. PICK z \in A : older.at < z /\ z < save.at
    BY <1>6
  <2>2. PICK other \in Automatic(snaps) : other.at = z
    BY <1>3, SavesAre
  <2>3. older.at < other.at /\ other.at < save.at
    BY <2>1, <2>2
  <2> QED
    BY <1>5, <2>3
<1>7. CASE ~\E z \in A : older.at < z /\ z < save.at
  <2>1. Adjacent(A, older.at, save.at)
    BY <1>4, <1>7 DEF Adjacent
  <2>2. CASE rolled
    <3>1. save.at - older.at < 2 * Spacing(longest - older.at)
      BY <1>2, <1>4, <2>1, <2>2 DEF Spaced, Loose
    <3> QED
      BY <1>5, <2>2, <3>1 DEF Age
  <2>3. CASE ~rolled
    <3>1. longest = frames /\ save.at - older.at <= Spacing(frames - older.at)
      BY <1>2, <1>4, <2>1, <2>3 DEF Spaced, Tight
    <3> QED
      BY <1>5, <2>3, <3>1 DEF Age
  <2> QED
    BY <2>2, <2>3
<1> QED
  BY <1>6, <1>7

\* The automatic snapshots of a recording whose saves are all taken on their frames are
\* thinned out as far as their ages allow and no further, whatever is rolled back to and put
\* in by hand, for any interval and any ages that are multiples of it and of each other.
THEOREM RecordingAutosavesSpaced == RecordingSpec => []AutosavesSpaced
<1>1. RecordingInit => RecordingInv
  BY RecordingStarts
<1>2. RecordingInv /\ [RecordingNext]_recordingVars => RecordingInv'
  BY RecordingInvNext
<1>3. RecordingInv => AutosavesSpaced
  BY InvSpaced
<1> QED
  BY <1>1, <1>2, <1>3, PTL DEF RecordingSpec

=============================================================================
