---------------------------- MODULE W5100Proofs ----------------------------
(* Proofs about the W5100 chip, for any number of sockets and any size of the  *)
(* rings: the I/O thread never blocks on a socket that has nothing for it, no  *)
(* socket waits for an I/O thread that sleeps, and what passes through the     *)
(* rings arrives whole, in order and once.                                     *)
EXTENDS W5100, FiniteSetTheorems, WellFoundedInduction, TLAPS

-----------------------------------------------------------------------------
(* The inductive invariant.                                                  *)

Pointer == 0 .. Word - 1

ChipType ==
  [state : State, fd : Fd \cup {0}, bound : BOOLEAN, ok : BOOLEAN,
   write_pending : BOOLEAN, tx_rr : Pointer, tx_wr : Pointer, last_send : Pointer,
   lengths : Seq(Nat), rx_rsr : 0 .. Ring, rx_rd : Pointer, old_rx_rd : Pointer,
   rx : [0 .. Ring - 1 -> Nat], tx : [0 .. Ring - 1 -> Nat]]
PeerType ==
  [knock : BOOLEAN, waiting : Nat, eof : BOOLEAN, stored : Nat, written : Nat,
   subs : Seq(Nat), wire : Seq(Nat), cuts : Seq(Nat), quiet : BOOLEAN,
   stray : BOOLEAN]
ThreadType ==
  [pc : {"loop", "add", "select", "sleep", "process", "exited"},
   i : Socket, rset : SUBSET Fd, wset : SUBSET Fd]

\* The records' types; W5100TypeOK names the bounds a reader asks about.
Shapes ==
  /\ sock \in [Socket -> ChipType] /\ host \in [Socket -> PeerType]
  /\ io \in ThreadType /\ pipe \in Nat /\ stop \in BOOLEAN /\ ei \in Socket

\* No descriptor is two sockets'.
Distinct ==
  \A s, t \in Socket : s # t /\ sock[s].fd # 0 => sock[t].fd # sock[s].fd

\* What a socket is like that the I/O thread has not seen yet, that is not connected
\* or not bound: the receive ring is empty, the pointers agree, no datagram came.
Sound(r, h) ==
  /\ r.fd = 0 => r.state = "CLOSED" /\ ~r.bound /\ ~r.ok /\ ~r.write_pending
  /\ ~r.ok \/ r.state \in {"INIT", "LISTEN"} => r.rx_rsr = 0
  /\ r.state \in {"INIT", "LISTEN", "UDP", "ESTABLISHED"} => r.rx_rd = r.old_rx_rd
  /\ r.state = "UDP" /\ h.waiting > 0 => r.bound

\* What Readable says of a socket, as a function of its records.
CanRead(r, h) ==
  \/ r.state = "LISTEN" /\ h.knock
  \/ r.state = "ESTABLISHED" /\ (h.waiting > 0 \/ h.eof)
  \/ r.state = "UDP" /\ h.waiting > 0

\* The descriptor in the read set is the socket's own, and was when it was added.
Mine(s) == sock[s].ok /\ sock[s].fd \in io.rset

\* What was in a set when the I/O thread comes to a socket is not yet its own.
NotAdded(s) == io.pc = "add" /\ s >= io.i => ~Mine(s)

\* The room for a UDP header, from the test of it to the use of it.
Roomy(s) ==
  /\ io.pc \in {"add", "select", "sleep"} \/ (io.pc = "process" /\ s >= io.i)
  /\ Mine(s) /\ sock[s].state = "UDP"
  => sock[s].rx_rsr + Header <= Ring

\* What select() reported is there until the I/O thread takes it.
Reported(s) ==
  io.pc = "process" /\ s >= io.i /\ Mine(s) => CanRead(sock[s], host[s])

\* The sockets that NoLostWake wants watched.
Wanted(r, h) == WantsRead(r) /\ ~h.quiet /\ (r.state = "UDP" => r.bound)

\* NoLostWake, from the visit to a socket on.
Watched(s) ==
  /\ io.pc \in {"select", "sleep"} \/ (io.pc = "add" /\ s < io.i)
  /\ pipe = 0 /\ ~stop /\ sock[s].fd # 0
  => /\ Wanted(sock[s], host[s]) => Mine(s)
     /\ sock[s].write_pending => sock[s].ok /\ sock[s].fd \in io.wset

Followed(s) == NotAdded(s) /\ Roomy(s) /\ Reported(s) /\ Watched(s)

ChipInv ==
  /\ Shapes /\ Distinct
  /\ \A s \in Socket : Sound(sock[s], host[s]) /\ Followed(s)

-----------------------------------------------------------------------------
(* There is always a descriptor to open, and a lowest one.                    *)

LEMMA LowestFd ==
  ASSUME NEW open, open \subseteq {sock[s].fd : s \in Socket}
  PROVE  NextFd(open) \in Fd \ open
<1>1. SocketCount \in Nat /\ SocketCount + 1 \in Int /\ 1 \in Int
      /\ 0 \in Int /\ SocketCount - 1 \in Int /\ SocketCount > 0
  BY W5100Assumption
<1>2. /\ IsFiniteSet(Fd) /\ Cardinality(Fd) = SocketCount + 1
      /\ IsFiniteSet(Socket) /\ Cardinality(Socket) = SocketCount
  <2>1. IsFiniteSet(Fd) /\ Cardinality(Fd) = SocketCount + 1
    BY <1>1, FS_Interval DEF Fd
  <2>2. IsFiniteSet(Socket) /\ Cardinality(Socket) = SocketCount
    BY <1>1, FS_Interval DEF Socket
  <2> QED
    BY <2>1, <2>2
<1>3. Fd \ open # {}
  <2> SUFFICES ASSUME Fd \subseteq open PROVE FALSE
    OBVIOUS
  <2> DEFINE f == [fd \in Fd |-> CHOOSE s \in Socket : sock[s].fd = fd]
  <2>1. \A fd \in Fd : f[fd] \in Socket /\ sock[f[fd]].fd = fd
    OBVIOUS
  <2>2. f \in [Fd -> Socket]
    BY <2>1
  <2> HIDE DEF f
  <2>3. \E x, y \in Fd : x # y /\ f[x] = f[y]
    BY <1>1, <1>2, <2>2, FS_PigeonHole
  <2> QED
    BY <2>1, <2>3
<1>4. \E fd \in Fd \ open : \A other \in Fd \ open : fd <= other
  <2>1. Fd \ open \subseteq Nat
    BY <1>1 DEF Fd
  <2>2. \E x \in Fd \ open : \A y \in Fd \ open : ~(<<y, x>> \in OpToRel(<, Nat))
    BY <1>3, <2>1, NatLessThanWellFounded, WFMin
  <2>3. \A x, y \in Nat : ~(<<y, x>> \in OpToRel(<, Nat)) => x <= y
    BY DEF OpToRel
  <2> QED
    BY <2>1, <2>2, <2>3
<1> QED
  BY <1>4 DEF NextFd

-----------------------------------------------------------------------------
(* The records.                                                               *)

LEMMA Numbers ==
  /\ SocketCount \in Nat /\ SocketCount > 0
  /\ Ring \in Nat /\ Ring > 1 /\ Header \in Nat /\ Header > 0 /\ Header + 1 <= Ring
  /\ Word \in Nat /\ Word > Ring
  /\ 0 \in Pointer /\ 0 \in 0 .. Ring /\ 0 \notin Fd
  BY W5100Assumption DEF Pointer, Fd

LEMMA CleanChip == Clean \in ChipType /\ NoPeer \in PeerType
<1>1. Blank \in [0 .. Ring - 1 -> Nat]
  BY DEF Blank
<1>2. <<>> \in Seq(Nat)
  OBVIOUS
<1> QED
  BY <1>1, <1>2, Numbers DEF Clean, NoPeer, ChipType, PeerType, State

\* The whole pointer arithmetic that the proofs need.
LEMMA MinusType ==
  ASSUME NEW a \in Int, NEW b \in Int
  PROVE  Minus(a, b) \in Pointer
<1>1. \A x \in Int, n \in Nat \ {0} : x % n \in 0 .. n - 1
  OBVIOUS
<1>2. a + Word - b \in Int /\ Word \in Nat \ {0}
  BY Numbers
<1> QED
  BY <1>1, <1>2 DEF Minus, Pointer

LEMMA WordType ==
  ASSUME NEW a \in Int
  PROVE  a % Word \in Pointer
<1>1. \A x \in Int, n \in Nat \ {0} : x % n \in 0 .. n - 1
  OBVIOUS
<1> QED
  BY <1>1, Numbers DEF Pointer

LEMMA PointerNat == \A x \in Pointer : x \in Nat /\ x \in 0 .. Word - 1
  BY Numbers DEF Pointer

LEMMA RingIndex ==
  ASSUME NEW a \in Int
  PROVE  a % Ring \in 0 .. Ring - 1 /\ a % Ring \in Nat
<1>1. \A x \in Int, n \in Nat \ {0} : x % n \in 0 .. n - 1
  OBVIOUS
<1> QED
  BY <1>1, Numbers

\* A ring after n bytes from index at on.
LEMMA FilledRing ==
  ASSUME NEW ring \in [0 .. Ring - 1 -> Nat], NEW from \in Nat, NEW at \in Int, NEW n \in Nat
  PROVE  [i \in DOMAIN ring |->
            LET k == (i + Ring - at) % Ring IN IF k < n THEN from + k + 1 ELSE ring[i]]
         \in [0 .. Ring - 1 -> Nat]
<1>1. \A i \in 0 .. Ring - 1 : i + Ring - at \in Int
  BY Numbers
<1>2. \A i \in 0 .. Ring - 1 : (i + Ring - at) % Ring \in Nat
  BY <1>1, RingIndex
<1> QED
  BY <1>2

\* Integer division, from which the rest follows: what the back end knows of % without
\* a fixed divisor is little more.
LEMMA Divided ==
  ASSUME NEW b \in Nat \ {0}, NEW a \in Int
  PROVE  a % b \in 0 .. b - 1 /\ \E q \in Int : a = b * q + (a % b)
<1>1. a = b * (a \div b) + (a % b) /\ a \div b \in Int /\ a % b \in 0 .. b - 1
  OBVIOUS
<1> QED
  BY <1>1

LEMMA Multiples ==
  ASSUME NEW b \in Nat \ {0}, NEW m \in Int, NEW n \in Int, m > n
  PROVE  b * m >= b * n + b
<1>1. m - n - 1 \in Nat /\ b \in Nat
  OBVIOUS
<1>2. \A i, j \in Nat : i * j \in Nat
  OBVIOUS
<1>3. b * (m - n - 1) \in Nat
  BY <1>1, <1>2
<1>4. b * (m - n - 1) = b * m - b * n - b
  OBVIOUS
<1> QED
  BY <1>3, <1>4

\* The two halves of two pointers are a pointer.
LEMMA HalfPointer ==
  ASSUME NEW old \in Pointer, NEW new \in Pointer, NEW half \in HalfMoved(old, new)
  PROVE  half \in Pointer
<1>1. Page \in Nat \ {0} /\ Word \in Nat /\ Word % Page = 0
  BY W5100Assumption
<1>2. PICK m \in Int : Word = Page * m
  <2>1. \E m \in Int : Word = Page * m + (Word % Page)
    BY <1>1, Word \in Int, Divided, Zenon
  <2>2. PICK m \in Int : Word = Page * m + (Word % Page)
    BY <2>1, Zenon
  <2>3. PICK k \in Int : k = Page * m
    BY <1>1
  <2>4. Word = k + 0
    BY <1>1, <2>2, <2>3
  <2> QED
    BY <1>1, <2>3, <2>4
<1>3. ASSUME NEW x \in Pointer, NEW y \in Pointer
      PROVE  Page * (x \div Page) + (y % Page) \in Pointer
  <2>1. x \in Int /\ y \in Int /\ x >= 0 /\ x < Word
    BY <1>1, <1>3 DEF Pointer
  <2>2. /\ x = Page * (x \div Page) + (x % Page) /\ x \div Page \in Int
        /\ x % Page \in 0 .. Page - 1 /\ y % Page \in 0 .. Page - 1
    BY <1>1, <2>1
  <2>3. PICK q \in Int, i \in 0 .. Page - 1, j \in 0 .. Page - 1 :
          q = x \div Page /\ i = x % Page /\ j = y % Page
    BY <2>2
  <2>4. PICK z \in Int, e \in Int : z = Page * q /\ e = Page * 0 /\ e = 0
    BY <1>1
  <2>5. x = z + i
    BY <2>2, <2>3, <2>4
  <2>6. ~(q >= m)
    <3>1. q > m => z >= Word + Page
      BY <1>1, <1>2, <2>4, Multiples
    <3>2. q = m => z = Word
      BY <1>2, <2>4
    <3> QED
      BY <1>1, <2>1, <2>3, <2>5, <3>1, <3>2
  <2>7. ~(q < 0)
    <3>1. q < 0 => e >= z + Page
      BY <1>1, <2>4, Multiples
    <3> QED
      BY <1>1, <2>1, <2>3, <2>4, <2>5, <3>1
  <2>8. Word >= z + Page
    BY <1>1, <1>2, <2>4, <2>6, Multiples
  <2>9. z >= 0
    <3>1. q > 0 => z >= e + Page
      BY <1>1, <2>4, Multiples
    <3> QED
      BY <1>1, <2>4, <2>7, <3>1
  <2>10. z + j \in 0 .. Word - 1
    BY <1>1, <2>3, <2>8, <2>9
  <2> QED
    BY <2>3, <2>4, <2>10 DEF Pointer
<1> QED
  BY <1>3 DEF HalfMoved

LEMMA ChipFields ==
  ASSUME NEW r \in ChipType
  PROVE  /\ r.tx_rr \in Pointer /\ r.tx_wr \in Pointer /\ r.last_send \in Pointer
         /\ r.rx_rd \in Pointer /\ r.old_rx_rd \in Pointer
         /\ r.rx_rsr \in 0 .. Ring /\ r.lengths \in Seq(Nat)
         /\ r.rx \in [0 .. Ring - 1 -> Nat] /\ r.tx \in [0 .. Ring - 1 -> Nat]
  BY DEF ChipType

LEMMA PeerFields ==
  ASSUME NEW g \in PeerType
  PROVE  /\ g.waiting \in Nat /\ g.stored \in Nat /\ g.written \in Nat
         /\ g.subs \in Seq(Nat) /\ g.wire \in Seq(Nat) /\ g.cuts \in Seq(Nat)
  BY DEF PeerType

LEMMA PointerInt ==
  ASSUME NEW x \in Pointer
  PROVE  x \in Int /\ x \in Nat /\ x % Ring \in 0 .. Ring - 1 /\ x % Ring \in Int
<1>1. x \in Int /\ x \in Nat
  BY PointerNat
<1> QED
  BY <1>1, RingIndex

\* What the peer has, after the guest's accesses.
LEMMA PeerWrites ==
  ASSUME NEW g \in PeerType, NEW h, NEW w \in Nat, NEW q \in Seq(Nat),
         \/ h = [g EXCEPT !.written = w]
         \/ h = [g EXCEPT !.subs = q]
  PROVE  /\ h \in PeerType /\ h.waiting = g.waiting /\ h.quiet = g.quiet
         /\ h.eof = g.eof /\ h.knock = g.knock
  BY DEF PeerType

\* What RECV takes off RX_RSR is what RX_RD moved.
LEMMA MinusMoved ==
  ASSUME NEW a \in Pointer, NEW n \in 0 .. Word - 1
  PROVE  Minus((a + n) % Word, a) = n
<1>1. Word \in Nat \ {0} /\ a \in 0 .. Word - 1
  BY Numbers DEF Pointer
<1>2. ASSUME NEW w \in Nat \ {0}, NEW x \in 0 .. w - 1, NEW k \in 0 .. w - 1
      PROVE  (((x + k) % w) + w - x) % w = k
  <2>1. CASE x + k < w
    <3>1. (x + k) % w = x + k
      BY <2>1, <1>2
    <3>2. (k + w) % w = k
      BY <1>2
    <3> QED
      BY <3>1, <3>2, x + k + w - x = k + w
  <2>2. CASE x + k >= w
    <3>1. (x + k) % w = x + k - w
      BY <2>2, <1>2
    <3>2. k % w = k
      BY <1>2
    <3> QED
      BY <3>1, <3>2, x + k - w + w - x = k
  <2> QED
    BY <1>2, <2>1, <2>2
<1> QED
  BY <1>1, <1>2 DEF Minus

LEMMA MinusLess ==
  ASSUME NEW a \in 0 .. Ring, NEW n \in 0 .. a
  PROVE  Minus(a, n) = a - n
<1>1. ASSUME NEW w \in Nat \ {0}, NEW k \in 0 .. w - 1
      PROVE  (k + w) % w = k
  BY <1>1
<1>2. Word \in Nat \ {0} /\ a - n \in 0 .. Word - 1 /\ a + Word - n = (a - n) + Word
  BY Numbers
<1> QED
  BY <1>1, <1>2 DEF Minus

-----------------------------------------------------------------------------
(* A step of the guest or of the network on one socket.                       *)

\* The descriptor the socket had, none, or one that no socket has.
MayHave(s, fd) ==
  fd \in {0, sock[s].fd} \/ fd \notin OpenFds \ {sock[s].fd}

\* The step leaves the I/O thread's sets right: a socket that stays the I/O thread's
\* keeps its descriptor, its room and what it has to return, and one that comes to want
\* something wakes the thread.
Harmless(s, r, h) ==
  LET old == sock[s] IN
  /\ r.ok => old.ok /\ r.fd = old.fd
  /\ r.ok /\ r.state = "UDP" => old.state = "UDP" /\ r.rx_rsr <= old.rx_rsr
  /\ r.ok /\ CanRead(old, host[s]) => CanRead(r, h)
  /\ \/ pipe' = pipe + 1
     \/ r.fd = 0
     \/ /\ Wanted(r, h) => Wanted(old, host[s]) /\ r.ok = old.ok /\ r.fd = old.fd
        /\ r.write_pending => old.write_pending /\ r.ok = old.ok /\ r.fd = old.fd

LEMMA SocketStep ==
  ASSUME ChipInv, NEW s \in Socket, NEW r \in ChipType, NEW h \in PeerType,
         Put(s, r, h), io' = io, stop' = stop, ei' \in Socket, pipe' \in {pipe, pipe + 1},
         Sound(r, h), MayHave(s, r.fd), Harmless(s, r, h)
  PROVE  ChipInv'
<1>1. /\ Shapes /\ sock' = [sock EXCEPT ![s] = r] /\ host' = [host EXCEPT ![s] = h]
      /\ sock'[s] = r /\ host'[s] = h
      /\ \A t \in Socket \ {s} : sock'[t] = sock[t] /\ host'[t] = host[t]
  BY DEF ChipInv, Shapes, Put
<1>2. Shapes'
  BY <1>1 DEF Shapes
<1>3. Distinct'
  <2>1. ASSUME NEW t \in Socket \ {s} PROVE r.fd = 0 \/ sock[t].fd # r.fd
    <3>1. CASE r.fd = sock[s].fd
      BY <3>1 DEF ChipInv, Distinct
    <3>2. CASE r.fd \notin OpenFds \ {sock[s].fd} /\ r.fd # 0 /\ r.fd # sock[s].fd
      BY <3>2 DEF OpenFds
    <3> QED
      BY <3>1, <3>2 DEF MayHave
  <2>2. ASSUME NEW a \in Socket, NEW b \in Socket, a # b, sock'[a].fd # 0
        PROVE  sock'[b].fd # sock'[a].fd
    <3>1. CASE a = s
      BY <1>1, <2>1, <2>2, <3>1
    <3>2. CASE b = s
      BY <1>1, <2>1, <2>2, <3>2
    <3>3. CASE a # s /\ b # s
      BY <1>1, <2>2, <3>3 DEF ChipInv, Distinct
    <3> QED
      BY <3>1, <3>2, <3>3
  <2> QED
    BY <2>2 DEF Distinct
<1>4. pipe' = 0 => pipe = 0 /\ pipe' = pipe
  BY <1>1 DEF Shapes
<1>5. ASSUME NEW t \in Socket, t # s PROVE Sound(sock'[t], host'[t]) /\ Followed(t)'
  <2>1. Sound(sock[t], host[t]) /\ Followed(t) /\ sock'[t] = sock[t] /\ host'[t] = host[t]
    BY <1>1, <1>5 DEF ChipInv
  <2>2. NotAdded(t)' /\ Roomy(t)' /\ Reported(t)'
    BY <2>1 DEF Followed, NotAdded, Roomy, Reported, Mine
  <2>3. Watched(t)'
    BY <1>4, <2>1 DEF Followed, Watched, Mine
  <2> QED
    BY <2>1, <2>2, <2>3 DEF Followed
<1>6. Followed(s)'
  <2>1. Followed(s)
    BY DEF ChipInv
  <2>2. Mine(s)' => Mine(s)
    BY <1>1 DEF Mine, Harmless
  <2>3. NotAdded(s)'
    BY <2>1, <2>2 DEF Followed, NotAdded
  <2>4. Roomy(s)'
    <3>1. r.rx_rsr \in Int /\ sock[s].rx_rsr \in Int /\ Header \in Int /\ Ring \in Int
      BY <1>1, Numbers DEF Shapes, ChipType
    <3>2. Mine(s)' /\ r.state = "UDP" => sock[s].state = "UDP" /\ r.rx_rsr <= sock[s].rx_rsr
      BY <1>1 DEF Mine, Harmless
    <3> QED
      BY <1>1, <2>1, <2>2, <3>1, <3>2 DEF Followed, Roomy
  <2>5. Reported(s)'
    <3>1. Mine(s)' /\ CanRead(sock[s], host[s]) => CanRead(r, h)
      BY <1>1 DEF Mine, Harmless
    <3> QED
      BY <1>1, <2>1, <2>2, <3>1 DEF Followed, Reported
  <2>6. Watched(s)'
    <3>1. CASE pipe' = pipe + 1
      BY <1>1, <3>1 DEF Watched, Shapes
    <3>2. CASE r.fd = 0
      BY <1>1, <3>2 DEF Watched
    <3>3. CASE /\ r.fd # 0
               /\ Wanted(r, h) => Wanted(sock[s], host[s]) /\ r.ok = sock[s].ok /\ r.fd = sock[s].fd
               /\ r.write_pending => sock[s].write_pending /\ r.ok = sock[s].ok /\ r.fd = sock[s].fd
      BY <1>1, <1>4, <2>1, <3>3 DEF Followed, Watched, Mine
    <3> QED
      BY <3>1, <3>2, <3>3 DEF Harmless
  <2> QED
    BY <2>3, <2>4, <2>5, <2>6 DEF Followed
<1>7. \A t \in Socket : Sound(sock'[t], host'[t]) /\ Followed(t)'
  BY <1>1, <1>5, <1>6
<1> QED
  BY <1>2, <1>3, <1>7 DEF ChipInv

-----------------------------------------------------------------------------
(* The guest's commands.                                                      *)

LEMMA Typed ==
  ASSUME ChipInv, NEW s \in Socket
  PROVE  /\ sock[s] \in ChipType /\ host[s] \in PeerType /\ Sound(sock[s], host[s])
         /\ pipe \in Nat
  BY DEF ChipInv, Shapes

\* What a command that changes the registers of one socket only puts.
LEMMA SameHost ==
  ASSUME ChipInv, NEW s \in Socket, NEW r, sock' = [sock EXCEPT ![s] = r], host' = host
  PROVE  Put(s, r, host[s])
  BY DEF ChipInv, Shapes, Put

LEMMA SameSock ==
  ASSUME ChipInv, NEW s \in Socket, NEW h, sock' = sock, host' = [host EXCEPT ![s] = h]
  PROVE  Put(s, sock[s], h)
  BY DEF ChipInv, Shapes, Put

LEMMA CleanedChip ==
  ASSUME ChipInv, NEW s \in Socket
  PROVE  /\ Cleaned(sock[s]) \in ChipType /\ Cleaned(sock[s]).fd = 0
         /\ ~Cleaned(sock[s]).bound
         /\ ~Cleaned(sock[s]).ok /\ ~Cleaned(sock[s]).write_pending
         /\ Cleaned(sock[s]).rx_rsr = 0
         /\ Cleaned(sock[s]).rx_rd = 0 /\ Cleaned(sock[s]).old_rx_rd = 0
         /\ Sound(Cleaned(sock[s]), NoPeer)
<1>1. sock[s] \in ChipType /\ Sound(sock[s], host[s])
  BY Typed
<1>2. Clean \in ChipType
  BY CleanChip
<1>3. CASE sock[s].fd # 0
  <2>1. Cleaned(sock[s]) = Clean
    BY <1>3 DEF Cleaned
  <2> QED
    BY <1>2, <2>1 DEF Clean, Sound
<1>4. CASE sock[s].fd = 0
  <2>1. ~sock[s].bound /\ ~sock[s].ok /\ ~sock[s].write_pending
    BY <1>1, <1>4 DEF Sound
  <2>2. Cleaned(sock[s]) = [Clean EXCEPT !.bound = sock[s].bound, !.ok = sock[s].ok,
                                         !.write_pending = sock[s].write_pending]
    BY <1>4 DEF Cleaned
  <2>3. Cleaned(sock[s]) \in ChipType
    BY <1>1, <1>2, <2>2 DEF ChipType
  <2>4. /\ Cleaned(sock[s]).fd = 0 /\ Cleaned(sock[s]).state = "CLOSED"
        /\ Cleaned(sock[s]).rx_rsr = 0
        /\ Cleaned(sock[s]).rx_rd = 0 /\ Cleaned(sock[s]).old_rx_rd = 0
        /\ Cleaned(sock[s]).bound = sock[s].bound
        /\ Cleaned(sock[s]).ok = sock[s].ok
        /\ Cleaned(sock[s]).write_pending = sock[s].write_pending
    BY <2>2 DEF Clean
  <2> QED
    BY <2>1, <2>3, <2>4 DEF Sound
<1> QED
  BY <1>3, <1>4

\* A socket is closed: its descriptor is gone.
LEMMA ClosedStep ==
  ASSUME ChipInv, NEW s \in Socket, NEW r \in ChipType,
         r.fd = 0, ~r.ok, Sound(r, NoPeer), Put(s, r, NoPeer),
         io' = io, stop' = stop, ei' \in Socket, pipe' \in {pipe, pipe + 1}
  PROVE  ChipInv'
  BY CleanChip, SocketStep DEF MayHave, Harmless

LEMMA OpenStep ==
  ASSUME ChipInv, NEW s \in Socket, w5100_socket_open(s)
  PROVE  ChipInv'
<1>1. io' = io /\ stop' = stop /\ ei' = ei /\ pipe' = pipe /\ ei \in Socket
  BY DEF w5100_socket_open, Command, NoWake, ChipInv, Shapes
<1> DEFINE c == Cleaned(sock[s])
           fd == NextFd(OpenFds \ {sock[s].fd})
           st == IF plan[s].mode = "TCP" THEN "INIT" ELSE "UDP"
<1>2. /\ c \in ChipType /\ c.fd = 0 /\ ~c.bound /\ ~c.ok /\ ~c.write_pending
      /\ c.rx_rsr = 0
      /\ c.rx_rd = 0 /\ c.old_rx_rd = 0 /\ Sound(c, NoPeer)
  BY CleanedChip
<1>3. CASE Put(s, c, NoPeer)
  BY <1>1, <1>2, <1>3, ClosedStep
<1>4. CASE Put(s, [c EXCEPT !.fd = fd, !.state = st], NoPeer)
  <2> DEFINE r == [c EXCEPT !.fd = fd, !.state = st]
  <2>1. fd \in Fd \ (OpenFds \ {sock[s].fd})
    BY LowestFd DEF OpenFds
  <2>2. st \in State /\ st \in {"INIT", "UDP"}
    BY DEF State
  <2> HIDE DEF c, fd, st
  <2>3. /\ r \in ChipType /\ r.fd = fd /\ r.state = st /\ r.ok = c.ok
        /\ r.write_pending = c.write_pending /\ r.rx_rsr = c.rx_rsr
        /\ r.rx_rd = c.rx_rd /\ r.old_rx_rd = c.old_rx_rd /\ r.bound = c.bound
    BY <1>2, <2>1, <2>2 DEF ChipType
  <2> HIDE DEF r
  <2>4. Sound(r, NoPeer)
    BY <1>2, <2>1, <2>3, Numbers DEF Sound, NoPeer
  <2>5. NoPeer \in PeerType /\ MayHave(s, r.fd)
    BY <2>1, <2>3, CleanChip DEF MayHave
  <2>6. Harmless(s, r, NoPeer)
    <3>1. ~Wanted(r, NoPeer)
      <4>1. ~r.bound
        BY <1>2, <2>3
      <4> QED
        BY <2>2, <2>3, <4>1 DEF Wanted, WantsRead
    <3> QED
      BY <1>2, <2>3, <3>1 DEF Harmless
  <2>7. Put(s, r, NoPeer)
    BY <1>4 DEF r
  <2> QED
    BY <1>1, <2>3, <2>4, <2>5, <2>6, <2>7, SocketStep
<1> QED
  BY <1>3, <1>4 DEF w5100_socket_open

\* Who does not touch the descriptor, the transmission or the receive ring, and leaves
\* the socket neither wanted nor readable unless it was so, or wakes the thread.
LEMMA StateStep ==
  ASSUME ChipInv, NEW s \in Socket, NEW b \in BOOLEAN, NEW st \in State,
         sock' = [sock EXCEPT ![s] = [@ EXCEPT !.bound = b, !.state = st]],
         NEW h \in PeerType, host' = [host EXCEPT ![s] = h],
         io' = io, stop' = stop, ei' \in Socket, pipe' \in {pipe, pipe + 1},
         sock[s].bound => b, sock[s].fd # 0,
         st = "UDP" => sock[s].state = "UDP" /\ h = host[s],
         ~CanRead(sock[s], host[s]) \/ (st = sock[s].state /\ h = host[s]),
         st \in {"INIT", "LISTEN", "ESTABLISHED"} => sock[s].state \in {"INIT", st},
         pipe' = pipe + 1 \/ st = "CLOSED" \/ h.quiet
           \/ (st = "INIT" /\ b = TRUE)
  PROVE  ChipInv'
<1> DEFINE r == [sock[s] EXCEPT !.bound = b, !.state = st]
<1>1. sock[s] \in ChipType /\ host[s] \in PeerType /\ Sound(sock[s], host[s])
  BY Typed
<1>2. /\ r \in ChipType /\ r.fd = sock[s].fd /\ r.ok = sock[s].ok /\ r.state = st
      /\ r.bound = b /\ r.write_pending = sock[s].write_pending
      /\ r.rx_rsr = sock[s].rx_rsr /\ r.rx_rd = sock[s].rx_rd
      /\ r.old_rx_rd = sock[s].old_rx_rd
  BY <1>1 DEF ChipType
<1>3. Put(s, r, h)
  BY DEF Put
<1> HIDE DEF r
<1>4. Sound(r, h)
  BY <1>1, <1>2 DEF Sound
<1>5. Harmless(s, r, h)
  <2>1. CanRead(sock[s], host[s]) => CanRead(r, h)
    BY <1>2 DEF CanRead
  <2>2. sock[s].rx_rsr <= sock[s].rx_rsr
    BY <1>1 DEF ChipType
  <2>3. pipe' = pipe + 1 \/ ~Wanted(r, h)
    BY <1>2 DEF Wanted, WantsRead
  <2> QED
    BY <1>2, <2>1, <2>2, <2>3 DEF Harmless
<1> QED
  BY <1>2, <1>3, <1>4, <1>5, SocketStep DEF MayHave

LEMMA BindFailsStep ==
  ASSUME ChipInv, NEW s \in Socket, sock[s].state \in {"INIT", "UDP"}, BindFails(s),
         io' = io, stop' = stop, ei' \in Socket
  PROVE  ChipInv'
<1>1. sock[s] \in ChipType /\ host[s] \in PeerType /\ Sound(sock[s], host[s])
      /\ ~sock[s].bound /\ pipe' = pipe /\ sock[s].fd # 0
  BY Typed DEF BindFails, NoWake, Sound
<1>2. sock' = [sock EXCEPT ![s] = [@ EXCEPT !.bound = FALSE, !.state = "CLOSED"]]
  <2>1. [sock[s] EXCEPT !.state = "CLOSED"]
          = [sock[s] EXCEPT !.bound = FALSE, !.state = "CLOSED"]
    BY <1>1 DEF ChipType
  <2> QED
    BY <2>1 DEF BindFails
<1>3. host' = [host EXCEPT ![s] = host[s]]
  BY DEF BindFails, ChipInv, Shapes
<1>4. ~CanRead(sock[s], host[s])
  BY <1>1 DEF CanRead, Sound, PeerType
<1> QED
  BY <1>1, <1>2, <1>3, <1>4, StateStep DEF State

LEMMA PortStep ==
  ASSUME ChipInv, NEW s \in Socket, w5100_write_socket_port(s)
  PROVE  ChipInv'
<1>1. /\ io' = io /\ stop' = stop /\ ei' \in Socket /\ sock[s].state = "UDP" /\ ~sock[s].bound
      /\ host' = host
  BY DEF w5100_write_socket_port, Command, ChipInv, Shapes
<1>2. CASE sock' = [sock EXCEPT ![s].bound = TRUE] /\ Wake
  <2>1. sock[s] \in ChipType /\ host[s] \in PeerType /\ Sound(sock[s], host[s])
    BY Typed
  <2>2. [sock[s] EXCEPT !.bound = TRUE] = [sock[s] EXCEPT !.bound = TRUE, !.state = "UDP"]
    BY <1>1, <2>1 DEF ChipType
  <2>3. sock' = [sock EXCEPT ![s] = [@ EXCEPT !.bound = TRUE, !.state = "UDP"]]
    BY <1>2, <2>2
  <2>4. host' = [host EXCEPT ![s] = host[s]]
    BY <1>1 DEF ChipInv, Shapes
  <2>5. sock[s].fd # 0
    BY <1>1, <2>1 DEF Sound
  <2> QED
    BY <1>1, <1>2, <2>1, <2>3, <2>4, <2>5, StateStep DEF Wake, State
<1>3. CASE sock' = [sock EXCEPT ![s].state = "CLOSED"] /\ NoWake
  BY <1>1, <1>3, BindFailsStep DEF BindFails
<1> QED
  BY <1>2, <1>3 DEF w5100_write_socket_port

LEMMA ListenStep ==
  ASSUME ChipInv, NEW s \in Socket, w5100_socket_listen(s)
  PROVE  ChipInv'
<1>1. /\ io' = io /\ stop' = stop /\ ei' \in Socket /\ sock[s].state = "INIT"
      /\ host' = host
  BY DEF w5100_socket_listen, Command, ChipInv, Shapes
<1>2. /\ sock[s] \in ChipType /\ host[s] \in PeerType /\ sock[s].fd # 0
      /\ host' = [host EXCEPT ![s] = host[s]] /\ ~CanRead(sock[s], host[s])
  BY <1>1, Typed DEF Sound, ChipInv, Shapes, CanRead
<1>3. CASE sock' = [sock EXCEPT ![s].bound = TRUE] /\ NoWake
  <2>1. [sock[s] EXCEPT !.bound = TRUE] = [sock[s] EXCEPT !.bound = TRUE, !.state = "INIT"]
    BY <1>1, <1>2 DEF ChipType
  <2>2. sock' = [sock EXCEPT ![s] = [@ EXCEPT !.bound = TRUE, !.state = "INIT"]]
    BY <1>3, <2>1
  <2> QED
    BY <1>1, <1>2, <1>3, <2>2, StateStep DEF NoWake, State
<1>4. CASE sock' = [sock EXCEPT ![s] = [@ EXCEPT !.bound = TRUE, !.state = "LISTEN"]] /\ Wake
  BY <1>1, <1>2, <1>4, StateStep DEF Wake, State
<1> QED
  BY <1>1, <1>3, <1>4, BindFailsStep DEF w5100_socket_listen

LEMMA ConnectStep ==
  ASSUME ChipInv, NEW s \in Socket, w5100_socket_connect(s)
  PROVE  ChipInv'
<1>1. /\ io' = io /\ stop' = stop /\ ei' \in Socket /\ sock[s].state = "INIT"
      /\ pipe' = pipe
  BY DEF w5100_socket_connect, Command, NoWake, ChipInv, Shapes
<1>2. /\ sock[s] \in ChipType /\ host[s] \in PeerType /\ sock[s].fd # 0
      /\ ~CanRead(sock[s], host[s])
  BY <1>1, Typed DEF Sound, CanRead
<1>3. CASE Put(s, [sock[s] EXCEPT !.bound = TRUE, !.state = "CLOSED"], host[s])
  BY <1>1, <1>2, <1>3, StateStep DEF Put, State
<1>4. CASE Put(s, [sock[s] EXCEPT !.bound = TRUE, !.state = "ESTABLISHED"],
               [NoPeer EXCEPT !.quiet = TRUE, !.stray = host[s].stray])
  <2> DEFINE h == [NoPeer EXCEPT !.quiet = TRUE, !.stray = host[s].stray]
  <2>1. h \in PeerType /\ h.quiet
    BY <1>2, CleanChip DEF PeerType
  <2> QED
    BY <1>1, <1>2, <1>4, <2>1, StateStep DEF Put, State
<1> QED
  BY <1>1, <1>3, <1>4, BindFailsStep DEF w5100_socket_connect

LEMMA ShutStep ==
  ASSUME ChipInv, NEW s \in Socket, w5100_socket_discon(s) \/ w5100_socket_close(s)
  PROVE  ChipInv'
<1>1. /\ io' = io /\ stop' = stop /\ ei' \in Socket /\ pipe' = pipe + 1
      /\ Put(s, Clean, NoPeer)
  BY DEF w5100_socket_discon, w5100_socket_close, Command, Wake, Shut, ChipInv, Shapes
<1>2. Clean \in ChipType /\ Clean.fd = 0 /\ ~Clean.ok /\ Sound(Clean, NoPeer)
  BY CleanChip DEF Clean, Sound
<1> QED
  BY <1>1, <1>2, ClosedStep

-----------------------------------------------------------------------------
(* Sending, receiving, and the network.                                       *)

\* Who changes no more than a ring, its pointers or what the peer has, and leaves the
\* receive ring no fuller.
LEMMA RingStep ==
  ASSUME ChipInv, NEW s \in Socket, NEW r \in ChipType, NEW h \in PeerType, Put(s, r, h),
         io' = io, stop' = stop, ei' = ei, pipe' \in {pipe, pipe + 1},
         r.fd = sock[s].fd, r.state = sock[s].state, r.ok = sock[s].ok,
         sock[s].bound => r.bound, sock[s].fd # 0, r.rx_rsr <= sock[s].rx_rsr,
         r.state \in {"INIT", "LISTEN", "UDP", "ESTABLISHED"} => r.rx_rd = r.old_rx_rd,
         r.state = "UDP" /\ h.waiting > 0 => r.bound,
         CanRead(sock[s], host[s]) => CanRead(r, h),
         \/ pipe' = pipe + 1
         \/ /\ r.bound = sock[s].bound /\ r.rx_rsr = sock[s].rx_rsr
            /\ r.write_pending = sock[s].write_pending /\ h.quiet = host[s].quiet
  PROVE  ChipInv'
<1>1. /\ sock[s] \in ChipType /\ host[s] \in PeerType /\ Sound(sock[s], host[s])
      /\ r.rx_rsr \in Nat /\ sock[s].rx_rsr \in Nat /\ ei' \in Socket
  <2>1. sock[s] \in ChipType /\ host[s] \in PeerType /\ Sound(sock[s], host[s])
    BY Typed
  <2>2. ei' \in Socket
    BY DEF ChipInv, Shapes
  <2>3. r.rx_rsr \in 0 .. Ring /\ sock[s].rx_rsr \in 0 .. Ring
    BY <2>1, ChipFields
  <2> QED
    BY <2>1, <2>2, <2>3, Numbers
<1>2. Sound(r, h)
  BY <1>1 DEF Sound
<1>3. Harmless(s, r, h)
  BY <1>1 DEF Harmless, Wanted, WantsRead, Room
<1> QED
  BY <1>1, <1>2, <1>3, SocketStep DEF MayHave

LEMMA WriteTxStep ==
  ASSUME ChipInv, NEW s \in Socket, NEW n \in 1 .. Ring,
         nic_w5100_socket_write_tx_buffer(s, n)
  PROVE  ChipInv'
<1> DEFINE from == host[s].written
           tx == [i \in DOMAIN sock[s].tx |->
                    LET k == (i + Ring - (sock[s].tx_wr % Ring)) % Ring
                    IN  IF k < n THEN from + k + 1 ELSE sock[s].tx[i]]
           h == [host[s] EXCEPT !.written = from + n]
<1>0. PICK wr \in HalfMoved(sock[s].tx_wr, (from + n) % Word) :
        /\ io' = io /\ stop' = stop /\ ei' = ei /\ pipe' = pipe
        /\ sock[s].state \in {"UDP", "ESTABLISHED"}
        /\ Put(s, [sock[s] EXCEPT !.tx_wr = wr, !.tx = tx], h)
  BY DEF nic_w5100_socket_write_tx_buffer, Command, NoWake
<1> DEFINE r == [sock[s] EXCEPT !.tx_wr = wr, !.tx = tx]
<1>1. /\ io' = io /\ stop' = stop /\ ei' = ei /\ pipe' = pipe
      /\ sock[s].state \in {"UDP", "ESTABLISHED"} /\ Put(s, r, h)
  BY <1>0
<1>2. sock[s] \in ChipType /\ host[s] \in PeerType /\ Sound(sock[s], host[s])
  BY Typed
<1>3. /\ sock[s].tx_wr \in Pointer /\ sock[s].tx \in [0 .. Ring - 1 -> Nat]
      /\ host[s].written \in Nat /\ n \in Nat
  <2>1. n \in Nat
    BY Numbers
  <2> QED
    BY <1>2, <2>1, ChipFields, PeerFields
<1>4. wr \in Pointer /\ tx \in [0 .. Ring - 1 -> Nat] /\ from + n \in Nat
  <2>1. sock[s].tx_wr % Ring \in Int /\ from + n \in Nat
    BY <1>3, PointerInt
  <2>3. wr \in Pointer
    <3>1. (from + n) % Word \in Pointer
      BY <2>1, WordType
    <3> HIDE DEF from
    <3> QED
      BY <1>3, <3>1, HalfPointer
  <2>2. tx \in [0 .. Ring - 1 -> Nat]
    <3> DEFINE ring == sock[s].tx
               at == sock[s].tx_wr % Ring
    <3>1. ring \in [0 .. Ring - 1 -> Nat] /\ from \in Nat /\ at \in Int /\ n \in Nat
      BY <1>3, <2>1
    <3>2. tx = [i \in DOMAIN ring |->
                  LET k == (i + Ring - at) % Ring IN IF k < n THEN from + k + 1 ELSE ring[i]]
      OBVIOUS
    <3> HIDE DEF ring, at, from, tx
    <3> QED
      BY <3>1, <3>2, FilledRing
  <2> QED
    BY <2>1, <2>2, <2>3
<1> HIDE DEF tx, from
<1>5. /\ r \in ChipType /\ r.fd = sock[s].fd /\ r.state = sock[s].state /\ r.ok = sock[s].ok
      /\ r.bound = sock[s].bound /\ r.write_pending = sock[s].write_pending
      /\ r.rx_rsr = sock[s].rx_rsr /\ r.rx_rd = sock[s].rx_rd
      /\ r.old_rx_rd = sock[s].old_rx_rd
  BY <1>2, <1>4 DEF ChipType
<1>6. /\ h \in PeerType /\ h.waiting = host[s].waiting /\ h.quiet = host[s].quiet
      /\ h.eof = host[s].eof /\ h.knock = host[s].knock
  <2>1. <<>> \in Seq(Nat)
    OBVIOUS
  <2> QED
    BY <1>2, <1>4, <2>1, PeerWrites
<1> HIDE DEF r, h
<1>7. sock[s].rx_rsr <= sock[s].rx_rsr
  BY <1>2 DEF ChipType
<1>8. CanRead(sock[s], host[s]) => CanRead(r, h)
  BY <1>5, <1>6 DEF CanRead
<1> QED
  BY <1>1, <1>2, <1>5, <1>6, <1>7, <1>8, RingStep DEF Sound

LEMMA WriteStep ==
  ASSUME ChipInv, NEW s \in Socket, nic_w5100_socket_write(s)
  PROVE  ChipInv'
<1> DEFINE wr == host[s].written % Word
           r == [sock[s] EXCEPT !.tx_wr = wr]
<1>1. /\ io' = io /\ stop' = stop /\ ei' = ei /\ ei' \in Socket /\ pipe' = pipe
      /\ sock' = [sock EXCEPT ![s] = r] /\ host' = host
  BY DEF nic_w5100_socket_write, Command, NoWake, ChipInv, Shapes
<1>2. sock[s] \in ChipType /\ host[s] \in PeerType /\ Sound(sock[s], host[s])
  BY Typed
<1>3. wr \in Pointer
  <2>1. host[s].written \in Int
    BY <1>2, PeerFields
  <2> QED
    BY <2>1, WordType
<1> HIDE DEF wr
<1>4. /\ r \in ChipType /\ r.fd = sock[s].fd /\ r.state = sock[s].state /\ r.ok = sock[s].ok
      /\ r.bound = sock[s].bound /\ r.write_pending = sock[s].write_pending
      /\ r.rx_rsr = sock[s].rx_rsr /\ r.rx_rd = sock[s].rx_rd
      /\ r.old_rx_rd = sock[s].old_rx_rd
  BY <1>2, <1>3 DEF ChipType
<1>5. Put(s, r, host[s])
  BY <1>1, SameHost
<1> HIDE DEF r
<1>6. Sound(r, host[s])
  BY <1>2, <1>4 DEF Sound
<1>7. Harmless(s, r, host[s])
  <2>1. sock[s].rx_rsr <= sock[s].rx_rsr
    BY <1>2 DEF ChipType
  <2> QED
    BY <1>1, <1>4, <2>1 DEF Harmless, Wanted, WantsRead, Room, CanRead
<1> QED
  BY <1>1, <1>2, <1>4, <1>5, <1>6, <1>7, SocketStep, Zenon DEF MayHave

LEMMA SendStep ==
  ASSUME ChipInv, NEW s \in Socket, w5100_socket_send(s)
  PROVE  ChipInv'
<1> DEFINE h == [host[s] EXCEPT !.subs = Append(@, host[s].written)]
<1>1. io' = io /\ stop' = stop /\ ei' = ei /\ ei' \in Socket
  BY DEF w5100_socket_send, Command, ChipInv, Shapes
<1>2. sock[s] \in ChipType /\ host[s] \in PeerType /\ Sound(sock[s], host[s])
  BY Typed
<1>3. /\ h \in PeerType /\ h.waiting = host[s].waiting /\ h.quiet = host[s].quiet
      /\ h.eof = host[s].eof /\ h.knock = host[s].knock
  <2>1. Append(host[s].subs, host[s].written) \in Seq(Nat)
    BY <1>2 DEF PeerType
  <2> QED
    BY <1>2, <2>1, PeerWrites
<1>4. CASE sock[s].state = "UDP" /\ BindFails(s)
  BY <1>1, <1>4, BindFailsStep
<1>5. ASSUME NEW r \in ChipType, Put(s, r, h), Wake, sock[s].state \in {"UDP", "ESTABLISHED"},
             r.fd = sock[s].fd, r.state = sock[s].state, r.ok = sock[s].ok,
             sock[s].bound => r.bound, r.rx_rsr = sock[s].rx_rsr,
             r.rx_rd = sock[s].rx_rd, r.old_rx_rd = sock[s].old_rx_rd
      PROVE  ChipInv'
  <2>1. pipe' = pipe + 1 /\ sock[s].fd # 0
    BY <1>2, <1>5 DEF Wake, Sound
  <2>2. /\ r.rx_rsr <= sock[s].rx_rsr /\ r.rx_rd = r.old_rx_rd
        /\ (r.state = "UDP" /\ h.waiting > 0 => r.bound)
        /\ (CanRead(sock[s], host[s]) => CanRead(r, h))
    BY <1>2, <1>3, <1>5 DEF Sound, CanRead, ChipType
  <2> HIDE DEF h
  <2> QED
    BY <1>1, <1>3, <1>5, <2>1, <2>2, RingStep
<1>6. CASE sock[s].state = "UDP" /\ Put(s, Queued(sock[s]), h) /\ Wake
  <2> DEFINE m == Minus(sock[s].tx_wr, sock[s].last_send)
             r == [sock[s] EXCEPT !.bound = TRUE, !.last_send = sock[s].tx_wr,
                                  !.write_pending = TRUE, !.lengths = Append(@, m)]
  <2>1. m \in Nat
    <3>1. sock[s].tx_wr \in Pointer /\ sock[s].last_send \in Pointer
      BY <1>2 DEF ChipType
    <3> QED
      <4>1. sock[s].tx_wr \in Int /\ sock[s].last_send \in Int
        BY <3>1, PointerInt
      <4>2. Minus(sock[s].tx_wr, sock[s].last_send) \in Pointer
        BY <4>1, MinusType
      <4> QED
        BY <4>2, PointerInt
  <2> HIDE DEF m, h
  <2>2. Append(sock[s].lengths, m) \in Seq(Nat)
    BY <1>2, <2>1 DEF ChipType
  <2>3. /\ r \in ChipType /\ r.fd = sock[s].fd /\ r.state = sock[s].state
        /\ r.ok = sock[s].ok /\ r.bound /\ r.rx_rsr = sock[s].rx_rsr
        /\ r.rx_rd = sock[s].rx_rd /\ r.old_rx_rd = sock[s].old_rx_rd
    BY <1>2, <2>2 DEF ChipType
  <2>4. Put(s, r, h)
    BY <1>6 DEF Queued, m
  <2> HIDE DEF r
  <2> QED
    BY <1>5, <1>6, <2>3, <2>4
<1>7. CASE /\ sock[s].state = "ESTABLISHED"
           /\ Put(s, [sock[s] EXCEPT !.write_pending = TRUE], h) /\ Wake
  <2> DEFINE r == [sock[s] EXCEPT !.write_pending = TRUE]
  <2>1. /\ r \in ChipType /\ r.fd = sock[s].fd /\ r.state = sock[s].state
        /\ r.ok = sock[s].ok /\ r.bound = sock[s].bound /\ r.rx_rsr = sock[s].rx_rsr
        /\ r.rx_rd = sock[s].rx_rd /\ r.old_rx_rd = sock[s].old_rx_rd
    BY <1>2 DEF ChipType
  <2>2. Put(s, r, h) /\ Wake
    BY <1>7
  <2> HIDE DEF r, h
  <2> QED
    BY <1>5, <1>7, <2>1, <2>2
<1> QED
  BY <1>4, <1>6, <1>7 DEF w5100_socket_send

LEMMA RecvStep ==
  ASSUME ChipInv, NEW s \in Socket, NEW n \in 1 .. Ring, w5100_socket_recv(s, n)
  PROVE  ChipInv'
<1>1. /\ io' = io /\ stop' = stop /\ ei' = ei /\ host' = host /\ n <= sock[s].rx_rsr
      /\ host' = [host EXCEPT ![s] = host[s]]
  BY DEF w5100_socket_recv, MovesRxRd, Command, ChipInv, Shapes
<1>2. sock[s] \in ChipType /\ host[s] \in PeerType /\ Sound(sock[s], host[s])
  BY Typed
<1>3. /\ sock[s].rx_rd \in Pointer /\ sock[s].rx_rd \in Int /\ sock[s].old_rx_rd \in Pointer
      /\ sock[s].rx_rsr \in 0 .. Ring /\ sock[s].rx_rsr \in Nat
      /\ n \in Nat /\ n \in 0 .. Word - 1 /\ n \in 0 .. sock[s].rx_rsr
  <2>1. sock[s].rx_rd \in Pointer /\ sock[s].old_rx_rd \in Pointer /\ sock[s].rx_rsr \in 0 .. Ring
    BY <1>2, ChipFields
  <2>2. sock[s].rx_rd \in Int
    BY <2>1, PointerInt
  <2> QED
    BY <1>1, <2>1, <2>2, Numbers
<1>4. sock[s].fd # 0
  <2>1. sock[s].fd = 0 => sock[s].rx_rsr = 0
    BY <1>2 DEF Sound
  <2> QED
    BY <1>1, <1>3, <2>1
<1> DEFINE rd == (sock[s].rx_rd + n) % Word
<1>5. rd \in Pointer
  BY <1>3, WordType
<1>6. CASE /\ sock[s].state \in {"UDP", "ESTABLISHED"}
           /\ sock' = [sock EXCEPT ![s] = Returned(@, n)] /\ Wake
  <2> DEFINE left == Minus(sock[s].rx_rsr, Minus(rd, sock[s].old_rx_rd))
             r == [sock[s] EXCEPT !.rx_rd = rd, !.old_rx_rd = rd, !.rx_rsr = left]
  <2>1. left = sock[s].rx_rsr - n
    <3>1. sock[s].old_rx_rd = sock[s].rx_rd
      BY <1>2, <1>6 DEF Sound
    <3>2. Minus(rd, sock[s].old_rx_rd) = n
      BY <1>3, <3>1, MinusMoved
    <3> QED
      BY <1>3, <3>2, MinusLess
  <2>2. Put(s, r, host[s]) /\ pipe' = pipe + 1
    BY <1>1, <1>6 DEF Put, Returned, Wake
  <2> HIDE DEF rd, left
  <2>3. left \in 0 .. Ring /\ left <= sock[s].rx_rsr
    BY <1>3, <2>1, Numbers
  <2>4. /\ r \in ChipType /\ r.fd = sock[s].fd /\ r.state = sock[s].state
        /\ r.ok = sock[s].ok /\ r.bound = sock[s].bound /\ r.rx_rsr = left
        /\ r.rx_rd = r.old_rx_rd
    BY <1>2, <1>5, <2>3 DEF ChipType
  <2> HIDE DEF r
  <2>5. CanRead(sock[s], host[s]) => CanRead(r, host[s])
    BY <2>4 DEF CanRead
  <2> QED
    BY <1>1, <1>2, <1>4, <2>2, <2>3, <2>4, <2>5, RingStep DEF Sound
<1>7. CASE /\ sock[s].state \notin {"UDP", "ESTABLISHED"}
           /\ sock' = [sock EXCEPT ![s].rx_rd = (@ + n) % Word] /\ NoWake
  <2> DEFINE r == [sock[s] EXCEPT !.rx_rd = rd]
  <2>1. Put(s, r, host[s]) /\ pipe' = pipe
    BY <1>1, <1>7 DEF Put, NoWake
  <2> HIDE DEF rd
  <2>2. /\ r \in ChipType /\ r.fd = sock[s].fd /\ r.state = sock[s].state
        /\ r.ok = sock[s].ok /\ r.bound = sock[s].bound /\ r.rx_rsr = sock[s].rx_rsr
        /\ r.write_pending = sock[s].write_pending
    BY <1>2, <1>5 DEF ChipType
  <2> HIDE DEF r
  <2>3. sock[s].state \notin {"INIT", "LISTEN"}
    BY <1>1, <1>2, <1>3 DEF Sound
  <2>4. r.rx_rsr <= sock[s].rx_rsr
    BY <1>3, <2>2
  <2>5. CanRead(sock[s], host[s]) => CanRead(r, host[s])
    BY <2>2 DEF CanRead
  <2>6. r.state \notin {"INIT", "LISTEN", "UDP", "ESTABLISHED"}
    BY <1>7, <2>2, <2>3
  <2> QED
    BY <1>1, <1>2, <1>4, <2>1, <2>2, <2>4, <2>5, <2>6, RingStep
<1> QED
  BY <1>6, <1>7 DEF w5100_socket_recv

\* What the network does to a socket that has a descriptor.
LEMMA PeerStep ==
  ASSUME ChipInv, NEW s \in Socket, Arrive(s) \/ PeerCloses(s) \/ Knock(s)
  PROVE  ChipInv'
<1>1. /\ sock' = sock /\ io' = io /\ stop' = stop /\ ei' = ei /\ pipe' = pipe
      /\ sock[s].state \in {"ESTABLISHED", "UDP", "LISTEN"}
      /\ sock[s] = [sock EXCEPT ![s] = sock[s]][s]
  BY DEF Arrive, PeerCloses, Knock, Network, ChipInv, Shapes
<1>2. sock[s] \in ChipType /\ host[s] \in PeerType /\ Sound(sock[s], host[s])
  BY Typed
<1>3. host[s].waiting \in Nat /\ sock[s].rx_rsr \in 0 .. Ring
  BY <1>2, ChipFields, PeerFields
<1>4. ASSUME NEW h \in PeerType, host' = [host EXCEPT ![s] = h], h.quiet = host[s].quiet,
             sock[s].state = "UDP" /\ h.waiting > 0 => sock[s].bound,
             CanRead(sock[s], host[s]) => CanRead(sock[s], h)
      PROVE  ChipInv'
  <2>1. Put(s, sock[s], h)
    BY <1>1, <1>4, SameSock
  <2>2. sock[s].rx_rsr <= sock[s].rx_rsr /\ sock[s].fd # 0
    BY <1>1, <1>2, <1>3 DEF Sound
  <2>3. sock[s].state \in {"INIT", "LISTEN", "UDP", "ESTABLISHED"}
          => sock[s].rx_rd = sock[s].old_rx_rd
    BY <1>2 DEF Sound
  <2> QED
    BY <1>1, <1>2, <1>4, <2>1, <2>2, <2>3, RingStep
<1>5. CASE Arrive(s)
  <2> DEFINE h == [host[s] EXCEPT !.waiting = @ + 1]
  <2>1. /\ h \in PeerType /\ h.quiet = host[s].quiet /\ h.waiting = host[s].waiting + 1
        /\ h.eof = host[s].eof /\ h.knock = host[s].knock
    <3>1. host[s].waiting + 1 \in Nat
      BY <1>3
    <3> QED
      BY <1>2, <3>1 DEF PeerType
  <2>2. host' = [host EXCEPT ![s] = h] /\ (sock[s].state = "UDP" => sock[s].bound)
    BY <1>5 DEF Arrive
  <2> HIDE DEF h
  <2>3. CanRead(sock[s], host[s]) => CanRead(sock[s], h)
    BY <1>3, <2>1 DEF CanRead
  <2> QED
    BY <1>4, <2>1, <2>2, <2>3
<1>6. CASE PeerCloses(s)
  <2> DEFINE h == [host[s] EXCEPT !.eof = TRUE]
  <2>1. h \in PeerType /\ h.quiet = host[s].quiet /\ h.waiting = host[s].waiting /\ h.eof
    BY <1>2 DEF PeerType
  <2>2. host' = [host EXCEPT ![s] = h] /\ sock[s].state = "ESTABLISHED"
    BY <1>6 DEF PeerCloses
  <2> HIDE DEF h
  <2>3. CanRead(sock[s], h)
    BY <2>1, <2>2 DEF CanRead
  <2> QED
    BY <1>4, <2>1, <2>2, <2>3
<1>7. CASE Knock(s)
  <2> DEFINE h == [host[s] EXCEPT !.knock = TRUE]
  <2>1. h \in PeerType /\ h.quiet = host[s].quiet /\ h.waiting = host[s].waiting /\ h.knock
    BY <1>2 DEF PeerType
  <2>2. host' = [host EXCEPT ![s] = h] /\ sock[s].state = "LISTEN"
    BY <1>7 DEF Knock
  <2> HIDE DEF h
  <2>3. CanRead(sock[s], h)
    BY <2>1, <2>2 DEF CanRead
  <2> QED
    BY <1>4, <2>1, <2>2, <2>3
<1> QED
  BY <1>5, <1>6, <1>7

-----------------------------------------------------------------------------
(* Reset and the end of the chip.                                             *)

LEMMA ResetStep ==
  ASSUME ChipInv, ResetBegin \/ nic_w5100_socket_reset \/ FreeStop \/ FreeWake \/ FreeJoined
  PROVE  ChipInv'
<1>1. CASE nic_w5100_socket_reset
  <2>1. ei \in Socket /\ pipe' = pipe /\ io' = io /\ stop' = stop /\ ei' \in Socket
    BY <1>1, Numbers DEF nic_w5100_socket_reset, ChipInv, Shapes, Socket
  <2>2. Put(ei, Cleaned(sock[ei]), NoPeer)
    BY <1>1 DEF nic_w5100_socket_reset
  <2> QED
    BY <2>1, <2>2, CleanedChip, ClosedStep
<1>2. CASE FreeJoined
  <2>1. /\ sock' = [s \in Socket |-> Clean] /\ host' = [s \in Socket |-> NoPeer]
        /\ io' = io /\ io.pc = "exited" /\ UNCHANGED <<pipe, stop, ei>>
    BY <1>2 DEF FreeJoined
  <2>2. Shapes' /\ Distinct'
    BY <2>1, CleanChip DEF ChipInv, Shapes, Distinct, Clean
  <2>3. Sound(Clean, NoPeer)
    BY DEF Sound, Clean
  <2>4. \A s \in Socket : Followed(s)'
    BY <2>1 DEF Followed, NotAdded, Roomy, Reported, Watched
  <2> QED
    BY <2>1, <2>2, <2>3, <2>4 DEF ChipInv
<1>3. CASE ResetBegin \/ FreeStop \/ FreeWake
  <2>1. sock' = sock /\ host' = host /\ io' = io
    BY <1>3 DEF ResetBegin, FreeStop, FreeWake
  <2>2. (pipe' = pipe \/ pipe' = pipe + 1) /\ (stop' = stop \/ stop' = TRUE)
    BY <1>3 DEF ResetBegin, FreeStop, FreeWake
  <2>3. ei' = 0 \/ ei' = ei
    BY <1>3 DEF ResetBegin, FreeStop, FreeWake
  <2>4. 0 \in Socket
    BY Numbers DEF Socket
  <2>5. Shapes
    BY DEF ChipInv
  <2>6. pipe' \in Nat /\ (pipe' = 0 => pipe = 0)
    BY <2>2, <2>5 DEF Shapes
  <2>7. stop' \in BOOLEAN /\ (~stop' => ~stop)
    BY <2>2, <2>5 DEF Shapes
  <2>8. Shapes' /\ Distinct'
    BY <2>1, <2>3, <2>4, <2>5, <2>6, <2>7 DEF ChipInv, Shapes, Distinct
  <2>9. ASSUME NEW s \in Socket PROVE Sound(sock'[s], host'[s]) /\ Followed(s)'
    <3>1. Sound(sock[s], host[s]) /\ Followed(s)
      BY DEF ChipInv
    <3>2. NotAdded(s)' /\ Roomy(s)' /\ Reported(s)'
      BY <2>1, <3>1 DEF Followed, NotAdded, Roomy, Reported, Mine
    <3>3. Watched(s)'
      BY <2>1, <2>6, <2>7, <3>1 DEF Followed, Watched, Mine
    <3> QED
      BY <2>1, <3>1, <3>2, <3>3 DEF Followed
  <2> QED
    BY <2>8, <2>9 DEF ChipInv
<1> QED
  BY <1>1, <1>2, <1>3

-----------------------------------------------------------------------------
(* The I/O thread.                                                            *)

LEMMA ReadableIs ==
  ASSUME NEW s \in Socket
  PROVE  Readable(s) <=> CanRead(sock[s], host[s])
  BY DEF Readable, CanRead

LEMMA LoopStep ==
  ASSUME ChipInv, IoLoop \/ IoSelect
  PROVE  ChipInv'
<1>1. /\ sock' = sock /\ host' = host /\ pipe' = pipe /\ stop' = stop /\ ei' = ei
      /\ Shapes /\ io \in ThreadType
  BY DEF IoLoop, IoSelect, IoSteps, ChipInv, Shapes
<1>2. CASE IoLoop
  <2>1. /\ io'.pc \in {"exited", "add"} /\ io'.i = 0 /\ io'.rset = {} /\ io' \in ThreadType
    BY <1>2, Numbers DEF IoLoop, ThreadType, Socket
  <2>2. \A s \in Socket : ~(s < 0)
    BY Numbers DEF Socket
  <2>3. Shapes' /\ Distinct'
    BY <1>1, <2>1 DEF ChipInv, Shapes, Distinct
  <2>4. \A s \in Socket : Sound(sock'[s], host'[s]) /\ Followed(s)'
    BY <1>1, <2>1, <2>2 DEF ChipInv, Followed, NotAdded, Roomy, Reported, Watched, Mine
  <2> QED
    BY <2>3, <2>4 DEF ChipInv
<1>3. CASE IoSelect
  <2>1. /\ io.pc = "select" /\ io'.pc \in {"sleep", "loop"} /\ io'.rset = io.rset
        /\ io'.wset = io.wset /\ io' \in ThreadType
    BY <1>1, <1>3 DEF IoSelect, ThreadType
  <2>2. Shapes' /\ Distinct'
    BY <1>1, <2>1 DEF ChipInv, Shapes, Distinct
  <2>3. ASSUME NEW s \in Socket PROVE Sound(sock'[s], host'[s]) /\ Followed(s)'
    <3>1. Sound(sock[s], host[s]) /\ Roomy(s) /\ Watched(s)
      BY DEF ChipInv, Followed
    <3>2. Roomy(s)' /\ Watched(s)'
      BY <1>1, <2>1, <3>1 DEF Roomy, Watched, Mine
    <3> QED
      BY <1>1, <2>1, <3>1, <3>2 DEF Followed, NotAdded, Reported
  <2> QED
    BY <2>2, <2>3 DEF ChipInv
<1> QED
  BY <1>2, <1>3

LEMMA ReturnStep ==
  ASSUME ChipInv, NEW W \in SUBSET io.wset, IoReturn(W)
  PROVE  ChipInv'
<1>1. /\ sock' = sock /\ host' = host /\ stop' = stop /\ ei' = ei /\ io.pc = "sleep"
      /\ Shapes /\ io \in ThreadType /\ pipe' \in Nat
  BY DEF IoReturn, IoSteps, ChipInv, Shapes
<1>2. PICK stale \in SUBSET (io.rset \ LiveFds) :
        io' = [pc |-> "process", i |-> 0, rset |-> ReadyFds \cup stale, wset |-> W]
  BY DEF IoReturn
<1>3. /\ io'.pc = "process" /\ io'.rset = ReadyFds \cup stale
      /\ ReadyFds \subseteq io.rset /\ io' \in ThreadType
  BY <1>1, <1>2, Numbers DEF ThreadType, ReadyFds, Socket
<1>4. Shapes' /\ Distinct'
  BY <1>1, <1>3 DEF ChipInv, Shapes, Distinct
<1>5. ASSUME NEW s \in Socket PROVE Sound(sock'[s], host'[s]) /\ Followed(s)'
  <2>1. Sound(sock[s], host[s]) /\ Roomy(s)
    BY DEF ChipInv, Followed
  <2>2. Mine(s)' => Mine(s)
    BY <1>1, <1>3 DEF Mine
  <2>3. Roomy(s)'
    BY <1>1, <1>3, <2>1, <2>2 DEF Roomy
  <2>4. Mine(s)' => CanRead(sock[s], host[s])
    <3> SUFFICES ASSUME Mine(s)' PROVE CanRead(sock[s], host[s])
      OBVIOUS
    <3>1. sock[s].ok /\ sock[s].fd \in ReadyFds
      BY <1>1, <1>3 DEF Mine, LiveFds, Live
    <3>2. PICK u \in Socket : Readable(u) /\ sock[u].fd = sock[s].fd
      BY <3>1 DEF ReadyFds, Live
    <3>3. sock[s].fd # 0
      <4>1. sock[s].fd \in Fd
        BY <1>1, <1>3, <3>1 DEF ThreadType
      <4> QED
        BY <4>1, Numbers
    <3>4. u = s
      BY <3>2, <3>3 DEF ChipInv, Distinct
    <3> QED
      BY <3>2, <3>4, ReadableIs
  <2>5. Reported(s)'
    BY <1>1, <2>4 DEF Reported
  <2> QED
    BY <1>1, <1>3, <2>1, <2>3, <2>5 DEF Followed, NotAdded, Watched
<1> QED
  BY <1>4, <1>5 DEF ChipInv

LEMMA AddStep ==
  ASSUME ChipInv, nic_w5100_socket_add_to_sets, NEW s \in Socket, s = io.i
  PROVE  ChipInv'
<1> DEFINE r == [sock[s] EXCEPT !.ok = sock[s].ok \/ sock[s].fd # 0]
           h == [host[s] EXCEPT !.quiet = host[s].quiet /\ ~(sock[s].fd # 0),
                                !.stray = host[s].stray \/ (sock[s].fd # 0 /\ sock[s].fd \in io.wset)]
<1>1. /\ io.pc = "add" /\ Put(s, r, h) /\ pipe' = pipe /\ stop' = stop /\ ei' = ei
      /\ Shapes /\ io \in ThreadType /\ s = io.i
  BY DEF nic_w5100_socket_add_to_sets, IoSteps, ChipInv, Shapes
<1>2. io' = [pc |-> IF s + 1 \in Socket THEN "add" ELSE "select",
             i |-> IF s + 1 \in Socket THEN s + 1 ELSE 0,
             rset |-> io.rset \cup {fd \in {sock[s].fd} : sock[s].fd # 0 /\ WantsRead(sock[s])},
             wset |-> io.wset \cup {fd \in {sock[s].fd} : sock[s].fd # 0 /\ sock[s].write_pending}]
  BY DEF nic_w5100_socket_add_to_sets
<1>3. /\ sock[s] \in ChipType /\ host[s] \in PeerType /\ Sound(sock[s], host[s]) /\ Followed(s)
      /\ sock[s].fd \in Fd \cup {0} /\ sock[s].ok \in BOOLEAN
  BY <1>1, Typed DEF ChipInv, ChipType
<1>4. /\ r \in ChipType /\ r.fd = sock[s].fd /\ r.state = sock[s].state
      /\ r.bound = sock[s].bound /\ r.write_pending = sock[s].write_pending
      /\ r.rx_rsr = sock[s].rx_rsr /\ r.rx_rd = sock[s].rx_rd
      /\ r.old_rx_rd = sock[s].old_rx_rd
      /\ r.ok = (sock[s].ok \/ sock[s].fd # 0)
  BY <1>3 DEF ChipType
<1>5. /\ h \in PeerType /\ h.waiting = host[s].waiting
  BY <1>3, ZenonT(30) DEF PeerType
<1> HIDE DEF r, h
<1>6. /\ sock' = [sock EXCEPT ![s] = r] /\ host' = [host EXCEPT ![s] = h]
      /\ sock'[s] = r /\ host'[s] = h
      /\ \A t \in Socket \ {s} : sock'[t] = sock[t] /\ host'[t] = host[t]
  BY <1>1 DEF Put, Shapes
<1>7. io' \in ThreadType
  <2>1. 0 \in Socket
    BY Numbers DEF Socket
  <2> QED
    BY <1>1, <1>2, <1>3, <2>1 DEF ThreadType
<1>8. \/ io'.pc = "add" /\ io'.i = s + 1
      \/ io'.pc = "select" /\ s + 1 \notin Socket
  BY <1>2
<1>9. Shapes'
  BY <1>1, <1>4, <1>5, <1>6, <1>7 DEF Shapes
<1>10. Distinct'
  BY <1>4, <1>6 DEF ChipInv, Distinct
<1>11. \A t \in Socket : t \in Int /\ s \in Int /\ (s + 1 \notin Socket => t <= s)
  BY <1>1, Numbers DEF Socket
<1>12. Sound(r, h)
  BY <1>3, <1>4, <1>5 DEF Sound
<1>13. ASSUME NEW t \in Socket, t # s PROVE Sound(sock'[t], host'[t]) /\ Followed(t)'
  <2>1. Sound(sock[t], host[t]) /\ Followed(t) /\ sock'[t] = sock[t] /\ host'[t] = host[t]
    BY <1>6, <1>13 DEF ChipInv
  <2>2. sock[s].fd # 0 => sock[t].fd # sock[s].fd
    BY <1>1, <1>13 DEF ChipInv, Distinct
  <2>3. Mine(t)' <=> Mine(t)
    BY <1>2, <2>1, <2>2 DEF Mine
  <2>4. io'.pc = "add" /\ t >= io'.i => io.pc = "add" /\ t >= io.i
    BY <1>1, <1>8, <1>11
  <2>5. NotAdded(t)'
    BY <2>1, <2>3, <2>4 DEF Followed, NotAdded
  <2>6. Roomy(t)'
    BY <1>1, <2>1, <2>3 DEF Followed, Roomy
  <2>7. Reported(t)'
    BY <1>8 DEF Reported
  <2>8. Watched(t)'
    <3>1. io'.pc \in {"select", "sleep"} \/ (io'.pc = "add" /\ t < io'.i) => t < io.i
      BY <1>8, <1>11, <1>13
    <3>2. io.wset \subseteq io'.wset
      BY <1>2
    <3> QED
      BY <1>1, <2>1, <2>3, <3>1, <3>2 DEF Followed, Watched
  <2> QED
    BY <2>1, <2>5, <2>6, <2>7, <2>8 DEF Followed
<1>14. Followed(s)'
  <2>1. NotAdded(s)'
    BY <1>8, <1>11 DEF NotAdded
  <2>2. Roomy(s)'
    <3> SUFFICES ASSUME Mine(s)', sock'[s].state = "UDP" PROVE r.rx_rsr + Header <= Ring
      BY <1>6 DEF Roomy
    <3>1. sock[s].rx_rsr \in 0 .. Ring
      BY <1>3, ChipFields
    <3>2. CASE WantsRead(sock[s])
      BY <1>4, <1>6, <3>1, <3>2, Numbers DEF WantsRead, Room
    <3>3. CASE ~WantsRead(sock[s])
      <4>1. sock[s].fd \in io.rset
        BY <1>2, <1>4, <1>6, <3>3 DEF Mine
      <4>2. ~sock[s].ok
        BY <1>1, <1>3, <1>11, <4>1 DEF Followed, NotAdded, Mine
      <4>3. sock[s].rx_rsr = 0
        BY <1>3, <4>2 DEF Sound
      <4> QED
        BY <1>4, <4>3, Numbers
    <3> QED
      BY <3>2, <3>3
  <2>3. Reported(s)'
    BY <1>8 DEF Reported
  <2>4. Watched(s)'
    <3>1. WantsRead(r) <=> WantsRead(sock[s])
      BY <1>4 DEF WantsRead, Room
    <3> SUFFICES ASSUME r.fd # 0
                 PROVE  /\ Wanted(r, h) => Mine(s)'
                        /\ r.write_pending => r.ok /\ r.fd \in io'.wset
      BY <1>6 DEF Watched
    <3>2. r.ok
      BY <1>4
    <3>3. WantsRead(sock[s]) => sock[s].fd \in io'.rset
      BY <1>2, <1>4
    <3>4. sock[s].write_pending => sock[s].fd \in io'.wset
      BY <1>2, <1>4
    <3>5. Wanted(r, h) => Mine(s)'
      BY <1>4, <1>6, <3>1, <3>2, <3>3 DEF Wanted, Mine
    <3> QED
      BY <1>4, <3>2, <3>4, <3>5
  <2> QED
    BY <2>1, <2>2, <2>3, <2>4 DEF Followed
<1>15. \A t \in Socket : Sound(sock'[t], host'[t]) /\ Followed(t)'
  BY <1>6, <1>12, <1>13, <1>14
<1> QED
  BY <1>9, <1>10, <1>15 DEF ChipInv

\* What an outcome of a read or of a write is: still the I/O thread's socket.
Outcome(r, h, fd) ==
  /\ r \in ChipType /\ h \in PeerType /\ Sound(r, h) /\ r.ok
  /\ r.fd = fd \/ (r.fd \in Fd /\ r.fd \notin OpenFds)

LEMMA StoredOutcome ==
  ASSUME NEW r, NEW h, NEW fd \in Fd, Outcome(r, h, fd), r.state \in {"UDP", "ESTABLISHED"},
         NEW n \in Nat, r.rx_rsr + n <= Ring, NEW left \in Nat,
         r.state = "UDP" => r.bound
  PROVE  Outcome(Stored(r, h, n, left)[1], Stored(r, h, n, left)[2], fd)
<1> DEFINE offset == (r.old_rx_rd + r.rx_rsr) % Ring
           ring == [i \in DOMAIN r.rx |->
                      LET k == (i + Ring - offset) % Ring
                      IN  IF k < n THEN h.stored + k + 1 ELSE r.rx[i]]
           len == r.rx_rsr + n
           r2 == [r EXCEPT !.rx_rsr = len, !.rx = ring]
           all == h.stored + n
           h2 == [h EXCEPT !.stored = all, !.waiting = left]
<1>1. Stored(r, h, n, left) = <<r2, h2>>
  BY DEF Stored
<1>2. r \in ChipType /\ h \in PeerType /\ Sound(r, h) /\ r.ok
  BY DEF Outcome
<1>3. /\ r.old_rx_rd \in Int /\ r.rx_rsr \in 0 .. Ring /\ h.stored \in Nat
      /\ r.rx \in [0 .. Ring - 1 -> Nat]
  BY <1>2, ChipFields, PeerFields, PointerInt
<1>4. r.rx_rsr \in Nat /\ len \in 0 .. Ring /\ all \in Nat
  BY <1>3, Numbers
<1>5. offset \in Int
  <2>1. r.old_rx_rd + r.rx_rsr \in Int
    BY <1>3, <1>4
  <2>2. (r.old_rx_rd + r.rx_rsr) % Ring \in Nat
    BY <2>1, RingIndex
  <2> QED
    BY <2>2
<1>6. ring \in [0 .. Ring - 1 -> Nat]
  <2> DEFINE old == r.rx
             from == h.stored
  <2>1. ring = [i \in DOMAIN old |->
                  LET k == (i + Ring - offset) % Ring IN IF k < n THEN from + k + 1 ELSE old[i]]
    OBVIOUS
  <2>2. old \in [0 .. Ring - 1 -> Nat] /\ from \in Nat
    BY <1>3
  <2> HIDE DEF old, from, offset, ring
  <2> QED
    BY <1>5, <2>1, <2>2, FilledRing
<1> HIDE DEF ring, len, all
<1>7. /\ r2 \in ChipType /\ r2.fd = r.fd /\ r2.ok = r.ok /\ r2.state = r.state
      /\ r2.bound = r.bound /\ r2.write_pending = r.write_pending
      /\ r2.rx_rd = r.rx_rd /\ r2.old_rx_rd = r.old_rx_rd
  BY <1>2, <1>4, <1>6 DEF ChipType
<1>8. h2 \in PeerType
  BY <1>2, <1>4 DEF PeerType
<1> HIDE DEF r2, h2
<1>9. Sound(r2, h2)
  BY <1>2, <1>7, Numbers DEF Sound, Outcome
<1>10. Outcome(r2, h2, fd)
  BY <1>2, <1>7, <1>8, <1>9 DEF Outcome
<1> QED
  BY <1>1, <1>10

\* accept(): the lowest free descriptor takes the place of the listener's.
LEMMA AcceptOutcome ==
  ASSUME NEW r, NEW h, NEW fd \in Fd, Outcome(r, h, fd), r.state = "LISTEN",
         NEW got \in Accepted(r, h)
  PROVE  Outcome(got[1], got[2], fd)
<1>1. r \in ChipType /\ h \in PeerType /\ Sound(r, h) /\ r.ok
  BY DEF Outcome
<1>2. CASE got = <<[r EXCEPT !.fd = NextFd(OpenFds), !.state = "ESTABLISHED"], NoPeer>>
  <2> DEFINE new == NextFd(OpenFds)
             r2 == [r EXCEPT !.fd = new, !.state = "ESTABLISHED"]
  <2>1. new \in Fd /\ new \notin OpenFds /\ new # 0
    BY LowestFd, Numbers DEF OpenFds
  <2> HIDE DEF new
  <2>2. "ESTABLISHED" \in State
    BY DEF State
  <2>3. /\ r2 \in ChipType /\ r2.fd = new /\ r2.ok = r.ok /\ r2.state = "ESTABLISHED"
        /\ r2.rx_rsr = r.rx_rsr /\ r2.rx_rd = r.rx_rd /\ r2.old_rx_rd = r.old_rx_rd
    BY <1>1, <2>1, <2>2 DEF ChipType
  <2>4. got[1] = r2 /\ got[2] = NoPeer
    BY <1>2 DEF new
  <2> HIDE DEF r2
  <2>5. Sound(r2, NoPeer)
    BY <1>1, <2>1, <2>3 DEF Sound
  <2>6. Outcome(r2, NoPeer, fd)
    BY <1>1, <2>1, <2>3, <2>5, CleanChip DEF Outcome
  <2> QED
    BY <2>4, <2>6
<1>3. CASE got = <<r, [h EXCEPT !.knock = FALSE]>>
  <2> DEFINE h2 == [h EXCEPT !.knock = FALSE]
  <2>1. h2 \in PeerType /\ h2.waiting = h.waiting
    BY <1>1 DEF PeerType
  <2>2. got[1] = r /\ got[2] = h2
    BY <1>3
  <2> HIDE DEF h2
  <2>3. Outcome(r, h2, fd)
    BY <2>1 DEF Outcome, Sound
  <2> QED
    BY <2>2, <2>3
<1> QED
  BY <1>2, <1>3 DEF Accepted

LEMMA ReadOutcome ==
  ASSUME NEW r, NEW h, NEW fd \in Fd, Outcome(r, h, fd),
         NEW got \in ReadOutcomes(r, h)
  PROVE  Outcome(got[1], got[2], fd)
<1>1. /\ r \in ChipType /\ h \in PeerType /\ Sound(r, h) /\ r.ok
      /\ r.rx_rsr \in 0 .. Ring /\ h.waiting \in Nat
  BY ChipFields, PeerFields DEF Outcome
<1>2. CASE r.fd \notin io.rset
  <2>1. got[1] = r /\ got[2] = h
    <3>1. ReadOutcomes(r, h) = {<<r, h>>}
      BY <1>2 DEF ReadOutcomes
    <3>2. got = <<r, h>>
      BY <3>1
    <3> QED
      BY <3>2
  <2> QED
    BY <2>1
<1>3. CASE r.fd \in io.rset /\ r.state = "LISTEN"
  BY <1>3, AcceptOutcome DEF ReadOutcomes
<1>4. CASE r.fd \in io.rset /\ r.state # "LISTEN"
  <2>1. got \in Received(r, h)
    BY <1>4 DEF ReadOutcomes
  <2>2. CASE r.state = "UDP"
    <3>1. h.waiting > 0
      BY <2>1, <2>2 DEF Received
    <3>2. PICK n \in 0 .. Room(r) - Header : got = Stored(r, h, Header + n, h.waiting - 1)
      BY <2>1, <2>2, <3>1 DEF Received
    <3>3. Header + n \in Nat /\ r.rx_rsr + (Header + n) <= Ring /\ h.waiting - 1 \in Nat
      BY <1>1, <3>1, <3>2, Numbers DEF Room
    <3>4. r.bound
      BY <1>1, <2>2, <3>1 DEF Sound
    <3> QED
      BY <2>2, <3>2, <3>3, <3>4, StoredOutcome
  <2>3. CASE r.state = "ESTABLISHED" /\ h.waiting > 0
    <3> DEFINE n == LesserOf(h.waiting, Room(r))
    <3>1. n \in Nat /\ r.rx_rsr + n <= Ring /\ h.waiting - n \in Nat
      BY <1>1, <2>3, Numbers DEF LesserOf, Room
    <3>2. got = Stored(r, h, n, h.waiting - n)
      BY <2>1, <2>3 DEF Received
    <3> HIDE DEF n
    <3> QED
      BY <2>3, <3>1, <3>2, StoredOutcome
  <2>4. CASE r.state = "ESTABLISHED" /\ h.waiting = 0 /\ h.eof
    <3> DEFINE r2 == [r EXCEPT !.state = "CLOSE_WAIT"]
    <3>1. "CLOSE_WAIT" \in State
      BY DEF State
    <3>2. /\ r2 \in ChipType /\ r2.fd = r.fd /\ r2.ok = r.ok /\ r2.state = "CLOSE_WAIT"
          /\ r2.rx_rsr = r.rx_rsr
      BY <1>1, <3>1 DEF ChipType
    <3>3. got[1] = r2 /\ got[2] = h
      <4>1. ~(h.waiting > 0)
        BY <2>4
      <4> QED
        BY <2>1, <2>4, <4>1 DEF Received
    <3> HIDE DEF r2
    <3>4. r2.fd # 0
      BY <1>1, <2>4, <3>2, Numbers DEF Outcome
    <3>5. Outcome(r2, h, fd)
      BY <1>1, <3>2, <3>4 DEF Outcome, Sound
    <3> QED
      BY <3>3, <3>5
  <2>5. CASE ~(r.state = "UDP") /\ ~(r.state = "ESTABLISHED" /\ h.waiting > 0)
             /\ ~(r.state = "ESTABLISHED" /\ h.waiting = 0 /\ h.eof)
    BY <2>1, <2>5 DEF Received
  <2> QED
    BY <2>2, <2>3, <2>4, <2>5
<1> QED
  BY <1>2, <1>3, <1>4

LEMMA BytesType ==
  ASSUME NEW r \in ChipType, NEW n \in Nat
  PROVE  Bytes(r, n) \in Seq(Nat)
<1>1. r.tx \in [0 .. Ring - 1 -> Nat] /\ r.tx_rr \in Int
  BY ChipFields, PointerInt
<1>2. \A k \in 1 .. n : r.tx_rr + k - 1 \in Int
  BY <1>1
<1>3. \A k \in 1 .. n : (r.tx_rr + k - 1) % Ring \in 0 .. Ring - 1
  BY <1>2, RingIndex
<1>4. \A k \in 1 .. n : r.tx[(r.tx_rr + k - 1) % Ring] \in Nat
  BY <1>1, <1>3
<1>5. Bytes(r, n) \in [1 .. n -> Nat]
  BY <1>4 DEF Bytes
<1> QED
  BY <1>5

LEMMA WriteOutcome ==
  ASSUME NEW r, NEW h, NEW fd \in Fd, Outcome(r, h, fd),
         NEW put \in WriteOutcomes(r, h)
  PROVE  Outcome(put[1], put[2], fd)
<1>1. /\ r \in ChipType /\ h \in PeerType /\ Sound(r, h) /\ r.ok
      /\ r.tx_rr \in Int /\ r.tx_wr \in Int /\ r.lengths \in Seq(Nat)
      /\ h.wire \in Seq(Nat) /\ h.cuts \in Seq(Nat)
  BY ChipFields, PeerFields, PointerInt DEF Outcome
<1>2. ASSUME NEW n \in Nat, NEW ls \in Seq(Nat), NEW wp \in BOOLEAN, NEW cuts \in Seq(Nat),
             put[1] = [r EXCEPT !.lengths = ls, !.tx_rr = (r.tx_rr + n) % Word,
                                !.write_pending = wp],
             put[2] = [h EXCEPT !.wire = h.wire \o Bytes(r, n), !.cuts = cuts]
      PROVE  Outcome(put[1], put[2], fd)
  <2> DEFINE rr == (r.tx_rr + n) % Word
             w == h.wire \o Bytes(r, n)
             r2 == [r EXCEPT !.lengths = ls, !.tx_rr = rr, !.write_pending = wp]
             h2 == [h EXCEPT !.wire = w, !.cuts = cuts]
  <2>1. rr \in Pointer
    BY <1>1, WordType
  <2>2. w \in Seq(Nat)
    BY <1>1, BytesType
  <2> HIDE DEF rr, w
  <2>3. /\ r2 \in ChipType /\ r2.fd = r.fd /\ r2.ok = r.ok /\ r2.state = r.state
        /\ r2.bound = r.bound /\ r2.rx_rsr = r.rx_rsr
        /\ r2.rx_rd = r.rx_rd /\ r2.old_rx_rd = r.old_rx_rd
    BY <1>1, <2>1 DEF ChipType
  <2>4. h2 \in PeerType /\ h2.waiting = h.waiting
    BY <1>1, <2>2 DEF PeerType
  <2>5. put[1] = r2 /\ put[2] = h2
    BY <1>2 DEF rr, w
  <2> HIDE DEF r2, h2
  <2>6. r2.fd # 0
    BY <2>3, Numbers DEF Outcome
  <2>7. Outcome(r2, h2, fd)
    BY <1>1, <2>3, <2>4, <2>6 DEF Outcome, Sound
  <2> QED
    BY <2>5, <2>7
<1>3. CASE put = <<r, h>>
  <2>1. put[1] = r /\ put[2] = h
    BY <1>3
  <2> QED
    BY <2>1
<1>4. CASE r.state = "UDP" /\ r.lengths # <<>> /\ put = DatagramSent(r, h)
  <2> DEFINE n == Head(r.lengths)
             ls == Tail(r.lengths)
             wp == Len(r.lengths) > 1
             cuts == Append(h.cuts, Len(h.wire) + n)
  <2>1. n \in Nat /\ ls \in Seq(Nat) /\ wp \in BOOLEAN
    BY <1>1, <1>4
  <2>2. cuts \in Seq(Nat)
    <3>1. Len(h.wire) + n \in Nat
      BY <1>1, <2>1
    <3> QED
      BY <1>1, <3>1
  <2>3. /\ put[1] = [r EXCEPT !.lengths = ls, !.tx_rr = (r.tx_rr + n) % Word,
                              !.write_pending = wp]
        /\ put[2] = [h EXCEPT !.wire = h.wire \o Bytes(r, n), !.cuts = cuts]
    BY <1>4 DEF DatagramSent
  <2> HIDE DEF n, ls, wp, cuts
  <2> QED
    BY <1>2, <2>1, <2>2, <2>3
<1>5. CASE \E n \in 1 .. LesserOf(Minus(r.tx_wr, r.tx_rr), Ring - (r.tx_rr % Ring)) :
             put = TcpSent(r, h, n)
  <2>1. PICK n \in Nat : put = TcpSent(r, h, n)
    <3>1. LesserOf(Minus(r.tx_wr, r.tx_rr), Ring - (r.tx_rr % Ring)) \in Int
      <4>1. Minus(r.tx_wr, r.tx_rr) \in Pointer
        BY <1>1, MinusType
      <4>2. Minus(r.tx_wr, r.tx_rr) \in Int /\ r.tx_rr % Ring \in Nat
        BY <1>1, <4>1, PointerInt, RingIndex
      <4> QED
        BY <4>2, Numbers DEF LesserOf
    <3> QED
      BY <1>5, <3>1
  <2> DEFINE wp == (r.tx_rr + n) % Word # r.tx_wr
             r2 == [r EXCEPT !.tx_rr = (r.tx_rr + n) % Word, !.write_pending = wp]
             h2 == [h EXCEPT !.wire = h.wire \o Bytes(r, n)]
  <2>2. put[1] = r2 /\ put[2] = h2
    BY <2>1 DEF TcpSent
  <2>3. wp \in BOOLEAN
    OBVIOUS
  <2> HIDE DEF wp
  <2>4. r2 = [r EXCEPT !.lengths = r.lengths, !.tx_rr = (r.tx_rr + n) % Word,
                       !.write_pending = wp]
    BY <1>1 DEF ChipType
  <2>5. h2 = [h EXCEPT !.wire = h.wire \o Bytes(r, n), !.cuts = h.cuts]
    BY <1>1 DEF PeerType
  <2> DEFINE ls == r.lengths
             cuts == h.cuts
  <2>6. /\ put[1] = [r EXCEPT !.lengths = ls, !.tx_rr = (r.tx_rr + n) % Word,
                              !.write_pending = wp]
        /\ put[2] = [h EXCEPT !.wire = h.wire \o Bytes(r, n), !.cuts = cuts]
    BY <2>2, <2>4, <2>5
  <2>7. ls \in Seq(Nat) /\ cuts \in Seq(Nat)
    BY <1>1
  <2> HIDE DEF r2, h2, ls, cuts
  <2> QED
    BY <1>2, <2>3, <2>6, <2>7
<1> QED
  BY <1>3, <1>4, <1>5 DEF WriteOutcomes

LEMMA ProcessStep ==
  ASSUME ChipInv, nic_w5100_socket_process_io, NEW s \in Socket, s = io.i
  PROVE  ChipInv'
<1>1. /\ io.pc = "process" /\ pipe' = pipe /\ stop' = stop /\ ei' = ei
      /\ Shapes /\ io \in ThreadType
      /\ io' = [io EXCEPT !.pc = IF s + 1 \in Socket THEN "process" ELSE "loop",
                          !.i = IF s + 1 \in Socket THEN s + 1 ELSE 0]
  BY DEF nic_w5100_socket_process_io, IoSteps, ChipInv, Shapes
<1>2. /\ io' \in ThreadType /\ io'.rset = io.rset
      /\ io'.pc = "loop" \/ (io'.pc = "process" /\ io'.i = s + 1)
  <2>1. 0 \in Socket
    BY Numbers DEF Socket
  <2> QED
    BY <1>1, <2>1 DEF ThreadType
<1>3. sock[s] \in ChipType /\ host[s] \in PeerType /\ Sound(sock[s], host[s])
  BY Typed
<1>4. \E r \in ChipType, h \in PeerType :
         /\ sock' = [sock EXCEPT ![s] = r] /\ host' = [host EXCEPT ![s] = h]
         /\ Sound(r, h)
         /\ r.fd = sock[s].fd \/ (r.fd \in Fd /\ r.fd \notin OpenFds)
  <2>1. CASE sock[s].fd # 0 /\ sock[s].ok
    <3>1. PICK got \in ReadOutcomes(sock[s], host[s]) :
            \E put \in WriteOutcomes(got[1], got[2]) : Put(s, put[1], put[2])
      BY <2>1 DEF nic_w5100_socket_process_io
    <3>2. sock[s].fd \in Fd
      BY <1>3, <2>1 DEF ChipType
    <3>3. Outcome(sock[s], host[s], sock[s].fd)
      BY <1>3, <2>1 DEF Outcome
    <3>4. Outcome(got[1], got[2], sock[s].fd)
      BY <3>2, <3>3, ReadOutcome
    <3>5. PICK put \in WriteOutcomes(got[1], got[2]) : Put(s, put[1], put[2])
      BY <3>1
    <3>6. Outcome(put[1], put[2], sock[s].fd)
      BY <3>2, <3>4, WriteOutcome
    <3> QED
      BY <3>5, <3>6 DEF Outcome, Put
  <2>2. CASE ~(sock[s].fd # 0 /\ sock[s].ok)
    <3>1. sock' = sock /\ host' = host
      BY <2>2 DEF nic_w5100_socket_process_io
    <3>2. sock' = [sock EXCEPT ![s] = sock[s]] /\ host' = [host EXCEPT ![s] = host[s]]
      BY <1>1, <3>1 DEF Shapes
    <3> QED
      BY <1>3, <3>2
  <2> QED
    BY <2>1, <2>2
<1>5. PICK r \in ChipType, h \in PeerType :
         /\ sock' = [sock EXCEPT ![s] = r] /\ host' = [host EXCEPT ![s] = h]
         /\ Sound(r, h)
         /\ r.fd = sock[s].fd \/ (r.fd \in Fd /\ r.fd \notin OpenFds)
  BY <1>4
<1>6. /\ sock'[s] = r /\ host'[s] = h
      /\ \A t \in Socket \ {s} : sock'[t] = sock[t] /\ host'[t] = host[t]
  BY <1>1, <1>5 DEF Shapes
<1>7. Shapes'
  BY <1>1, <1>2, <1>5 DEF Shapes
<1>8. Distinct'
  <2>1. ASSUME NEW t \in Socket, t # s, sock[t].fd # 0 PROVE sock[t].fd # r.fd
    <3>1. CASE r.fd = sock[s].fd
      BY <2>1, <3>1 DEF ChipInv, Distinct
    <3>2. CASE r.fd \notin OpenFds
      BY <2>1, <3>2 DEF OpenFds
    <3> QED
      BY <1>5, <3>1, <3>2
  <2>2. ASSUME NEW a \in Socket, NEW b \in Socket, a # b, sock'[a].fd # 0
        PROVE  sock'[b].fd # sock'[a].fd
    <3>1. CASE a = s
      BY <1>6, <2>1, <2>2, <3>1
    <3>2. CASE b = s
      BY <1>6, <2>1, <2>2, <3>2
    <3>3. CASE a # s /\ b # s
      BY <1>6, <2>2, <3>3 DEF ChipInv, Distinct
    <3> QED
      BY <3>1, <3>2, <3>3
  <2> QED
    BY <2>2 DEF Distinct
<1>9. ASSUME NEW t \in Socket PROVE Sound(sock'[t], host'[t]) /\ Followed(t)'
  <2>1. Sound(sock[t], host[t]) /\ Followed(t)
    BY DEF ChipInv
  <2>2. Sound(sock'[t], host'[t])
    BY <1>5, <1>6, <2>1
  <2>3. NotAdded(t)' /\ Watched(t)'
    BY <1>2 DEF NotAdded, Watched
  <2>4. io'.pc = "process" /\ t >= io'.i => t # s /\ t >= io.i
    BY <1>2, Numbers DEF Socket
  <2>5. Roomy(t)'
    <3>1. io'.pc \in {"add", "select", "sleep", "process"} => io'.pc = "process"
      BY <1>2
    <3>2. t # s => (Mine(t)' <=> Mine(t))
      BY <1>2, <1>6 DEF Mine
    <3> QED
      BY <1>1, <1>6, <2>1, <2>4, <3>1, <3>2 DEF Followed, Roomy
  <2>6. Reported(t)'
    <3>1. t # s => (Mine(t)' <=> Mine(t))
      BY <1>2, <1>6 DEF Mine
    <3> QED
      BY <1>1, <1>6, <2>1, <2>4, <3>1 DEF Followed, Reported
  <2> QED
    BY <2>2, <2>3, <2>5, <2>6 DEF Followed
<1> QED
  BY <1>7, <1>8, <1>9 DEF ChipInv

-----------------------------------------------------------------------------
LEMMA ChipInit == Init => ChipInv
<1> SUFFICES ASSUME Init PROVE ChipInv
  OBVIOUS
<1>1. /\ sock = [s \in Socket |-> Clean] /\ host = [s \in Socket |-> NoPeer]
      /\ io = [pc |-> "loop", i |-> 0, rset |-> {}, wset |-> {}]
      /\ pipe = 0 /\ stop = FALSE /\ ei = 0
  BY DEF Init
<1>2. 0 \in Socket
  BY Numbers DEF Socket
<1>3. Shapes
  BY <1>1, <1>2, CleanChip DEF Shapes, ThreadType
<1>4. Distinct
  BY <1>1 DEF Distinct, Clean
<1>5. Sound(Clean, NoPeer)
  BY DEF Sound, Clean
<1>6. \A s \in Socket : Followed(s)
  BY <1>1 DEF Followed, NotAdded, Roomy, Reported, Watched
<1> QED
  BY <1>1, <1>3, <1>4, <1>5, <1>6 DEF ChipInv

LEMMA ChipNext == ChipInv /\ [Next]_vars => ChipInv'
<1> SUFFICES ASSUME ChipInv, [Next]_vars PROVE ChipInv'
  OBVIOUS
<1>1. CASE UNCHANGED vars
  BY <1>1 DEF vars, ChipInv, Shapes, Distinct, Followed, NotAdded, Roomy, Reported, Watched, Mine
<1>2. CASE Guest
  BY <1>2, OpenStep, PortStep, ListenStep, ConnectStep, ShutStep, SendStep, WriteTxStep, WriteStep,
     RecvStep, ResetStep DEF Guest
<1>3. CASE Peers
  BY <1>3, PeerStep DEF Peers
<1>4. CASE IoThread
  <2>1. io.i \in Socket
    BY DEF ChipInv, Shapes, ThreadType
  <2> QED
    BY <1>4, <2>1, LoopStep, AddStep, ProcessStep, ReturnStep DEF IoThread
<1> QED
  BY <1>1, <1>2, <1>3, <1>4 DEF Next

LEMMA SomeOutcome ==
  ASSUME NEW r, NEW h, r.fd \in io.rset, CanRead(r, h),
         r.rx_rsr \in 0 .. Ring, h.waiting \in Nat,
         r.state = "UDP" => r.rx_rsr + Header <= Ring
  PROVE  ReadOutcomes(r, h) # {}
<1>1. CASE r.state = "LISTEN" /\ h.knock
  <2>1. ReadOutcomes(r, h) = Accepted(r, h)
    BY <1>1 DEF ReadOutcomes
  <2> QED
    BY <2>1 DEF Accepted
<1>2. CASE r.state # "LISTEN"
  <2>1. ReadOutcomes(r, h) = Received(r, h)
    BY <1>2 DEF ReadOutcomes
  <2>2. CASE r.state = "ESTABLISHED" /\ h.waiting > 0
    BY <2>1, <2>2 DEF Received
  <2>3. CASE r.state = "ESTABLISHED" /\ ~(h.waiting > 0) /\ h.eof
    <3>1. h.waiting = 0
      BY <2>3
    <3> QED
      BY <2>1, <2>3, <3>1 DEF Received
  <2>4. CASE r.state = "UDP" /\ h.waiting > 0
    <3>1. 0 \in 0 .. Room(r) - Header
      BY <2>4, Numbers DEF Room
    <3>2. Received(r, h) = {Stored(r, h, Header + n, h.waiting - 1) : n \in 0 .. Room(r) - Header}
      BY <2>4 DEF Received
    <3>3. Stored(r, h, Header + 0, h.waiting - 1) \in Received(r, h)
      BY <3>1, <3>2
    <3> QED
      BY <2>1, <3>3
  <2> QED
    BY <1>2, <2>2, <2>3, <2>4 DEF CanRead
<1> QED
  BY <1>1, <1>2 DEF CanRead

\* What the I/O thread's sets say of the sockets holds in every reachable state: two
\* sockets never have the same descriptor, what was added has room, what was reported
\* is there, and what wants watching is watched or a byte in the selfpipe says so.
THEOREM W5100Sets == Spec => []ChipInv
<1> QED
  BY ChipInit, ChipNext, PTL DEF Spec

\* The I/O thread never calls accept() or recv() with a socket's lock held where there is
\* nothing to return, whatever the guest closes and opens again while it selects.
THEOREM W5100NoBlindIo == Spec => []NoBlindIo
<1>1. ASSUME ChipInv PROVE NoBlindIo
  <2> SUFFICES ASSUME io.pc = "process", NEW s \in io.i .. SocketCount - 1,
                      sock[s].ok, sock[s].fd \in io.rset
               PROVE  ReadOutcomes(sock[s], host[s]) # {}
    BY DEF NoBlindIo
  <2>1. s \in Socket /\ s >= io.i
    <3>1. io.i \in Socket
      BY <1>1 DEF ChipInv, Shapes, ThreadType
    <3> QED
      BY <3>1, Numbers DEF Socket
  <2>2. /\ CanRead(sock[s], host[s])
        /\ sock[s].state = "UDP" => sock[s].rx_rsr + Header <= Ring
    BY <1>1, <2>1 DEF ChipInv, Followed, Reported, Roomy, Mine
  <2>3. sock[s].rx_rsr \in 0 .. Ring /\ host[s].waiting \in Nat
    BY <1>1, <2>1, Typed, ChipFields, PeerFields
  <2> QED
    BY <2>2, <2>3, SomeOutcome
<1> QED
  BY <1>1, W5100Sets, PTL

\* The I/O thread never sleeps, with nothing in the selfpipe, through what one of the
\* sockets wants of it; a socket that CONNECT connected is the exception.
THEOREM W5100NoLostWake == Spec => []NoLostWake
<1>1. ASSUME ChipInv PROVE NoLostWake
  BY <1>1 DEF NoLostWake, ChipInv, Followed, Watched, Wanted, Mine
<1> QED
  BY <1>1, W5100Sets, PTL

-----------------------------------------------------------------------------
(* What the streams and datagrams need: the inductive invariant.              *)

\* Where the guest has moved TX_WR, or is moving it.
Meant(h) == h.written % Word

Unsent(r, h) == Minus(Meant(h), r.tx_rr)

\* The bytes that the first i SEND commands submitted.
Submitted(h, i) == IF i = 0 THEN 0 ELSE h.subs[i]

\* From the place of the pointer at on, the ring holds n bytes that follow byte base.
Numbered(ring, at, n, base) ==
  \A k \in 0 .. n - 1 : ring[(at + k) % Ring] = base + k + 1

\* The ring after n bytes that follow byte base were put there from place on.
Filled(ring, new, on, n, base) ==
  \A i \in 0 .. Ring - 1 :
    new[i] = IF (i + Ring - on) % Ring < n THEN base + ((i + Ring - on) % Ring) + 1
                                           ELSE ring[i]

\* The receive ring holds the last bytes that came.
Receives(r, h) == Numbered(r.rx, r.old_rx_rd, r.rx_rsr, h.stored - r.rx_rsr)

\* The transmit ring holds what the guest has written and the peer not received.
Transmits(r, h) ==
  /\ Unsent(r, h) <= Ring /\ h.written = Len(h.wire) + Unsent(r, h)
  /\ h.wire = [k \in 1 .. Len(h.wire) |-> k]
  /\ Numbered(r.tx, r.tx_rr, Unsent(r, h), Len(h.wire))

\* A datagram sent or queued is what one SEND submitted.
Datagrams(r, h) ==
  r.state = "UDP" =>
    LET c == Len(h.cuts) IN
    /\ Len(h.subs) = c + Len(r.lengths) /\ Len(h.wire) = Submitted(h, c)
    /\ \A i \in 1 .. c : h.cuts[i] = h.subs[i]
    /\ \A i, j \in 0 .. Len(h.subs) : i <= j => Submitted(h, i) <= Submitted(h, j)
    /\ \A i \in 1 .. Len(r.lengths) :
         r.lengths[i] = Submitted(h, c + i) - Submitted(h, c + i - 1)
    /\ Minus(Meant(h), r.last_send) = h.written - LastSub(h)

\* A connection sends what was submitted, and until it is done TX_WR stays where it was.
Connection(r, h) ==
  r.state \in {"ESTABLISHED", "CLOSE_WAIT"} =>
    /\ Len(h.wire) <= LastSub(h)
    /\ r.write_pending => h.written = LastSub(h) /\ r.tx_wr = Meant(h)

\* What a socket has to send, and what left.
Outgoing(r, h) ==
  /\ Transmits(r, h) /\ LastSub(h) <= h.written
  /\ Datagrams(r, h) /\ Connection(r, h)

\* Before there is a connection, nothing is written.
Unused(r, h) ==
  r.state \in {"INIT", "LISTEN"} => r.tx_rr = 0 /\ r.tx_wr = 0 /\ h.written = 0

Whole(r, h, hasty) ==
  /\ Receives(r, h) /\ Len(r.lengths) <= MaxQueue /\ Unused(r, h)
  /\ hasty \/ h.stray \/ Outgoing(r, h)

\* The descriptor in the write set is the socket's own.
Writes(s) == sock[s].ok /\ sock[s].fd \in io.wset

\* The I/O thread writes for a socket that has a SEND to finish, unless it is stray.
WritesOwn(s) ==
  /\ io.pc = "add" /\ s >= io.i => ~Writes(s)
  /\ io.pc \in {"add", "select", "sleep"} \/ (io.pc = "process" /\ s >= io.i) =>
       (Writes(s) /\ ~host[s].stray => sock[s].write_pending)

\* What W5100TypeOK adds to ChipInv.
Bounds ==
  /\ epc \in {"run", "reset", "free_wake", "join", "ended"}
  /\ pipe <= IF epc \in {"join", "ended"} THEN PipeSize + 1 ELSE PipeSize
  /\ plan \in Plans
  /\ opens \in [Socket -> Nat] /\ \A s \in Socket : opens[s] <= plan[s].opens

StreamInv ==
  /\ ChipInv /\ Bounds
  /\ \A s \in Socket : Whole(sock[s], host[s], plan[s].hasty) /\ WritesOwn(s)

-----------------------------------------------------------------------------
(* The arithmetic of pointers and rings.                                       *)

LEMMA OneQuotient ==
  ASSUME NEW b \in Nat \ {0}, NEW p \in Int, NEW q \in Int,
         NEW x \in 0 .. b - 1, NEW y \in 0 .. b - 1, b * p + x = b * q + y
  PROVE  x = y
<1>1. ASSUME NEW m \in Int, NEW n \in Int, m > n PROVE b * m >= b * n + b
  BY <1>1, Multiples
<1>2. b * p \in Int /\ b * q \in Int
  OBVIOUS
<1>3. ~(p > q)
  BY <1>1, <1>2
<1>4. ~(q > p)
  BY <1>1, <1>2
<1> QED
  BY <1>2, <1>3, <1>4

LEMMA Remainder ==
  ASSUME NEW b \in Nat \ {0}, NEW q \in Int, NEW x \in 0 .. b - 1, NEW a \in Int,
         a = b * q + x
  PROVE  a % b = x
<1>1. PICK p \in Int : a = b * p + (a % b)
  BY Divided
<1>2. a % b \in 0 .. b - 1 /\ b * p + (a % b) = b * q + x
  BY <1>1, Divided
<1> QED
  BY <1>2, OneQuotient, b \in Nat \ {0}, p \in Int, q \in Int, x \in 0 .. b - 1, Zenon

LEMMA Multiple ==
  ASSUME NEW b \in Nat \ {0}, NEW a \in Int, NEW c \in Int, c % b = 0
  PROVE  (a + c) % b = a % b
<1>1. PICK q \in Int : a = b * q + (a % b)
  BY Divided
<1>2. PICK m \in Int : c = b * m + (c % b)
  BY Divided
<1>3. PICK x \in 0 .. b - 1 : a % b = x
  BY Divided
<1>4. a = b * q + x /\ c = b * m
  BY <1>1, <1>2, <1>3
<1>5. b * (q + m) = b * q + b * m /\ q + m \in Int /\ b * q \in Int /\ b * m \in Int
  OBVIOUS
<1>6. a + c = b * (q + m) + x /\ a + c \in Int
  BY <1>4, <1>5
<1>7. (a + c) % b = x
  <2>1. PICK d \in Int, k \in Int : d = a + c /\ k = q + m
    BY <1>5, <1>6
  <2>2. d = b * k + x
    BY <1>6, <2>1
  <2>3. d % b = x
    BY <2>2, Remainder
  <2> QED
    BY <2>1, <2>3
<1> QED
  BY <1>3, <1>7

LEMMA Onwards ==
  ASSUME NEW b \in Nat \ {0}, NEW a \in Int, NEW e \in 0 .. b
  PROVE  (a + e) % b = IF (a % b) + e < b THEN (a % b) + e ELSE (a % b) + e - b
<1>1. PICK q \in Int : a = b * q + (a % b)
  BY Divided
<1>2. PICK x \in 0 .. b - 1 : a % b = x
  BY Divided
<1>3. b * (q + 1) = b * q + b /\ q + 1 \in Int /\ b * q \in Int
  OBVIOUS
<1>4. a = b * q + x
  BY <1>1, <1>2
<1>5. CASE x + e < b
  <2>1. a + e = b * q + (x + e) /\ x + e \in 0 .. b - 1 /\ a + e \in Int
    BY <1>3, <1>4, <1>5
  <2>2. PICK d \in Int, y \in 0 .. b - 1 : d = a + e /\ y = x + e
    BY <2>1
  <2>3. d = b * q + y
    BY <2>1, <2>2
  <2>4. d % b = y
    BY <2>3, Remainder
  <2>5. (a + e) % b = x + e
    BY <2>2, <2>4
  <2> QED
    BY <1>2, <1>5, <2>5
<1>6. CASE x + e >= b
  <2>1. a + e = b * (q + 1) + (x + e - b) /\ x + e - b \in 0 .. b - 1 /\ a + e \in Int
    BY <1>3, <1>4, <1>6
  <2>2. PICK d \in Int, y \in 0 .. b - 1, k \in Int : d = a + e /\ y = x + e - b /\ k = q + 1
    BY <1>3, <2>1
  <2>3. d = b * k + y
    BY <2>1, <2>2
  <2>4. d % b = y
    BY <2>3, Remainder
  <2>5. (a + e) % b = x + e - b
    BY <2>2, <2>4
  <2> QED
    BY <1>2, <1>6, <2>5
<1> QED
  BY <1>5, <1>6

\* A pointer and what it stands for are at the same place of the ring.
LEMMA SamePlace ==
  ASSUME NEW x \in Nat, x < 2 * Word, NEW k \in Nat
  PROVE  ((x % Word) + k) % Ring = (x + k) % Ring
<1>1. Word \in Nat \ {0} /\ Ring \in Nat \ {0} /\ Word % Ring = 0
  BY W5100Assumption
<1>2. CASE x < Word
  BY <1>1, <1>2
<1>3. CASE x >= Word
  <2>1. x % Word = x - Word
    BY <1>1, <1>3
  <2>2. ((x - Word + k) + Word) % Ring = (x - Word + k) % Ring
    BY <1>1, Multiple, x - Word + k \in Int, Word \in Int
  <2>3. (x - Word + k) + Word = x + k
    BY <1>1
  <2> QED
    BY <2>1, <2>2, <2>3
<1> QED
  BY <1>1, <1>2, <1>3

LEMMA PlaceOf ==
  ASSUME NEW a \in Pointer, NEW u \in 0 .. Word - 1
  PROVE  ((a + u) % Word) % Ring = (a + u) % Ring
<1>1. a \in 0 .. Word - 1 /\ Word \in Nat
  BY PointerNat, Numbers
<1>2. a + u \in Nat /\ a + u < 2 * Word
  BY <1>1
<1>3. PICK x \in Nat : x = a + u
  BY <1>2
<1>4. PICK y \in Nat : y = x % Word
  BY WordType, PointerNat
<1>5. (y + 0) % Ring = (x + 0) % Ring
  BY <1>2, <1>3, <1>4, SamePlace
<1>6. y + 0 = y /\ x + 0 = x
  OBVIOUS
<1> QED
  BY <1>3, <1>4, <1>5, <1>6

\* How far the place of a + x is behind that of a + y.
LEMMA Apart ==
  ASSUME NEW a \in Nat, NEW x \in 0 .. Ring - 1, NEW y \in 0 .. Ring
  PROVE  (((a + x) % Ring) + Ring - ((a + y) % Ring)) % Ring
           = IF x >= y THEN x - y ELSE x - y + Ring
<1>1. Ring \in Nat \ {0}
  BY W5100Assumption
<1>2. PICK i \in 0 .. Ring - 1 : (a + x) % Ring = i
  BY <1>1, Divided, a + x \in Int
<1>3. PICK j \in 0 .. Ring - 1 : (a + y) % Ring = j
  BY <1>1, Divided, a + y \in Int
<1>4. ASSUME NEW k \in 0 .. Ring - 1 PROVE (k + Ring) % Ring = k /\ k % Ring = k
  BY <1>1, <1>4
<1>5. CASE x >= y
  <2>1. x - y \in 0 .. Ring /\ (a + y) + (x - y) = a + x /\ a + y \in Int
    BY <1>1, <1>5
  <2>2. ((a + y) + (x - y)) % Ring
          = IF ((a + y) % Ring) + (x - y) < Ring THEN ((a + y) % Ring) + (x - y)
                                                 ELSE ((a + y) % Ring) + (x - y) - Ring
    BY <1>1, <2>1, Onwards, Zenon
  <2>3. i = IF j + (x - y) < Ring THEN j + (x - y) ELSE j + (x - y) - Ring
    BY <1>2, <1>3, <2>1, <2>2
  <2>4. i + Ring - j = x - y \/ i + Ring - j = (x - y) + Ring
    BY <1>1, <2>3
  <2>5. x - y \in 0 .. Ring - 1
    BY <1>1, <1>5
  <2> QED
    BY <1>2, <1>3, <1>4, <1>5, <2>4, <2>5
<1>6. CASE x < y
  <2>1. y - x \in 0 .. Ring /\ (a + x) + (y - x) = a + y /\ a + x \in Int
    BY <1>1, <1>6
  <2>2. ((a + x) + (y - x)) % Ring
          = IF ((a + x) % Ring) + (y - x) < Ring THEN ((a + x) % Ring) + (y - x)
                                                 ELSE ((a + x) % Ring) + (y - x) - Ring
    BY <1>1, <2>1, Onwards, Zenon
  <2>3. j = IF i + (y - x) < Ring THEN i + (y - x) ELSE i + (y - x) - Ring
    BY <1>2, <1>3, <2>1, <2>2
  <2>4. i + Ring - j = x - y + Ring \/ i + Ring - j = (x - y + Ring) + Ring
    BY <1>1, <2>3
  <2>5. x - y + Ring \in 0 .. Ring - 1
    BY <1>1, <1>6
  <2> QED
    BY <1>2, <1>3, <1>4, <1>6, <2>4, <2>5
<1> QED
  BY <1>5, <1>6

LEMMA MinusIs ==
  ASSUME NEW a \in Pointer, NEW b \in Pointer
  PROVE  Minus(a, b) = IF a >= b THEN a - b ELSE a - b + Word
<1>1. Word \in Nat \ {0} /\ a \in 0 .. Word - 1 /\ b \in 0 .. Word - 1
  BY Numbers DEF Pointer
<1>2. ASSUME NEW k \in 0 .. Word - 1 PROVE (k + Word) % Word = k /\ k % Word = k
  BY <1>1, <1>2
<1>3. CASE a >= b
  BY <1>1, <1>2, <1>3, a + Word - b = (a - b) + Word DEF Minus
<1>4. CASE a < b
  BY <1>1, <1>2, <1>4, a + Word - b \in 0 .. Word - 1 DEF Minus
<1> QED
  BY <1>1, <1>3, <1>4

LEMMA Wraps ==
  ASSUME NEW a \in Pointer, NEW n \in 0 .. Word - 1
  PROVE  (a + n) % Word = IF a + n < Word THEN a + n ELSE a + n - Word
<1>1. Word \in Nat \ {0} /\ a \in 0 .. Word - 1
  BY Numbers DEF Pointer
<1> QED
  BY <1>1

\* Everything the transmit ring's pointers do: how far apart they are, and after a move
\* of either.
LEMMA Distances ==
  ASSUME NEW a \in Pointer, NEW b \in Pointer, NEW n \in 0 .. Word - 1
  PROVE  /\ Minus(a, b) \in 0 .. Word - 1
         /\ a = (b + Minus(a, b)) % Word
         /\ Minus(a, b) + n < Word => Minus((a + n) % Word, b) = Minus(a, b) + n
         /\ n <= Minus(a, b) => Minus(a, (b + n) % Word) = Minus(a, b) - n
         /\ Minus(a, a) = 0
<1>1. Word \in Nat \ {0} /\ a \in 0 .. Word - 1 /\ b \in 0 .. Word - 1
  BY Numbers DEF Pointer
<1>2. (a + n) % Word \in Pointer /\ (b + n) % Word \in Pointer
  BY <1>1, WordType
<1>3. Minus(a, b) \in 0 .. Word - 1
  BY <1>1, MinusIs
<1> DEFINE m == Minus(a, b)
<1>4. /\ m = IF a >= b THEN a - b ELSE a - b + Word
      /\ (b + m) % Word = IF b + m < Word THEN b + m ELSE b + m - Word
      /\ (a + n) % Word = IF a + n < Word THEN a + n ELSE a + n - Word
      /\ (b + n) % Word = IF b + n < Word THEN b + n ELSE b + n - Word
      /\ Minus((a + n) % Word, b) = IF (a + n) % Word >= b THEN ((a + n) % Word) - b
                                                         ELSE ((a + n) % Word) - b + Word
      /\ Minus(a, (b + n) % Word) = IF a >= (b + n) % Word THEN a - ((b + n) % Word)
                                                         ELSE a - ((b + n) % Word) + Word
      /\ Minus(a, a) = 0
  <2>1. m = (IF a >= b THEN a - b ELSE a - b + Word) /\ Minus(a, a) = 0
    BY <1>1, MinusIs
  <2>2. (b + m) % Word = IF b + m < Word THEN b + m ELSE b + m - Word
    BY <1>3, Wraps, Zenon
  <2>3. (a + n) % Word = IF a + n < Word THEN a + n ELSE a + n - Word
    BY Wraps, Zenon
  <2>4. (b + n) % Word = IF b + n < Word THEN b + n ELSE b + n - Word
    BY Wraps, Zenon
  <2>5. Minus((a + n) % Word, b) = IF (a + n) % Word >= b THEN ((a + n) % Word) - b
                                                         ELSE ((a + n) % Word) - b + Word
    BY <1>2, MinusIs, Zenon
  <2>6. Minus(a, (b + n) % Word) = IF a >= (b + n) % Word THEN a - ((b + n) % Word)
                                                         ELSE a - ((b + n) % Word) + Word
    BY <1>2, MinusIs, Zenon
  <2> QED
    BY <2>1, <2>2, <2>3, <2>4, <2>5, <2>6
<1> HIDE DEF m
<1>5. m \in 0 .. Word - 1
  BY <1>3 DEF m
<1> QED
  BY <1>1, <1>4, <1>5 DEF m

\* A ring that holds numbered bytes, after more of them.
LEMMA Filling ==
  ASSUME NEW ring, NEW new, NEW a \in Nat, NEW have \in 0 .. Ring, NEW n \in 0 .. Ring - have,
         NEW base \in Int, Numbered(ring, a, have, base),
         Filled(ring, new, (a + have) % Ring, n, base + have)
  PROVE  Numbered(new, a, have + n, base)
<1>1. Ring \in Nat \ {0}
  BY W5100Assumption
<1> DEFINE on == (a + have) % Ring
           from == base + have
<1> SUFFICES ASSUME NEW k \in 0 .. (have + n) - 1
             PROVE  new[(a + k) % Ring] = base + k + 1
  BY DEF Numbered
<1> HIDE DEF on, from
<1>2. k \in 0 .. Ring - 1 /\ k \in Nat /\ a + k \in Int
  BY <1>1
<1>3. PICK i \in 0 .. Ring - 1 : (a + k) % Ring = i
  BY <1>1, <1>2, RingIndex
<1>4. (i + Ring - on) % Ring = IF k >= have THEN k - have ELSE k - have + Ring
  BY <1>2, <1>3, Apart DEF on
<1>5. new[i] = IF (i + Ring - on) % Ring < n THEN from + ((i + Ring - on) % Ring) + 1
                                             ELSE ring[i]
  BY DEF Filled, on, from
<1>6. CASE k >= have
  <2>1. (i + Ring - on) % Ring = k - have /\ k - have < n
    BY <1>1, <1>4, <1>6
  <2>2. new[i] = from + (k - have) + 1
    BY <1>5, <2>1
  <2>3. from + (k - have) + 1 = base + k + 1
    BY <1>2 DEF from
  <2> QED
    BY <1>3, <2>2, <2>3
<1>7. CASE k < have
  <2>1. (i + Ring - on) % Ring = k - have + Ring /\ ~(k - have + Ring < n)
    BY <1>1, <1>4, <1>7
  <2>2. new[i] = ring[i]
    BY <1>5, <2>1
  <2>3. k \in 0 .. have - 1
    BY <1>1, <1>7
  <2>4. ring[(a + k) % Ring] = base + k + 1
    BY <2>3 DEF Numbered
  <2> QED
    BY <1>3, <2>2, <2>4
<1> QED
  BY <1>1, <1>6, <1>7

\* The same after n bytes were taken from its front.
LEMMA Draining ==
  ASSUME NEW ring, NEW a \in Pointer, NEW have \in 0 .. Ring, NEW n \in 0 .. have,
         NEW base \in Int, Numbered(ring, a, have, base)
  PROVE  Numbered(ring, (a + n) % Word, have - n, base + n)
<1>1. Ring \in Nat /\ Word \in Nat /\ a \in Nat /\ a < Word /\ n <= Ring /\ Ring < Word
  BY Numbers DEF Pointer
<1> SUFFICES ASSUME NEW k \in 0 .. (have - n) - 1
             PROVE  ring[(((a + n) % Word) + k) % Ring] = (base + n) + k + 1
  BY DEF Numbered
<1>2. a + n \in Nat /\ a + n < 2 * Word /\ k \in Nat /\ n + k \in 0 .. have - 1
      /\ a + n + k = a + (n + k)
  BY <1>1
<1>3. (((a + n) % Word) + k) % Ring = (a + n + k) % Ring
  BY <1>2, SamePlace
<1>4. ring[(a + (n + k)) % Ring] = base + (n + k) + 1
  BY <1>2 DEF Numbered
<1> QED
  BY <1>1, <1>2, <1>3, <1>4

-----------------------------------------------------------------------------
(* What keeps a socket whole.                                                  *)

LEMMA UnsentType ==
  ASSUME NEW r \in ChipType, NEW h \in PeerType
  PROVE  /\ Meant(h) \in Pointer /\ Meant(h) \in Int
         /\ Unsent(r, h) \in Nat /\ Unsent(r, h) \in 0 .. Word - 1
<1>1. h.written \in Int
  BY PeerFields
<1>2. Meant(h) \in Pointer
  BY <1>1, WordType DEF Meant
<1>3. r.tx_rr \in Int /\ Meant(h) \in Int
  BY <1>2, ChipFields, PointerInt
<1> QED
  BY <1>2, <1>3, MinusType, PointerNat DEF Unsent

\* What moves TX_WR moves what the guest meant.
LEMMA MeantMoves ==
  ASSUME NEW h \in PeerType, NEW p \in PeerType, NEW n \in 0 .. Word - 1,
         p.written = h.written + n
  PROVE  Meant(p) = (Meant(h) + n) % Word
<1>1. h.written \in Int /\ Word \in Nat \ {0}
  BY PeerFields, Numbers
<1>2. PICK w \in Int : w = h.written
  BY <1>1
<1>3. PICK m \in Pointer : m = w % Word
  BY <1>2, WordType
<1>4. (w + n) % Word = IF m + n < Word THEN m + n ELSE m + n - Word
  <2>1. n \in 0 .. Word
    BY <1>1
  <2>2. (w + n) % Word = IF (w % Word) + n < Word THEN (w % Word) + n ELSE (w % Word) + n - Word
    BY <1>1, <2>1, Onwards, Zenon
  <2> QED
    BY <1>3, <2>2
<1>5. (m + n) % Word = IF m + n < Word THEN m + n ELSE m + n - Word
  BY <1>3, Wraps
<1>6. Meant(p) = (w + n) % Word /\ Meant(h) = m
  BY <1>2, <1>3 DEF Meant
<1> QED
  BY <1>4, <1>5, <1>6

LEMMA Counts ==
  ASSUME NEW r \in ChipType, NEW h \in PeerType
  PROVE  /\ Len(r.lengths) \in Nat /\ Len(h.subs) \in Nat /\ Len(h.cuts) \in Nat
         /\ Len(h.wire) \in Nat
  BY ChipFields, PeerFields

\* Counting from the next datagram on.
LEMMA Places ==
  ASSUME NEW c \in Nat, NEW l \in Nat
  PROVE  /\ c + (l + 1) = (c + 1) + l
         /\ c + (l + 1) = (c + l) + 1 /\ c + (l + 1) - 1 = c + l /\ c + l \in 0 .. c + l
         /\ \A i \in 1 .. l : /\ i + 1 \in 1 .. l + 1 /\ c + (i + 1) = (c + 1) + i
                              /\ c + (i + 1) - 1 = (c + 1) + i - 1
                              /\ c + i \in 0 .. c + l /\ c + i - 1 \in 0 .. c + l
         /\ \A i \in 1 .. l + 1 : i \in 1 .. l \/ i = l + 1
  OBVIOUS

LEMMA Difference ==
  ASSUME NEW n \in Nat, NEW x \in Nat, NEW w \in Nat, NEW y \in Nat, NEW z \in Nat,
         n = x - w, x <= y, y <= z
  PROVE  w + n = x /\ x <= z
  OBVIOUS

LEMMA SameDatagrams ==
  ASSUME NEW r \in ChipType, NEW g \in ChipType, NEW h \in PeerType, NEW p \in PeerType,
         Datagrams(r, h), g.state = "UDP" => r.state = "UDP", g.lengths = r.lengths,
         p.subs = h.subs, p.wire = h.wire, p.cuts = h.cuts,
         g.state = "UDP" => Minus(Meant(p), g.last_send) = p.written - LastSub(p)
  PROVE  Datagrams(g, p)
<1> DEFINE c == Len(h.cuts)
<1> SUFFICES ASSUME g.state = "UDP" PROVE Datagrams(g, p)
  BY DEF Datagrams
<1>1. \A i : Submitted(p, i) = Submitted(h, i)
  BY DEF Submitted
<1>2. /\ Len(p.subs) = Len(h.subs) /\ Len(p.cuts) = Len(h.cuts) /\ Len(p.wire) = Len(h.wire)
      /\ Len(g.lengths) = Len(r.lengths)
  OBVIOUS
<1>3. /\ Len(h.subs) = c + Len(r.lengths) /\ Len(h.wire) = Submitted(h, c)
      /\ \A i \in 1 .. c : h.cuts[i] = h.subs[i]
      /\ \A i, j \in 0 .. Len(h.subs) : i <= j => Submitted(h, i) <= Submitted(h, j)
      /\ \A i \in 1 .. Len(r.lengths) :
           r.lengths[i] = Submitted(h, c + i) - Submitted(h, c + i - 1)
  BY DEF Datagrams
<1>4. Len(p.subs) = Len(p.cuts) + Len(g.lengths) /\ Len(p.wire) = Submitted(p, Len(p.cuts))
  BY <1>1, <1>2, <1>3
<1>5. \A i \in 1 .. Len(p.cuts) : p.cuts[i] = p.subs[i]
  BY <1>2, <1>3
<1>6. \A i, j \in 0 .. Len(p.subs) : i <= j => Submitted(p, i) <= Submitted(p, j)
  BY <1>1, <1>2, <1>3
<1>7. \A i \in 1 .. Len(g.lengths) :
        g.lengths[i] = Submitted(p, Len(p.cuts) + i) - Submitted(p, Len(p.cuts) + i - 1)
  BY <1>1, <1>2, <1>3
<1> QED
  BY <1>4, <1>5, <1>6, <1>7 DEF Datagrams

\* What is sent was submitted.
LEMMA SentSubmitted ==
  ASSUME NEW r \in ChipType, NEW h \in PeerType, Datagrams(r, h), r.state = "UDP"
  PROVE  Len(h.wire) <= LastSub(h) /\ LastSub(h) = Submitted(h, Len(h.subs))
<1>1. Len(h.subs) \in Nat /\ Len(h.cuts) \in Nat /\ Len(r.lengths) \in Nat
  BY ChipFields, PeerFields
<1>2. LastSub(h) = Submitted(h, Len(h.subs))
  BY PeerFields DEF LastSub, Submitted
<1>3. /\ Len(h.subs) = Len(h.cuts) + Len(r.lengths) /\ Len(h.wire) = Submitted(h, Len(h.cuts))
      /\ \A i, j \in 0 .. Len(h.subs) : i <= j => Submitted(h, i) <= Submitted(h, j)
  BY DEF Datagrams
<1>4. PICK c \in Nat, m \in Nat, l \in Nat :
        c = Len(h.cuts) /\ m = Len(h.subs) /\ l = Len(r.lengths)
  BY <1>1
<1>5. m = c + l
  BY <1>3, <1>4, Zenon
<1>6. c \in 0 .. m /\ m \in 0 .. m /\ c <= m
  BY <1>5
<1>7. Submitted(h, c) <= Submitted(h, m)
  BY <1>3, <1>4, <1>6
<1> QED
  BY <1>2, <1>3, <1>4, <1>7

\* What keeps the transmission as it is; TX_WR may come to where the guest moves it.
LEMMA SameSent ==
  ASSUME NEW r \in ChipType, NEW g \in ChipType, NEW h \in PeerType, NEW p \in PeerType,
         NEW hasty, Whole(r, h, hasty), Receives(g, p),
         /\ g.tx_rr = r.tx_rr /\ g.tx_wr \in {r.tx_wr, Meant(h)} /\ g.last_send = r.last_send
         /\ g.lengths = r.lengths /\ g.tx = r.tx,
         /\ p.written = h.written /\ p.subs = h.subs /\ p.wire = h.wire /\ p.cuts = h.cuts,
         h.stray => p.stray, g.write_pending => r.write_pending,
         \/ g.state \in {r.state, "CLOSED"}
         \/ r.state = "INIT" /\ g.state = "LISTEN"
         \/ r.state = "ESTABLISHED" /\ g.state = "CLOSE_WAIT"
  PROVE  Whole(g, p, hasty)
<1>1. /\ Meant(p) = Meant(h) /\ Unsent(g, p) = Unsent(r, h)
      /\ LastSub(p) = LastSub(h) /\ \A i : Submitted(p, i) = Submitted(h, i)
  BY DEF Meant, Unsent, LastSub, Submitted
<1>2. Unused(g, p)
  <2>1. h.written = 0 => Meant(h) = 0
    BY Numbers DEF Meant
  <2> QED
    BY <2>1 DEF Whole, Unused
<1>3. ASSUME Outgoing(r, h) PROVE Outgoing(g, p)
  <2>1. Transmits(g, p) /\ LastSub(p) <= p.written
    BY <1>1, <1>3 DEF Outgoing, Transmits
  <2>2. Datagrams(g, p)
    <3>1. Datagrams(r, h) /\ (g.state = "UDP" => r.state = "UDP")
      BY <1>3 DEF Outgoing
    <3>2. g.state = "UDP" => Minus(Meant(p), g.last_send) = p.written - LastSub(p)
      BY <1>1, <3>1 DEF Datagrams
    <3> QED
      BY <3>1, <3>2, SameDatagrams
  <2>3. Connection(g, p)
    BY <1>1, <1>3 DEF Outgoing, Connection
  <2> QED
    BY <2>1, <2>2, <2>3 DEF Outgoing
<1> QED
  BY <1>2, <1>3 DEF Whole

\* And the receive ring with it.
LEMMA SameWhole ==
  ASSUME NEW r \in ChipType, NEW g \in ChipType, NEW h \in PeerType, NEW p \in PeerType,
         NEW hasty, Whole(r, h, hasty),
         /\ g.tx_rr = r.tx_rr /\ g.tx_wr \in {r.tx_wr, Meant(h)} /\ g.last_send = r.last_send
         /\ g.lengths = r.lengths /\ g.rx_rsr = r.rx_rsr /\ g.old_rx_rd = r.old_rx_rd
         /\ g.rx = r.rx /\ g.tx = r.tx,
         /\ p.stored = h.stored /\ p.written = h.written /\ p.subs = h.subs
         /\ p.wire = h.wire /\ p.cuts = h.cuts,
         h.stray => p.stray, g.write_pending => r.write_pending,
         \/ g.state \in {r.state, "CLOSED"}
         \/ r.state = "INIT" /\ g.state = "LISTEN"
         \/ r.state = "ESTABLISHED" /\ g.state = "CLOSE_WAIT"
  PROVE  Whole(g, p, hasty)
<1>1. Receives(g, p)
  BY DEF Whole, Receives
<1> QED
  BY <1>1, SameSent

\* Nothing came, and nothing was written.
LEMMA EmptyWhole ==
  ASSUME NEW r \in ChipType, NEW h \in PeerType, NEW hasty,
         r.rx_rsr = 0, r.tx_rr = 0, r.tx_wr = 0, Len(r.lengths) <= MaxQueue,
         h.written = 0, h.wire = <<>>, h.subs = <<>>, h.cuts = <<>>,
         r.state = "UDP" => r.lengths = <<>> /\ r.last_send = 0
  PROVE  Whole(r, h, hasty)
<1>1. Ring \in Nat /\ Minus(0, 0) = 0
  BY Numbers, Distances
<1>2. LastSub(h) = 0 /\ Submitted(h, 0) = 0 /\ Len(h.wire) = 0 /\ Len(h.subs) = 0 /\ Len(h.cuts) = 0
  BY DEF LastSub, Submitted
<1>3. Receives(r, h) /\ Unused(r, h)
  BY DEF Receives, Numbered, Unused
<1>4. Meant(h) = 0 /\ Unsent(r, h) = 0
  <2>1. Meant(h) = 0
    BY Numbers DEF Meant
  <2> QED
    BY <1>1, <2>1 DEF Unsent
<1>5. Transmits(r, h)
  <2>1. h.wire = [k \in 1 .. Len(h.wire) |-> k]
    BY <1>2
  <2> QED
    BY <1>1, <1>2, <1>4, <2>1 DEF Transmits, Numbered
<1>6. Datagrams(r, h)
  BY <1>1, <1>2, <1>4 DEF Datagrams
<1>7. Connection(r, h)
  BY <1>2, <1>4 DEF Connection
<1> QED
  BY <1>2, <1>3, <1>5, <1>6, <1>7 DEF Whole, Outgoing

LEMMA CleanWhole ==
  ASSUME NEW r \in ChipType, NEW hasty,
         r.rx_rsr = 0, r.tx_rr = 0, r.tx_wr = 0, r.last_send = 0, r.lengths = <<>>
  PROVE  Whole(r, NoPeer, hasty)
<1>1. MaxQueue \in Nat /\ Len(r.lengths) = 0
  BY W5100Assumption
<1>2. /\ NoPeer.written = 0 /\ NoPeer.wire = <<>> /\ NoPeer.subs = <<>> /\ NoPeer.cuts = <<>>
  BY DEF NoPeer
<1> QED
  BY <1>1, <1>2, EmptyWhole, CleanChip

-----------------------------------------------------------------------------
(* The guest's accesses.                                                       *)

LEMMA WriteTxWhole ==
  ASSUME NEW r \in ChipType, NEW g \in ChipType, NEW h \in PeerType, NEW p \in PeerType,
         NEW hasty, NEW n \in Nat, Whole(r, h, hasty), n \in 1 .. TX_FSR(r),
         r.tx_wr = Meant(h), r.state \in {"UDP", "ESTABLISHED"},
         r.state = "ESTABLISHED" /\ r.write_pending => hasty,
         /\ g.tx_rr = r.tx_rr /\ g.last_send = r.last_send
         /\ g.lengths = r.lengths /\ g.rx_rsr = r.rx_rsr /\ g.old_rx_rd = r.old_rx_rd
         /\ g.rx = r.rx /\ g.state = r.state /\ g.write_pending = r.write_pending,
         Filled(r.tx, g.tx, r.tx_wr % Ring, n, h.written),
         /\ p.written = h.written + n /\ p.stored = h.stored /\ p.subs = h.subs
         /\ p.wire = h.wire /\ p.cuts = h.cuts /\ p.stray = h.stray
  PROVE  Whole(g, p, hasty)
<1>1. /\ r.tx_wr \in Pointer /\ r.tx_rr \in Pointer /\ r.last_send \in Pointer
      /\ r.tx \in [0 .. Ring - 1 -> Nat] /\ h.written \in Nat
      /\ Word \in Nat /\ Ring \in Nat /\ Ring < Word /\ h.wire \in Seq(Nat) /\ h.subs \in Seq(Nat)
      /\ h.cuts \in Seq(Nat) /\ r.lengths \in Seq(Nat)
  BY Numbers, ChipFields, PeerFields
<1>2. PICK u \in 0 .. Word - 1 : u = Unsent(r, h)
  BY UnsentType
<1>3. /\ g.tx_rr = r.tx_rr /\ g.last_send = r.last_send
      /\ g.lengths = r.lengths /\ g.rx_rsr = r.rx_rsr /\ g.old_rx_rd = r.old_rx_rd
      /\ g.rx = r.rx /\ g.state = r.state /\ g.write_pending = r.write_pending
  OBVIOUS
<1>4. /\ p.written = h.written + n /\ p.stored = h.stored /\ p.subs = h.subs
      /\ p.wire = h.wire /\ p.cuts = h.cuts /\ p.stray = h.stray
  OBVIOUS
<1>5. Receives(g, p) /\ Len(g.lengths) <= MaxQueue /\ Unused(g, p)
  BY <1>3, <1>4 DEF Whole, Receives, Unused
<1>6. LastSub(p) = LastSub(h) /\ \A i : Submitted(p, i) = Submitted(h, i)
  BY <1>4 DEF LastSub, Submitted
<1>7. ASSUME Outgoing(r, h), ~hasty PROVE Outgoing(g, p)
  <2>1. u <= Ring /\ r.tx_wr = (r.tx_rr + u) % Word
    <3>1. u <= Ring
      BY <1>2, <1>7 DEF Outgoing, Transmits
    <3>2. u = Minus(r.tx_wr, r.tx_rr)
      BY <1>2 DEF Unsent
    <3> QED
      BY <1>1, <3>1, <3>2, Distances
  <2>2. n <= Ring - u /\ n \in 0 .. Word - 1
    <3>1. Minus(Ring, u) = Ring - u
      <4>1. u \in 0 .. Ring /\ Ring \in 0 .. Ring
        BY <1>1, <1>2, <2>1
      <4> QED
        BY <4>1, MinusLess
    <3>2. n <= TX_FSR(r) /\ n >= 1
      BY <1>1
    <3>3. TX_FSR(r) = 0 \/ TX_FSR(r) = Minus(Ring, u)
      BY <1>2 DEF TX_FSR, Unsent
    <3> QED
      BY <1>1, <1>2, <2>1, <3>1, <3>2, <3>3
  <2>3. Meant(p) = (r.tx_wr + n) % Word
    BY <1>4, <2>2, MeantMoves
  <2>4. Unsent(g, p) = u + n
    <3>1. u + n < Word /\ Minus(r.tx_wr, r.tx_rr) = u
      BY <1>1, <1>2, <2>1, <2>2 DEF Unsent
    <3>2. Minus((r.tx_wr + n) % Word, r.tx_rr) = Minus(r.tx_wr, r.tx_rr) + n
      BY <1>1, <2>2, <3>1, Distances
    <3> QED
      BY <1>3, <2>3, <3>1, <3>2 DEF Unsent
  <2>5. LastSub(h) <= h.written /\ LastSub(h) \in Nat
    BY <1>1, <1>7 DEF Outgoing, LastSub
  <2>6. Transmits(g, p)
    <3>1. /\ h.written = Len(h.wire) + u /\ h.wire = [k \in 1 .. Len(h.wire) |-> k]
          /\ Numbered(r.tx, r.tx_rr, u, Len(h.wire))
      BY <1>2, <1>7 DEF Outgoing, Transmits
    <3>2. r.tx_wr % Ring = (r.tx_rr + u) % Ring
      BY <1>1, <1>2, <2>1, PlaceOf
    <3>3. r.tx_rr \in Nat /\ u \in 0 .. Ring /\ n \in 0 .. Ring - u /\ Len(h.wire) \in Int
      <4>1. r.tx_rr \in Nat /\ Len(h.wire) \in Int
        BY <1>1, PointerNat, Counts
      <4>2. u \in 0 .. Ring /\ n \in 0 .. Ring - u
        BY <1>1, <2>1, <2>2
      <4> QED
        BY <4>1, <4>2
    <3>4. Numbered(g.tx, r.tx_rr, u + n, Len(h.wire))
      <4>1. Filled(r.tx, g.tx, r.tx_wr % Ring, n, h.written)
        OBVIOUS
      <4>2. Filled(r.tx, g.tx, (r.tx_rr + u) % Ring, n, Len(h.wire) + u)
        BY <3>1, <3>2, <4>1, Zenon
      <4> QED
        BY <3>1, <3>3, <4>2, Filling, Zenon
    <3>5. PICK w \in Nat : w = Len(h.wire)
      BY Counts
    <3>6. u + n <= Ring /\ h.written + n = w + (u + n)
      BY <1>1, <3>1, <3>3, <3>5
    <3> QED
      BY <1>3, <1>4, <2>4, <3>1, <3>4, <3>5, <3>6 DEF Transmits
  <2>7. Datagrams(g, p)
    <3> SUFFICES ASSUME r.state = "UDP" PROVE Datagrams(g, p)
      BY <1>3 DEF Datagrams
    <3>1. Datagrams(r, h)
      BY <1>7 DEF Outgoing
    <3>2. Minus(r.tx_wr, r.last_send) = h.written - LastSub(h)
      BY <3>1 DEF Datagrams
    <3>3. h.written - LastSub(h) + n < Word
      <4>1. Len(h.wire) <= LastSub(h) /\ h.written = Len(h.wire) + u /\ Len(h.wire) \in Nat
        BY <1>1, <1>2, <1>7, <3>1, SentSubmitted DEF Outgoing, Transmits
      <4>2. PICK w \in Nat, l \in Nat, x \in Nat :
              w = Len(h.wire) /\ l = LastSub(h) /\ x = h.written
        BY <1>1, <2>5, <4>1
      <4>3. w <= l /\ x = w + u
        BY <4>1, <4>2
      <4>4. x - l + n < Word
        BY <1>1, <2>1, <2>2, <4>3
      <4> QED
        BY <4>2, <4>4
    <3>4. Minus(Meant(p), g.last_send) = p.written - LastSub(p)
      <4>1. Minus((r.tx_wr + n) % Word, r.last_send) = Minus(r.tx_wr, r.last_send) + n
        BY <1>1, <2>2, <3>2, <3>3, Distances
      <4> QED
        BY <1>1, <1>3, <1>4, <1>6, <2>3, <2>5, <3>2, <4>1
    <3> QED
      BY <1>3, <1>4, <3>1, <3>4, SameDatagrams
  <2>8. Connection(g, p)
    BY <1>3, <1>4, <1>6, <1>7 DEF Outgoing, Connection
  <2>9. LastSub(p) <= p.written
    BY <1>1, <1>4, <1>6, <2>5
  <2> QED
    BY <2>6, <2>7, <2>8, <2>9 DEF Outgoing
<1> QED
  BY <1>4, <1>5, <1>7 DEF Whole

\* SEND appends to what was submitted.
LEMMA Submitting ==
  ASSUME NEW h \in PeerType, NEW p \in PeerType, p.subs = Append(h.subs, h.written)
  PROVE  /\ LastSub(p) = h.written /\ Len(p.subs) = Len(h.subs) + 1
         /\ Submitted(p, Len(h.subs) + 1) = h.written
         /\ \A i \in 0 .. Len(h.subs) : Submitted(p, i) = Submitted(h, i)
         /\ \A i \in 1 .. Len(h.subs) : p.subs[i] = h.subs[i]
<1>1. h.subs \in Seq(Nat) /\ h.written \in Nat /\ Len(h.subs) \in Nat
  BY PeerFields
<1>2. /\ Len(p.subs) = Len(h.subs) + 1 /\ p.subs[Len(h.subs) + 1] = h.written
      /\ \A i \in 1 .. Len(h.subs) : p.subs[i] = h.subs[i]
  BY <1>1
<1>3. p.subs # <<>> /\ Len(h.subs) + 1 # 0
  BY <1>1, <1>2
<1>4. LastSub(p) = h.written
  BY <1>2, <1>3 DEF LastSub
<1>5. Submitted(p, Len(h.subs) + 1) = h.written
  BY <1>2, <1>3 DEF Submitted
<1>6. \A i \in 0 .. Len(h.subs) : Submitted(p, i) = Submitted(h, i)
  BY <1>1, <1>2 DEF Submitted
<1> QED
  BY <1>2, <1>4, <1>5, <1>6

\* SEND of a UDP socket queues what was written since the last one.
LEMMA QueuedWhole ==
  ASSUME NEW r \in ChipType, NEW g \in ChipType, NEW h \in PeerType, NEW p \in PeerType,
         NEW hasty, Whole(r, h, hasty), r.state = "UDP", Len(r.lengths) < MaxQueue,
         r.tx_wr = Meant(h), NEW m, m = Minus(r.tx_wr, r.last_send),
         /\ g.state = "UDP" /\ g.tx_rr = r.tx_rr /\ g.tx_wr = r.tx_wr
         /\ g.last_send = r.tx_wr /\ g.lengths = Append(r.lengths, m) /\ g.tx = r.tx
         /\ g.rx_rsr = r.rx_rsr /\ g.old_rx_rd = r.old_rx_rd /\ g.rx = r.rx,
         /\ p.stored = h.stored /\ p.written = h.written /\ p.wire = h.wire
         /\ p.cuts = h.cuts /\ p.stray = h.stray /\ p.subs = Append(h.subs, h.written)
  PROVE  Whole(g, p, hasty)
<1>1. /\ r.tx_wr \in Pointer /\ r.lengths \in Seq(Nat) /\ h.written \in Nat /\ MaxQueue \in Nat
      /\ h.subs \in Seq(Nat)
  BY ChipFields, PeerFields, W5100Assumption
<1> DEFINE all == Receives(g, p) /\ Len(g.lengths) <= MaxQueue /\ Unused(g, p)
<1>0. all
  <2>1. m \in Nat
    <3>1. r.last_send \in Pointer /\ r.tx_wr \in Int /\ r.last_send \in Int
      BY ChipFields, PointerInt
    <3> QED
      BY <3>1, MinusType, PointerNat
  <2>2. Len(g.lengths) = Len(r.lengths) + 1
    BY <1>1, <2>1
  <2> QED
    BY <1>1, <2>2 DEF Whole, Receives, Unused
<1> SUFFICES ASSUME Outgoing(r, h) PROVE Outgoing(g, p)
  BY <1>0 DEF Whole
<1>2. /\ Datagrams(r, h) /\ LastSub(h) <= h.written
      /\ LastSub(h) = Submitted(h, Len(h.subs))
  BY SentSubmitted DEF Outgoing
<1>3. PICK c \in Nat, l \in Nat, n \in Nat :
        c = Len(h.cuts) /\ l = Len(r.lengths) /\ n = Len(h.subs)
  BY PeerFields, ChipFields
<1>4. /\ n = c + l /\ Len(h.wire) = Submitted(h, c)
      /\ \A i \in 1 .. c : h.cuts[i] = h.subs[i]
      /\ \A i, j \in 0 .. n : i <= j => Submitted(h, i) <= Submitted(h, j)
      /\ \A i \in 1 .. l : r.lengths[i] = Submitted(h, c + i) - Submitted(h, c + i - 1)
      /\ m = h.written - LastSub(h)
  BY <1>2, <1>3 DEF Datagrams
<1>5. /\ LastSub(p) = h.written /\ Len(p.subs) = n + 1 /\ Submitted(p, n + 1) = h.written
      /\ \A i \in 0 .. n : Submitted(p, i) = Submitted(h, i)
      /\ \A i \in 1 .. n : p.subs[i] = h.subs[i]
  BY <1>3, Submitting
<1>6. m \in Nat
  <2>1. r.last_send \in Pointer /\ r.tx_wr \in Int /\ r.last_send \in Int
    BY ChipFields, PointerInt
  <2> QED
    BY <2>1, MinusType, PointerNat
<1>7. /\ Len(g.lengths) = l + 1 /\ g.lengths[l + 1] = m
      /\ \A i \in 1 .. l : g.lengths[i] = r.lengths[i]
  BY <1>1, <1>3, <1>6
<1>8. n = c + l
  BY <1>4, Zenon
<1>9. Transmits(g, p) /\ Meant(p) = Meant(h)
  BY DEF Outgoing, Transmits, Unsent, Meant
<1>10. LastSub(p) <= p.written
  BY <1>1, <1>5
<1>11. Datagrams(g, p)
  <2>1. Len(p.cuts) = c /\ n + 1 = c + (l + 1)
    <3>1. n + 1 = c + (l + 1)
      BY <1>8
    <3> QED
      BY <1>3, <3>1
  <2>2. Len(p.wire) = Submitted(p, c)
    <3>1. c \in 0 .. n
      BY <1>4
    <3> QED
      BY <1>4, <1>5, <3>1
  <2>3. \A i \in 1 .. c : p.cuts[i] = p.subs[i]
    <3>1. \A i \in 1 .. c : i \in 1 .. n
      BY <1>4
    <3> QED
      BY <1>4, <1>5, <3>1
  <2>4. ASSUME NEW i \in 0 .. n + 1, NEW j \in 0 .. n + 1, i <= j
        PROVE  Submitted(p, i) <= Submitted(p, j)
    <3>1. CASE i \in 0 .. n /\ j \in 0 .. n
      BY <1>4, <1>5, <2>4, <3>1
    <3>2. CASE i \in 0 .. n /\ j = n + 1
      <4>1. n \in 0 .. n /\ i <= n
        BY <3>2
      <4>2. Submitted(h, i) <= Submitted(h, n)
        BY <1>4, <3>2, <4>1
      <4>3. Submitted(p, i) = Submitted(h, i) /\ Submitted(p, j) = h.written
            /\ Submitted(h, n) <= h.written
        BY <1>2, <1>3, <1>5, <3>2
      <4>4. Submitted(h, i) \in Nat /\ Submitted(h, n) \in Nat
        BY <1>1, <1>3, <3>2, SMTT(30) DEF Submitted
      <4> QED
        BY <1>1, <4>2, <4>3, <4>4
    <3>3. CASE i = n + 1
      <4>1. j = n + 1
        BY <2>4, <3>3
      <4> QED
        BY <1>1, <1>5, <3>3, <4>1
    <3> QED
      BY <2>4, <3>1, <3>2, <3>3
  <2>5. ASSUME NEW i \in 1 .. l + 1
        PROVE  g.lengths[i] = Submitted(p, c + i) - Submitted(p, c + i - 1)
    <3>1. CASE i \in 1 .. l
      <4>1. c + i \in 0 .. n /\ c + i - 1 \in 0 .. n
        BY <1>8, <3>1, Places, Zenon
      <4> QED
        BY <1>4, <1>5, <1>7, <3>1, <4>1
    <3>2. CASE i = l + 1
      <4>1. c + i = n + 1 /\ c + i - 1 = n /\ n \in 0 .. n
        BY <1>8, <3>2, Places, ZenonT(30)
      <4>2. Submitted(p, n) = LastSub(h) /\ Submitted(p, n + 1) = h.written
        BY <1>2, <1>3, <1>5, <4>1
      <4>3. g.lengths[l + 1] = h.written - LastSub(h)
        BY <1>4, <1>7
      <4>4. Submitted(p, c + i) = h.written
        BY <4>1, <4>2, Zenon
      <4>5. Submitted(p, c + i - 1) = LastSub(h)
        BY <4>1, <4>2, Zenon
      <4> QED
        BY <3>2, <4>3, <4>4, <4>5, Zenon
    <3>3. i \in 1 .. l \/ i = l + 1
      BY Places
    <3> QED
      BY <3>1, <3>2, <3>3, Zenon
  <2>6. Minus(Meant(p), g.last_send) = p.written - LastSub(p)
    <3>1. Minus(r.tx_wr, r.tx_wr) = 0
      <4>1. 0 \in 0 .. Word - 1
        BY Numbers DEF Pointer
      <4> QED
        BY <1>1, <4>1, Distances
    <3> QED
      BY <1>1, <1>5, <1>9, <3>1
  <2> QED
    BY <1>5, <1>7, <2>1, <2>2, <2>3, <2>4, <2>5, <2>6 DEF Datagrams
<1>12. Connection(g, p)
  BY DEF Connection
<1> QED
  BY <1>9, <1>10, <1>11, <1>12 DEF Outgoing

\* SEND of a connection.
LEMMA SentWhole ==
  ASSUME NEW r \in ChipType, NEW g \in ChipType, NEW h \in PeerType, NEW p \in PeerType,
         NEW hasty, Whole(r, h, hasty), r.state = "ESTABLISHED", r.tx_wr = Meant(h),
         /\ g.state = r.state /\ g.tx_rr = r.tx_rr /\ g.tx_wr = r.tx_wr
         /\ g.lengths = r.lengths /\ g.tx = r.tx
         /\ g.rx_rsr = r.rx_rsr /\ g.old_rx_rd = r.old_rx_rd /\ g.rx = r.rx,
         /\ p.stored = h.stored /\ p.written = h.written /\ p.wire = h.wire
         /\ p.stray = h.stray /\ p.subs = Append(h.subs, h.written)
  PROVE  Whole(g, p, hasty)
<1>1. LastSub(p) = h.written /\ h.written \in Nat /\ Len(h.wire) \in Nat
  BY Submitting, PeerFields
<1>2. Receives(g, p) /\ Unused(g, p) /\ Meant(p) = Meant(h) /\ Unsent(g, p) = Unsent(r, h)
  BY DEF Whole, Receives, Unused, Meant, Unsent
<1>3. ASSUME Outgoing(r, h) PROVE Outgoing(g, p)
  <2>1. Transmits(g, p)
    BY <1>2, <1>3 DEF Outgoing, Transmits
  <2>2. Len(h.wire) <= h.written
    <3>1. PICK u \in Nat : u = Unsent(r, h)
      BY UnsentType
    <3>2. h.written = Len(h.wire) + u
      BY <1>3, <3>1 DEF Outgoing, Transmits
    <3> QED
      BY <1>1, <3>2
  <2>3. Datagrams(g, p) /\ Connection(g, p)
    BY <1>1, <1>2, <2>2 DEF Datagrams, Connection
  <2> QED
    BY <1>1, <2>1, <2>3 DEF Outgoing
<1> QED
  BY <1>2, <1>3 DEF Whole

\* RECV takes n bytes off the front of the receive ring.
LEMMA ReturnedWhole ==
  ASSUME NEW r \in ChipType, NEW g \in ChipType, NEW h \in PeerType, NEW hasty,
         Whole(r, h, hasty), NEW n \in 0 .. r.rx_rsr,
         /\ g.tx_rr = r.tx_rr /\ g.tx_wr = r.tx_wr /\ g.last_send = r.last_send
         /\ g.lengths = r.lengths /\ g.tx = r.tx /\ g.state = r.state
         /\ g.write_pending = r.write_pending
         /\ g.rx_rsr = r.rx_rsr - n /\ g.old_rx_rd = (r.old_rx_rd + n) % Word /\ g.rx = r.rx
  PROVE  Whole(g, h, hasty)
<1>1. r.rx_rsr \in 0 .. Ring /\ r.old_rx_rd \in Pointer /\ h.stored \in Nat
  BY ChipFields, PeerFields
<1>2. PICK base \in Int : base = h.stored - r.rx_rsr
  BY <1>1, Numbers
<1>3. Numbered(r.rx, r.old_rx_rd, r.rx_rsr, base)
  BY <1>2 DEF Whole, Receives
<1>4. Numbered(r.rx, (r.old_rx_rd + n) % Word, r.rx_rsr - n, base + n)
  BY <1>1, <1>3, Draining
<1>5. base + n = h.stored - (r.rx_rsr - n)
  BY <1>1, <1>2, Numbers
<1>6. Receives(g, h)
  BY <1>4, <1>5 DEF Receives
<1> QED
  BY <1>6, SameSent

-----------------------------------------------------------------------------
(* The I/O thread's reads and writes.                                          *)

\* What came is put behind what is there.
LEMMA StoredWhole ==
  ASSUME NEW r \in ChipType, NEW g \in ChipType, NEW h \in PeerType, NEW p \in PeerType,
         NEW hasty, Whole(r, h, hasty), NEW n \in Nat, r.rx_rsr + n <= Ring,
         /\ g.tx_rr = r.tx_rr /\ g.tx_wr = r.tx_wr /\ g.last_send = r.last_send
         /\ g.lengths = r.lengths /\ g.tx = r.tx /\ g.state = r.state
         /\ g.write_pending = r.write_pending
         /\ g.rx_rsr = r.rx_rsr + n /\ g.old_rx_rd = r.old_rx_rd,
         Filled(r.rx, g.rx, (r.old_rx_rd + r.rx_rsr) % Ring, n, h.stored),
         /\ p.written = h.written /\ p.subs = h.subs /\ p.wire = h.wire /\ p.cuts = h.cuts
         /\ p.stray = h.stray /\ p.stored = h.stored + n
  PROVE  Whole(g, p, hasty)
<1>1. r.rx_rsr \in 0 .. Ring /\ r.old_rx_rd \in Pointer /\ h.stored \in Nat
  BY ChipFields, PeerFields
<1>2. PICK base \in Int : base = h.stored - r.rx_rsr
  BY <1>1, Numbers
<1>3. Numbered(r.rx, r.old_rx_rd, r.rx_rsr, base)
  BY <1>2 DEF Whole, Receives
<1>4. base + r.rx_rsr = h.stored /\ n \in 0 .. Ring - r.rx_rsr /\ r.old_rx_rd \in Nat
  BY <1>1, <1>2, Numbers, PointerNat
<1>5. Filled(r.rx, g.rx, (r.old_rx_rd + r.rx_rsr) % Ring, n, base + r.rx_rsr)
  BY <1>4, Zenon
<1>6. Numbered(g.rx, r.old_rx_rd, r.rx_rsr + n, base)
  BY <1>1, <1>3, <1>4, <1>5, Filling, Zenon
<1>7. base = p.stored - g.rx_rsr
  BY <1>1, <1>2, Numbers
<1>8. Receives(g, p)
  BY <1>6, <1>7 DEF Receives
<1> QED
  BY <1>8, SameSent

LEMMA Counting ==
  ASSUME NEW q \in Seq(Nat), \A k \in 1 .. Len(q) : q[k] = k
  PROVE  q = [k \in 1 .. Len(q) |-> k]
<1>1. q \in [1 .. Len(q) -> Nat]
  OBVIOUS
<1> QED
  BY <1>1

\* The bytes at the front of the transmit ring are the next of the stream.
LEMMA WireGrows ==
  ASSUME NEW r \in ChipType, NEW h \in PeerType, Transmits(r, h),
         NEW n \in 0 .. Unsent(r, h)
  PROVE  /\ Len(h.wire \o Bytes(r, n)) = Len(h.wire) + n
         /\ h.wire \o Bytes(r, n) = [k \in 1 .. Len(h.wire) + n |-> k]
<1>1. /\ h.wire \in Seq(Nat) /\ r.tx_rr \in Nat /\ n \in Nat
      /\ Numbered(r.tx, r.tx_rr, Unsent(r, h), Len(h.wire))
      /\ h.wire = [k \in 1 .. Len(h.wire) |-> k]
  <2>1. r.tx_rr \in Nat
    BY ChipFields, PointerInt
  <2>2. Unsent(r, h) \in Nat
    BY UnsentType
  <2> QED
    BY <2>1, <2>2, PeerFields DEF Transmits
<1>2. PICK w \in Nat : w = Len(h.wire)
  BY <1>1
<1>3. PICK u \in Nat : u = Unsent(r, h)
  BY UnsentType
<1>4. ASSUME NEW k \in 1 .. n PROVE Bytes(r, n)[k] = w + k
  <2>1. k - 1 \in 0 .. u - 1 /\ r.tx_rr + k - 1 = r.tx_rr + (k - 1)
    BY <1>1, <1>3
  <2>2. r.tx[(r.tx_rr + (k - 1)) % Ring] = w + (k - 1) + 1
    BY <1>1, <1>2, <1>3, <2>1 DEF Numbered
  <2>3. Bytes(r, n)[k] = r.tx[(r.tx_rr + k - 1) % Ring]
    BY DEF Bytes
  <2>4. w + (k - 1) + 1 = w + k
    OBVIOUS
  <2> QED
    BY <2>1, <2>2, <2>3, <2>4, Zenon
<1> DEFINE b == Bytes(r, n)
           v == h.wire
<1>5. b \in Seq(Nat) /\ Len(b) = n
  <2>1. b \in Seq(Nat)
    BY <1>1, BytesType
  <2>2. DOMAIN b = 1 .. n
    BY DEF Bytes
  <2> QED
    BY <1>1, <2>1, <2>2
<1>6. v \in Seq(Nat) /\ Len(v) = w /\ (\A k \in 1 .. w : v[k] = k) /\ (\A k \in 1 .. n : b[k] = w + k)
  BY <1>1, <1>2, <1>4
<1> HIDE DEF b, v
<1>7. v \o b \in Seq(Nat) /\ Len(v \o b) = w + n
  BY <1>5, <1>6
<1>8. ASSUME NEW k \in 1 .. w + n PROVE (v \o b)[k] = k
  <2>1. CASE k <= w
    BY <1>5, <1>6, <2>1
  <2>2. CASE k > w
    <3>1. k - w \in 1 .. n /\ w + (k - w) = k
      BY <2>2
    <3>2. (v \o b)[k] = b[k - w]
      BY <1>5, <1>6, <2>2
    <3> QED
      BY <1>6, <3>1, <3>2
  <2>3. k <= w \/ k > w
    OBVIOUS
  <2> QED
    BY <2>1, <2>2, <2>3, Zenon
<1>9. v \o b = [k \in 1 .. w + n |-> k]
  <2> DEFINE q == v \o b
  <2>1. q \in Seq(Nat) /\ Len(q) = w + n /\ \A k \in 1 .. w + n : q[k] = k
    BY <1>7, <1>8
  <2> HIDE DEF q
  <2>2. q = [k \in 1 .. Len(q) |-> k]
    BY <2>1, Counting
  <2> QED
    BY <2>1, <2>2 DEF q
<1> QED
  BY <1>2, <1>7, <1>9 DEF v, b

\* What leaves the transmit ring.
LEMMA FewerUnsent ==
  ASSUME NEW r \in ChipType, NEW g \in ChipType, NEW h \in PeerType, NEW p \in PeerType,
         Transmits(r, h), NEW n \in 0 .. Unsent(r, h),
         g.tx_rr = (r.tx_rr + n) % Word, g.tx = r.tx,
         p.written = h.written, p.wire = h.wire \o Bytes(r, n)
  PROVE  /\ Transmits(g, p) /\ Len(p.wire) = Len(h.wire) + n
         /\ Len(h.wire) + n <= h.written
<1>1. /\ r.tx_rr \in Pointer /\ Meant(h) \in Pointer /\ Meant(p) = Meant(h) /\ h.written \in Nat
      /\ Ring \in Nat /\ Word \in Nat /\ Ring < Word
  BY ChipFields, PeerFields, Numbers, UnsentType DEF Meant
<1>2. PICK u \in 0 .. Word - 1 : u = Unsent(r, h)
  BY UnsentType
<1>3. PICK w \in Nat : w = Len(h.wire)
  BY PeerFields
<1>4. /\ u <= Ring /\ h.written = w + u /\ Numbered(r.tx, r.tx_rr, u, w)
  BY <1>2, <1>3 DEF Transmits
<1>5. n \in 0 .. u /\ n \in 0 .. Word - 1 /\ u \in 0 .. Ring /\ u - n <= Ring
      /\ h.written = (w + n) + (u - n) /\ w + n <= h.written
  BY <1>1, <1>2, <1>4
<1>6. Unsent(g, p) = u - n
  BY <1>1, <1>2, <1>5, Distances DEF Unsent
<1>7. Len(p.wire) = w + n /\ p.wire = [k \in 1 .. w + n |-> k]
  <2>1. /\ Len(h.wire \o Bytes(r, n)) = Len(h.wire) + n
        /\ h.wire \o Bytes(r, n) = [k \in 1 .. Len(h.wire) + n |-> k]
    BY WireGrows, ZenonT(30)
  <2> DEFINE b == h.wire \o Bytes(r, n)
  <2>2. Len(b) = w + n /\ b = [k \in 1 .. w + n |-> k] /\ p.wire = b
    BY <1>3, <2>1
  <2> HIDE DEF b
  <2> QED
    BY <2>2
<1>8. Numbered(r.tx, (r.tx_rr + n) % Word, u - n, w + n)
  <2>1. w \in Int
    OBVIOUS
  <2> QED
    BY <1>1, <1>4, <1>5, <2>1, Draining, Zenon
<1>9. Transmits(g, p)
  BY <1>5, <1>6, <1>7, <1>8 DEF Transmits
<1> QED
  BY <1>3, <1>5, <1>7, <1>9

\* A connection sends n bytes.
LEMMA TcpSentWhole ==
  ASSUME NEW r \in ChipType, NEW g \in ChipType, NEW h \in PeerType, NEW p \in PeerType,
         NEW hasty, Whole(r, h, hasty), r.state = "ESTABLISHED", ~h.stray => r.write_pending,
         NEW n \in 0 .. Minus(r.tx_wr, r.tx_rr),
         /\ g.tx_rr = (r.tx_rr + n) % Word /\ g.tx_wr = r.tx_wr /\ g.tx = r.tx
         /\ g.lengths = r.lengths /\ g.state = r.state
         /\ g.rx_rsr = r.rx_rsr /\ g.old_rx_rd = r.old_rx_rd /\ g.rx = r.rx,
         /\ p.written = h.written /\ p.subs = h.subs /\ p.stored = h.stored
         /\ p.stray = h.stray /\ p.wire = h.wire \o Bytes(r, n)
  PROVE  Whole(g, p, hasty)
<1>1. Receives(g, p) /\ Unused(g, p) /\ Len(g.lengths) <= MaxQueue
  BY DEF Whole, Receives, Unused
<1>2. ASSUME Outgoing(r, h), ~h.stray PROVE Outgoing(g, p)
  <2>1. r.write_pending /\ r.tx_wr = Meant(h) /\ h.written = LastSub(h)
    BY <1>2 DEF Outgoing, Connection
  <2>2. n \in 0 .. Unsent(r, h) /\ Meant(p) = Meant(h)
    BY <2>1 DEF Unsent, Meant
  <2>3. /\ Transmits(g, p) /\ Len(p.wire) = Len(h.wire) + n
        /\ Len(h.wire) + n <= h.written
    BY <1>2, <2>2, FewerUnsent DEF Outgoing
  <2>4. LastSub(p) = LastSub(h)
    BY DEF LastSub
  <2>5. Datagrams(g, p)
    BY DEF Datagrams
  <2>6. Connection(g, p)
    BY <1>2, <2>1, <2>2, <2>3, <2>4 DEF Outgoing, Connection
  <2> QED
    BY <1>2, <2>3, <2>4, <2>5, <2>6 DEF Outgoing
<1> QED
  BY <1>1, <1>2 DEF Whole

\* A UDP socket sends its first datagram.
LEMMA DatagramSentWhole ==
  ASSUME NEW r \in ChipType, NEW g \in ChipType, NEW h \in PeerType, NEW p \in PeerType,
         NEW hasty, Whole(r, h, hasty), r.state = "UDP", r.lengths # <<>>,
         NEW n, n = Head(r.lengths),
         /\ g.tx_rr = (r.tx_rr + n) % Word /\ g.tx_wr = r.tx_wr /\ g.tx = r.tx
         /\ g.last_send = r.last_send /\ g.lengths = Tail(r.lengths) /\ g.state = r.state
         /\ g.rx_rsr = r.rx_rsr /\ g.old_rx_rd = r.old_rx_rd /\ g.rx = r.rx,
         /\ p.written = h.written /\ p.subs = h.subs /\ p.stored = h.stored
         /\ p.stray = h.stray /\ p.wire = h.wire \o Bytes(r, n) /\ p.cuts = Append(h.cuts, Len(h.wire) + n)
  PROVE  Whole(g, p, hasty)
<1>1. /\ r.lengths \in Seq(Nat) /\ h.written \in Nat /\ MaxQueue \in Nat
      /\ h.subs \in Seq(Nat) /\ h.cuts \in Seq(Nat) /\ n \in Nat
  <2>1. r.lengths \in Seq(Nat)
    BY ChipFields
  <2>2. Head(r.lengths) \in Nat
    BY <2>1
  <2>3. h.written \in Nat /\ h.subs \in Seq(Nat) /\ h.cuts \in Seq(Nat)
    BY PeerFields
  <2>4. MaxQueue \in Nat
    BY W5100Assumption
  <2> QED
    BY <2>1, <2>2, <2>3, <2>4
<1>2. PICK c \in Nat, l \in Nat, m \in Nat, w \in Nat :
        c = Len(h.cuts) /\ l = Len(g.lengths) /\ m = Len(h.subs) /\ w = Len(h.wire)
  BY Counts, Zenon
<1>3. /\ Len(r.lengths) = l + 1 /\ r.lengths[1] = n
      /\ \A i \in 1 .. l : g.lengths[i] = r.lengths[i + 1]
  BY <1>1, <1>2
<1>0. Receives(g, p) /\ Unused(g, p) /\ Len(g.lengths) <= MaxQueue
  <2>1. l <= MaxQueue
    BY <1>1, <1>3 DEF Whole
  <2> QED
    BY <1>2, <2>1 DEF Whole, Receives, Unused
<1> SUFFICES ASSUME Outgoing(r, h) PROVE Outgoing(g, p)
  BY <1>0 DEF Whole
<1>4. /\ Datagrams(r, h) /\ LastSub(h) <= h.written
      /\ LastSub(h) = Submitted(h, m)
  BY <1>2, SentSubmitted DEF Outgoing
<1>5. /\ m = c + (l + 1) /\ w = Submitted(h, c)
      /\ \A i \in 1 .. c : h.cuts[i] = h.subs[i]
      /\ \A i, j \in 0 .. m : i <= j => Submitted(h, i) <= Submitted(h, j)
      /\ \A i \in 1 .. l + 1 : r.lengths[i] = Submitted(h, c + i) - Submitted(h, c + i - 1)
      /\ Minus(Meant(h), r.last_send) = h.written - LastSub(h)
  BY <1>2, <1>3, <1>4 DEF Datagrams
<1>6. m = c + (l + 1)
  BY <1>5, Zenon
<1>7. \A i \in 0 .. m : Submitted(h, i) \in Nat
  BY <1>1, <1>2 DEF Submitted
<1>8. c + 1 \in 0 .. m /\ m \in 0 .. m /\ c + 1 <= m /\ 1 \in 1 .. l + 1 /\ c + 1 - 1 = c
      /\ c \in 0 .. m /\ c <= m
  BY <1>6
<1>9. /\ n = Submitted(h, c + 1) - w /\ Submitted(h, c + 1) <= Submitted(h, m)
      /\ Submitted(h, c + 1) \in Nat
  <2>1. r.lengths[1] = Submitted(h, c + 1) - Submitted(h, c + 1 - 1)
    BY <1>5, <1>8
  <2>2. Submitted(h, c + 1 - 1) = w
    BY <1>5, <1>8, Zenon
  <2>3. Submitted(h, c + 1) <= Submitted(h, m)
    BY <1>5, <1>8
  <2>4. n = Submitted(h, c + 1) - w
    BY <1>3, <2>1, <2>2, Zenon
  <2> QED
    BY <1>7, <1>8, <2>3, <2>4
<1>10. PICK x \in Nat : x = Submitted(h, c + 1)
  BY <1>9
<1>11. w + n = x /\ x <= h.written
  <2>1. Submitted(h, m) \in Nat /\ Submitted(h, m) <= h.written
    BY <1>4, <1>7, <1>8
  <2>2. n = x - w /\ x <= Submitted(h, m)
    BY <1>9, <1>10
  <2>3. PICK y \in Nat, z \in Nat, k \in Nat : y = Submitted(h, m) /\ z = h.written /\ k = n
    BY <1>1, <2>1
  <2>4. k = x - w /\ x <= y /\ y <= z
    BY <2>1, <2>2, <2>3
  <2>5. w + k = x /\ x <= z
    BY <2>4, Difference
  <2> QED
    BY <2>3, <2>5
<1>12. n \in 0 .. Unsent(r, h)
  <2>1. h.written = w + Unsent(r, h)
    BY <1>2 DEF Outgoing, Transmits
  <2>2. PICK u \in Nat : u = Unsent(r, h)
    BY UnsentType
  <2> QED
    BY <1>1, <1>11, <2>1, <2>2
<1>13. Transmits(g, p) /\ Len(p.wire) = w + n
  BY <1>2, <1>12, FewerUnsent DEF Outgoing
<1>15. /\ LastSub(p) = LastSub(h) /\ \A i : Submitted(p, i) = Submitted(h, i)
       /\ Meant(p) = Meant(h)
  BY DEF LastSub, Submitted, Meant
<1>16. LastSub(p) <= p.written
  BY <1>4, <1>15
<1>17. /\ Len(p.cuts) = c + 1 /\ p.cuts[c + 1] = x /\ \A i \in 1 .. c : p.cuts[i] = h.cuts[i]
  <2> DEFINE e == Len(h.wire) + n
  <2>1. e = x
    BY <1>2, <1>11
  <2> HIDE DEF e
  <2>2. p.cuts = Append(h.cuts, e) /\ e \in Nat
    BY <2>1 DEF e
  <2> QED
    BY <1>1, <1>2, <2>1, <2>2, SMTT(30)
<1>18. Datagrams(g, p)
  <2>1. Len(p.subs) = (c + 1) + l
    BY <1>2, <1>6, Places, ZenonT(30)
  <2>2. Len(p.wire) = Submitted(p, c + 1)
    BY <1>10, <1>11, <1>13, <1>15
  <2>3. ASSUME NEW i \in 1 .. c + 1 PROVE p.cuts[i] = p.subs[i]
    <3>1. CASE i \in 1 .. c
      BY <1>5, <1>17, <3>1
    <3>2. CASE i = c + 1
      <4>1. Submitted(h, c + 1) = h.subs[c + 1]
        BY DEF Submitted
      <4> QED
        BY <1>10, <1>17, <3>2, <4>1
    <3>3. i \in 1 .. c \/ i = c + 1
      OBVIOUS
    <3> QED
      BY <3>1, <3>2, <3>3, Zenon
  <2>4. \A i, j \in 0 .. Len(p.subs) : i <= j => Submitted(p, i) <= Submitted(p, j)
    BY <1>2, <1>5, <1>15
  <2>5. ASSUME NEW i \in 1 .. l
        PROVE  g.lengths[i] = Submitted(p, (c + 1) + i) - Submitted(p, (c + 1) + i - 1)
    <3>1. i + 1 \in 1 .. l + 1 /\ c + (i + 1) = (c + 1) + i /\ c + (i + 1) - 1 = (c + 1) + i - 1
      BY Places
    <3>2. r.lengths[i + 1] = Submitted(h, c + (i + 1)) - Submitted(h, c + (i + 1) - 1)
      BY <1>5, <3>1
    <3>3. g.lengths[i] = r.lengths[i + 1]
      BY <1>3
    <3> QED
      BY <1>15, <3>1, <3>2, <3>3, Zenon
  <2>6. Minus(Meant(p), g.last_send) = p.written - LastSub(p)
    BY <1>5, <1>15
  <2> QED
    BY <1>2, <1>17, <2>1, <2>2, <2>3, <2>4, <2>5, <2>6 DEF Datagrams
<1>19. Connection(g, p)
  BY DEF Connection
<1> QED
  BY <1>13, <1>16, <1>18, <1>19 DEF Outgoing

\* A connection begins: by accept() or by CONNECT.
LEMMA ConnectedWhole ==
  ASSUME NEW r \in ChipType, NEW g \in ChipType, NEW h \in PeerType, NEW p \in PeerType,
         NEW hasty, Whole(r, h, hasty), r.state \in {"INIT", "LISTEN"}, r.rx_rsr = 0,
         g.tx_rr = r.tx_rr, g.tx_wr = r.tx_wr, g.lengths = r.lengths, g.rx_rsr = r.rx_rsr,
         g.state = "ESTABLISHED",
         p.written = 0, p.wire = <<>>, p.subs = <<>>, p.cuts = <<>>
  PROVE  Whole(g, p, hasty) /\ g.tx_wr = g.tx_rr
<1>1. r.tx_rr = 0 /\ r.tx_wr = 0 /\ Len(r.lengths) <= MaxQueue
  BY DEF Whole, Unused
<1> QED
  BY <1>1, EmptyWhole

-----------------------------------------------------------------------------
(* The guest's steps.                                                          *)

\* A step of the guest or of the network on one socket: what stays the I/O thread's keeps
\* its descriptor and what it has to send.
LEMMA StreamStep ==
  ASSUME StreamInv, ChipInv', Bounds', NEW s \in Socket, NEW r \in ChipType, NEW h \in PeerType,
         Put(s, r, h), io' = io, plan' = plan, Whole(r, h, plan[s].hasty),
         r.ok => /\ sock[s].ok /\ r.fd = sock[s].fd
                 /\ sock[s].write_pending => r.write_pending
                 /\ host[s].stray => h.stray
  PROVE  StreamInv'
<1>1. /\ sock'[s] = r /\ host'[s] = h
      /\ \A t \in Socket \ {s} : sock'[t] = sock[t] /\ host'[t] = host[t]
  BY DEF StreamInv, ChipInv, Shapes, Put
<1>2. ASSUME NEW t \in Socket PROVE Whole(sock'[t], host'[t], plan'[t].hasty) /\ WritesOwn(t)'
  <2>1. Whole(sock[t], host[t], plan[t].hasty) /\ WritesOwn(t)
    BY DEF StreamInv
  <2>2. CASE t # s
    BY <1>1, <2>1, <2>2 DEF WritesOwn, Writes
  <2>3. CASE t = s
    <3>1. Writes(s)' => Writes(s) /\ (host[s].stray => h.stray)
                        /\ (sock[s].write_pending => r.write_pending)
      BY <1>1 DEF Writes
    <3>2. WritesOwn(s)'
      BY <1>1, <2>1, <2>3, <3>1 DEF WritesOwn
    <3> QED
      BY <1>1, <2>3, <3>2
  <2> QED
    BY <2>2, <2>3
<1> QED
  BY <1>2 DEF StreamInv

LEMMA CleanedWhole ==
  ASSUME ChipInv, NEW s \in Socket, NEW hasty
  PROVE  /\ Whole(Cleaned(sock[s]), NoPeer, hasty)
         /\ \A fd \in Fd, st \in State :
              Whole([Cleaned(sock[s]) EXCEPT !.fd = fd, !.state = st], NoPeer, hasty)
<1> DEFINE c == Cleaned(sock[s])
<1>1. /\ c \in ChipType /\ c.rx_rsr = 0 /\ c.tx_rr = 0 /\ c.tx_wr = 0 /\ c.last_send = 0
      /\ c.lengths = <<>>
  <2>1. c \in ChipType
    BY CleanedChip
  <2> QED
    BY <2>1 DEF Cleaned, Clean
<1> HIDE DEF c
<1>2. Whole(c, NoPeer, hasty)
  BY <1>1, CleanWhole
<1>3. ASSUME NEW fd \in Fd, NEW st \in State
      PROVE  Whole([c EXCEPT !.fd = fd, !.state = st], NoPeer, hasty)
  <2> DEFINE r == [c EXCEPT !.fd = fd, !.state = st]
  <2>1. /\ r \in ChipType /\ r.rx_rsr = 0 /\ r.tx_rr = 0 /\ r.tx_wr = 0 /\ r.last_send = 0
        /\ r.lengths = <<>>
    BY <1>1 DEF ChipType
  <2> HIDE DEF r
  <2>2. Whole(r, NoPeer, hasty)
    BY <2>1, CleanWhole
  <2> QED
    BY <2>2 DEF r
<1> QED
  BY <1>2, <1>3 DEF c

LEMMA OpenStreams ==
  ASSUME StreamInv, ChipInv', Bounds', NEW s \in Socket, w5100_socket_open(s)
  PROVE  StreamInv'
<1>1. ChipInv /\ io' = io /\ plan' = plan
  BY DEF StreamInv, w5100_socket_open, Command
<1> DEFINE c == Cleaned(sock[s])
           fd == NextFd(OpenFds \ {sock[s].fd})
           st == IF plan[s].mode = "TCP" THEN "INIT" ELSE "UDP"
<1>2. c \in ChipType /\ ~c.ok /\ NoPeer \in PeerType
  BY <1>1, CleanedChip, CleanChip
<1>3. CASE Put(s, c, NoPeer)
  BY <1>1, <1>2, <1>3, CleanedWhole, StreamStep
<1>4. CASE Put(s, [c EXCEPT !.fd = fd, !.state = st], NoPeer)
  <2> DEFINE r == [c EXCEPT !.fd = fd, !.state = st]
  <2>1. fd \in Fd /\ st \in State
    BY LowestFd DEF OpenFds, State
  <2>2. Whole(r, NoPeer, plan[s].hasty)
    BY <1>1, <2>1, CleanedWhole
  <2> HIDE DEF c, fd, st
  <2>3. r \in ChipType /\ r.ok = c.ok
    BY <1>2, <2>1 DEF ChipType
  <2>4. Put(s, r, NoPeer)
    BY <1>4
  <2> HIDE DEF r
  <2> QED
    BY <1>1, <1>2, <2>2, <2>3, <2>4, StreamStep
<1> QED
  BY <1>3, <1>4 DEF w5100_socket_open

\* What changes the state, or which connection there is, and no pointer.
LEMMA StateStreams ==
  ASSUME StreamInv, ChipInv', Bounds', NEW s \in Socket, NEW b \in BOOLEAN, NEW st \in State,
         Put(s, [sock[s] EXCEPT !.bound = b, !.state = st], host[s]),
         io' = io, plan' = plan,
         st \in {sock[s].state, "CLOSED"} \/ (sock[s].state = "INIT" /\ st = "LISTEN")
  PROVE  StreamInv'
<1> DEFINE r == [sock[s] EXCEPT !.bound = b, !.state = st]
<1>1. /\ sock[s] \in ChipType /\ host[s] \in PeerType
      /\ Whole(sock[s], host[s], plan[s].hasty)
  BY Typed DEF StreamInv
<1>2. /\ r \in ChipType /\ r.fd = sock[s].fd /\ r.ok = sock[s].ok /\ r.state = st
      /\ r.write_pending = sock[s].write_pending /\ r.tx_rr = sock[s].tx_rr
      /\ r.tx_wr = sock[s].tx_wr /\ r.last_send = sock[s].last_send
      /\ r.lengths = sock[s].lengths /\ r.rx_rsr = sock[s].rx_rsr
      /\ r.old_rx_rd = sock[s].old_rx_rd /\ r.rx = sock[s].rx /\ r.tx = sock[s].tx
  BY <1>1 DEF ChipType
<1>3. Put(s, r, host[s])
  OBVIOUS
<1> HIDE DEF r
<1>4. Whole(r, host[s], plan[s].hasty)
  BY <1>1, <1>2, SameWhole
<1> QED
  BY <1>1, <1>2, <1>3, <1>4, StreamStep

\* The registers as StateStreams names them.
LEMMA SameState ==
  ASSUME ChipInv, NEW s \in Socket
  PROVE  /\ sock[s].bound \in BOOLEAN /\ sock[s].state \in State
         /\ \A b \in BOOLEAN : [sock[s] EXCEPT !.bound = b]
                               = [sock[s] EXCEPT !.bound = b, !.state = sock[s].state]
         /\ \A st \in State : [sock[s] EXCEPT !.state = st]
                              = [sock[s] EXCEPT !.bound = sock[s].bound, !.state = st]
  BY Typed DEF ChipType

LEMMA CommandStreams ==
  ASSUME StreamInv, ChipInv', Bounds', NEW s \in Socket,
         \/ w5100_write_socket_port(s) \/ w5100_socket_listen(s) \/ w5100_socket_connect(s)
         \/ sock[s].state = "UDP" /\ BindFails(s) /\ io' = io /\ plan' = plan
  PROVE  StreamInv'
<1>1. ChipInv /\ io' = io /\ plan' = plan
  BY DEF StreamInv, w5100_write_socket_port, w5100_socket_listen, w5100_socket_connect, Command
<1>2. sock[s] \in ChipType /\ host[s] \in PeerType
  BY <1>1, Typed
<1>3. \A r : sock' = [sock EXCEPT ![s] = r] /\ host' = host => Put(s, r, host[s])
  BY <1>1, SameHost
<1>4. CASE sock' = [sock EXCEPT ![s].state = "CLOSED"] /\ host' = host
  <2>1. "CLOSED" \in State
    BY DEF State
  <2>2. Put(s, [sock[s] EXCEPT !.bound = sock[s].bound, !.state = "CLOSED"], host[s])
    BY <1>1, <1>3, <1>4, <2>1, SameState
  <2> QED
    BY <1>1, <2>1, <2>2, SameState, StateStreams
<1>5. CASE sock' = [sock EXCEPT ![s].bound = TRUE] /\ host' = host
  <2>1. Put(s, [sock[s] EXCEPT !.bound = TRUE, !.state = sock[s].state], host[s])
    BY <1>1, <1>3, <1>5, SameState
  <2> QED
    BY <1>1, <2>1, SameState, StateStreams
<1>6. CASE /\ sock' = [sock EXCEPT ![s] = [@ EXCEPT !.bound = TRUE, !.state = "LISTEN"]]
           /\ host' = host /\ sock[s].state = "INIT"
  <2>1. Put(s, [sock[s] EXCEPT !.bound = TRUE, !.state = "LISTEN"], host[s])
    BY <1>3, <1>6
  <2>2. "LISTEN" \in State
    BY DEF State
  <2> QED
    BY <1>1, <1>6, <2>1, <2>2, StateStreams
<1>7. CASE Put(s, [sock[s] EXCEPT !.bound = TRUE, !.state = "CLOSED"], host[s])
  <2>1. "CLOSED" \in State
    BY DEF State
  <2> QED
    BY <1>1, <1>7, <2>1, StateStreams
<1>8. CASE /\ sock[s].state = "INIT"
           /\ Put(s, [sock[s] EXCEPT !.bound = TRUE, !.state = "ESTABLISHED"],
                  [NoPeer EXCEPT !.quiet = TRUE, !.stray = host[s].stray])
  <2> DEFINE r == [sock[s] EXCEPT !.bound = TRUE, !.state = "ESTABLISHED"]
             h == [NoPeer EXCEPT !.quiet = TRUE, !.stray = host[s].stray]
  <2>1. "ESTABLISHED" \in State
    BY DEF State
  <2>2. /\ r \in ChipType /\ r.fd = sock[s].fd /\ r.ok = sock[s].ok /\ r.state = "ESTABLISHED"
        /\ r.write_pending = sock[s].write_pending /\ r.tx_rr = sock[s].tx_rr
        /\ r.tx_wr = sock[s].tx_wr /\ r.lengths = sock[s].lengths /\ r.rx_rsr = sock[s].rx_rsr
    BY <1>2, <2>1 DEF ChipType
  <2>3. h \in PeerType
    BY <1>2, CleanChip DEF PeerType
  <2>4. /\ h.written = 0 /\ h.wire = <<>> /\ h.subs = <<>> /\ h.cuts = <<>>
        /\ h.stray = host[s].stray
    BY DEF NoPeer
  <2>5. Put(s, r, h)
    BY <1>8
  <2> HIDE DEF r, h
  <2>6. sock[s].rx_rsr = 0 /\ Whole(sock[s], host[s], plan[s].hasty)
    BY <1>1, <1>8, Typed DEF StreamInv, Sound
  <2>7. Whole(r, h, plan[s].hasty)
    BY <1>2, <1>8, <2>2, <2>3, <2>4, <2>6, ConnectedWhole
  <2> QED
    BY <1>1, <2>2, <2>3, <2>4, <2>5, <2>7, StreamStep
<1> QED
  BY <1>4, <1>5, <1>6, <1>7, <1>8
  DEF w5100_write_socket_port, w5100_socket_listen, w5100_socket_connect, BindFails

LEMMA ShutStreams ==
  ASSUME StreamInv, ChipInv', Bounds', NEW s \in Socket,
         w5100_socket_discon(s) \/ w5100_socket_close(s)
  PROVE  StreamInv'
<1>1. io' = io /\ plan' = plan /\ Put(s, Clean, NoPeer)
  BY DEF w5100_socket_discon, w5100_socket_close, Command, Shut
<1>2. /\ Clean \in ChipType /\ NoPeer \in PeerType /\ ~Clean.ok
      /\ Clean.rx_rsr = 0 /\ Clean.tx_rr = 0 /\ Clean.tx_wr = 0 /\ Clean.last_send = 0
      /\ Clean.lengths = <<>>
  BY CleanChip DEF Clean
<1>3. Whole(Clean, NoPeer, plan[s].hasty)
  BY <1>2, CleanWhole
<1> QED
  BY <1>1, <1>2, <1>3, StreamStep

LEMMA ResetStreams ==
  ASSUME StreamInv, ChipInv', Bounds',
         ResetBegin \/ nic_w5100_socket_reset \/ FreeStop \/ FreeWake \/ FreeJoined
  PROVE  StreamInv'
<1>1. CASE nic_w5100_socket_reset
  <2>1. /\ ei \in Socket /\ io' = io /\ plan' = plan /\ ChipInv
        /\ Put(ei, Cleaned(sock[ei]), NoPeer)
    BY <1>1 DEF nic_w5100_socket_reset, StreamInv, ChipInv, Shapes
  <2>2. /\ Cleaned(sock[ei]) \in ChipType /\ ~Cleaned(sock[ei]).ok /\ NoPeer \in PeerType
        /\ Whole(Cleaned(sock[ei]), NoPeer, plan[ei].hasty)
    BY <2>1, CleanedChip, CleanedWhole, CleanChip
  <2> QED
    BY <2>1, <2>2, StreamStep
<1>2. CASE FreeJoined
  <2>1. /\ sock' = [s \in Socket |-> Clean] /\ host' = [s \in Socket |-> NoPeer]
        /\ io'.pc = "exited"
    BY <1>2 DEF FreeJoined
  <2>2. /\ Clean \in ChipType
        /\ Clean.rx_rsr = 0 /\ Clean.tx_rr = 0 /\ Clean.tx_wr = 0 /\ Clean.last_send = 0
        /\ Clean.lengths = <<>>
    BY CleanChip DEF Clean
  <2>3. \A s \in Socket : Whole(sock'[s], host'[s], plan'[s].hasty)
    BY <2>1, <2>2, CleanWhole
  <2>4. \A s \in Socket : WritesOwn(s)'
    BY <2>1 DEF WritesOwn
  <2> QED
    BY <2>3, <2>4 DEF StreamInv
<1>3. CASE ResetBegin \/ FreeStop \/ FreeWake
  <2>1. sock' = sock /\ host' = host /\ io' = io /\ plan' = plan
    BY <1>3 DEF ResetBegin, FreeStop, FreeWake
  <2> QED
    BY <2>1 DEF StreamInv, WritesOwn, Writes
<1> QED
  BY <1>1, <1>2, <1>3

LEMMA WriteTxStreams ==
  ASSUME StreamInv, ChipInv', Bounds', NEW s \in Socket, NEW n \in 1 .. Ring,
         nic_w5100_socket_write_tx_buffer(s, n)
  PROVE  StreamInv'
<1> DEFINE from == host[s].written
           ring == sock[s].tx
           at == sock[s].tx_wr % Ring
           tx == [i \in DOMAIN ring |->
                    LET k == (i + Ring - at) % Ring
                    IN  IF k < n THEN from + k + 1 ELSE ring[i]]
           h == [host[s] EXCEPT !.written = from + n]
<1>0. PICK wr \in HalfMoved(sock[s].tx_wr, (from + n) % Word) :
        Put(s, [sock[s] EXCEPT !.tx_wr = wr, !.tx = tx], h)
  BY DEF nic_w5100_socket_write_tx_buffer
<1> DEFINE r == [sock[s] EXCEPT !.tx_wr = wr, !.tx = tx]
<1>1. /\ io' = io /\ plan' = plan /\ n \in 1 .. TX_FSR(sock[s])
      /\ sock[s].state \in {"UDP", "ESTABLISHED"} /\ Put(s, r, h)
      /\ (sock[s].state = "ESTABLISHED" /\ sock[s].write_pending => plan[s].hasty)
      /\ sock[s].tx_wr = Meant(host[s])
  BY <1>0 DEF nic_w5100_socket_write_tx_buffer, Command, Settled, Meant
<1>2. /\ sock[s] \in ChipType /\ host[s] \in PeerType /\ n \in Nat
      /\ Whole(sock[s], host[s], plan[s].hasty)
  BY Typed, Numbers DEF StreamInv
<1>3. ring \in [0 .. Ring - 1 -> Nat] /\ from \in Nat /\ at \in Int /\ sock[s].tx_wr \in Int
  BY <1>2, ChipFields, PeerFields, PointerInt
<1>4. tx \in [0 .. Ring - 1 -> Nat]
  <2> HIDE DEF ring, from, at
  <2> QED
    BY <1>2, <1>3, FilledRing
<1>5. wr \in Pointer /\ from + n \in Nat
  <2>1. from + n \in Nat /\ sock[s].tx_wr \in Pointer
    BY <1>2, <1>3, ChipFields
  <2>2. (from + n) % Word \in Pointer
    BY <2>1, WordType
  <2> HIDE DEF from
  <2> QED
    BY <2>1, <2>2, HalfPointer
<1>6. Filled(ring, tx, at, n, from)
  <2> HIDE DEF ring, from, at
  <2>1. DOMAIN ring = 0 .. Ring - 1
    BY <1>3
  <2> QED
    BY <2>1 DEF Filled
<1> HIDE DEF tx
<1>7. /\ r \in ChipType /\ r.fd = sock[s].fd /\ r.state = sock[s].state /\ r.ok = sock[s].ok
      /\ r.write_pending = sock[s].write_pending /\ r.tx_rr = sock[s].tx_rr
      /\ r.tx_wr = wr /\ r.last_send = sock[s].last_send
      /\ r.lengths = sock[s].lengths /\ r.rx_rsr = sock[s].rx_rsr
      /\ r.old_rx_rd = sock[s].old_rx_rd /\ r.rx = sock[s].rx /\ r.tx = tx
  BY <1>2, <1>4, <1>5 DEF ChipType
<1>8. /\ h \in PeerType /\ h.written = from + n /\ h.stored = host[s].stored
      /\ h.subs = host[s].subs /\ h.wire = host[s].wire /\ h.cuts = host[s].cuts
      /\ h.stray = host[s].stray
  BY <1>2, <1>5 DEF PeerType
<1> HIDE DEF r, h
<1>9. Whole(r, h, plan[s].hasty)
  BY <1>1, <1>2, <1>6, <1>7, <1>8, WriteTxWhole
<1> QED
  BY <1>1, <1>7, <1>8, <1>9, StreamStep

LEMMA WriteStreams ==
  ASSUME StreamInv, ChipInv', Bounds', NEW s \in Socket, nic_w5100_socket_write(s)
  PROVE  StreamInv'
<1> DEFINE wr == Meant(host[s])
           r == [sock[s] EXCEPT !.tx_wr = wr]
<1>1. io' = io /\ plan' = plan /\ ChipInv /\ Put(s, r, host[s])
  <2>1. ChipInv /\ host' = host /\ sock' = [sock EXCEPT ![s] = r]
    BY DEF nic_w5100_socket_write, Meant, StreamInv
  <2> QED
    BY <2>1, SameHost DEF nic_w5100_socket_write, Command
<1>2. /\ sock[s] \in ChipType /\ host[s] \in PeerType /\ wr \in Pointer
      /\ Whole(sock[s], host[s], plan[s].hasty)
  BY <1>1, Typed, UnsentType DEF StreamInv
<1> HIDE DEF wr
<1>3. /\ r \in ChipType /\ r.fd = sock[s].fd /\ r.state = sock[s].state /\ r.ok = sock[s].ok
      /\ r.write_pending = sock[s].write_pending /\ r.tx_rr = sock[s].tx_rr
      /\ r.tx_wr = wr /\ r.last_send = sock[s].last_send
      /\ r.lengths = sock[s].lengths /\ r.rx_rsr = sock[s].rx_rsr
      /\ r.old_rx_rd = sock[s].old_rx_rd /\ r.rx = sock[s].rx /\ r.tx = sock[s].tx
  BY <1>2 DEF ChipType
<1> HIDE DEF r
<1>4. Whole(r, host[s], plan[s].hasty)
  BY <1>2, <1>3, SameWhole DEF wr
<1> QED
  BY <1>1, <1>2, <1>3, <1>4, StreamStep

LEMMA SendStreams ==
  ASSUME StreamInv, ChipInv', Bounds', NEW s \in Socket, w5100_socket_send(s)
  PROVE  StreamInv'
<1> DEFINE subs == Append(host[s].subs, host[s].written)
           h == [host[s] EXCEPT !.subs = subs]
<1>1. io' = io /\ plan' = plan /\ sock[s].tx_wr = Meant(host[s])
  BY DEF w5100_socket_send, Command, Settled, Meant
<1>2. /\ sock[s] \in ChipType /\ host[s] \in PeerType
      /\ Whole(sock[s], host[s], plan[s].hasty)
  BY Typed DEF StreamInv
<1>3. subs \in Seq(Nat)
  BY <1>2, PeerFields
<1>4. h \in PeerType /\ h.written = host[s].written /\ h.stored = host[s].stored
      /\ h.wire = host[s].wire /\ h.cuts = host[s].cuts /\ h.stray = host[s].stray
      /\ h.subs = Append(host[s].subs, host[s].written)
  BY <1>2, <1>3 DEF PeerType
<1> HIDE DEF subs, h
<1>5. CASE sock[s].state = "UDP" /\ BindFails(s)
  BY <1>1, <1>5, CommandStreams
<1>6. CASE /\ sock[s].state = "UDP" /\ Len(sock[s].lengths) < MaxQueue
           /\ Put(s, Queued(sock[s]), h)
  <2> DEFINE m == Minus(sock[s].tx_wr, sock[s].last_send)
             ls == Append(sock[s].lengths, m)
             r == [sock[s] EXCEPT !.bound = TRUE, !.last_send = sock[s].tx_wr,
                                  !.write_pending = TRUE, !.lengths = ls]
  <2>1. ls \in Seq(Nat)
    <3>1. sock[s].tx_wr \in Int /\ sock[s].last_send \in Int /\ sock[s].lengths \in Seq(Nat)
      BY <1>2, ChipFields, PointerInt
    <3>2. m \in Nat
      BY <3>1, MinusType, PointerNat
    <3> HIDE DEF m
    <3> QED
      BY <3>1, <3>2
  <2>2. Put(s, r, h)
    BY <1>6 DEF Queued
  <2> HIDE DEF ls
  <2>3. /\ r \in ChipType /\ r.fd = sock[s].fd /\ r.state = sock[s].state
        /\ r.ok = sock[s].ok /\ r.write_pending /\ r.tx_rr = sock[s].tx_rr
        /\ r.tx_wr = sock[s].tx_wr /\ r.last_send = sock[s].tx_wr /\ r.lengths = ls
        /\ r.rx_rsr = sock[s].rx_rsr /\ r.old_rx_rd = sock[s].old_rx_rd
        /\ r.rx = sock[s].rx /\ r.tx = sock[s].tx
    BY <1>2, <2>1, ChipFields DEF ChipType
  <2> HIDE DEF r
  <2>4. Whole(r, h, plan[s].hasty)
    BY <1>1, <1>2, <1>4, <1>6, <2>3, QueuedWhole DEF ls
  <2> QED
    BY <1>1, <1>4, <2>2, <2>3, <2>4, StreamStep
<1>7. CASE sock[s].state = "ESTABLISHED" /\ Put(s, [sock[s] EXCEPT !.write_pending = TRUE], h)
  <2> DEFINE r == [sock[s] EXCEPT !.write_pending = TRUE]
  <2>1. Put(s, r, h)
    BY <1>7
  <2>2. /\ r \in ChipType /\ r.fd = sock[s].fd /\ r.state = sock[s].state
        /\ r.ok = sock[s].ok /\ r.write_pending /\ r.tx_rr = sock[s].tx_rr
        /\ r.tx_wr = sock[s].tx_wr /\ r.lengths = sock[s].lengths
        /\ r.rx_rsr = sock[s].rx_rsr /\ r.old_rx_rd = sock[s].old_rx_rd
        /\ r.rx = sock[s].rx /\ r.tx = sock[s].tx
    BY <1>2 DEF ChipType
  <2> HIDE DEF r
  <2>3. Whole(r, h, plan[s].hasty)
    BY <1>1, <1>2, <1>4, <1>7, <2>2, SentWhole
  <2> QED
    BY <1>1, <1>4, <2>1, <2>2, <2>3, StreamStep
<1> QED
  BY <1>5, <1>6, <1>7 DEF w5100_socket_send, h, subs

LEMMA RecvStreams ==
  ASSUME StreamInv, ChipInv', Bounds', NEW s \in Socket, NEW n \in 1 .. Ring,
         w5100_socket_recv(s, n)
  PROVE  StreamInv'
<1>1. /\ io' = io /\ plan' = plan /\ host' = host /\ n <= sock[s].rx_rsr /\ ChipInv
  BY DEF w5100_socket_recv, MovesRxRd, Command, StreamInv
<1>2. /\ sock[s] \in ChipType /\ host[s] \in PeerType /\ Sound(sock[s], host[s])
      /\ Whole(sock[s], host[s], plan[s].hasty)
  BY Typed DEF StreamInv
<1>3. /\ sock[s].rx_rd \in Pointer /\ sock[s].rx_rd \in Int /\ sock[s].rx_rsr \in 0 .. Ring
      /\ n \in Nat /\ n \in 0 .. Word - 1 /\ n \in 0 .. sock[s].rx_rsr
  <2>1. sock[s].rx_rd \in Pointer /\ sock[s].rx_rsr \in 0 .. Ring
    BY <1>2, ChipFields
  <2>2. sock[s].rx_rd \in Int
    BY <2>1, PointerInt
  <2> QED
    BY <1>1, <2>1, <2>2, Numbers
<1> DEFINE rd == (sock[s].rx_rd + n) % Word
<1>4. rd \in Pointer
  BY <1>3, WordType
<1>5. CASE sock[s].state \in {"UDP", "ESTABLISHED"} /\ sock' = [sock EXCEPT ![s] = Returned(@, n)]
  <2> DEFINE left == Minus(sock[s].rx_rsr, Minus(rd, sock[s].old_rx_rd))
             r == [sock[s] EXCEPT !.rx_rd = rd, !.old_rx_rd = rd, !.rx_rsr = left]
  <2>1. sock[s].old_rx_rd = sock[s].rx_rd
    BY <1>2, <1>5 DEF Sound
  <2>2. left = sock[s].rx_rsr - n
    <3>1. Minus(rd, sock[s].old_rx_rd) = n
      BY <1>3, <2>1, MinusMoved
    <3> QED
      BY <1>3, <3>1, MinusLess
  <2>3. Put(s, r, host[s])
    BY <1>1, <1>5, SameHost DEF Returned
  <2> HIDE DEF rd, left
  <2>4. left \in 0 .. Ring
    BY <1>3, <2>2, Numbers
  <2>5. /\ r \in ChipType /\ r.fd = sock[s].fd /\ r.state = sock[s].state
        /\ r.ok = sock[s].ok /\ r.write_pending = sock[s].write_pending
        /\ r.tx_rr = sock[s].tx_rr /\ r.tx_wr = sock[s].tx_wr
        /\ r.last_send = sock[s].last_send /\ r.lengths = sock[s].lengths
        /\ r.rx_rsr = left /\ r.old_rx_rd = rd /\ r.rx = sock[s].rx /\ r.tx = sock[s].tx
    BY <1>2, <1>4, <2>4 DEF ChipType
  <2> HIDE DEF r
  <2>6. r.rx_rsr = sock[s].rx_rsr - n /\ r.old_rx_rd = (sock[s].old_rx_rd + n) % Word
    BY <2>1, <2>2, <2>5 DEF rd
  <2>7. Whole(r, host[s], plan[s].hasty)
    BY <1>2, <1>3, <2>5, <2>6, ReturnedWhole
  <2> QED
    BY <1>1, <1>2, <2>3, <2>5, <2>7, StreamStep
<1>6. CASE sock' = [sock EXCEPT ![s].rx_rd = (@ + n) % Word]
  <2> DEFINE r == [sock[s] EXCEPT !.rx_rd = rd]
  <2>1. Put(s, r, host[s])
    BY <1>1, <1>6, SameHost
  <2> HIDE DEF rd
  <2>2. /\ r \in ChipType /\ r.fd = sock[s].fd /\ r.state = sock[s].state
        /\ r.ok = sock[s].ok /\ r.write_pending = sock[s].write_pending
        /\ r.tx_rr = sock[s].tx_rr /\ r.tx_wr = sock[s].tx_wr
        /\ r.last_send = sock[s].last_send /\ r.lengths = sock[s].lengths
        /\ r.rx_rsr = sock[s].rx_rsr /\ r.old_rx_rd = sock[s].old_rx_rd
        /\ r.rx = sock[s].rx /\ r.tx = sock[s].tx
    BY <1>2, <1>4 DEF ChipType
  <2> HIDE DEF r
  <2>3. Whole(r, host[s], plan[s].hasty)
    BY <1>2, <2>2, SameWhole
  <2> QED
    BY <1>1, <1>2, <2>1, <2>2, <2>3, StreamStep
<1> QED
  BY <1>5, <1>6 DEF w5100_socket_recv

LEMMA PeerStreams ==
  ASSUME StreamInv, ChipInv', Bounds', NEW s \in Socket, Arrive(s) \/ PeerCloses(s) \/ Knock(s)
  PROVE  StreamInv'
<1>1. sock' = sock /\ io' = io /\ plan' = plan /\ ChipInv
  BY DEF Arrive, PeerCloses, Knock, Network, StreamInv
<1>2. /\ sock[s] \in ChipType /\ host[s] \in PeerType /\ host[s].waiting + 1 \in Nat
      /\ Whole(sock[s], host[s], plan[s].hasty)
  <2>1. host[s] \in PeerType
    BY Typed DEF StreamInv
  <2>2. host[s].waiting \in Nat
    BY <2>1, PeerFields
  <2> QED
    BY <2>1, <2>2, Typed DEF StreamInv
<1>3. \E h \in PeerType :
        /\ host' = [host EXCEPT ![s] = h] /\ h.stored = host[s].stored
        /\ h.written = host[s].written /\ h.subs = host[s].subs /\ h.wire = host[s].wire
        /\ h.cuts = host[s].cuts /\ h.stray = host[s].stray
  <2>1. CASE Arrive(s)
    <3> DEFINE h == [host[s] EXCEPT !.waiting = @ + 1]
    <3>1. /\ h \in PeerType /\ h.stored = host[s].stored
          /\ h.written = host[s].written /\ h.subs = host[s].subs /\ h.wire = host[s].wire
          /\ h.cuts = host[s].cuts /\ h.stray = host[s].stray
      BY <1>2 DEF PeerType
    <3> QED
      BY <2>1, <3>1 DEF Arrive
  <2>2. CASE PeerCloses(s)
    <3> DEFINE h == [host[s] EXCEPT !.eof = TRUE]
    <3>1. /\ h \in PeerType /\ h.stored = host[s].stored
          /\ h.written = host[s].written /\ h.subs = host[s].subs /\ h.wire = host[s].wire
          /\ h.cuts = host[s].cuts /\ h.stray = host[s].stray
      BY <1>2 DEF PeerType
    <3> QED
      BY <2>2, <3>1 DEF PeerCloses
  <2>3. CASE Knock(s)
    <3> DEFINE h == [host[s] EXCEPT !.knock = TRUE]
    <3>1. /\ h \in PeerType /\ h.stored = host[s].stored
          /\ h.written = host[s].written /\ h.subs = host[s].subs /\ h.wire = host[s].wire
          /\ h.cuts = host[s].cuts /\ h.stray = host[s].stray
      BY <1>2 DEF PeerType
    <3> QED
      BY <2>3, <3>1 DEF Knock
  <2> QED
    BY <2>1, <2>2, <2>3
<1>4. PICK h \in PeerType :
        /\ host' = [host EXCEPT ![s] = h] /\ h.stored = host[s].stored
        /\ h.written = host[s].written /\ h.subs = host[s].subs /\ h.wire = host[s].wire
        /\ h.cuts = host[s].cuts /\ h.stray = host[s].stray
  BY <1>3
<1>5. Put(s, sock[s], h)
  BY <1>1, <1>4, SameSock
<1>6. Whole(sock[s], h, plan[s].hasty)
  BY <1>2, <1>4, SameWhole
<1> QED
  BY <1>1, <1>2, <1>4, <1>5, <1>6, StreamStep

-----------------------------------------------------------------------------
(* The I/O thread's steps.                                                     *)

LEMMA LoopStreams ==
  ASSUME StreamInv, ChipInv', Bounds',
         IoLoop \/ IoSelect \/ \E W \in SUBSET io.wset : IoReturn(W)
  PROVE  StreamInv'
<1>1. sock' = sock /\ host' = host /\ plan' = plan /\ io \in ThreadType
  BY DEF IoLoop, IoSelect, IoReturn, IoSteps, StreamInv, ChipInv, Shapes
<1>2. CASE IoLoop
  <2>1. io'.pc \in {"exited", "add"} /\ io'.wset = {}
    BY <1>2 DEF IoLoop
  <2> QED
    BY <1>1, <2>1 DEF StreamInv, WritesOwn, Writes
<1>3. CASE IoSelect
  <2>1. io.pc = "select" /\ io'.pc \in {"sleep", "loop"} /\ io'.wset = io.wset
    BY <1>1, <1>3 DEF IoSelect, ThreadType
  <2> QED
    BY <1>1, <2>1 DEF StreamInv, WritesOwn, Writes
<1>4. ASSUME NEW W \in SUBSET io.wset, IoReturn(W) PROVE StreamInv'
  <2>1. io.pc = "sleep" /\ io'.pc = "process" /\ io'.wset = W
    BY <1>4 DEF IoReturn
  <2>2. \A s \in Socket : Writes(s)' => Writes(s)
    BY <1>1, <2>1 DEF Writes
  <2> QED
    BY <1>1, <2>1, <2>2 DEF StreamInv, WritesOwn
<1> QED
  BY <1>2, <1>3, <1>4

LEMMA AddStreams ==
  ASSUME StreamInv, ChipInv', Bounds', nic_w5100_socket_add_to_sets, NEW s \in Socket, s = io.i
  PROVE  StreamInv'
<1> DEFINE r == [sock[s] EXCEPT !.ok = sock[s].ok \/ sock[s].fd # 0]
           h == [host[s] EXCEPT !.quiet = host[s].quiet /\ ~(sock[s].fd # 0),
                                !.stray = host[s].stray
                                  \/ (sock[s].fd # 0 /\ sock[s].fd \in io.wset)]
<1>1. /\ io.pc = "add" /\ Put(s, r, h) /\ plan' = plan /\ ChipInv /\ Shapes
      /\ io \in ThreadType /\ io.wset \subseteq Fd
  BY DEF nic_w5100_socket_add_to_sets, IoSteps, StreamInv, ChipInv, Shapes, ThreadType
<1>2. io' = [pc |-> IF s + 1 \in Socket THEN "add" ELSE "select",
             i |-> IF s + 1 \in Socket THEN s + 1 ELSE 0,
             rset |-> io.rset \cup {fd \in {sock[s].fd} : sock[s].fd # 0 /\ WantsRead(sock[s])},
             wset |-> io.wset \cup {fd \in {sock[s].fd} : sock[s].fd # 0 /\ sock[s].write_pending}]
  BY DEF nic_w5100_socket_add_to_sets
<1>3. /\ sock[s] \in ChipType /\ host[s] \in PeerType /\ sock[s].ok \in BOOLEAN
      /\ Whole(sock[s], host[s], plan[s].hasty)
  BY <1>1, Typed DEF StreamInv, ChipType
<1>4. /\ r \in ChipType /\ r.fd = sock[s].fd /\ r.state = sock[s].state
      /\ r.write_pending = sock[s].write_pending /\ r.tx_rr = sock[s].tx_rr
      /\ r.tx_wr = sock[s].tx_wr /\ r.last_send = sock[s].last_send
      /\ r.lengths = sock[s].lengths /\ r.rx_rsr = sock[s].rx_rsr
      /\ r.old_rx_rd = sock[s].old_rx_rd /\ r.rx = sock[s].rx /\ r.tx = sock[s].tx
      /\ r.ok = (sock[s].ok \/ sock[s].fd # 0)
  BY <1>3 DEF ChipType
<1>5. /\ h \in PeerType /\ h.stored = host[s].stored
      /\ h.written = host[s].written /\ h.subs = host[s].subs /\ h.wire = host[s].wire
      /\ h.cuts = host[s].cuts /\ (host[s].stray => h.stray)
      /\ h.stray = (host[s].stray \/ (sock[s].fd # 0 /\ sock[s].fd \in io.wset))
  BY <1>3, ZenonT(30) DEF PeerType
<1> HIDE DEF r, h
<1>6. /\ sock'[s] = r /\ host'[s] = h
      /\ \A t \in Socket \ {s} : sock'[t] = sock[t] /\ host'[t] = host[t]
  BY <1>1 DEF Put, Shapes
<1>7. \/ io'.pc = "add" /\ io'.i = s + 1
      \/ io'.pc = "select" /\ s + 1 \notin Socket
  BY <1>2
<1>8. \A t \in Socket : t \in Int /\ s \in Int
  BY Numbers DEF Socket
<1>9. Whole(r, h, plan[s].hasty)
  BY <1>3, <1>4, <1>5, SameWhole
<1>10. ASSUME NEW t \in Socket, t # s
       PROVE  Whole(sock'[t], host'[t], plan'[t].hasty) /\ WritesOwn(t)'
  <2>1. /\ Whole(sock[t], host[t], plan[t].hasty) /\ WritesOwn(t)
        /\ sock'[t] = sock[t] /\ host'[t] = host[t]
    BY <1>6, <1>10 DEF StreamInv
  <2>2. sock[s].fd # 0 => sock[t].fd # sock[s].fd
    BY <1>1, <1>10 DEF ChipInv, Distinct
  <2>3. Writes(t)' <=> Writes(t)
    BY <1>2, <2>1, <2>2 DEF Writes
  <2>4. io'.pc = "add" /\ t >= io'.i => io.pc = "add" /\ t >= io.i
    BY <1>1, <1>7, <1>8
  <2>5. io'.pc # "process"
    BY <1>7
  <2>6. WritesOwn(t)'
    BY <1>1, <2>1, <2>3, <2>4, <2>5 DEF WritesOwn
  <2> QED
    BY <1>1, <2>1, <2>6
<1>11. WritesOwn(s)'
  <2>1. ~(io'.pc = "add" /\ s >= io'.i)
    BY <1>7, <1>8
  <2>2. Writes(s)' /\ ~h.stray => r.write_pending
    <3> SUFFICES ASSUME Writes(s)', ~h.stray PROVE r.write_pending
      OBVIOUS
    <3>1. r.fd \in io'.wset
      BY <1>6 DEF Writes
    <3>2. CASE sock[s].fd \in io.wset
      <4>1. sock[s].fd # 0
        BY <1>1, <3>2, Numbers
      <4> QED
        BY <1>5, <3>2, <4>1
    <3>3. CASE sock[s].fd \notin io.wset
      BY <1>2, <1>4, <3>1, <3>3
    <3> QED
      BY <3>2, <3>3
  <2> QED
    BY <1>6, <2>1, <2>2 DEF WritesOwn
<1>12. \A t \in Socket : Whole(sock'[t], host'[t], plan'[t].hasty) /\ WritesOwn(t)'
  BY <1>1, <1>6, <1>9, <1>10, <1>11
<1> QED
  BY <1>12 DEF StreamInv

\* What the I/O thread has to write for a socket was submitted, if there is anything.
Due(r, h) == r.fd \in io.wset /\ ~h.stray => r.write_pending \/ r.tx_wr = r.tx_rr

LEMMA ReadWhole ==
  ASSUME NEW r, NEW h, NEW fd \in Fd, Outcome(r, h, fd), NEW hasty, Whole(r, h, hasty),
         Due(r, h), NEW got \in ReadOutcomes(r, h)
  PROVE  Whole(got[1], got[2], hasty) /\ Due(got[1], got[2])
<1>1. /\ r \in ChipType /\ h \in PeerType /\ Sound(r, h)
      /\ Outcome(got[1], got[2], fd)
  BY ReadOutcome DEF Outcome
<1>2. got[1] \in ChipType /\ got[2] \in PeerType
  BY <1>1 DEF Outcome
<1>3. CASE got = <<r, h>>
  <2>1. got[1] = r /\ got[2] = h
    BY <1>3
  <2> QED
    BY <2>1
<1>4. CASE r.state = "LISTEN" /\ got \in Accepted(r, h)
  <2>1. CASE got = <<[r EXCEPT !.fd = NextFd(OpenFds), !.state = "ESTABLISHED"], NoPeer>>
    <3> DEFINE g == got[1]
    <3>1. /\ g.tx_rr = r.tx_rr /\ g.tx_wr = r.tx_wr /\ g.lengths = r.lengths
          /\ g.rx_rsr = r.rx_rsr /\ g.state = "ESTABLISHED"
      BY <1>1, <2>1 DEF ChipType
    <3>2. /\ got[2] = NoPeer /\ NoPeer.written = 0 /\ NoPeer.wire = <<>> /\ NoPeer.subs = <<>>
          /\ NoPeer.cuts = <<>>
      BY <2>1 DEF NoPeer
    <3>3. r.rx_rsr = 0
      BY <1>1, <1>4 DEF Sound
    <3>4. g \in ChipType /\ NoPeer \in PeerType
      BY <1>2, CleanChip
    <3> HIDE DEF g
    <3>5. Whole(g, NoPeer, hasty) /\ g.tx_wr = g.tx_rr
      BY <1>1, <1>4, <3>1, <3>2, <3>3, <3>4, ConnectedWhole
    <3> QED
      BY <3>2, <3>5 DEF g, Due
  <2>2. CASE got = <<r, [h EXCEPT !.knock = FALSE]>>
    <3> DEFINE h2 == [h EXCEPT !.knock = FALSE]
    <3>1. /\ h2 \in PeerType /\ h2.stored = h.stored
          /\ h2.written = h.written /\ h2.subs = h.subs /\ h2.wire = h.wire
          /\ h2.cuts = h.cuts /\ h2.stray = h.stray
      BY <1>1 DEF PeerType
    <3>2. got[1] = r /\ got[2] = h2
      BY <2>2
    <3> HIDE DEF h2
    <3>3. Whole(r, h2, hasty)
      BY <1>1, <3>1, SameWhole
    <3> QED
      BY <3>1, <3>2, <3>3 DEF Due
  <2> QED
    BY <1>4, <2>1, <2>2 DEF Accepted
<1>5. ASSUME NEW n \in Nat, NEW left \in Nat, r.rx_rsr + n <= Ring, got = Stored(r, h, n, left)
      PROVE  Whole(got[1], got[2], hasty) /\ Due(got[1], got[2])
  <2> DEFINE offset == (r.old_rx_rd + r.rx_rsr) % Ring
             ring == [i \in DOMAIN r.rx |->
                        LET k == (i + Ring - offset) % Ring
                        IN  IF k < n THEN h.stored + k + 1 ELSE r.rx[i]]
             len == r.rx_rsr + n
             r2 == [r EXCEPT !.rx_rsr = len, !.rx = ring]
             all == h.stored + n
             h2 == [h EXCEPT !.stored = all, !.waiting = left]
  <2>1. got[1] = r2 /\ got[2] = h2
    BY <1>5 DEF Stored
  <2>2. Filled(r.rx, ring, offset, n, h.stored)
    <3> DEFINE old == r.rx
               from == h.stored
    <3>1. ring = [i \in DOMAIN old |->
                    LET k == (i + Ring - offset) % Ring
                    IN  IF k < n THEN from + k + 1 ELSE old[i]]
      OBVIOUS
    <3>2. DOMAIN old = 0 .. Ring - 1
      BY <1>1, ChipFields
    <3> HIDE DEF ring, offset, old, from
    <3>3. Filled(old, ring, offset, n, from)
      BY <3>1, <3>2 DEF Filled
    <3> QED
      BY <3>3 DEF old, from
  <2> HIDE DEF ring, len, all
  <2>3. /\ r2.tx_rr = r.tx_rr /\ r2.tx_wr = r.tx_wr /\ r2.last_send = r.last_send
        /\ r2.lengths = r.lengths /\ r2.tx = r.tx /\ r2.state = r.state
        /\ r2.write_pending = r.write_pending /\ r2.fd = r.fd
        /\ r2.rx_rsr = len /\ r2.old_rx_rd = r.old_rx_rd /\ r2.rx = ring
    BY <1>1 DEF ChipType
  <2>4. /\ h2.written = h.written /\ h2.subs = h.subs /\ h2.wire = h.wire
        /\ h2.cuts = h.cuts /\ h2.stray = h.stray /\ h2.stored = all
    BY <1>1 DEF PeerType
  <2>5. r2 \in ChipType /\ h2 \in PeerType
    BY <1>2, <2>1
  <2> HIDE DEF r2, h2
  <2>6. r2.rx_rsr = r.rx_rsr + n /\ h2.stored = h.stored + n
        /\ Filled(r.rx, r2.rx, (r.old_rx_rd + r.rx_rsr) % Ring, n, h.stored)
    BY <2>2, <2>3, <2>4 DEF len, all
  <2>7. Whole(r2, h2, hasty)
    BY <1>1, <1>5, <2>3, <2>4, <2>5, <2>6, StoredWhole
  <2> QED
    BY <2>1, <2>3, <2>4, <2>7 DEF Due
<1>6. CASE r.state # "LISTEN" /\ got \in Received(r, h)
  <2>1. r.rx_rsr \in 0 .. Ring /\ h.waiting \in Nat
    BY <1>1, ChipFields, PeerFields
  <2>2. CASE r.state = "UDP"
    <3>1. h.waiting > 0
      BY <1>6, <2>2 DEF Received
    <3>2. PICK n \in 0 .. Room(r) - Header : got = Stored(r, h, Header + n, h.waiting - 1)
      BY <1>6, <2>2, <3>1 DEF Received
    <3>3. Header + n \in Nat /\ r.rx_rsr + (Header + n) <= Ring /\ h.waiting - 1 \in Nat
      BY <2>1, <3>1, <3>2, Numbers DEF Room
    <3> QED
      BY <1>5, <3>2, <3>3
  <2>3. CASE r.state = "ESTABLISHED" /\ h.waiting > 0
    <3> DEFINE n == LesserOf(h.waiting, Room(r))
    <3>1. n \in Nat /\ r.rx_rsr + n <= Ring /\ h.waiting - n \in Nat
      BY <2>1, <2>3, Numbers DEF LesserOf, Room
    <3>2. got = Stored(r, h, n, h.waiting - n)
      BY <1>6, <2>3 DEF Received
    <3> HIDE DEF n
    <3> QED
      BY <1>5, <3>1, <3>2
  <2>4. CASE r.state = "ESTABLISHED" /\ h.waiting = 0 /\ h.eof
    <3> DEFINE r2 == [r EXCEPT !.state = "CLOSE_WAIT"]
    <3>1. got[1] = r2 /\ got[2] = h
      <4>1. ~(h.waiting > 0)
        BY <2>4
      <4> QED
        BY <1>6, <2>4, <4>1 DEF Received
    <3>2. /\ r2.tx_rr = r.tx_rr /\ r2.tx_wr = r.tx_wr /\ r2.last_send = r.last_send
          /\ r2.lengths = r.lengths /\ r2.tx = r.tx /\ r2.state = "CLOSE_WAIT"
          /\ r2.write_pending = r.write_pending /\ r2.fd = r.fd
          /\ r2.rx_rsr = r.rx_rsr /\ r2.old_rx_rd = r.old_rx_rd /\ r2.rx = r.rx
      BY <1>1 DEF ChipType
    <3>3. r2 \in ChipType
      BY <1>2, <3>1
    <3> HIDE DEF r2
    <3>4. Whole(r2, h, hasty)
      BY <1>1, <2>4, <3>2, <3>3, SameWhole
    <3> QED
      BY <3>1, <3>2, <3>4 DEF Due
  <2>5. CASE ~(r.state = "UDP") /\ ~(r.state = "ESTABLISHED" /\ h.waiting > 0)
             /\ ~(r.state = "ESTABLISHED" /\ h.waiting = 0 /\ h.eof)
    BY <1>6, <2>5 DEF Received
  <2> QED
    BY <2>2, <2>3, <2>4, <2>5
<1>7. \/ got = <<r, h>>
      \/ r.state = "LISTEN" /\ got \in Accepted(r, h)
      \/ r.state # "LISTEN" /\ got \in Received(r, h)
  <2>1. CASE r.fd \notin io.rset
    <3>1. ReadOutcomes(r, h) = {<<r, h>>}
      BY <2>1 DEF ReadOutcomes
    <3> QED
      BY <3>1
  <2>2. CASE r.fd \in io.rset
    BY <2>2 DEF ReadOutcomes
  <2> QED
    BY <2>1, <2>2
<1> QED
  BY <1>3, <1>4, <1>6, <1>7

LEMMA WriteWhole ==
  ASSUME NEW r, NEW h, NEW fd \in Fd, Outcome(r, h, fd), NEW hasty, Whole(r, h, hasty),
         Due(r, h), NEW put \in WriteOutcomes(r, h)
  PROVE  Whole(put[1], put[2], hasty)
<1>1. r \in ChipType /\ h \in PeerType /\ Outcome(put[1], put[2], fd)
  BY WriteOutcome DEF Outcome
<1>2. put[1] \in ChipType /\ put[2] \in PeerType
  BY <1>1 DEF Outcome
<1>3. CASE put = <<r, h>>
  <2>1. put[1] = r /\ put[2] = h
    BY <1>3
  <2> QED
    BY <2>1
<1>4. CASE r.state = "UDP" /\ r.lengths # <<>> /\ put = DatagramSent(r, h)
  <2> DEFINE n == Head(r.lengths)
             rr == (r.tx_rr + n) % Word
             w == h.wire \o Bytes(r, n)
             cuts == Append(h.cuts, Len(h.wire) + n)
             g == [r EXCEPT !.lengths = Tail(@), !.tx_rr = rr,
                            !.write_pending = Len(r.lengths) > 1]
             p == [h EXCEPT !.wire = w, !.cuts = cuts]
  <2>1. put[1] = g /\ put[2] = p
    BY <1>4 DEF DatagramSent
  <2> HIDE DEF n, rr, w, cuts
  <2>2. /\ g.tx_rr = rr /\ g.tx_wr = r.tx_wr /\ g.tx = r.tx /\ g.last_send = r.last_send
        /\ g.lengths = Tail(r.lengths) /\ g.state = r.state
        /\ g.rx_rsr = r.rx_rsr /\ g.old_rx_rd = r.old_rx_rd /\ g.rx = r.rx
    BY <1>1 DEF ChipType
  <2>3. /\ p.written = h.written /\ p.subs = h.subs /\ p.stored = h.stored
        /\ p.stray = h.stray /\ p.wire = w /\ p.cuts = cuts
    BY <1>1 DEF PeerType
  <2>4. g \in ChipType /\ p \in PeerType
    BY <1>2, <2>1
  <2> HIDE DEF g, p
  <2>5. Whole(g, p, hasty)
    BY <1>1, <1>4, <2>2, <2>3, <2>4, DatagramSentWhole DEF n, rr, w, cuts
  <2> QED
    BY <2>1, <2>5
<1>5. ASSUME r.fd \in io.wset, r.state = "ESTABLISHED",
             NEW n \in 1 .. LesserOf(Minus(r.tx_wr, r.tx_rr), Ring - (r.tx_rr % Ring)),
             put = TcpSent(r, h, n)
      PROVE  Whole(put[1], put[2], hasty)
  <2>1. n \in 0 .. Minus(r.tx_wr, r.tx_rr) /\ r.tx_wr # r.tx_rr
    <3>1. r.tx_rr \in Pointer /\ r.tx_wr \in Pointer /\ r.tx_rr % Ring \in Nat
      <4>1. r.tx_rr \in Pointer /\ r.tx_wr \in Pointer
        BY <1>1, ChipFields
      <4> QED
        BY <4>1, PointerInt, RingIndex
    <3>2. PICK u \in Nat, b \in Nat : u = Minus(r.tx_wr, r.tx_rr) /\ b = r.tx_rr % Ring
      BY <3>1, PointerInt, MinusType
    <3>3. n \in 1 .. LesserOf(u, Ring - b)
      BY <3>2
    <3>4. n \in 1 .. u
      BY <3>3, Numbers DEF LesserOf
    <3>5. Minus(r.tx_rr, r.tx_rr) = 0
      <4>1. 0 \in 0 .. Word - 1
        BY Numbers DEF Pointer
      <4> QED
        BY <3>1, <4>1, Distances
    <3>6. r.tx_wr # r.tx_rr
      BY <3>2, <3>4, <3>5
    <3> QED
      BY <3>2, <3>4, <3>6
  <2>2. ~h.stray => r.write_pending
    BY <1>5, <2>1 DEF Due
  <2> DEFINE rr == (r.tx_rr + n) % Word
             w == h.wire \o Bytes(r, n)
             g == [r EXCEPT !.tx_rr = rr, !.write_pending = rr # r.tx_wr]
             p == [h EXCEPT !.wire = w]
  <2>3. put[1] = g /\ put[2] = p
    BY <1>5 DEF TcpSent
  <2> HIDE DEF rr, w
  <2>4. /\ g.tx_rr = rr /\ g.tx_wr = r.tx_wr /\ g.tx = r.tx
        /\ g.lengths = r.lengths /\ g.state = r.state
        /\ g.rx_rsr = r.rx_rsr /\ g.old_rx_rd = r.old_rx_rd /\ g.rx = r.rx
    BY <1>1 DEF ChipType
  <2>5. /\ p.written = h.written /\ p.subs = h.subs /\ p.stored = h.stored
        /\ p.stray = h.stray /\ p.wire = w
    BY <1>1 DEF PeerType
  <2>6. g \in ChipType /\ p \in PeerType
    BY <1>2, <2>3
  <2> HIDE DEF g, p
  <2>7. Whole(g, p, hasty)
    BY <1>1, <1>5, <2>1, <2>2, <2>4, <2>5, <2>6, TcpSentWhole DEF rr, w
  <2> QED
    BY <2>3, <2>7
<1> QED
  BY <1>3, <1>4, <1>5 DEF WriteOutcomes

LEMMA ProcessStreams ==
  ASSUME StreamInv, ChipInv', Bounds', nic_w5100_socket_process_io, NEW s \in Socket, s = io.i
  PROVE  StreamInv'
<1>1. /\ io.pc = "process" /\ plan' = plan /\ ChipInv /\ Shapes /\ io \in ThreadType
      /\ io' = [io EXCEPT !.pc = IF s + 1 \in Socket THEN "process" ELSE "loop",
                          !.i = IF s + 1 \in Socket THEN s + 1 ELSE 0]
  BY DEF nic_w5100_socket_process_io, IoSteps, StreamInv, ChipInv, Shapes
<1>2. /\ io'.wset = io.wset
      /\ io'.pc = "loop" \/ (io'.pc = "process" /\ io'.i = s + 1)
  BY <1>1 DEF ThreadType
<1>3. /\ sock[s] \in ChipType /\ host[s] \in PeerType /\ Sound(sock[s], host[s])
      /\ Whole(sock[s], host[s], plan[s].hasty) /\ WritesOwn(s) /\ s \in Int
  BY <1>1, Typed, Numbers DEF StreamInv, Socket
<1>4. /\ Whole(sock'[s], host'[s], plan[s].hasty)
      /\ \A t \in Socket \ {s} : sock'[t] = sock[t] /\ host'[t] = host[t]
  <2>1. CASE sock[s].fd # 0 /\ sock[s].ok
    <3>1. PICK got \in ReadOutcomes(sock[s], host[s]) :
            \E put \in WriteOutcomes(got[1], got[2]) : Put(s, put[1], put[2])
      BY <2>1 DEF nic_w5100_socket_process_io
    <3>2. sock[s].fd \in Fd
      BY <1>3, <2>1 DEF ChipType
    <3>3. Outcome(sock[s], host[s], sock[s].fd)
      BY <1>3, <2>1 DEF Outcome
    <3>4. Due(sock[s], host[s])
      BY <1>1, <1>3, <2>1 DEF Due, WritesOwn, Writes
    <3>5. Outcome(got[1], got[2], sock[s].fd)
      BY <3>2, <3>3, ReadOutcome
    <3>6. Whole(got[1], got[2], plan[s].hasty) /\ Due(got[1], got[2])
      BY <1>3, <3>2, <3>3, <3>4, ReadWhole
    <3>7. PICK put \in WriteOutcomes(got[1], got[2]) : Put(s, put[1], put[2])
      BY <3>1
    <3>8. Whole(put[1], put[2], plan[s].hasty)
      BY <3>2, <3>5, <3>6, WriteWhole
    <3> QED
      BY <1>1, <3>7, <3>8 DEF Put, Shapes
  <2>2. CASE ~(sock[s].fd # 0 /\ sock[s].ok)
    BY <1>3, <2>2 DEF nic_w5100_socket_process_io
  <2> QED
    BY <2>1, <2>2
<1>5. ASSUME NEW t \in Socket
      PROVE  Whole(sock'[t], host'[t], plan'[t].hasty) /\ WritesOwn(t)'
  <2>1. Whole(sock[t], host[t], plan[t].hasty) /\ WritesOwn(t)
    BY DEF StreamInv
  <2>2. io'.pc = "process" /\ t >= io'.i => t # s /\ t >= io.i
    BY <1>2, <1>3, Numbers DEF Socket
  <2>3. WritesOwn(t)'
    BY <1>1, <1>2, <1>4, <2>1, <2>2 DEF WritesOwn, Writes
  <2> QED
    BY <1>1, <1>4, <2>1, <2>3
<1> QED
  BY <1>5 DEF StreamInv

-----------------------------------------------------------------------------
(* The bounds.                                                                 *)

LEMMA BoundsNext == Bounds /\ ChipInv /\ Next => Bounds'
<1> SUFFICES ASSUME Bounds, ChipInv, Next PROVE Bounds'
  OBVIOUS
<1>1. pipe \in Nat /\ PipeSize \in Nat
  BY W5100Assumption DEF ChipInv, Shapes
<1>2. ASSUME NEW s \in Socket, NEW n \in 1 .. Ring,
             \/ w5100_write_socket_port(s)
             \/ w5100_socket_listen(s) \/ w5100_socket_connect(s)
             \/ w5100_socket_discon(s) \/ w5100_socket_close(s)
             \/ nic_w5100_socket_write(s) \/ w5100_socket_send(s)
             \/ nic_w5100_socket_write_tx_buffer(s, n) \/ w5100_socket_recv(s, n)
      PROVE  Bounds'
  <2>1. /\ epc = "run" /\ epc' = epc /\ plan' = plan /\ opens' = opens
        /\ Wake \/ NoWake
    BY <1>2 DEF w5100_write_socket_port, w5100_socket_listen,
       w5100_socket_connect, w5100_socket_discon, w5100_socket_close, w5100_socket_send,
       nic_w5100_socket_write_tx_buffer, nic_w5100_socket_write, w5100_socket_recv, MovesRxRd, Command, BindFails
  <2> QED
    BY <1>1, <2>1 DEF Bounds, Wake, NoWake
<1>3. ASSUME NEW s \in Socket, w5100_socket_open(s) PROVE Bounds'
  <2>1. /\ epc' = epc /\ plan' = plan /\ pipe' = pipe /\ opens[s] < plan[s].opens
        /\ opens' = [opens EXCEPT ![s] = @ + 1]
    BY <1>3 DEF w5100_socket_open, Command, NoWake
  <2>2. plan[s].opens \in Nat /\ opens[s] \in Nat
    BY W5100Assumption DEF Bounds
  <2>3. opens' \in [Socket -> Nat] /\ \A t \in Socket : opens'[t] <= plan[t].opens
    BY <2>1, <2>2 DEF Bounds
  <2> QED
    BY <2>1, <2>3 DEF Bounds
<1>4. CASE ResetBegin \/ nic_w5100_socket_reset \/ FreeStop \/ FreeWake \/ FreeJoined
  BY <1>1, <1>4 DEF Bounds, ResetBegin, nic_w5100_socket_reset, FreeStop, FreeWake, FreeJoined
<1>5. CASE Peers
  BY <1>5 DEF Bounds, Peers, Arrive, PeerCloses, Knock, Network
<1>6. CASE IoThread
  <2>1. /\ epc' = epc /\ plan' = plan /\ opens' = opens
        /\ pipe' = pipe \/ pipe' = IF pipe > 0 THEN pipe - 1 ELSE 0
    BY <1>6 DEF IoThread, IoLoop, IoSelect, nic_w5100_socket_add_to_sets,
       nic_w5100_socket_process_io, IoReturn, IoSteps
  <2> QED
    BY <1>1, <2>1 DEF Bounds
<1>7. 1 \in 1 .. Ring
  BY Numbers
<1> QED
  BY <1>2, <1>3, <1>4, <1>5, <1>6, <1>7 DEF Next, Guest

LEMMA StreamInit == Init => StreamInv
<1> SUFFICES ASSUME Init PROVE StreamInv
  OBVIOUS
<1>1. /\ sock = [s \in Socket |-> Clean] /\ host = [s \in Socket |-> NoPeer]
      /\ io.pc = "loop" /\ pipe = 0 /\ epc = "run" /\ plan \in Plans
      /\ opens = [s \in Socket |-> 0]
  BY DEF Init
<1>2. /\ Clean \in ChipType
      /\ Clean.rx_rsr = 0 /\ Clean.tx_rr = 0 /\ Clean.tx_wr = 0 /\ Clean.last_send = 0
      /\ Clean.lengths = <<>>
  BY CleanChip DEF Clean
<1>3. \A s \in Socket : Whole(sock[s], host[s], plan[s].hasty)
  BY <1>1, <1>2, CleanWhole
<1>4. \A s \in Socket : WritesOwn(s)
  BY <1>1 DEF WritesOwn
<1>5. Bounds
  <2>1. PipeSize \in Nat /\ \A s \in Socket : plan[s].opens \in Nat
    BY <1>1, W5100Assumption
  <2> QED
    BY <1>1, <2>1 DEF Bounds
<1> QED
  BY <1>3, <1>4, <1>5, ChipInit DEF StreamInv

LEMMA StreamNext == StreamInv /\ [Next]_vars => StreamInv'
<1> SUFFICES ASSUME StreamInv, [Next]_vars PROVE StreamInv'
  OBVIOUS
<1>1. CASE UNCHANGED vars
  <2>1. sock' = sock /\ host' = host /\ io' = io /\ plan' = plan /\ opens' = opens
        /\ epc' = epc /\ pipe' = pipe
    BY <1>1 DEF vars
  <2>2. ChipInv'
    BY <1>1, ChipNext DEF StreamInv
  <2>3. Bounds'
    BY <2>1 DEF StreamInv, Bounds
  <2> QED
    BY <2>1, <2>2, <2>3 DEF StreamInv, WritesOwn, Writes
<1>2. CASE Next
  <2>1. ChipInv' /\ Bounds'
    BY <1>2, ChipNext, BoundsNext DEF StreamInv
  <2>2. CASE Guest
    BY <2>1, <2>2, OpenStreams, CommandStreams, ShutStreams, SendStreams, WriteTxStreams, WriteStreams,
       RecvStreams, ResetStreams DEF Guest
  <2>3. CASE Peers
    BY <2>1, <2>3, PeerStreams DEF Peers
  <2>4. CASE IoThread
    <3>1. io.i \in Socket
      BY DEF StreamInv, ChipInv, Shapes, ThreadType
    <3> QED
      BY <2>1, <2>4, <3>1, LoopStreams, AddStreams, ProcessStreams DEF IoThread
  <2> QED
    BY <1>2, <2>2, <2>3, <2>4 DEF Next
<1> QED
  BY <1>1, <1>2

\* Nothing is lost, doubled or reordered on its way through the rings, for any number of
\* sockets, any sizes and whichever byte of TX_WR is written first: the guest reads the
\* bytes that came; and unless the guest moves TX_WR during a SEND, or the socket is a
\* stray one, what leaves is what the guest wrote and was told to send, and a datagram is
\* what one SEND submitted.
THEOREM W5100StreamsIntact == Spec => []StreamsIntact
<1>1. ASSUME StreamInv PROVE W5100TypeOK
  <2>1. ChipInv /\ Shapes /\ Bounds
    BY <1>1 DEF StreamInv, ChipInv
  <2>2. ASSUME NEW s \in Socket
        PROVE  LET r == sock[s] IN
               /\ r.state \in State /\ r.fd \in Fd \cup {0}
               /\ r.fd = 0 => r.state = "CLOSED" /\ ~r.bound /\ ~r.ok /\ ~r.write_pending
               /\ {r.tx_rr, r.tx_wr, r.rx_rd, r.old_rx_rd, r.last_send} \subseteq 0 .. Word - 1
               /\ r.rx_rsr \in 0 .. Ring
               /\ Len(r.lengths) <= MaxQueue
               /\ \A t \in Socket \ {s} : r.fd # 0 => sock[t].fd # r.fd
    <3>1. /\ sock[s] \in ChipType /\ Sound(sock[s], host[s])
          /\ Whole(sock[s], host[s], plan[s].hasty)
      BY <1>1, <2>1, Typed DEF StreamInv
    <3>2. sock[s].state \in State /\ sock[s].fd \in Fd \cup {0}
      BY <3>1 DEF ChipType
    <3>3. /\ {sock[s].tx_rr, sock[s].tx_wr, sock[s].rx_rd, sock[s].old_rx_rd, sock[s].last_send}
               \subseteq 0 .. Word - 1
          /\ sock[s].rx_rsr \in 0 .. Ring
      BY <3>1, ChipFields DEF Pointer
    <3>4. Len(sock[s].lengths) <= MaxQueue
      BY <3>1 DEF Whole
    <3>5. \A t \in Socket \ {s} : sock[s].fd # 0 => sock[t].fd # sock[s].fd
      BY <2>1 DEF ChipInv, Distinct
    <3> QED
      BY <3>1, <3>2, <3>3, <3>4, <3>5 DEF Sound
  <2>3. pipe \in 0 .. PipeSize + 1
    <3>1. PipeSize \in Nat
      BY W5100Assumption
    <3> QED
      BY <2>1, <3>1 DEF Shapes, Bounds
  <2>4. \A s \in Socket : opens[s] \in 0 .. plan[s].opens
    <3>1. \A s \in Socket : plan[s].opens \in Nat
      BY <2>1, W5100Assumption DEF Bounds
    <3> QED
      BY <2>1, <3>1 DEF Bounds
  <2> QED
    BY <2>1, <2>2, <2>3, <2>4 DEF W5100TypeOK, Shapes, Bounds, ThreadType
<1>2. ASSUME StreamInv, NEW s \in Socket,
             sock[s].state \in {"ESTABLISHED", "CLOSE_WAIT", "UDP"}
      PROVE  LET r == sock[s]
                 h == host[s]
             IN  /\ \A k \in 0 .. r.rx_rsr - 1 :
                      r.rx[(r.old_rx_rd + k) % Ring] = h.stored - r.rx_rsr + k + 1
                 /\ ~h.stray /\ ~plan[s].hasty =>
                      /\ h.wire = [k \in 1 .. Len(h.wire) |-> k]
                      /\ Len(h.wire) <= LastSub(h)
                      /\ Settled(s) => Minus(r.tx_wr, r.tx_rr) <= Ring
                      /\ r.state = "UDP" => h.cuts = SubSeq(h.subs, 1, Len(h.cuts))
  <2>1. /\ sock[s] \in ChipType /\ host[s] \in PeerType
        /\ Whole(sock[s], host[s], plan[s].hasty)
    BY <1>2, Typed DEF StreamInv
  <2>2. \A k \in 0 .. sock[s].rx_rsr - 1 :
          sock[s].rx[(sock[s].old_rx_rd + k) % Ring] = host[s].stored - sock[s].rx_rsr + k + 1
    BY <2>1 DEF Whole, Receives, Numbered
  <2>3. ASSUME ~host[s].stray, ~plan[s].hasty
        PROVE  /\ host[s].wire = [k \in 1 .. Len(host[s].wire) |-> k]
               /\ Len(host[s].wire) <= LastSub(host[s])
               /\ Settled(s) => Minus(sock[s].tx_wr, sock[s].tx_rr) <= Ring
               /\ sock[s].state = "UDP"
                    => host[s].cuts = SubSeq(host[s].subs, 1, Len(host[s].cuts))
    <3>1. Outgoing(sock[s], host[s])
      BY <2>1, <2>3 DEF Whole
    <3>2. host[s].wire = [k \in 1 .. Len(host[s].wire) |-> k]
      BY <3>1 DEF Outgoing, Transmits
    <3>3. Len(host[s].wire) <= LastSub(host[s])
      <4>1. CASE sock[s].state = "UDP"
        BY <2>1, <3>1, <4>1, SentSubmitted DEF Outgoing
      <4>2. CASE sock[s].state # "UDP"
        BY <1>2, <3>1, <4>2 DEF Outgoing, Connection
      <4> QED
        BY <4>1, <4>2
    <3>4. Settled(s) => Minus(sock[s].tx_wr, sock[s].tx_rr) <= Ring
      BY <3>1 DEF Outgoing, Transmits, Unsent, Meant, Settled
    <3>5. ASSUME sock[s].state = "UDP"
          PROVE  host[s].cuts = SubSeq(host[s].subs, 1, Len(host[s].cuts))
      <4>1. PICK a \in Seq(Nat), b \in Seq(Nat) : a = host[s].cuts /\ b = host[s].subs
        BY <2>1, PeerFields
      <4>2. PICK l \in Nat : l = Len(sock[s].lengths)
        BY <2>1, Counts
      <4>3. Len(b) = Len(a) + l /\ \A i \in 1 .. Len(a) : a[i] = b[i]
        BY <3>1, <3>5, <4>1, <4>2 DEF Outgoing, Datagrams
      <4>4. a = SubSeq(b, 1, Len(a))
        BY <4>3
      <4> QED
        BY <4>1, <4>4
    <3> QED
      BY <3>2, <3>3, <3>4, <3>5
  <2> QED
    BY <2>2, <2>3
<1>3. StreamInv => StreamsIntact
  BY <1>1, <1>2 DEF StreamsIntact
<1> QED
  BY <1>3, StreamInit, StreamNext, PTL DEF Spec

=============================================================================
