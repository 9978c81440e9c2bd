------------------------------- MODULE W5100 -------------------------------
(***************************************************************************)
(* The W5100 network chip (peripherals/nic/w5100.c, w5100_socket.c): the   *)
(* emulation thread executes the guest's register accesses, one I/O thread *)
(* moves bytes between the chip's rings and the host's sockets.            *)
(*                                                                         *)
(* A register access of the guest and each of the I/O thread's visits to a *)
(* socket hold that socket's lock, so each is one step.  Between the       *)
(* visits the I/O thread sleeps in select(); a byte in the selfpipe is     *)
(* what makes it look at the sockets again.                                *)
(*                                                                         *)
(* The bytes that travel are their serial numbers since OPEN, or since the *)
(* connection was accepted.  TLS, SSH and the sockets that matchmaking     *)
(* claims are left out, and the interrupt register with them.              *)
(***************************************************************************)
EXTENDS Naturals, Sequences, FiniteSets

CONSTANTS
  SocketCount,  \* 4
  Ring,         \* 0x800, the bytes of each ring
  Word,         \* 2^16, the width of the ring pointers
  Page,         \* 0x100, the values of one byte of a pointer
  Header,       \* 8, the bytes the chip puts before a UDP payload
  MaxQueue,     \* 0x20, the datagrams that wait to be sent
  PipeSize,     \* bound: the wake bytes the selfpipe holds
  Plans         \* bound: what the guest may do with each socket: the mode it
                \* opens it in and how often, the bytes or datagrams that arrive,
                \* the bytes and the SEND commands, and whether it is hasty

Socket == 0 .. SocketCount - 1
Fd == 1 .. SocketCount + 1   \* accept() holds one more

ASSUME W5100Assumption ==
  /\ SocketCount \in Nat \ {0}
  /\ Ring \in Nat \ {0} /\ Header \in 1 .. Ring - 1
  /\ Word \in Nat /\ Word > Ring /\ Word % Ring = 0
  /\ Page \in Nat \ {0} /\ Word % Page = 0
  /\ {MaxQueue, PipeSize} \subseteq Nat \ {0}
  /\ \A p \in Plans : DOMAIN p = Socket
  /\ \A p \in Plans, s \in Socket :
       /\ p[s].mode \in {"TCP", "UDP"}
       /\ p[s].hasty \in BOOLEAN /\ (p[s].hasty => p[s].mode = "TCP")
       /\ {p[s].opens, p[s].arrive, p[s].send, p[s].sends} \subseteq Nat

State == {"CLOSED", "INIT", "LISTEN", "ESTABLISHED", "CLOSE_WAIT", "UDP"}

VARIABLES
  sock,    \* socket |-> its nic_w5100_socket_t
  host,    \* socket |-> what the host and the network hold for its descriptor
  io,      \* the I/O thread: where it is, and its two descriptor sets
  pipe,    \* bytes in the selfpipe
  stop,    \* stop_io_thread
  epc, ei, \* where the emulation thread is, and its loop index
  opens,   \* socket |-> OPEN commands so far
  plan     \* which of Plans the guest follows

vars == <<sock, host, io, pipe, stop, epc, ei, opens, plan>>

Blank == [i \in 0 .. Ring - 1 |-> 0]

\* A socket without a descriptor: fd = 0 is compat_socket_invalid.  The rings keep
\* older bytes, which are nobody's: 0.
Clean == [state |-> "CLOSED", fd |-> 0, bound |-> FALSE, ok |-> FALSE,
          write_pending |-> FALSE, tx_rr |-> 0, tx_wr |-> 0, last_send |-> 0,
          lengths |-> <<>>, rx_rsr |-> 0, rx_rd |-> 0, old_rx_rd |-> 0,
          rx |-> Blank, tx |-> Blank]

\* knock: a connection waits to be accepted; waiting: bytes (TCP) or datagrams
\* (UDP) to be received; stored: bytes put into the receive ring; written: bytes
\* the guest put into the transmit ring; subs: that count at each SEND; wire:
\* bytes that left; cuts: that count after each datagram; quiet: connected by
\* CONNECT, and not visited by the I/O thread since; stray: its descriptor was in
\* the write set already when the I/O thread first came to it.
NoPeer == [knock |-> FALSE, waiting |-> 0, eof |-> FALSE, stored |-> 0,
           written |-> 0, subs |-> <<>>, wire |-> <<>>, cuts |-> <<>>,
           quiet |-> FALSE, stray |-> FALSE]

Init ==
  /\ sock = [s \in Socket |-> Clean]
  /\ host = [s \in Socket |-> NoPeer]
  /\ io = [pc |-> "loop", i |-> 0, rset |-> {}, wset |-> {}]
  /\ pipe = 0 /\ stop = FALSE
  /\ epc = "run" /\ ei = 0 /\ plan \in Plans
  /\ opens = [s \in Socket |-> 0]

-----------------------------------------------------------------------------
OpenFds == {sock[s].fd : s \in Socket} \ {0}

\* socket() and accept() return the lowest number that is free.
NextFd(open) == CHOOSE fd \in Fd \ open : \A other \in Fd \ open : fd <= other

LesserOf(a, b) == IF a < b THEN a ELSE b

\* What a register shows: differences of 16-bit pointers.
Minus(a, b) == (a + Word - b) % Word
Room(r) == Ring - r.rx_rsr
TX_FSR(r) ==
  IF r.state = "UDP" /\ Len(r.lengths) >= MaxQueue THEN 0
  ELSE Minus(Ring, Minus(r.tx_wr, r.tx_rr))

\* compat_socket_selfpipe_wake, which blocks when the pipe is full, and a step
\* that leaves the thread asleep.
Wake == pipe < PipeSize /\ pipe' = pipe + 1
NoWake == pipe' = pipe

Put(s, r, h) ==
  /\ sock' = [sock EXCEPT ![s] = r]
  /\ host' = [host EXCEPT ![s] = h]

-----------------------------------------------------------------------------
(***************************************************************************)
(* The commands of the guest.  A command that fails to bind leaves the     *)
(* socket CLOSED with its descriptor open; the next OPEN closes it.        *)
(***************************************************************************)

\* The guest's next register access.
Command ==
  /\ epc = "run"
  /\ UNCHANGED <<io, stop, epc, ei, plan>>

\* w5100_socket_clean: with a descriptor to close, w5100_socket_init_common too.
Cleaned(r) ==
  IF r.fd # 0 THEN Clean
  ELSE [Clean EXCEPT !.bound = r.bound, !.ok = r.ok, !.write_pending = r.write_pending]

w5100_socket_open(s) ==
  /\ Command /\ opens[s] < plan[s].opens /\ sock[s].state = "CLOSED"
  /\ opens' = [opens EXCEPT ![s] = @ + 1] /\ NoWake
  /\ \/ Put(s, Cleaned(sock[s]), NoPeer)               \* socket() fails
     \/ Put(s, [Cleaned(sock[s]) EXCEPT
                  !.fd = NextFd(OpenFds \ {sock[s].fd}),
                  !.state = IF plan[s].mode = "TCP" THEN "INIT" ELSE "UDP"],
            NoPeer)

\* The second byte of the port of a UDP socket binds it.
w5100_write_socket_port(s) ==
  /\ Command /\ UNCHANGED <<opens, host>>
  /\ sock[s].state = "UDP" /\ ~sock[s].bound
  /\ \/ sock' = [sock EXCEPT ![s].bound = TRUE] /\ Wake
     \/ sock' = [sock EXCEPT ![s].state = "CLOSED"] /\ NoWake

BindFails(s) ==
  /\ ~sock[s].bound
  /\ sock' = [sock EXCEPT ![s].state = "CLOSED"]
  /\ NoWake /\ UNCHANGED host

w5100_socket_listen(s) ==
  /\ Command /\ UNCHANGED <<opens, host>>
  /\ sock[s].state = "INIT"
  /\ \/ BindFails(s)
     \/ sock' = [sock EXCEPT ![s].bound = TRUE] /\ NoWake  \* listen() fails
     \/ /\ sock' = [sock EXCEPT ![s] = [@ EXCEPT !.bound = TRUE, !.state = "LISTEN"]]
        /\ Wake

\* CONNECT returns when the connection is made.  Only an SSH connection wakes
\* the I/O thread.
w5100_socket_connect(s) ==
  /\ Command /\ UNCHANGED opens
  /\ sock[s].state = "INIT" /\ NoWake
  /\ \/ BindFails(s)
     \/ Put(s, [sock[s] EXCEPT !.bound = TRUE, !.state = "CLOSED"], host[s])
     \/ Put(s, [sock[s] EXCEPT !.bound = TRUE, !.state = "ESTABLISHED"],
            [NoPeer EXCEPT !.quiet = TRUE, !.stray = host[s].stray])

(* Faulty variant: ok_for_io survives the descriptor.                       *)
StillOk(r) == [Clean EXCEPT !.ok = r.ok]

\* The pointers keep their values until the next OPEN, the only command that can
\* follow, clears them: here they are cleared at once.
Shut(r) == Clean

w5100_socket_discon(s) ==
  /\ Command /\ UNCHANGED opens
  /\ sock[s].state \in {"ESTABLISHED", "CLOSE_WAIT"}
  /\ Put(s, Shut(sock[s]), NoPeer) /\ Wake

w5100_socket_close(s) ==
  /\ Command /\ UNCHANGED opens
  /\ Put(s, Shut(sock[s]), NoPeer) /\ Wake

-----------------------------------------------------------------------------
(***************************************************************************)
(* Sending and receiving.  The guest fills the transmit ring and moves     *)
(* TX_WR, then commands SEND; it empties the receive ring, moves RX_RD and *)
(* commands RECV.  It goes by TX_FSR and RX_RSR, has a byte to send when   *)
(* it sends on a connection, and there, unless it is hasty, waits for one  *)
(* SEND to be done before it prepares the next.                            *)
(*                                                                         *)
(* A pointer is written byte by byte.  The I/O thread goes by TX_WR, so it *)
(* may find it half moved; it never looks at RX_RD, which counts at RECV.  *)
(***************************************************************************)

Settled(s) == sock[s].tx_wr = host[s].written % Word

\* One of the two bytes is the new pointer's, the other is still the old one's.
HalfMoved(old, new) ==
  {Page * (new \div Page) + (old % Page), Page * (old \div Page) + (new % Page)}

\* n bytes into the ring, and the first byte of TX_WR.
nic_w5100_socket_write_tx_buffer(s, n) ==
  LET r == sock[s]
      from == host[s].written
  IN
  /\ Command /\ UNCHANGED opens /\ NoWake
  /\ r.state \in {"UDP", "ESTABLISHED"} /\ Settled(s)
  /\ n \in 1 .. TX_FSR(r) /\ from + n <= plan[s].send
  /\ r.state = "ESTABLISHED" /\ r.write_pending => plan[s].hasty
  /\ \E half \in HalfMoved(r.tx_wr, (from + n) % Word) :
       Put(s, [r EXCEPT !.tx_wr = half,
                        !.tx = [i \in DOMAIN r.tx |->
                                  LET k == (i + Ring - (r.tx_wr % Ring)) % Ring
                                  IN  IF k < n THEN from + k + 1 ELSE r.tx[i]]],
              [host[s] EXCEPT !.written = @ + n])

\* The other byte of TX_WR.
nic_w5100_socket_write(s) ==
  /\ Command /\ UNCHANGED <<opens, host>> /\ NoWake
  /\ ~Settled(s)
  /\ sock' = [sock EXCEPT ![s].tx_wr = host[s].written % Word]

(* Faulty variant: everything in the ring counts as the next datagram.      *)
QueuedAll(r) ==
  [r EXCEPT !.bound = TRUE, !.last_send = r.tx_wr, !.write_pending = TRUE,
            !.lengths = Append(@, Minus(r.tx_wr, r.tx_rr))]

\* A datagram is what TX_WR moved since the last SEND.
Queued(r) ==
  [r EXCEPT !.bound = TRUE, !.last_send = r.tx_wr, !.write_pending = TRUE,
            !.lengths = Append(@, Minus(r.tx_wr, r.last_send))]

w5100_socket_send(s) ==
  LET r == sock[s]
      h == [host[s] EXCEPT !.subs = Append(@, host[s].written)]
  IN
  /\ Command /\ UNCHANGED opens
  /\ Len(h.subs) <= plan[s].sends /\ Settled(s)
  /\ \/ r.state = "UDP" /\ BindFails(s)
     \/ /\ r.state = "UDP" /\ Len(r.lengths) < MaxQueue
        /\ Put(s, Queued(r), h) /\ Wake
     \/ /\ r.state = "ESTABLISHED" /\ r.tx_wr # r.tx_rr
        /\ Put(s, [r EXCEPT !.write_pending = TRUE], h) /\ Wake

\* The guest has read n bytes of the RX_RSR it sees, and moves RX_RD.
MovesRxRd(s, n) ==
  /\ Command /\ UNCHANGED <<opens, host>>
  /\ n <= sock[s].rx_rsr

\* RECV returns their room.
Returned(r, n) ==
  LET rd == (r.rx_rd + n) % Word IN
  [r EXCEPT !.rx_rd = rd, !.old_rx_rd = rd,
            !.rx_rsr = Minus(@, Minus(rd, r.old_rx_rd))]

(* Faulty variant: RECV leaves the I/O thread asleep.                       *)
RecvSilently(s, n) ==
  /\ MovesRxRd(s, n) /\ NoWake
  /\ sock[s].state \in {"UDP", "ESTABLISHED"}
  /\ sock' = [sock EXCEPT ![s] = Returned(@, n)]

\* In any other state RECV is ignored: in CLOSE_WAIT RX_RSR stays as it is, and the
\* guest reads on.
w5100_socket_recv(s, n) ==
  /\ MovesRxRd(s, n)
  /\ \/ /\ sock[s].state \in {"UDP", "ESTABLISHED"}
        /\ sock' = [sock EXCEPT ![s] = Returned(@, n)]
        /\ Wake
     \/ /\ sock[s].state \notin {"UDP", "ESTABLISHED"}
        /\ sock' = [sock EXCEPT ![s].rx_rd = (@ + n) % Word]
        /\ NoWake

-----------------------------------------------------------------------------
(***************************************************************************)
(* nic_w5100_reset: each socket in turn, nobody is woken.                  *)
(***************************************************************************)

ResetBegin ==
  /\ epc = "run" /\ epc' = "reset" /\ ei' = 0
  /\ UNCHANGED <<sock, host, io, pipe, stop, opens, plan>>

nic_w5100_socket_reset ==
  /\ epc = "reset"
  /\ Put(ei, Cleaned(sock[ei]), NoPeer)
  /\ IF ei + 1 \in Socket THEN ei' = ei + 1 /\ UNCHANGED epc
                          ELSE ei' = 0 /\ epc' = "run"
  /\ UNCHANGED <<io, pipe, stop, opens, plan>>

(* Faulty variant: the I/O thread is not woken to see the flag.             *)
FreeJoinsAtOnce ==
  /\ epc = "run" /\ epc' = "join"
  /\ stop' = TRUE
  /\ UNCHANGED <<sock, host, io, pipe, ei, opens, plan>>

\* nic_w5100_free, up to the join.
FreeStop ==
  /\ epc = "run" /\ epc' = "free_wake"
  /\ stop' = TRUE
  /\ UNCHANGED <<sock, host, io, pipe, ei, opens, plan>>

\* The last wake byte, for which the bound leaves room.
FreeWake ==
  /\ epc = "free_wake" /\ epc' = "join"
  /\ pipe' = pipe + 1
  /\ UNCHANGED <<sock, host, io, stop, ei, opens, plan>>

\* After the join nothing else runs, and every socket is reset.
FreeJoined ==
  /\ epc = "join" /\ io.pc = "exited" /\ epc' = "ended"
  /\ sock' = [s \in Socket |-> Clean]
  /\ host' = [s \in Socket |-> NoPeer]
  /\ UNCHANGED <<io, pipe, stop, ei, opens, plan>>

-----------------------------------------------------------------------------
(***************************************************************************)
(* The network.                                                            *)
(***************************************************************************)

Network == UNCHANGED <<sock, io, pipe, stop, epc, ei, opens, plan>>

Arrive(s) ==
  /\ Network
  /\ sock[s].state = "ESTABLISHED" \/ (sock[s].state = "UDP" /\ sock[s].bound)
  /\ ~host[s].eof /\ host[s].waiting + host[s].stored < plan[s].arrive
  /\ host' = [host EXCEPT ![s].waiting = @ + 1]

PeerCloses(s) ==
  /\ Network
  /\ sock[s].state = "ESTABLISHED" /\ ~host[s].eof
  /\ host' = [host EXCEPT ![s].eof = TRUE]

Knock(s) ==
  /\ Network
  /\ sock[s].state = "LISTEN" /\ ~host[s].knock
  /\ host' = [host EXCEPT ![s].knock = TRUE]

-----------------------------------------------------------------------------
(***************************************************************************)
(* The I/O thread.                                                         *)
(***************************************************************************)

IoSteps == UNCHANGED <<stop, epc, ei, opens, plan>>

IoLoop ==
  /\ io.pc = "loop"
  /\ io' = [pc |-> IF stop THEN "exited" ELSE "add", i |-> 0, rset |-> {}, wset |-> {}]
  /\ UNCHANGED <<sock, host, pipe>> /\ IoSteps

\* With room for a UDP header and a byte, or for a byte of TCP, or a listener.
WantsRead(r) ==
  \/ r.state = "UDP" /\ Room(r) >= Header + 1
  \/ r.state = "ESTABLISHED" /\ Room(r) >= 1
  \/ r.state = "LISTEN"

nic_w5100_socket_add_to_sets ==
  LET s == io.i
      r == sock[s]
      open == r.fd # 0
  IN
  /\ io.pc = "add"
  /\ Put(s, [r EXCEPT !.ok = @ \/ open],
         [host[s] EXCEPT !.quiet = @ /\ ~open, !.stray = @ \/ (open /\ r.fd \in io.wset)])
  /\ io' = [pc |-> IF s + 1 \in Socket THEN "add" ELSE "select",
            i |-> IF s + 1 \in Socket THEN s + 1 ELSE 0,
            rset |-> io.rset \cup {fd \in {r.fd} : open /\ WantsRead(r)},
            wset |-> io.wset \cup {fd \in {r.fd} : open /\ r.write_pending}]
  /\ UNCHANGED pipe /\ IoSteps

(* Faulty variant: a select() that fails ends the thread.                   *)
IoSelectGivesUp ==
  /\ io.pc = "select"
  /\ io' = [io EXCEPT !.pc = IF io.rset \cup io.wset \subseteq OpenFds
                             THEN "sleep" ELSE "exited"]
  /\ UNCHANGED <<sock, host, pipe>> /\ IoSteps

\* select() fails with EBADF when a descriptor was closed before the call.
IoSelect ==
  /\ io.pc = "select"
  /\ io' = [io EXCEPT !.pc = IF io.rset \cup io.wset \subseteq OpenFds
                             THEN "sleep" ELSE "loop"]
  /\ UNCHANGED <<sock, host, pipe>> /\ IoSteps

Readable(s) ==
  CASE sock[s].state = "LISTEN" -> host[s].knock
    [] sock[s].state = "ESTABLISHED" -> host[s].waiting > 0 \/ host[s].eof
    [] OTHER -> sock[s].state = "UDP" /\ host[s].waiting > 0

\* The sockets whose descriptor in the sets is still the one that was added.
Live == {s \in Socket : sock[s].ok}
LiveFds == {sock[s].fd : s \in Live}
ReadyFds == {sock[s].fd : s \in {u \in Live : Readable(u)}} \cap io.rset

\* select() reports every descriptor that is readable and some of the writable
\* ones.  Of a descriptor closed since the call it may report anything.  A byte
\* is taken from the pipe when there is one.
IoReturn(W) ==
  /\ io.pc = "sleep"
  /\ W \subseteq io.wset
  /\ \E stale \in SUBSET (io.rset \ LiveFds) :
       /\ pipe > 0 \/ ReadyFds \cup stale \cup W # {}
       /\ io' = [pc |-> "process", i |-> 0, rset |-> ReadyFds \cup stale, wset |-> W]
  /\ pipe' = IF pipe > 0 THEN pipe - 1 ELSE 0
  /\ UNCHANGED <<sock, host>> /\ IoSteps

-----------------------------------------------------------------------------
(***************************************************************************)
(* nic_w5100_socket_process_io: a read, then a write, for a socket that    *)
(* was not closed since it was added.                                      *)
(***************************************************************************)

\* w5100_socket_process_accept: the new descriptor takes the old one's place.
Accepted(r, h) ==
  {<<[r EXCEPT !.fd = NextFd(OpenFds), !.state = "ESTABLISHED"], NoPeer>>,
   <<r, [h EXCEPT !.knock = FALSE]>>}   \* accept() fails

\* n bytes that were received, in the ring after those that are there.
Stored(r, h, n, left) ==
  LET offset == (r.old_rx_rd + r.rx_rsr) % Ring IN
  <<[r EXCEPT !.rx_rsr = @ + n,
              !.rx = [i \in DOMAIN r.rx |->
                        LET k == (i + Ring - offset) % Ring
                        IN  IF k < n THEN h.stored + k + 1 ELSE r.rx[i]]],
    [h EXCEPT !.stored = @ + n, !.waiting = left]>>

\* w5100_socket_process_read.  A datagram longer than the room is cut, and of no
\* interest beyond; a blocking call with nothing to return has no outcome.
Received(r, h) ==
  CASE r.state = "UDP" ->
         {Stored(r, h, Header + n, h.waiting - 1) :
            n \in IF h.waiting > 0 THEN 0 .. Room(r) - Header ELSE {}}
    [] r.state = "ESTABLISHED" /\ h.waiting > 0 ->
         LET n == LesserOf(h.waiting, Room(r)) IN {Stored(r, h, n, h.waiting - n)}
    [] r.state = "ESTABLISHED" /\ h.waiting = 0 /\ h.eof ->
         {<<[r EXCEPT !.state = "CLOSE_WAIT"], h>>}
    [] OTHER -> {}

ReadOutcomes(r, h) ==
  CASE r.fd \notin io.rset -> {<<r, h>>}
    [] r.fd \in io.rset /\ r.state # "LISTEN" -> Received(r, h)
    [] OTHER -> IF h.knock THEN Accepted(r, h) ELSE {}

\* The n bytes of the transmit ring from TX_RR on.
Bytes(r, n) == [k \in 1 .. n |-> r.tx[(r.tx_rr + k - 1) % Ring]]

\* w5100_socket_process_udp_write: the first datagram as a whole.
DatagramSent(r, h) ==
  LET n == Head(r.lengths) IN
  <<[r EXCEPT !.lengths = Tail(@), !.tx_rr = (@ + n) % Word,
              !.write_pending = Len(r.lengths) > 1],
    [h EXCEPT !.wire = @ \o Bytes(r, n), !.cuts = Append(@, Len(h.wire) + n)]>>

\* w5100_socket_process_tcp_write: some bytes, up to the end of the ring.
TcpSent(r, h, n) ==
  <<[r EXCEPT !.tx_rr = (@ + n) % Word,
              !.write_pending = (r.tx_rr + n) % Word # r.tx_wr],
    [h EXCEPT !.wire = @ \o Bytes(r, n)]>>

\* sendto() or send() may fail, or not be called at all.  A stray UDP socket sends a
\* datagram although none is queued; datagram_count is -1 then, and what else such
\* a socket sends is not followed.
WriteOutcomes(r, h) ==
  {<<r, h>>} \cup
  (CASE r.fd \in io.wset /\ r.state = "UDP" /\ r.lengths # <<>> -> {DatagramSent(r, h)}
     [] r.fd \in io.wset /\ r.state = "ESTABLISHED" ->
          {TcpSent(r, h, n) : n \in 1 .. LesserOf(Minus(r.tx_wr, r.tx_rr),
                                                 Ring - (r.tx_rr % Ring))}
     [] OTHER -> {})

nic_w5100_socket_process_io ==
  LET s == io.i
      r == sock[s]
  IN
  /\ io.pc = "process"
  /\ IF r.fd # 0 /\ r.ok
     THEN \E got \in ReadOutcomes(r, host[s]) :
          \E put \in WriteOutcomes(got[1], got[2]) : Put(s, put[1], put[2])
     ELSE UNCHANGED <<sock, host>>
  /\ io' = [io EXCEPT !.pc = IF s + 1 \in Socket THEN "process" ELSE "loop",
                      !.i = IF s + 1 \in Socket THEN s + 1 ELSE 0]
  /\ UNCHANGED pipe /\ IoSteps

-----------------------------------------------------------------------------
Guest ==
  \/ \E s \in Socket :
       \/ w5100_socket_open(s) \/ w5100_write_socket_port(s)
       \/ w5100_socket_listen(s) \/ w5100_socket_connect(s)
       \/ w5100_socket_discon(s) \/ w5100_socket_close(s)
       \/ nic_w5100_socket_write(s) \/ w5100_socket_send(s)
       \/ \E n \in 1 .. Ring : \/ nic_w5100_socket_write_tx_buffer(s, n)
                              \/ w5100_socket_recv(s, n)
  \/ ResetBegin \/ nic_w5100_socket_reset
  \/ FreeStop \/ FreeWake \/ FreeJoined

Peers == \E s \in Socket : Arrive(s) \/ PeerCloses(s) \/ Knock(s)

IoThread ==
  \/ IoLoop \/ nic_w5100_socket_add_to_sets \/ IoSelect
  \/ nic_w5100_socket_process_io
  \/ \E W \in SUBSET io.wset : IoReturn(W)

Next == Guest \/ Peers \/ IoThread

Spec == Init /\ [][Next]_vars

(***************************************************************************)
(* Fairness: the I/O thread is scheduled; select() returns once there is   *)
(* something to return; a send that is tried again and again is done one   *)
(* day, because the peer reads; the emulation thread, once it resets or    *)
(* frees the chip, goes on.                                                *)
(***************************************************************************)
SomethingReady == pipe > 0 \/ ReadyFds # {}
Sends(s) ==
  /\ nic_w5100_socket_process_io
  /\ sock'[s].tx_rr # sock[s].tx_rr \/ sock'[s].lengths # sock[s].lengths

FairSpec ==
  /\ Spec
  /\ WF_vars(IoLoop \/ nic_w5100_socket_add_to_sets \/ IoSelect
               \/ nic_w5100_socket_process_io)
  /\ WF_vars(SomethingReady /\ \E W \in SUBSET io.wset : IoReturn(W))
  /\ SF_vars(io.wset # {} /\ IoReturn(io.wset))
  /\ \A s \in Socket : SF_vars(Sends(s))
  /\ WF_vars(nic_w5100_socket_reset \/ FreeWake \/ FreeJoined)

-----------------------------------------------------------------------------
(***************************************************************************)
(* Properties.                                                             *)
(***************************************************************************)

\* Types, and what the code's guards rely on: a socket without a descriptor has
\* nothing bound, nothing to write and is not the I/O thread's; two sockets never
\* have the same descriptor.
W5100TypeOK ==
  /\ \A s \in Socket :
       LET r == sock[s] IN
       /\ r.state \in State /\ r.fd \in Fd \cup {0}
       /\ r.fd = 0 => r.state = "CLOSED" /\ ~r.bound /\ ~r.ok /\ ~r.write_pending
       /\ {r.tx_rr, r.tx_wr, r.rx_rd, r.old_rx_rd, r.last_send} \subseteq 0 .. Word - 1
       /\ r.rx_rsr \in 0 .. Ring
       /\ Len(r.lengths) <= MaxQueue
       /\ \A t \in Socket \ {s} : r.fd # 0 => sock[t].fd # r.fd
  /\ io.pc \in {"loop", "add", "select", "sleep", "process", "exited"}
  /\ io.i \in Socket /\ io.rset \subseteq Fd /\ io.wset \subseteq Fd
  /\ pipe \in 0 .. PipeSize + 1 /\ stop \in BOOLEAN /\ ei \in Socket
  /\ epc \in {"run", "reset", "free_wake", "join", "ended"}
  /\ plan \in Plans
  /\ \A s \in Socket : opens[s] \in 0 .. plan[s].opens

\* The I/O thread calls accept() and recv(), which block and would block it with
\* the socket's lock held, only where there is something to return: "we haven't
\* been closed and re-opened since the select() started" (w5100_socket.c).
NoBlindIo ==
  io.pc = "process" =>
    \A s \in io.i .. SocketCount - 1 :
      sock[s].ok /\ sock[s].fd \in io.rset => ReadOutcomes(sock[s], host[s]) # {}

\* Nothing is overlooked by an I/O thread that sleeps with no byte in the pipe:
\* it watches every socket with room for what may come and every socket with a
\* SEND to finish.  The exception is a socket that CONNECT connected: it is not
\* watched until something else wakes the thread.
NoLostWake ==
  io.pc = "sleep" /\ pipe = 0 /\ ~stop =>
    \A s \in Socket :
      LET r == sock[s]
          wanted == WantsRead(r) /\ ~host[s].quiet /\ (r.state = "UDP" => r.bound)
      IN  r.fd # 0 => /\ wanted => r.fd \in io.rset /\ r.ok
                      /\ r.write_pending => r.fd \in io.wset /\ r.ok

\* The bytes that were submitted.
LastSub(h) == IF h.subs = <<>> THEN 0 ELSE h.subs[Len(h.subs)]

\* What the guest finds in the receive ring is the last rx_rsr bytes that came,
\* in order; what leaves the host is what the guest wrote, in order, with nothing
\* sent before SEND commands it ("Does not transmit until the SEND command",
\* w5100_internals.h), no more than the ring holds, and each datagram what one SEND
\* submitted, although the guest moves TX_WR one byte at a time.  What is sent is
\* not for the hasty guest, whose SEND in progress may run up to a half-moved TX_WR,
\* nor for a stray socket: it took the descriptor of one that was closed between two
\* visits of the I/O thread, and may send without a command.
StreamsIntact ==
  /\ W5100TypeOK
  /\ \A s \in Socket :
       LET r == sock[s]
           h == host[s]
       IN  r.state \in {"ESTABLISHED", "CLOSE_WAIT", "UDP"} =>
             /\ \A k \in 0 .. r.rx_rsr - 1 :
                  r.rx[(r.old_rx_rd + k) % Ring] = h.stored - r.rx_rsr + k + 1
             /\ ~h.stray /\ ~plan[s].hasty =>
                  /\ h.wire = [k \in 1 .. Len(h.wire) |-> k]
                  /\ Len(h.wire) <= LastSub(h)
                  /\ Settled(s) => Minus(r.tx_wr, r.tx_rr) <= Ring
                  /\ r.state = "UDP" => h.cuts = SubSeq(h.subs, 1, Len(h.cuts))

\* A SEND is finished, unless the socket leaves the state it was commanded in (in
\* CLOSE_WAIT it never is) or is a stray one, or the guest is hasty: then what is
\* left may run up to a half-moved TX_WR, and there may be nothing left to send
\* once the other byte is written, which nothing finishes.
SendCompletes ==
  \A s \in Socket :
    LET pending == /\ sock[s].write_pending /\ ~host[s].stray /\ ~plan[s].hasty
                   /\ sock[s].state \in {"ESTABLISHED", "UDP"}
    IN  pending ~> ~pending

\* nic_w5100_free returns: the I/O thread does not sleep through the stop.
FreeReturns == stop ~> epc = "ended"

=============================================================================
