-------------------------------- MODULE Match --------------------------------
(***************************************************************************)
(* Matchmaking (peripherals/nic/match.c, match_compat.c, gre.c): a job of   *)
(* the controller claims a socket of the W5100 chip for a match, talks to   *)
(* the match server, and hands the socket a connection to the peer: a copy  *)
(* of an outer UDP socket, or one end of a bridge to a TCP stream that a    *)
(* thread runs inside GRE over that outer socket.                           *)
(*                                                                          *)
(* Whoever serves a command holds the matchmaking lock until the command    *)
(* is done, across every request to the network: "job" is the holder.       *)
(* Meanwhile the guest goes on using the chip's registers, which take the   *)
(* socket's lock only; the chip's I/O thread and the GRE thread run.        *)
(* A socket is here what matchmaking knows of it; module W5100 has the rest.*)
(***************************************************************************)
EXTENDS Integers, FiniteSets

CONSTANTS
  Socket,     \* the chip's sockets
  Fd,         \* the descriptors a process may have open
  MaxEpochs   \* bound: OPEN, CLOSE and reset of one socket

ASSUME MatchAssumption ==
  /\ Fd \subseteq Nat \ {0} /\ IsFiniteSet(Fd) /\ IsFiniteSet(Socket)
  /\ Cardinality(Socket) + 3 <= Cardinality(Fd)
  /\ Socket \cap {"outer", "app", "bridge", "none"} = {}
  /\ MaxEpochs \in Nat \ {0}

Command == {"match", "cancel", "leave", "connect", "code", "get_peer"}
Stage == {"WAITING", "CONNECTING", "CONNECTED", "CANCELLED", "ERROR"}   \* or PREPARING
Action == {"register", "poll", "connect_to", "leave", "cancel", "failed", "connected"}
JobPc == {"none", "valid", "ready", "pause", "stun", "unpause", "http", "start",
          "stop", "join", "restore"}

VARIABLES
  chip,   \* socket |-> its nic_w5100_socket_t
  open,   \* the descriptors that are open
  ctx,    \* match_context
  compat, \* claimed, attached, generation and outer of match_compat.c
  gre,    \* gre_context: whether there is a thread, ready, stop, app and bridge
  job,    \* who holds the lock: its command, where it is, and how it ends
  reset,  \* the emulation thread is in spectranet_reset
  touched, \* the guest used the claimed socket since the claim, or had not opened it
  stolen   \* the I/O thread received while STUN waited for its answer

matchVars == <<chip, open, ctx, compat, gre, job, reset, touched, stolen>>

NoSocket == "none"
Unclaimed == [claimed |-> NoSocket, attached |-> FALSE, generation |-> 0, outer |-> 0]
NoTunnel == [pc |-> "none", ready |-> 0, stop |-> FALSE, app |-> 0, bridge |-> 0]
Idle == [pc |-> "none", cmd |-> "match", action |-> "register", after |-> "CANCELLED"]
NoMatch == [active |-> FALSE, pending |-> FALSE, stage |-> "WAITING",
            connection |-> FALSE, completion_pending |-> FALSE, generation |-> 0,
            socket |-> NoSocket, udp |-> FALSE]

MatchInit ==
  /\ chip = [s \in Socket |-> [mode |-> "CLOSED", state |-> "CLOSED", fd |-> 0,
                               generation |-> 0, bound |-> FALSE, ok_for_io |-> FALSE,
                               gre |-> FALSE, match_udp |-> FALSE,
                               match_paused |-> FALSE]]
  /\ open = {} /\ ctx = NoMatch /\ compat = Unclaimed /\ gre = NoTunnel /\ job = Idle
  /\ reset = FALSE /\ touched = FALSE /\ stolen = FALSE

\* A descriptor that is free.
NewFd(held) == CHOOSE fd \in Fd \ held : TRUE

-----------------------------------------------------------------------------
(***************************************************************************)
(* The guest's commands to the chip, and the chip's I/O thread.            *)
(***************************************************************************)

Guest(s) ==
  /\ ~reset
  /\ touched' = (touched \/ s = compat.claimed)
  /\ UNCHANGED <<ctx, compat, gre, job, reset, stolen>>

w5100_write_socket_mr(s, mode) ==
  /\ Guest(s) /\ UNCHANGED open
  /\ chip' = [chip EXCEPT ![s].mode = mode]

\* w5100_socket_clean, and init_common when there was a descriptor.
Cleaned(r) ==
  [r EXCEPT !.generation = @ + 1, !.match_udp = FALSE, !.match_paused = FALSE,
            !.fd = 0, !.bound = @ /\ r.fd = 0, !.ok_for_io = @ /\ r.fd = 0]

\* The selector that a claim left in Sn_PROTO is latched again.
w5100_socket_open(s) ==
  LET r == chip[s]
      held == open \ {r.fd}
  IN
  /\ Guest(s) /\ r.state = "CLOSED" /\ r.mode # "CLOSED" /\ r.generation < MaxEpochs
  /\ \/ /\ chip' = [chip EXCEPT ![s] = Cleaned(r)]       \* socket() fails
        /\ open' = held
     \/ LET fd == NewFd(held) IN
        /\ chip' = [chip EXCEPT ![s] =
                      [Cleaned(r) EXCEPT !.fd = fd,
                                         !.state = IF r.mode = "TCP" THEN "INIT" ELSE "UDP"]]
        /\ open' = held \cup {fd}

w5100_socket_close(s) ==
  /\ Guest(s) /\ chip[s].generation < MaxEpochs
  /\ chip' = [chip EXCEPT ![s] = [@ EXCEPT !.generation = chip[s].generation + 1, !.fd = 0,
                                           !.bound = FALSE, !.ok_for_io = FALSE,
                                           !.gre = FALSE, !.state = "CLOSED"]]
  /\ open' = open \ {chip[s].fd}

\* DISCON is no new generation.
w5100_socket_discon(s) ==
  /\ Guest(s) /\ chip[s].state \in {"ESTABLISHED", "CLOSE_WAIT"}
  /\ chip' = [chip EXCEPT ![s] = [@ EXCEPT !.fd = 0, !.bound = FALSE, !.ok_for_io = FALSE,
                                           !.state = "CLOSED"]]
  /\ open' = open \ {chip[s].fd}

\* LISTEN, CONNECT, and a UDP socket's port or SEND, bind first.  There is no
\* binding a socket without a descriptor.
Binds(s, to) ==
  \/ /\ ~chip[s].bound
     /\ chip' = [chip EXCEPT ![s].state = "CLOSED"]
  \/ /\ chip[s].bound \/ chip[s].fd # 0
     /\ chip' = [chip EXCEPT ![s] = [@ EXCEPT !.bound = TRUE, !.state = to]]

w5100_socket_listen(s) ==
  /\ Guest(s) /\ UNCHANGED open
  /\ chip[s].state = "INIT" /\ \E to \in {"INIT", "LISTEN"} : Binds(s, to)

w5100_socket_connect(s) ==
  /\ Guest(s) /\ UNCHANGED open
  /\ chip[s].state = "INIT" /\ ~chip[s].gre
  /\ \E to \in {"CLOSED", "ESTABLISHED"} : Binds(s, to)

w5100_socket_bind_port(s) ==
  /\ Guest(s) /\ UNCHANGED open
  /\ chip[s].state = "UDP" /\ ~chip[s].bound /\ Binds(s, "UDP")

\* Whether the chip's I/O thread takes notice of a socket.
Visited(r) == r.fd # 0 /\ ~r.match_paused

nic_w5100_socket_add_to_sets(s) ==
  /\ Visited(chip[s])
  /\ chip' = [chip EXCEPT ![s].ok_for_io = TRUE]
  /\ UNCHANGED <<open, ctx, compat, gre, job, reset, touched, stolen>>

(* Faulty variant: what select found is received without a second look.     *)
ProcessesPaused(s) ==
  /\ chip[s].fd # 0 /\ chip[s].ok_for_io
  /\ \/ /\ chip[s].state = "UDP" /\ UNCHANGED chip
        /\ stolen' = (stolen \/ (chip[s].match_udp /\ job.pc = "stun"))
     \/ /\ chip[s].state = "ESTABLISHED" /\ UNCHANGED stolen
        /\ chip' = [chip EXCEPT ![s].state = "CLOSE_WAIT"]
  /\ UNCHANGED <<open, ctx, compat, gre, job, reset, touched>>

\* A datagram is received, from the same queue as the outer socket's if the
\* descriptor is a copy of it; a TCP stream comes to its end.
nic_w5100_socket_process_io(s) ==
  /\ Visited(chip[s]) /\ chip[s].ok_for_io
  /\ \/ /\ chip[s].state = "UDP" /\ UNCHANGED chip
        /\ stolen' = (stolen \/ (chip[s].match_udp /\ job.pc = "stun"))
     \/ /\ chip[s].state = "ESTABLISHED" /\ UNCHANGED stolen
        /\ chip' = [chip EXCEPT ![s].state = "CLOSE_WAIT"]
  /\ UNCHANGED <<open, ctx, compat, gre, job, reset, touched>>

-----------------------------------------------------------------------------
(***************************************************************************)
(* The thread of match_lwip_worker.  It fails for good while it sets up;   *)
(* later a datagram it could not send is forgotten in the next round.      *)
(***************************************************************************)

\* The claimed socket still has the descriptor that matchmaking gave it.
Ours(s) == chip[s].generation = compat.generation
Attached == compat.attached /\ Ours(compat.claimed) /\ chip[compat.claimed].fd # 0

Tunnel == UNCHANGED <<chip, open, ctx, compat, job, reset, touched, stolen>>

GreReady ==
  /\ Tunnel /\ gre.pc \in {"setup", "up"} /\ ~gre.stop
  /\ gre' = [gre EXCEPT !.pc = "up", !.ready = 1]

GreFails ==
  /\ Tunnel /\ gre.pc \in {"setup", "up"}
  /\ \E pc \in {gre.pc, "done"} \ {"setup"} : gre' = [gre EXCEPT !.pc = pc, !.ready = -1]

\* It was told to stop, or the guest closed the other end of the bridge.
GreExits ==
  /\ Tunnel /\ gre.pc \in {"setup", "up"}
  /\ gre.stop \/ (gre.pc = "up" /\ gre.app = 0 /\ ~Attached)
  /\ gre' = [gre EXCEPT !.pc = "done"]

-----------------------------------------------------------------------------
(***************************************************************************)
(* match_command.                                                          *)
(***************************************************************************)

Jobs == UNCHANGED <<reset, stolen>>
Begin(cmd) == job.pc = "none" /\ ~reset /\ Jobs

\* The next of a job's steps; "none" releases the lock.
Goes(pc) == job' = IF pc = "none" THEN Idle ELSE [job EXCEPT !.pc = pc]
Ends == job' = Idle
Stops(after) == job' = [Idle EXCEPT !.pc = "stop", !.after = after]

match_compat_claim(s) ==
  LET fd == NewFd(open) IN
  /\ chip[s].mode # "CLOSED" /\ (chip[s].mode = "TCP" => chip[s].state = "INIT")
  /\ chip' = [chip EXCEPT ![s] = [@ EXCEPT !.fd = 0, !.ok_for_io = FALSE,
                                           !.gre = chip[s].mode = "TCP"]]
  /\ open' = (open \ {chip[s].fd}) \cup {fd}
  /\ compat' = [claimed |-> s, attached |-> FALSE,
                generation |-> chip[s].generation, outer |-> fd]

match_compat_valid ==
  /\ chip[ctx.socket].generation = ctx.generation
  /\ chip[ctx.socket].mode # "CLOSED"

\* Cancelling or leaving a match: the server is told first.
CommandLeaves(cmd) ==
  /\ Begin(cmd) /\ cmd \in {"cancel", "leave"}
  /\ IF ctx.active THEN job' = [Idle EXCEPT !.pc = "http", !.action = cmd]
                   ELSE Stops("CANCELLED")
  /\ UNCHANGED <<chip, open, ctx, compat, gre, touched>>

\* Without a match the only command that gets further is MATCH, after a name was
\* resolved, with a socket that can be claimed.
CommandClaims(s) ==
  /\ Begin("match") /\ ~ctx.active
  /\ \/ /\ ctx.pending /\ compat.claimed = NoSocket /\ match_compat_claim(s)
        /\ ctx' = [ctx EXCEPT !.active = TRUE, !.socket = s, !.pending = FALSE,
                     !.generation = chip[s].generation, !.udp = chip[s].mode = "UDP",
                     !.stage = "WAITING", !.connection = FALSE]
        /\ job' = [Idle EXCEPT !.pc = "valid"]
        /\ touched' = (chip[s].mode = "UDP" /\ chip[s].state # "UDP")
     \/ /\ ctx' = [ctx EXCEPT !.stage = "ERROR"]
        /\ UNCHANGED <<chip, open, compat, job, touched>>
  /\ UNCHANGED gre

CommandUnavailable(cmd) ==
  /\ Begin(cmd) /\ ~ctx.active /\ cmd \notin {"match", "cancel", "leave"}
  /\ ctx' = [ctx EXCEPT !.stage = "ERROR"]
  /\ UNCHANGED <<chip, open, compat, gre, job, touched>>

\* A command for the active match.
CommandBegins(cmd) ==
  /\ Begin(cmd) /\ ctx.active /\ cmd \notin {"cancel", "leave"}
  /\ job' = [Idle EXCEPT !.pc = "valid", !.cmd = cmd]
  /\ UNCHANGED <<chip, open, ctx, compat, gre, touched>>

Posts(action) == job' = [Idle EXCEPT !.pc = "pause", !.action = action]

\* Whether to post at all is up to the clock.
CommandProceeds ==
  /\ job.pc = "valid" /\ Jobs
  /\ UNCHANGED <<chip, open, compat, gre, touched>>
  /\ \/ ~match_compat_valid /\ Stops("CANCELLED") /\ UNCHANGED ctx
     \/ /\ match_compat_valid /\ job.cmd = "connect"
        /\ ctx.stage = "WAITING" /\ Posts("connect_to") /\ UNCHANGED ctx
     \/ /\ match_compat_valid /\ job.cmd = "match" /\ ctx.stage = "CONNECTING"
        /\ Goes("ready") /\ UNCHANGED ctx
     \/ /\ match_compat_valid /\ job.cmd # "get_peer"
        /\ ctx.stage \notin {"CONNECTED", "CONNECTING"}
        /\ Posts(IF ctx.connection THEN "poll" ELSE "register") /\ UNCHANGED ctx
     \/ /\ match_compat_valid /\ ~(job.cmd = "match" /\ ctx.stage = "CONNECTING")
        /\ Ends /\ UNCHANGED ctx

(* Faulty variant: the state of the socket is not brought up to date.       *)
ReadyKeepsState ==
  LET s == compat.claimed IN
  /\ chip' = [chip EXCEPT ![s] = [@ EXCEPT !.fd = gre.app, !.bound = TRUE,
                                           !.ok_for_io = FALSE]]
  /\ gre' = [gre EXCEPT !.app = 0]
  /\ compat' = [compat EXCEPT !.attached = TRUE]

\* match_compat_ready, when the tunnel is up and the socket is still the same.
HandOver ==
  LET s == compat.claimed IN
  /\ chip' = [chip EXCEPT ![s] = [@ EXCEPT !.fd = gre.app, !.bound = TRUE,
                                           !.ok_for_io = FALSE, !.state = "ESTABLISHED"]]
  /\ gre' = [gre EXCEPT !.app = 0]
  /\ compat' = [compat EXCEPT !.attached = TRUE]

IsReady == compat.attached \/ gre.ready = 1
Connected == ctx' = [ctx EXCEPT !.stage = "CONNECTED", !.completion_pending = TRUE]

CommandPolls ==
  /\ job.pc = "ready" /\ Jobs /\ UNCHANGED <<open, touched>>
  /\ \/ compat.attached /\ Connected /\ Ends /\ UNCHANGED <<chip, gre, compat>>
     \/ ~compat.attached /\ gre.ready = 1 /\ Ours(compat.claimed) /\ HandOver /\ Connected /\ Ends
     \/ ~IsReady /\ gre.ready = 0 /\ Ends /\ UNCHANGED <<chip, gre, compat, ctx>>
     \/ /\ ~compat.attached
        /\ gre.ready = -1 \/ (gre.ready = 1 /\ ~Ours(compat.claimed))
        /\ job' = [job EXCEPT !.pc = "http", !.action = "failed"]
        /\ UNCHANGED <<chip, gre, compat, ctx>>

-----------------------------------------------------------------------------
(***************************************************************************)
(* post: STUN on the outer socket, then the request.                       *)
(***************************************************************************)

PostStep == Jobs /\ UNCHANGED <<open, gre, touched>>

\* What the callers of post do when it failed.
Fails ==
  CASE job.action \in {"register", "poll", "failed"} -> Stops("ERROR")
    [] job.action \in {"leave", "cancel"}            -> Stops("CANCELLED")
    [] OTHER                                          -> Ends

Paused(p) ==
  IF compat.attached /\ Ours(compat.claimed) /\ chip[compat.claimed].match_udp
  THEN [chip EXCEPT ![compat.claimed].match_paused = p]
  ELSE chip

\* The server's name may not resolve.
StunBegins ==
  /\ job.pc = "pause" /\ PostStep /\ UNCHANGED <<ctx, compat>>
  /\ \/ chip' = Paused(TRUE) /\ Goes("stun")
     \/ Fails /\ UNCHANGED chip

StunEnds ==
  /\ job.pc = "stun" /\ PostStep /\ UNCHANGED <<chip, ctx, compat>>
  /\ Goes("unpause")

StunReturns ==
  /\ job.pc = "unpause" /\ PostStep /\ UNCHANGED <<ctx, compat>>
  /\ chip' = Paused(FALSE)
  /\ Goes("http") \/ Fails

\* The answer may name a connection: to a registration when another device chose
\* this one, to connect_to always.
HttpReturns ==
  /\ job.pc = "http" /\ PostStep /\ UNCHANGED <<chip, compat>>
  /\ \/ Fails /\ UNCHANGED ctx
     \/ /\ job.action = "register" /\ Ends
        /\ ctx' = [ctx EXCEPT !.stage = "WAITING"]
     \/ /\ job.action \in {"register", "connect_to"} /\ ~ctx.connection
        /\ ctx' = [ctx EXCEPT !.connection = TRUE] /\ Goes("start")
     \/ /\ job.action \in {"poll", "connected"} \/ (job.action = "connect_to" /\ ctx.connection)
        /\ Ends /\ UNCHANGED ctx

\* match_compat_start for a UDP socket.
StartUdp(s) ==
  LET fd == NewFd(open) IN
  /\ Ours(s)
  /\ chip' = [chip EXCEPT ![s] = [@ EXCEPT !.fd = fd, !.bound = TRUE, !.match_udp = TRUE]]
  /\ open' = open \cup {fd}
  /\ compat' = [compat EXCEPT !.attached = TRUE]
  /\ UNCHANGED gre

\* gre_start.
StartTunnel ==
  LET app == NewFd(open)
      bridge == NewFd(open \cup {app})
  IN
  /\ gre' = [pc |-> "setup", ready |-> 0, stop |-> FALSE, app |-> app, bridge |-> bridge]
  /\ open' = open \cup {app, bridge}
  /\ UNCHANGED <<chip, compat>>

Starts ==
  /\ job.pc = "start" /\ Jobs /\ UNCHANGED touched
  /\ \/ /\ IF ctx.udp THEN StartUdp(compat.claimed) ELSE StartTunnel
        /\ ctx' = [ctx EXCEPT !.stage = "CONNECTING"]
        /\ Ends
     \/ Fails /\ UNCHANGED <<chip, open, ctx, compat, gre>>

-----------------------------------------------------------------------------
(***************************************************************************)
(* match_compat_release, and its callers.                                  *)
(***************************************************************************)

Releases == UNCHANGED <<reset, stolen>>

\* gre_stop.
StopTunnel ==
  /\ job.pc = "stop" /\ Releases /\ UNCHANGED touched
  /\ gre' = [gre EXCEPT !.stop = TRUE] /\ Goes("join")
  /\ UNCHANGED <<chip, open, ctx, compat>>

(* Faulty variant: the outer socket is closed before the thread has ended.  *)
CloseWithoutJoin ==
  /\ job.pc = "join" /\ Releases /\ UNCHANGED touched
  /\ gre' = [gre EXCEPT !.app = 0, !.bridge = 0]
  /\ open' = open \ {gre.app, gre.bridge, compat.outer}
  /\ compat' = [compat EXCEPT !.outer = 0]
  /\ Goes("restore") /\ UNCHANGED <<chip, ctx>>

\* The thread is joined, its bridge and the outer socket are closed.
JoinTunnel ==
  /\ job.pc = "join" /\ gre.pc \in {"none", "done"} /\ Releases /\ UNCHANGED touched
  /\ gre' = NoTunnel
  /\ open' = open \ {gre.app, gre.bridge, compat.outer}
  /\ compat' = [compat EXCEPT !.outer = 0]
  /\ Goes("restore") /\ UNCHANGED <<chip, ctx>>

\* The claimed socket, if it is still the same, goes back to where OPEN left it,
\* without a descriptor.
Restored(r) ==
  [r EXCEPT !.fd = 0, !.ok_for_io = FALSE, !.bound = FALSE, !.match_udp = FALSE,
            !.gre = FALSE, !.state = IF r.mode = "UDP" THEN "UDP" ELSE "INIT"]

\* Nobody reads the rest of an old match.
After ==
  CASE job.after = "RESOLVE" -> [ctx EXCEPT !.active = FALSE, !.pending = TRUE]
    [] job.after = "RESET"   -> NoMatch
    [] OTHER                 -> [NoMatch EXCEPT !.stage = job.after]

(* Faulty variant: whatever the socket is by now.                           *)
RestoresAnySocket ==
  LET s == compat.claimed IN
  /\ IF s # NoSocket
     THEN /\ chip' = [chip EXCEPT ![s] = Restored(@)]
          /\ open' = open \ {chip[s].fd}
     ELSE UNCHANGED <<chip, open>>
  /\ compat' = Unclaimed

RestoresSocket ==
  LET s == compat.claimed IN
  /\ IF s # NoSocket /\ Ours(s)
     THEN /\ chip' = [chip EXCEPT ![s] = Restored(@)]
          /\ open' = open \ {chip[s].fd}
     ELSE UNCHANGED <<chip, open>>
  /\ compat' = Unclaimed

Restores ==
  /\ job.pc = "restore" /\ Releases /\ touched' = FALSE
  /\ RestoresSocket
  /\ ctx' = After /\ Ends
  /\ UNCHANGED gre

\* match_resolve: a name ending in @match.spx.  An active match stays, unless its
\* socket is gone.
match_resolve ==
  /\ job.pc = "none" /\ ~reset /\ Jobs
  /\ UNCHANGED <<chip, open, compat, gre, touched>>
  /\ \/ /\ ctx.active /\ ~match_compat_valid /\ UNCHANGED ctx
        /\ Stops("RESOLVE")
     \/ ~ctx.active /\ ctx' = [ctx EXCEPT !.pending = TRUE] /\ UNCHANGED job

\* match_complete, on the background worker.
match_complete ==
  /\ job.pc = "none" /\ ~reset /\ Jobs /\ ctx.completion_pending
  /\ ctx' = [ctx EXCEPT !.completion_pending = FALSE]
  /\ job' = IF ctx.active /\ ctx.stage = "CONNECTED" /\ match_compat_valid
            THEN [Idle EXCEPT !.pc = "pause", !.action = "connected"]
            ELSE Idle
  /\ UNCHANGED <<chip, open, compat, gre, touched>>

\* spectranet_reset cancels the controller's jobs and waits for them, releases the
\* match, and resets the chip.
match_reset ==
  /\ job.pc = "none" /\ ~reset /\ reset' = TRUE
  /\ \A s \in Socket : chip[s].generation < MaxEpochs
  /\ Stops("RESET")
  /\ UNCHANGED <<chip, open, ctx, compat, gre, touched, stolen>>

nic_w5100_reset ==
  /\ reset /\ job.pc = "none" /\ reset' = FALSE
  /\ chip' = [s \in Socket |-> [Cleaned(chip[s]) EXCEPT !.mode = "CLOSED",
                                      !.state = "CLOSED", !.gre = FALSE]]
  /\ open' = open \ {chip[s].fd : s \in Socket}
  /\ UNCHANGED <<ctx, compat, gre, job, touched, stolen>>

-----------------------------------------------------------------------------
Registers(s) ==
  \/ \E mode \in {"CLOSED", "TCP", "UDP"} : w5100_write_socket_mr(s, mode)
  \/ w5100_socket_open(s) \/ w5100_socket_close(s) \/ w5100_socket_discon(s)
  \/ w5100_socket_listen(s) \/ w5100_socket_connect(s) \/ w5100_socket_bind_port(s)

IoThread(s) == nic_w5100_socket_add_to_sets(s) \/ nic_w5100_socket_process_io(s)

GreThread == GreReady \/ GreFails \/ GreExits

Serves ==
  \/ CommandProceeds \/ CommandPolls
  \/ StunBegins \/ StunEnds \/ StunReturns \/ HttpReturns \/ Starts
  \/ StopTunnel \/ JoinTunnel \/ Restores

MatchNext ==
  \/ \E s \in Socket : Registers(s) \/ IoThread(s) \/ CommandClaims(s)
  \/ \E cmd \in Command : CommandLeaves(cmd) \/ CommandUnavailable(cmd) \/ CommandBegins(cmd)
  \/ GreThread \/ Serves
  \/ match_resolve \/ match_complete \/ match_reset \/ nic_w5100_reset

MatchSpec == MatchInit /\ [][MatchNext]_matchVars

-----------------------------------------------------------------------------
(***************************************************************************)
(* Properties.                                                             *)
(***************************************************************************)

MatchTypeOK ==
  /\ \A s \in Socket :
       /\ chip[s].mode \in {"CLOSED", "TCP", "UDP"} /\ chip[s].fd \in Fd \cup {0}
       /\ chip[s].state \in {"CLOSED", "INIT", "LISTEN", "ESTABLISHED", "CLOSE_WAIT", "UDP"}
       /\ chip[s].generation \in 0 .. MaxEpochs
  /\ open \subseteq Fd
  /\ ctx.stage \in Stage /\ ctx.active = (compat.claimed # NoSocket)
  /\ compat.claimed \in Socket \cup {NoSocket} /\ compat.outer \in Fd \cup {0}
  /\ gre.pc \in {"none", "setup", "up", "done"} /\ gre.ready \in {-1, 0, 1}
  /\ {gre.app, gre.bridge} \subseteq Fd \cup {0}
  /\ job.pc \in JobPc /\ job.cmd \in Command /\ job.action \in Action

\* Who may close a descriptor.
Holder == Socket \cup {"outer", "app", "bridge"}
Held(h) == CASE h = "outer"  -> compat.outer
             [] h = "app"    -> gre.app
             [] h = "bridge" -> gre.bridge
             [] OTHER        -> chip[h].fd

\* Every descriptor that is open is held once, and what is held is open, through
\* the claim, the handover to the chip, the guest's CLOSE at any time and the
\* release; while the GRE thread runs, what it borrows stays open.
FdsOwned ==
  /\ MatchTypeOK
  /\ \A h \in Holder : Held(h) # 0 => Held(h) \in open
  /\ \A h, g \in Holder : Held(h) # 0 /\ Held(h) = Held(g) => h = g
  /\ open = {Held(h) : h \in Holder} \ {0}
  /\ gre.pc \in {"setup", "up"} => compat.outer # 0 /\ gre.bridge # 0

\* "OPEN/close epochs protect matchmaking callbacks" (w5100_internals.h): from the
\* claim on, a command changes the claimed socket only, and that only until the
\* guest closes or opens it.
ReopenedUntouched ==
  [][ Serves => \A s \in Socket :
        chip'[s] # chip[s] => s = compat.claimed /\ Ours(s) ]_matchVars

\* A match that was reported CONNECTED has a socket with a descriptor in the state
\* the guest expects, if the guest left it alone meanwhile.
ConnectedUsable ==
  ctx.active /\ ctx.stage = "CONNECTED" /\ ~touched =>
    LET r == chip[ctx.socket] IN
    /\ r.generation = ctx.generation /\ r.fd # 0
    /\ r.state \in (IF ctx.udp THEN {"UDP"} ELSE {"ESTABLISHED", "CLOSE_WAIT"})

\* The I/O thread never takes a datagram off the outer socket's queue while STUN
\* waits there for its answer.
StunUndisturbed == ~stolen

=============================================================================
