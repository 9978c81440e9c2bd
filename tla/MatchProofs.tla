---------------------------- MODULE MatchProofs ----------------------------
(* Proofs about matchmaking: who owns which descriptor, and what the guest    *)
(* and the chip's I/O thread find of the socket that a match claimed.         *)
EXTENDS Match, FiniteSetTheorems, TLAPS

-----------------------------------------------------------------------------
(* There is always a descriptor to open: whoever opens one holds none yet.    *)

LEMMA OneMore ==
  ASSUME NEW S, IsFiniteSet(S), NEW x
  PROVE  /\ IsFiniteSet(S \union {x})
         /\ Cardinality(S) \in Nat /\ Cardinality(S \union {x}) \in Nat
         /\ Cardinality(S \union {x}) <= Cardinality(S) + 1
<1>1. IsFiniteSet(S \union {x})
  BY FS_AddElement
<1>2. Cardinality(S) \in Nat /\ Cardinality(S \union {x}) \in Nat
  BY <1>1, FS_CardinalityType
<1>3. Cardinality(S \union {x}) = IF x \in S THEN Cardinality(S) ELSE Cardinality(S) + 1
  BY FS_AddElement
<1> QED
  BY <1>1, <1>2, <1>3

LEMMA HolderCount ==
  /\ IsFiniteSet(Holder) /\ IsFiniteSet(Fd)
  /\ Cardinality(Holder) \in Nat /\ Cardinality(Holder) <= Cardinality(Fd)
  /\ Cardinality(Fd) \in Nat
<1>1. IsFiniteSet(Socket) /\ IsFiniteSet(Fd) /\ Cardinality(Socket) + 3 <= Cardinality(Fd)
  BY MatchAssumption
<1>2. Cardinality(Fd) \in Nat
  BY <1>1, FS_CardinalityType
<1>3. PICK A : A = Socket \union {"outer"}
  OBVIOUS
<1>4. PICK B : B = A \union {"app"}
  OBVIOUS
<1>5. IsFiniteSet(A) /\ Cardinality(A) \in Nat /\ Cardinality(Socket) \in Nat
      /\ Cardinality(A) <= Cardinality(Socket) + 1
  BY <1>1, <1>3, OneMore
<1>6. IsFiniteSet(B) /\ Cardinality(B) \in Nat /\ Cardinality(B) <= Cardinality(A) + 1
  BY <1>4, <1>5, OneMore
<1>7. Holder = B \union {"bridge"}
  BY <1>3, <1>4 DEF Holder
<1>8. IsFiniteSet(Holder) /\ Cardinality(Holder) \in Nat
      /\ Cardinality(Holder) <= Cardinality(B) + 1
  BY <1>6, <1>7, OneMore
<1> QED
  BY <1>1, <1>2, <1>5, <1>6, <1>8

LEMMA Spare ==
  ASSUME NEW hs \in SUBSET Holder, hs # Holder, NEW held, NEW g,
         \A fd \in held : \E h \in hs : g[h] = fd
  PROVE  NewFd(held) \in Fd \ held
<1>1. Fd \ held # {}
  <2> SUFFICES ASSUME Fd \subseteq held PROVE FALSE
    OBVIOUS
  <2>1. IsFiniteSet(hs) /\ Cardinality(hs) < Cardinality(Fd)
    <3>1. /\ IsFiniteSet(hs) /\ Cardinality(hs) <= Cardinality(Holder)
          /\ Cardinality(hs) # Cardinality(Holder)
      BY HolderCount, FS_Subset
    <3>2. Cardinality(hs) \in Nat
      BY <3>1, FS_CardinalityType
    <3> QED
      BY <3>1, <3>2, HolderCount
  <2> DEFINE f == [fd \in Fd |-> CHOOSE h \in hs : g[h] = fd]
  <2>2. \A fd \in Fd : f[fd] \in hs /\ g[f[fd]] = fd
    OBVIOUS
  <2>3. f \in [Fd -> hs]
    BY <2>2
  <2> HIDE DEF f
  <2>4. \E x, y \in Fd : x # y /\ f[x] = f[y]
    BY <2>1, <2>3, HolderCount, FS_PigeonHole
  <2> QED
    BY <2>2, <2>4
<1> QED
  BY <1>1 DEF NewFd

-----------------------------------------------------------------------------
(* The inductive invariant.                                                  *)

ChipType ==
  [mode : {"CLOSED", "TCP", "UDP"},
   state : {"CLOSED", "INIT", "LISTEN", "ESTABLISHED", "CLOSE_WAIT", "UDP"},
   fd : Fd \union {0}, generation : 0 .. MaxEpochs, bound : BOOLEAN, ok_for_io : BOOLEAN,
   gre : BOOLEAN, match_udp : BOOLEAN, match_paused : BOOLEAN]
ContextType ==
  [active : BOOLEAN, pending : BOOLEAN, stage : Stage, connection : BOOLEAN,
   completion_pending : BOOLEAN, generation : 0 .. MaxEpochs,
   socket : Socket \union {NoSocket}, udp : BOOLEAN]
CompatType ==
  [claimed : Socket \union {NoSocket}, attached : BOOLEAN, generation : 0 .. MaxEpochs,
   outer : Fd \union {0}]
TunnelType ==
  [pc : {"none", "setup", "up", "done"}, ready : {-1, 0, 1}, stop : BOOLEAN,
   app : Fd \union {0}, bridge : Fd \union {0}]
JobType ==
  [pc : JobPc, cmd : Command, action : Action,
   after : {"CANCELLED", "ERROR", "RESOLVE", "RESET"}]

\* The records' types; MatchTypeOK names the fields a reader asks about.
MatchShapes ==
  /\ chip \in [Socket -> ChipType] /\ open \subseteq Fd
  /\ ctx \in ContextType /\ compat \in CompatType
  /\ gre \in TunnelType /\ job \in JobType

\* FdsOwned without the names of the holders.
ChipOwns ==
  \A s \in Socket : chip[s].fd # 0 =>
    /\ chip[s].fd \in open
    /\ chip[s].fd # compat.outer /\ chip[s].fd # gre.app /\ chip[s].fd # gre.bridge
    /\ \A t \in Socket : t # s => chip[t].fd # chip[s].fd
MatchOwns ==
  /\ compat.outer # 0 => /\ compat.outer \in open
                         /\ compat.outer # gre.app /\ compat.outer # gre.bridge
  /\ gre.app # 0 => gre.app \in open /\ gre.app # gre.bridge
  /\ gre.bridge # 0 => gre.bridge \in open
NothingLeaks ==
  \A fd \in open : \/ fd = compat.outer \/ fd = gre.app \/ fd = gre.bridge
                   \/ \E s \in Socket : chip[s].fd = fd

\* What is claimed, and what a claim has before it is given up.
Claims ==
  /\ ctx.active = (compat.claimed # NoSocket)
  /\ ctx.active => /\ ctx.socket = compat.claimed /\ ctx.generation = compat.generation
                   /\ compat.generation <= chip[compat.claimed].generation
  /\ ctx.active /\ job.pc # "restore" => compat.outer # 0
  /\ ~ctx.active => compat.outer = 0 /\ ~compat.attached /\ gre.pc = "none"
  /\ job.pc \notin {"none", "stop", "join", "restore"} => ctx.active
  /\ job.pc = "restore" => compat.outer = 0 /\ gre.pc = "none"

\* A connection is begun once for each claim, and until it was handed over the
\* socket has no descriptor.
Connects ==
  /\ gre.pc = "none" => gre.app = 0 /\ gre.bridge = 0 /\ gre.ready = 0
  /\ gre.pc # "none" => ~ctx.udp
  /\ gre.pc \in {"setup", "up"} => gre.bridge # 0
  /\ gre.pc # "none" /\ ~compat.attached => gre.app # 0
  /\ ctx.active /\ (~ctx.connection \/ job.pc = "start") => gre.pc = "none" /\ ~compat.attached
  /\ ctx.active /\ ~compat.attached /\ Ours(compat.claimed) => chip[compat.claimed].fd = 0
  /\ ctx.active /\ ctx.stage = "CONNECTED" => compat.attached
  /\ job.pc = "start" => ctx.connection

\* A socket the guest left alone is as the claim and the hand-over left it.
LeftAlone ==
  ctx.active /\ ~touched =>
    LET r == chip[compat.claimed] IN
    /\ Ours(compat.claimed)
    /\ ctx.udp => r.state = "UDP"
    /\ compat.attached => r.fd # 0
    /\ compat.attached /\ ~ctx.udp => r.state \in {"ESTABLISHED", "CLOSE_WAIT"}

\* A copy of the outer socket is where matchmaking put it, and paused during STUN.
CopyKnown ==
  \A s \in Socket : chip[s].match_udp /\ chip[s].fd # 0 =>
    /\ s = compat.claimed /\ compat.attached /\ Ours(s)
    /\ job.pc = "stun" => chip[s].match_paused

\* During a reset the match is being released, or is gone, and the guest is stopped.
Resets ==
  reset => /\ \A s \in Socket : chip[s].generation < MaxEpochs
           /\ job.pc \in {"none", "stop", "join", "restore"}
           /\ job.pc = "none" => ~ctx.active

MatchKnown ==
  /\ MatchShapes /\ ChipOwns /\ MatchOwns /\ NothingLeaks
  /\ Claims /\ Connects /\ LeftAlone /\ CopyKnown

MatchIInv == MatchKnown /\ Resets /\ ~stolen

-----------------------------------------------------------------------------
LEMMA OpenSpare ==
  ASSUME MatchKnown, NEW s \in Socket
  PROVE  NewFd(open \ {chip[s].fd}) \in Fd \ (open \ {chip[s].fd})
<1> DEFINE hs == Holder \ {s}
           g == [h \in hs |-> Held(h)]
<1>1. hs # Holder /\ hs \in SUBSET Holder
  BY DEF Holder
<1>2. ASSUME NEW fd \in open \ {chip[s].fd} PROVE \E h \in hs : g[h] = fd
  <2>1. CASE fd = compat.outer
    BY <2>1, MatchAssumption DEF Holder, Held
  <2>2. CASE fd = gre.app
    BY <2>2, MatchAssumption DEF Holder, Held
  <2>3. CASE fd = gre.bridge
    BY <2>3, MatchAssumption DEF Holder, Held
  <2>4. CASE \E t \in Socket : chip[t].fd = fd
    <3>1. PICK t \in Socket : chip[t].fd = fd
      BY <2>4
    <3>2. t \in hs
      BY <3>1 DEF Holder
    <3>3. Held(t) = fd
      BY <3>1, MatchAssumption DEF Held
    <3> QED
      BY <3>2, <3>3
  <2> QED
    BY <2>1, <2>2, <2>3, <2>4 DEF MatchKnown, NothingLeaks
<1> HIDE DEF hs, g
<1> QED
  BY <1>1, <1>2, Spare

\* With no match nothing but the chip's sockets has a descriptor.
LEMMA ClaimSpare ==
  ASSUME MatchKnown, ~ctx.active
  PROVE  NewFd(open) \in Fd \ open
<1> DEFINE g == [h \in Socket |-> chip[h].fd]
<1>1. Socket # Holder /\ Socket \in SUBSET Holder
  BY MatchAssumption DEF Holder
<1>2. ASSUME NEW fd \in open PROVE \E h \in Socket : g[h] = fd
  <2>1. compat.outer = 0 /\ gre.app = 0 /\ gre.bridge = 0 /\ fd # 0
    BY MatchAssumption DEF MatchKnown, MatchShapes, Claims, Connects
  <2> QED
    BY <2>1 DEF MatchKnown, NothingLeaks
<1> HIDE DEF g
<1> QED
  BY <1>1, <1>2, Spare

\* Before the connection begins it is the chip's sockets and the outer socket.
LEMMA StartSpare ==
  ASSUME MatchKnown, job.pc = "start"
  PROVE  /\ NewFd(open) \in Fd \ open
         /\ NewFd(open \union {NewFd(open)}) \in Fd \ (open \union {NewFd(open)})
<1> DEFINE hs == Holder \ {"bridge"}
           g == [h \in hs |-> IF h = "outer" THEN compat.outer
                              ELSE IF h = "app" THEN NewFd(open) ELSE chip[h].fd]
<1>1. hs # Holder /\ hs \in SUBSET Holder
  BY DEF Holder
<1>2. ASSUME NEW fd \in open PROVE \E h \in hs : g[h] = fd
  <2>1. gre.app = 0 /\ gre.bridge = 0 /\ fd # 0
    BY MatchAssumption DEF MatchKnown, MatchShapes, Claims, Connects
  <2>2. CASE fd = compat.outer
    BY <2>2 DEF Holder
  <2>3. CASE \E t \in Socket : chip[t].fd = fd
    BY <2>3, MatchAssumption DEF Holder
  <2> QED
    BY <2>1, <2>2, <2>3 DEF MatchKnown, NothingLeaks
<1>3. \E h \in hs : g[h] = NewFd(open)
  BY DEF Holder
<1> HIDE DEF hs, g
<1>4. NewFd(open) \in Fd \ open
  BY <1>1, <1>2, Spare
<1>5. \A fd \in open \union {NewFd(open)} : \E h \in hs : g[h] = fd
  BY <1>2, <1>3
<1> DEFINE held == open \union {NewFd(open)}
<1>6. \A fd \in held : \E h \in hs : g[h] = fd
  BY <1>5
<1> HIDE DEF held
<1>7. NewFd(held) \in Fd \ held
  BY <1>1, <1>6, Spare
<1> QED
  BY <1>4, <1>7 DEF held


-----------------------------------------------------------------------------
(* Records.                                                                  *)

\* One socket changes.
LEMMA OneSocket ==
  ASSUME NEW f \in [Socket -> ChipType], NEW s \in Socket, NEW r \in ChipType, NEW g,
         g = [f EXCEPT ![s] = r]
  PROVE  g \in [Socket -> ChipType] /\ g[s] = r /\ \A t \in Socket : t # s => g[t] = f[t]
OBVIOUS

\* Epochs are numbers.
LEMMA Epochs ==
  ASSUME NEW n \in 0 .. MaxEpochs
  PROVE  n \in Int /\ MaxEpochs \in Int /\ 0 <= n /\ n <= MaxEpochs
BY MatchAssumption

LEMMA ChipEpoch == \A r \in ChipType : r.generation \in 0 .. MaxEpochs
BY DEF ChipType

\* Where the job goes next.
LEMMA JobGoes ==
  ASSUME job \in JobType, NEW pc \in JobPc, Goes(pc)
  PROVE  job' \in JobType /\ job'.pc = pc
BY DEF JobType, JobPc, Goes, Idle, Command, Action

LEMMA JobEnds == Ends => job' \in JobType /\ job'.pc = "none"
BY DEF JobType, JobPc, Ends, Idle, Command, Action

LEMMA JobStops ==
  ASSUME NEW after \in {"CANCELLED", "ERROR", "RESOLVE", "RESET"}, Stops(after)
  PROVE  job' \in JobType /\ job'.pc = "stop"
BY DEF JobType, JobPc, Stops, Idle, Command, Action

LEMMA JobPosts ==
  ASSUME NEW action \in Action, Posts(action)
  PROVE  job' \in JobType /\ job'.pc = "pause"
BY DEF JobType, JobPc, Posts, Idle, Command, Action

LEMMA JobFails ==
  ASSUME Fails
  PROVE  job' \in JobType /\ job'.pc \in {"none", "stop"}
<1>1. Stops("ERROR") \/ Stops("CANCELLED") \/ Ends
  BY DEF Fails
<1> QED
  BY <1>1, JobStops, JobEnds

-----------------------------------------------------------------------------
(* Steps that open, close and hand over nothing.                             *)

SocketsKept ==
  /\ chip' \in [Socket -> ChipType]
  /\ \A s \in Socket :
       /\ chip'[s].fd = chip[s].fd /\ chip'[s].generation = chip[s].generation
       /\ chip'[s].match_udp = chip[s].match_udp
       /\ \/ chip'[s].state = chip[s].state
          \/ chip[s].state = "ESTABLISHED" /\ chip'[s].state = "CLOSE_WAIT"

MatchKept ==
  /\ ctx' \in ContextType
  /\ ctx'.active = ctx.active /\ ctx'.socket = ctx.socket
  /\ ctx'.generation = ctx.generation /\ ctx'.udp = ctx.udp
  /\ ctx.connection => ctx'.connection
  /\ ctx.active /\ ctx'.stage = "CONNECTED" => ctx.stage = "CONNECTED" \/ compat.attached

JobMoves ==
  /\ job' \in JobType
  /\ job'.pc = "restore" <=> job.pc = "restore"
  /\ job'.pc \notin {"none", "stop", "join", "restore"} => ctx.active
  /\ job'.pc = "start" => ctx'.connection /\ (job.pc = "start" \/ ~ctx.connection)
  /\ job'.pc = "stun" =>
       \A s \in Socket : chip[s].match_udp /\ chip[s].fd # 0 => chip'[s].match_paused

LEMMA QuietStep ==
  ASSUME MatchKnown, SocketsKept, MatchKept, JobMoves, UNCHANGED <<open, compat, gre, touched>>
  PROVE  MatchKnown'
<1> USE DEF MatchKnown
<1>1. /\ compat' = compat /\ gre' = gre /\ open' = open /\ touched' = touched
      /\ \A s \in Socket : Ours(s)' = Ours(s)
  BY DEF SocketsKept, Ours
<1>2. ctx.active => compat.claimed \in Socket
  BY DEF MatchShapes, CompatType, Claims
<1>3. MatchShapes'
  BY <1>1 DEF MatchShapes, SocketsKept, MatchKept, JobMoves
<1>4. ChipOwns' /\ MatchOwns'
  BY <1>1 DEF ChipOwns, MatchOwns, SocketsKept
<1>5. NothingLeaks'
  BY <1>1 DEF NothingLeaks, SocketsKept
<1>6. Claims'
  BY <1>1, <1>2 DEF Claims, SocketsKept, MatchKept, JobMoves
<1>7. Connects'
  BY <1>1, <1>2 DEF Connects, SocketsKept, MatchKept, JobMoves
<1>8. LeftAlone'
  BY <1>1, <1>2 DEF LeftAlone, SocketsKept, MatchKept
<1>9. CopyKnown'
  BY <1>1 DEF CopyKnown, SocketsKept, JobMoves
<1> QED
  BY <1>3, <1>4, <1>5, <1>6, <1>7, <1>8, <1>9

\* The chip is left alone altogether.
LEMMA SocketsStay == MatchKnown /\ UNCHANGED chip => SocketsKept
BY DEF MatchKnown, MatchShapes, SocketsKept

LEMMA MatchStays == MatchKnown /\ UNCHANGED ctx => MatchKept
BY DEF MatchKnown, MatchShapes, MatchKept

-----------------------------------------------------------------------------
(* The guest and the chip's I/O thread.                                      *)

\* What a register write or a command of the guest does to its socket: the descriptor
\* stays, is closed, or is replaced in a new epoch, which is no copy.
GuestTouches(s) ==
  /\ UNCHANGED <<ctx, compat, gre, job>>
  /\ touched' = (touched \/ s = compat.claimed)
  /\ \E r \in ChipType :
       /\ chip' = [chip EXCEPT ![s] = r]
       /\ r.generation >= chip[s].generation
       /\ \/ /\ r.fd = chip[s].fd /\ open' = open
             /\ r.generation = chip[s].generation /\ r.match_udp = chip[s].match_udp
             /\ r.match_paused = chip[s].match_paused
          \/ r.fd = 0 /\ open' = open \ {chip[s].fd}
          \/ /\ r.fd \in Fd \ (open \ {chip[s].fd})
             /\ open' = (open \ {chip[s].fd}) \union {r.fd}
             /\ r.generation > chip[s].generation /\ ~r.match_udp

LEMMA GuestStep ==
  ASSUME MatchKnown, NEW s \in Socket, GuestTouches(s)
  PROVE  MatchKnown'
<1> USE DEF MatchKnown
<1>1. PICK r \in ChipType :
        /\ chip' = [chip EXCEPT ![s] = r]
        /\ r.generation >= chip[s].generation
        /\ \/ /\ r.fd = chip[s].fd /\ open' = open
              /\ r.generation = chip[s].generation /\ r.match_udp = chip[s].match_udp
              /\ r.match_paused = chip[s].match_paused
           \/ r.fd = 0 /\ open' = open \ {chip[s].fd}
           \/ /\ r.fd \in Fd \ (open \ {chip[s].fd})
              /\ open' = (open \ {chip[s].fd}) \union {r.fd}
              /\ r.generation > chip[s].generation /\ ~r.match_udp
  BY DEF GuestTouches
<1>2. /\ ctx' = ctx /\ compat' = compat /\ gre' = gre /\ job' = job
      /\ touched' = (touched \/ s = compat.claimed)
  BY DEF GuestTouches
<1>3. chip' \in [Socket -> ChipType] /\ chip'[s] = r /\ \A t \in Socket : t # s => chip'[t] = chip[t]
  BY <1>1, OneSocket DEF MatchShapes
<1>4. 0 \notin Fd /\ open \subseteq Fd /\ r.fd \in Fd \union {0} /\ chip[s].fd \in Fd \union {0}
  BY MatchAssumption DEF MatchShapes, ChipType
<1>5. /\ \A t \in Socket : chip'[t].generation >= chip[t].generation
      /\ ctx.active => compat.claimed \in Socket
      /\ \A t \in Socket : chip[t].generation \in Int /\ chip'[t].generation \in Int
      /\ compat.generation \in Int
  <2>1. \A x \in ChipType : x.generation \in Int
    BY ChipEpoch, Epochs
  <2>2. \A t \in Socket : chip[t] \in ChipType /\ chip'[t] \in ChipType
    BY <1>3 DEF MatchShapes
  <2>3. \A t \in Socket : chip'[t].generation >= chip[t].generation
    BY <1>1, <1>3, <2>1, <2>2
  <2>4. compat.generation \in Int
    BY Epochs DEF MatchShapes, CompatType
  <2>5. ctx.active => compat.claimed \in Socket
    BY DEF MatchShapes, CompatType, Claims
  <2> QED
    BY <2>1, <2>2, <2>3, <2>4, <2>5
<1> HIDE DEF MatchKnown
<1>6. MatchShapes /\ ChipOwns /\ MatchOwns /\ NothingLeaks /\ Claims /\ Connects /\ LeftAlone /\ CopyKnown
  BY DEF MatchKnown
<1>7. MatchShapes'
  BY <1>1, <1>2, <1>3, <1>4, <1>6 DEF MatchShapes
<1>8. ChipOwns'
  <2> SUFFICES ASSUME NEW u \in Socket, chip'[u].fd # 0
               PROVE  /\ chip'[u].fd \in open'
                      /\ chip'[u].fd # compat.outer /\ chip'[u].fd # gre.app
                      /\ chip'[u].fd # gre.bridge
                      /\ \A t \in Socket : t # u => chip'[t].fd # chip'[u].fd
    BY <1>2 DEF ChipOwns
  <2>1. CASE u # s
    <3>1. chip'[u] = chip[u] /\ chip[u].fd # 0
      BY <1>3, <2>1
    <3>2. /\ chip[u].fd \in open /\ chip[u].fd # chip[s].fd
          /\ chip[u].fd # compat.outer /\ chip[u].fd # gre.app /\ chip[u].fd # gre.bridge
          /\ \A t \in Socket : t # u => chip[t].fd # chip[u].fd
      BY <1>6, <2>1, <3>1 DEF ChipOwns
    <3> QED
      BY <1>1, <1>3, <2>1, <3>1, <3>2
  <2>2. CASE u = s /\ r.fd = chip[s].fd
    BY <1>1, <1>3, <1>6, <2>2 DEF ChipOwns
  <2>3. CASE u = s /\ r.fd # chip[s].fd
    <3>1. r.fd # 0 /\ r.fd \notin open /\ r.fd \in open'
      BY <1>1, <1>3, <2>3
    <3>2. /\ \A t \in Socket : t # s => chip[t].fd # r.fd
          /\ r.fd # compat.outer /\ r.fd # gre.app /\ r.fd # gre.bridge
      BY <1>6, <3>1 DEF ChipOwns, MatchOwns
    <3> QED
      BY <1>3, <2>3, <3>1, <3>2
  <2> QED
    BY <2>1, <2>2, <2>3
<1>9. MatchOwns'
  <2>1. \A fd \in {compat.outer, gre.app, gre.bridge} : fd # 0 /\ fd \in open => fd \in open'
    BY <1>1, <1>6 DEF ChipOwns
  <2> QED
    BY <1>2, <1>6, <2>1 DEF MatchOwns
<1>10. NothingLeaks'
  <2> SUFFICES ASSUME NEW fd \in open'
               PROVE  \/ fd = compat.outer \/ fd = gre.app \/ fd = gre.bridge
                      \/ \E t \in Socket : chip'[t].fd = fd
    BY <1>2 DEF NothingLeaks
  <2>1. CASE fd = r.fd
    BY <1>3, <2>1
  <2>2. CASE fd # r.fd
    <3>1. fd \in open /\ fd # chip[s].fd
      BY <1>1, <2>2
    <3> QED
      BY <1>3, <1>6, <3>1 DEF NothingLeaks
  <2> QED
    BY <2>1, <2>2
<1>11. Claims'
  BY <1>2, <1>5, <1>6 DEF Claims
<1>12. Connects'
  <2>1. ctx.active /\ ~compat.attached /\ chip'[compat.claimed].generation = compat.generation
        => chip'[compat.claimed].fd = 0
    <3> SUFFICES ASSUME ctx.active, ~compat.attached,
                        chip'[compat.claimed].generation = compat.generation
                 PROVE  chip'[compat.claimed].fd = 0
      OBVIOUS
    <3>1. chip[compat.claimed].generation = compat.generation
      BY <1>5, <1>6 DEF Claims
    <3>2. chip[compat.claimed].fd = 0
      BY <1>6, <3>1 DEF Connects, Ours
    <3> QED
      BY <1>1, <1>3, <1>5, <3>1, <3>2
  <2> QED
    BY <1>2, <1>6, <2>1 DEF Connects, Ours
<1>13. LeftAlone'
  BY <1>2, <1>3, <1>5, <1>6 DEF LeftAlone, Ours
<1>14. CopyKnown'
  <2> SUFFICES ASSUME NEW t \in Socket, chip'[t].match_udp, chip'[t].fd # 0
               PROVE  /\ t = compat.claimed /\ compat.attached
                      /\ chip'[t].generation = compat.generation
                      /\ job.pc = "stun" => chip'[t].match_paused
    BY <1>2 DEF CopyKnown, Ours
  <2>1. /\ chip[t].match_udp /\ chip[t].fd # 0 /\ chip'[t].generation = chip[t].generation
        /\ chip'[t].match_paused = chip[t].match_paused
    BY <1>1, <1>3
  <2> QED
    BY <1>6, <2>1 DEF CopyKnown, Ours
<1> QED
  BY <1>7, <1>8, <1>9, <1>10, <1>11, <1>12, <1>13, <1>14 DEF MatchKnown

LEMMA CleanedType ==
  ASSUME NEW r \in ChipType, r.generation < MaxEpochs
  PROVE  /\ Cleaned(r) \in ChipType /\ Cleaned(r).fd = 0 /\ ~Cleaned(r).match_udp
         /\ Cleaned(r).generation = r.generation + 1
<1>1. PICK b \in BOOLEAN : b = (r.bound /\ r.fd = 0)
  OBVIOUS
<1>2. PICK io \in BOOLEAN : io = (r.ok_for_io /\ r.fd = 0)
  OBVIOUS
<1>3. PICK g \in 0 .. MaxEpochs : g = r.generation + 1
  BY ChipEpoch, Epochs
<1>4. Cleaned(r) = [r EXCEPT !.generation = g, !.match_udp = FALSE, !.match_paused = FALSE,
                             !.fd = 0, !.bound = b, !.ok_for_io = io]
  BY <1>1, <1>2, <1>3 DEF Cleaned
<1> QED
  BY <1>3, <1>4 DEF ChipType

LEMMA GuestTouching ==
  ASSUME MatchKnown, NEW s \in Socket, Registers(s)
  PROVE  GuestTouches(s)
<1>1. chip[s] \in ChipType /\ chip \in [Socket -> ChipType] /\ 0 \notin Fd
  BY MatchAssumption DEF MatchKnown, MatchShapes
<1>2. chip[s].generation \in Int /\ MaxEpochs \in Int /\ 0 <= chip[s].generation
  BY <1>1, ChipEpoch, Epochs
<1>3. ASSUME Guest(s), UNCHANGED open, NEW r \in ChipType, chip' = [chip EXCEPT ![s] = r],
             r.fd = chip[s].fd, r.generation = chip[s].generation,
             r.match_udp = chip[s].match_udp, r.match_paused = chip[s].match_paused
      PROVE  GuestTouches(s)
  <2>1. r.generation >= chip[s].generation
    BY <1>2, <1>3
  <2> QED
    BY <1>3, <2>1 DEF Guest, GuestTouches
<1>4. ASSUME Guest(s), open' = open \ {chip[s].fd}, NEW r \in ChipType,
             chip' = [chip EXCEPT ![s] = r], r.fd = 0, r.generation >= chip[s].generation
      PROVE  GuestTouches(s)
  BY <1>4 DEF Guest, GuestTouches
<1>5. ASSUME NEW mode \in {"CLOSED", "TCP", "UDP"}, w5100_write_socket_mr(s, mode)
      PROVE  GuestTouches(s)
  <2> DEFINE r == [chip[s] EXCEPT !.mode = mode]
  <2>1. /\ r \in ChipType /\ r.fd = chip[s].fd /\ r.generation = chip[s].generation
        /\ r.match_udp = chip[s].match_udp /\ r.match_paused = chip[s].match_paused
    BY <1>1 DEF ChipType
  <2>2. Guest(s) /\ UNCHANGED open /\ chip' = [chip EXCEPT ![s] = r]
    BY <1>1, <1>5 DEF w5100_write_socket_mr
  <2> HIDE DEF r
  <2> QED
    BY <1>3, <2>1, <2>2
<1>6. ASSUME w5100_socket_open(s)
      PROVE  GuestTouches(s)
  <2> DEFINE c == Cleaned(chip[s])
             held == open \ {chip[s].fd}
             fd == NewFd(held)
             r == [c EXCEPT !.fd = fd, !.state = IF chip[s].mode = "TCP" THEN "INIT" ELSE "UDP"]
  <2>1. Guest(s) /\ chip[s].generation < MaxEpochs
    BY <1>6 DEF w5100_socket_open
  <2>2. fd \in Fd \ held
    BY OpenSpare
  <2>3. /\ c \in ChipType /\ c.fd = 0 /\ c.generation = chip[s].generation + 1
        /\ ~c.match_udp
    BY <1>1, <2>1, CleanedType
  <2>4. \/ chip' = [chip EXCEPT ![s] = c] /\ open' = held
        \/ chip' = [chip EXCEPT ![s] = r] /\ open' = held \union {fd}
    BY <1>6 DEF w5100_socket_open
  <2> HIDE DEF c, fd
  <2>5. /\ r \in ChipType /\ r.fd = fd /\ r.generation = chip[s].generation + 1
        /\ ~r.match_udp
    BY <2>2, <2>3 DEF ChipType
  <2> HIDE DEF r
  <2>6. CASE chip' = [chip EXCEPT ![s] = c] /\ open' = held
    <3>1. c.generation >= chip[s].generation
      BY <1>2, <2>3
    <3> QED
      BY <1>4, <2>1, <2>3, <2>6, <3>1
  <2>7. CASE chip' = [chip EXCEPT ![s] = r] /\ open' = held \union {fd}
    <3>1. r.generation > chip[s].generation /\ r.generation >= chip[s].generation
      BY <1>2, <2>5
    <3> QED
      BY <2>1, <2>2, <2>5, <2>7, <3>1 DEF Guest, GuestTouches
  <2> QED
    BY <2>4, <2>6, <2>7
<1>7. ASSUME w5100_socket_close(s)
      PROVE  GuestTouches(s)
  <2>0. PICK g \in 0 .. MaxEpochs : g = chip[s].generation + 1
    BY <1>2, <1>7 DEF w5100_socket_close
  <2> DEFINE r == [chip[s] EXCEPT !.generation = g, !.fd = 0, !.bound = FALSE,
                                  !.ok_for_io = FALSE, !.gre = FALSE, !.state = "CLOSED"]
  <2>1. Guest(s) /\ chip' = [chip EXCEPT ![s] = r] /\ open' = open \ {chip[s].fd}
    BY <1>7, <2>0 DEF w5100_socket_close
  <2>2. r \in ChipType /\ r.fd = 0 /\ r.generation = chip[s].generation + 1
    BY <1>1, <2>0 DEF ChipType
  <2> HIDE DEF r
  <2>3. r.generation >= chip[s].generation
    BY <1>2, <2>2
  <2> QED
    BY <1>4, <2>1, <2>2, <2>3
<1>8. ASSUME w5100_socket_discon(s)
      PROVE  GuestTouches(s)
  <2> DEFINE r == [chip[s] EXCEPT !.fd = 0, !.bound = FALSE, !.ok_for_io = FALSE,
                                  !.state = "CLOSED"]
  <2>1. Guest(s) /\ chip' = [chip EXCEPT ![s] = r] /\ open' = open \ {chip[s].fd}
    BY <1>1, <1>8 DEF w5100_socket_discon
  <2>2. r \in ChipType /\ r.fd = 0 /\ r.generation = chip[s].generation
    BY <1>1 DEF ChipType
  <2> HIDE DEF r
  <2>3. r.generation >= chip[s].generation
    BY <1>2, <2>2
  <2> QED
    BY <1>4, <2>1, <2>2, <2>3
<1>9. ASSUME Guest(s), UNCHANGED open,
             NEW to \in {"CLOSED", "INIT", "LISTEN", "ESTABLISHED", "UDP"}, Binds(s, to)
      PROVE  GuestTouches(s)
  <2>1. CASE chip' = [chip EXCEPT ![s].state = "CLOSED"]
    <3> DEFINE r == [chip[s] EXCEPT !.state = "CLOSED"]
    <3>1. chip' = [chip EXCEPT ![s] = r]
      BY <1>1, <2>1
    <3>2. /\ r \in ChipType /\ r.fd = chip[s].fd /\ r.generation = chip[s].generation
          /\ r.match_udp = chip[s].match_udp /\ r.match_paused = chip[s].match_paused
      BY <1>1 DEF ChipType
    <3> HIDE DEF r
    <3> QED
      BY <1>3, <1>9, <3>1, <3>2
  <2>2. CASE chip' = [chip EXCEPT ![s] = [@ EXCEPT !.bound = TRUE, !.state = to]]
    <3> DEFINE r == [chip[s] EXCEPT !.bound = TRUE, !.state = to]
    <3>1. chip' = [chip EXCEPT ![s] = r]
      BY <1>1, <2>2
    <3>2. /\ r \in ChipType /\ r.fd = chip[s].fd /\ r.generation = chip[s].generation
          /\ r.match_udp = chip[s].match_udp /\ r.match_paused = chip[s].match_paused
      BY <1>1 DEF ChipType
    <3> HIDE DEF r
    <3> QED
      BY <1>3, <1>9, <3>1, <3>2
  <2> QED
    BY <1>9, <2>1, <2>2 DEF Binds
<1>10. ASSUME w5100_socket_listen(s) \/ w5100_socket_connect(s) \/ w5100_socket_bind_port(s)
       PROVE  GuestTouches(s)
  <2>1. Guest(s) /\ UNCHANGED open
    BY <1>10 DEF w5100_socket_listen, w5100_socket_connect, w5100_socket_bind_port
  <2>2. \E to \in {"CLOSED", "INIT", "LISTEN", "ESTABLISHED", "UDP"} : Binds(s, to)
    BY <1>10 DEF w5100_socket_listen, w5100_socket_connect, w5100_socket_bind_port
  <2> QED
    BY <1>9, <2>1, <2>2
<1> QED
  BY <1>5, <1>6, <1>7, <1>8, <1>10 DEF Registers

\* What the I/O thread does to a socket is nothing to matchmaking.
LEMMA IoThreadStep ==
  ASSUME MatchKnown, NEW s \in Socket, IoThread(s)
  PROVE  /\ MatchKnown' /\ (~stolen => ~stolen')
         /\ SocketsKept /\ UNCHANGED <<ctx, job, reset>>
<1>1. chip[s] \in ChipType /\ chip \in [Socket -> ChipType]
  BY DEF MatchKnown, MatchShapes
<1>2. UNCHANGED <<open, ctx, compat, gre, job, reset, touched>> /\ Visited(chip[s])
  BY DEF IoThread, nic_w5100_socket_add_to_sets, nic_w5100_socket_process_io
<1>3. \E r \in ChipType :
        /\ chip' = [chip EXCEPT ![s] = r]
        /\ r.fd = chip[s].fd /\ r.generation = chip[s].generation
        /\ r.match_udp = chip[s].match_udp /\ r.match_paused = chip[s].match_paused
        /\ r.state = chip[s].state \/ (chip[s].state = "ESTABLISHED" /\ r.state = "CLOSE_WAIT")
  <2>1. CASE nic_w5100_socket_add_to_sets(s)
    <3> DEFINE r == [chip[s] EXCEPT !.ok_for_io = TRUE]
    <3>1. chip' = [chip EXCEPT ![s] = r]
      BY <1>1, <2>1 DEF nic_w5100_socket_add_to_sets
    <3>2. /\ r \in ChipType /\ r.fd = chip[s].fd /\ r.generation = chip[s].generation
          /\ r.match_udp = chip[s].match_udp /\ r.match_paused = chip[s].match_paused
          /\ r.state = chip[s].state
      BY <1>1 DEF ChipType
    <3> HIDE DEF r
    <3> QED
      BY <3>1, <3>2
  <2>2. CASE UNCHANGED chip
    <3>1. chip' = [chip EXCEPT ![s] = chip[s]]
      BY <1>1, <2>2
    <3> QED
      BY <1>1, <3>1
  <2>3. CASE chip[s].state = "ESTABLISHED" /\ chip' = [chip EXCEPT ![s].state = "CLOSE_WAIT"]
    <3> DEFINE r == [chip[s] EXCEPT !.state = "CLOSE_WAIT"]
    <3>1. chip' = [chip EXCEPT ![s] = r]
      BY <1>1, <2>3
    <3>2. /\ r \in ChipType /\ r.fd = chip[s].fd /\ r.generation = chip[s].generation
          /\ r.match_udp = chip[s].match_udp /\ r.match_paused = chip[s].match_paused
          /\ r.state = "CLOSE_WAIT"
      BY <1>1 DEF ChipType
    <3> HIDE DEF r
    <3> QED
      BY <2>3, <3>1, <3>2
  <2> QED
    BY <2>1, <2>2, <2>3 DEF IoThread, nic_w5100_socket_process_io
<1>4. /\ SocketsKept
      /\ \A t \in Socket : chip'[t].match_paused = chip[t].match_paused
  BY <1>1, <1>3, OneSocket DEF SocketsKept
<1>5. MatchKept
  BY <1>2, MatchStays
<1>6. JobMoves
  BY <1>2, <1>4 DEF MatchKnown, MatchShapes, Claims, Connects, CopyKnown, JobMoves
<1>7. MatchKnown'
  BY <1>2, <1>4, <1>5, <1>6, QuietStep
\* A paused socket is not looked at again, so STUN's answer is not taken.
<1>8. ~(chip[s].match_udp /\ job.pc = "stun")
  <2>1. chip[s].match_udp /\ chip[s].fd # 0 /\ job.pc = "stun" => chip[s].match_paused
    BY DEF MatchKnown, CopyKnown
  <2> QED
    BY <1>2, <2>1 DEF Visited
<1>9. ~stolen => ~stolen'
  BY <1>8 DEF IoThread, nic_w5100_socket_add_to_sets, nic_w5100_socket_process_io
<1> QED
  BY <1>2, <1>4, <1>7, <1>9

-----------------------------------------------------------------------------
(* The commands, up to where a descriptor changes hands.                     *)

\* Whoever holds the lock serves an active match, except to release it.
LEMMA Serving ==
  ASSUME MatchKnown, job.pc \notin {"none", "stop", "join", "restore"}
  PROVE  ctx.active /\ compat.claimed \in Socket /\ compat.outer # 0 /\ ctx.socket = compat.claimed
BY DEF MatchKnown, MatchShapes, CompatType, Claims

\* A step of the job that changes at most the context besides.
LEMMA JobStep ==
  ASSUME MatchKnown, UNCHANGED <<chip, open, compat, gre, touched>>, MatchKept,
         job.pc # "restore", job' \in JobType, job'.pc \notin {"restore", "stun"},
         job'.pc \notin {"none", "stop", "join"} => ctx.active,
         job'.pc = "start" => ctx'.connection /\ (job.pc = "start" \/ ~ctx.connection)
  PROVE  MatchKnown'
<1>1. JobMoves
  BY DEF JobMoves
<1> QED
  BY <1>1, SocketsStay, QuietStep

\* What a command may change of its match.
LEMMA StageSet ==
  ASSUME MatchKnown, NEW stage \in Stage, ctx' = [ctx EXCEPT !.stage = stage],
         ctx.active => stage # "CONNECTED"
  PROVE  MatchKept
BY DEF MatchKnown, MatchShapes, ContextType, MatchKept

LEMMA PendingSet ==
  ASSUME MatchKnown, ctx' = [ctx EXCEPT !.pending = TRUE]
  PROVE  MatchKept
BY DEF MatchKnown, MatchShapes, ContextType, MatchKept

LEMMA CompletionTaken ==
  ASSUME MatchKnown, ctx' = [ctx EXCEPT !.completion_pending = FALSE]
  PROVE  MatchKept
BY DEF MatchKnown, MatchShapes, ContextType, MatchKept

LEMMA ConnectionMade ==
  ASSUME MatchKnown, ctx' = [ctx EXCEPT !.connection = TRUE]
  PROVE  MatchKept /\ ctx'.connection
BY DEF MatchKnown, MatchShapes, ContextType, MatchKept

LEMMA ConnectedAgain ==
  ASSUME MatchKnown, Connected, compat.attached
  PROVE  MatchKept
BY DEF MatchKnown, MatchShapes, ContextType, MatchKept, Connected, Stage

LEMMA BeginStep ==
  ASSUME MatchKnown, NEW cmd \in Command,
         CommandLeaves(cmd) \/ CommandUnavailable(cmd) \/ CommandBegins(cmd)
  PROVE  MatchKnown'
<1>1. job.pc = "none" /\ job \in JobType /\ UNCHANGED <<chip, open, compat, gre, touched>>
  BY DEF MatchKnown, MatchShapes, CommandLeaves, CommandUnavailable, CommandBegins, Begin
<1>2. CASE CommandLeaves(cmd)
  <2>1. MatchKept
    BY <1>2, MatchStays DEF CommandLeaves
  <2>2. CASE ctx.active /\ job' = [Idle EXCEPT !.pc = "http", !.action = cmd]
    <3>1. cmd \in Action
      BY <1>2 DEF CommandLeaves, Action
    <3>2. job' \in JobType /\ job'.pc = "http"
      BY <2>2, <3>1 DEF JobType, JobPc, Idle, Command
    <3> QED
      BY <1>1, <2>1, <2>2, <3>2, JobStep
  <2>3. CASE Stops("CANCELLED")
    BY <1>1, <2>1, <2>3, JobStops, JobStep
  <2> QED
    BY <1>2, <2>2, <2>3 DEF CommandLeaves
<1>3. CASE CommandUnavailable(cmd)
  <2>1. ~ctx.active /\ ctx' = [ctx EXCEPT !.stage = "ERROR"] /\ job' = job
    BY <1>3 DEF CommandUnavailable
  <2>2. MatchKept
    BY <2>1, StageSet DEF Stage
  <2> QED
    BY <1>1, <2>1, <2>2, JobStep
<1>4. CASE CommandBegins(cmd)
  <2>1. ctx.active /\ job' = [Idle EXCEPT !.pc = "valid", !.cmd = cmd] /\ MatchKept
    BY <1>4, MatchStays DEF CommandBegins
  <2>2. job' \in JobType /\ job'.pc = "valid"
    BY <2>1 DEF JobType, JobPc, Idle, Action
  <2> QED
    BY <1>1, <2>1, <2>2, JobStep
<1> QED
  BY <1>2, <1>3, <1>4

LEMMA ProceedStep ==
  ASSUME MatchKnown, CommandProceeds
  PROVE  MatchKnown'
<1>1. /\ job.pc = "valid" /\ job \in JobType /\ ctx.active
      /\ UNCHANGED <<chip, open, compat, gre, touched>> /\ MatchKept
  BY Serving, MatchStays DEF MatchKnown, MatchShapes, CommandProceeds
<1>2. \/ Stops("CANCELLED") \/ Goes("ready") \/ Ends
      \/ Posts("connect_to") \/ Posts("poll") \/ Posts("register")
  BY DEF CommandProceeds
<1>3. job' \in JobType /\ job'.pc \in {"stop", "ready", "none", "pause"}
  BY <1>1, <1>2, JobStops, JobGoes, JobEnds, JobPosts DEF JobPc, Action
<1> QED
  BY <1>1, <1>3, JobStep

-----------------------------------------------------------------------------
(* Descriptors that change hands.                                            *)

\* match_compat_ready gives the tunnel's end of the bridge to the claimed socket, which
\* has had no descriptor since the claim.
LEMMA HandOverStep ==
  ASSUME MatchKnown, job.pc = "ready", ~compat.attached, gre.ready = 1,
         Ours(compat.claimed), HandOver, Connected, Ends, UNCHANGED <<open, touched>>
  PROVE  MatchKnown'
<1> DEFINE s == compat.claimed
<1> DEFINE r == [chip[s] EXCEPT !.fd = gre.app, !.bound = TRUE, !.ok_for_io = FALSE,
                                !.state = "ESTABLISHED"]
<1>1. ctx.active /\ s \in Socket /\ compat.outer # 0
  BY Serving
<1>2. MatchShapes /\ ChipOwns /\ MatchOwns /\ NothingLeaks /\ Claims /\ Connects /\ LeftAlone /\ CopyKnown
  BY DEF MatchKnown
<1>3. gre.app # 0 /\ gre.pc # "none" /\ ~ctx.udp /\ chip[s].fd = 0 /\ ctx.connection
      /\ chip[s].generation = compat.generation
  BY <1>1, <1>2 DEF Connects, Ours
<1>4. /\ gre.app \in Fd \union {0} /\ chip[s] \in ChipType /\ compat \in CompatType
      /\ gre \in TunnelType /\ ctx \in ContextType
      /\ chip \in [Socket -> ChipType]
  BY <1>1, <1>2 DEF MatchShapes, TunnelType
<1>5. /\ r \in ChipType /\ r.fd = gre.app /\ r.generation = chip[s].generation
      /\ r.match_udp = chip[s].match_udp /\ r.state = "ESTABLISHED"
  BY <1>4 DEF ChipType
<1>6. chip' = [chip EXCEPT ![s] = r]
  BY DEF HandOver
<1> HIDE DEF r
<1>7. chip' \in [Socket -> ChipType] /\ chip'[s] = r /\ \A t \in Socket : t # s => chip'[t] = chip[t]
  BY <1>1, <1>4, <1>5, <1>6, OneSocket
<1>8. /\ gre' \in TunnelType /\ gre'.app = 0 /\ gre'.bridge = gre.bridge
      /\ gre'.pc = gre.pc /\ gre'.ready = gre.ready
  BY <1>4 DEF TunnelType, HandOver
<1>9. /\ compat' \in CompatType /\ compat'.attached /\ compat'.claimed = s
      /\ compat'.generation = compat.generation /\ compat'.outer = compat.outer
  BY <1>4 DEF CompatType, HandOver
<1>10. /\ ctx' \in ContextType /\ ctx'.active /\ ctx'.socket = ctx.socket
       /\ ctx'.generation = ctx.generation /\ ctx'.udp = ctx.udp
       /\ ctx'.connection = ctx.connection
  BY <1>1, <1>4 DEF ContextType, Connected, Stage
<1>11. job' \in JobType /\ job'.pc = "none" /\ open' = open /\ touched' = touched
  BY JobEnds
<1>12. MatchShapes'
  BY <1>2, <1>7, <1>8, <1>9, <1>10, <1>11 DEF MatchShapes
<1>13. ChipOwns'
  BY <1>2, <1>3, <1>5, <1>7, <1>8, <1>9, <1>11 DEF ChipOwns, MatchOwns
<1>14. MatchOwns'
  BY <1>2, <1>8, <1>9, <1>11 DEF MatchOwns
<1>15. NothingLeaks'
  BY <1>1, <1>2, <1>3, <1>5, <1>7, <1>8, <1>9, <1>11, MatchAssumption
  DEF NothingLeaks, MatchShapes
<1>16. Claims'
  BY <1>1, <1>2, <1>5, <1>7, <1>8, <1>9, <1>10, <1>11 DEF Claims
<1>17. Connects'
  BY <1>1, <1>2, <1>3, <1>8, <1>9, <1>10, <1>11 DEF Connects
<1>18. LeftAlone'
  BY <1>1, <1>2, <1>3, <1>5, <1>7, <1>9, <1>10, <1>11 DEF LeftAlone, Ours
<1>19. CopyKnown'
  BY <1>1, <1>2, <1>3, <1>5, <1>7, <1>9, <1>11 DEF CopyKnown, Ours
<1> QED
  BY <1>12, <1>13, <1>14, <1>15, <1>16, <1>17, <1>18, <1>19 DEF MatchKnown

\* match_compat_ready.
LEMMA PollStep ==
  ASSUME MatchKnown, CommandPolls
  PROVE  MatchKnown'
<1>1. job.pc = "ready" /\ job \in JobType /\ ctx.active /\ UNCHANGED <<open, touched>>
  BY Serving DEF MatchKnown, MatchShapes, CommandPolls
<1>2. CASE compat.attached /\ Connected /\ Ends /\ UNCHANGED <<chip, gre, compat>>
  BY <1>1, <1>2, ConnectedAgain, JobEnds, JobStep
<1>3. CASE Ends /\ UNCHANGED <<chip, gre, compat, ctx>>
  BY <1>1, <1>3, MatchStays, JobEnds, JobStep
<1>4. CASE job' = [job EXCEPT !.pc = "http", !.action = "failed"] /\ UNCHANGED <<chip, gre, compat, ctx>>
  <2>1. job' \in JobType /\ job'.pc = "http"
    BY <1>1, <1>4 DEF JobType, JobPc, Action
  <2> QED
    BY <1>1, <1>4, <2>1, MatchStays, JobStep
<1>5. CASE ~compat.attached /\ gre.ready = 1 /\ Ours(compat.claimed) /\ HandOver /\ Connected /\ Ends
  BY <1>1, <1>5, HandOverStep
<1> QED
  BY <1>2, <1>3, <1>4, <1>5 DEF CommandPolls

\* match_compat_claim: the socket's own descriptor goes, the outer socket is opened.
LEMMA ClaimStep ==
  ASSUME MatchKnown, NEW s \in Socket, CommandClaims(s)
  PROVE  MatchKnown'
<1>1. MatchShapes /\ ChipOwns /\ MatchOwns /\ NothingLeaks /\ Claims /\ Connects /\ LeftAlone /\ CopyKnown
  BY DEF MatchKnown
<1>2. /\ job.pc = "none" /\ ~ctx.active /\ gre' = gre /\ job \in JobType
      /\ ctx \in ContextType /\ chip[s] \in ChipType /\ chip \in [Socket -> ChipType]
      /\ gre \in TunnelType
  BY <1>1 DEF CommandClaims, Begin, MatchShapes
<1>3. CASE ctx' = [ctx EXCEPT !.stage = "ERROR"] /\ UNCHANGED <<chip, open, compat, job, touched>>
  <2>1. MatchKept
    BY <1>2, <1>3, StageSet DEF Stage
  <2> QED
    BY <1>2, <1>3, <2>1, JobStep
<1>4. CASE /\ match_compat_claim(s)
           /\ ctx' = [ctx EXCEPT !.active = TRUE, !.socket = s, !.pending = FALSE,
                        !.generation = chip[s].generation, !.udp = chip[s].mode = "UDP",
                        !.stage = "WAITING", !.connection = FALSE]
           /\ job' = [Idle EXCEPT !.pc = "valid"]
           /\ touched' = (chip[s].mode = "UDP" /\ chip[s].state # "UDP")
  <2> DEFINE fd == NewFd(open)
  <2>1. fd \in Fd \ open /\ fd # 0
    BY <1>2, ClaimSpare, MatchAssumption
  <2>2. PICK tcp \in BOOLEAN : tcp = (chip[s].mode = "TCP")
    OBVIOUS
  <2>3. PICK udp \in BOOLEAN : udp = (chip[s].mode = "UDP")
    OBVIOUS
  <2> DEFINE r == [chip[s] EXCEPT !.fd = 0, !.ok_for_io = FALSE, !.gre = tcp]
  <2>4. /\ r \in ChipType /\ r.fd = 0 /\ r.generation = chip[s].generation
        /\ r.state = chip[s].state
    BY <1>2, <2>2 DEF ChipType
  <2>5. /\ chip' = [chip EXCEPT ![s] = r]
        /\ open' = (open \ {chip[s].fd}) \union {fd}
        /\ compat' = [claimed |-> s, attached |-> FALSE, generation |-> chip[s].generation,
                      outer |-> fd]
    BY <1>4, <2>2 DEF match_compat_claim
  <2> HIDE DEF fd, r
  <2>6. chip' \in [Socket -> ChipType] /\ chip'[s] = r /\ \A t \in Socket : t # s => chip'[t] = chip[t]
    BY <1>2, <2>4, <2>5, OneSocket
  <2>7. chip[s].generation \in 0 .. MaxEpochs /\ chip[s].fd \in Fd \union {0}
    BY <1>2 DEF ChipType
  <2>8. /\ compat' \in CompatType /\ compat'.claimed = s /\ ~compat'.attached
        /\ compat'.generation = chip[s].generation /\ compat'.outer = fd
    BY <2>1, <2>5, <2>7 DEF CompatType
  <2>9. ctx' = [ctx EXCEPT !.active = TRUE, !.socket = s, !.pending = FALSE,
                  !.generation = chip[s].generation, !.udp = udp,
                  !.stage = "WAITING", !.connection = FALSE]
    BY <1>4, <2>3
  <2>10. /\ ctx' \in ContextType /\ ctx'.active /\ ctx'.socket = s
         /\ ctx'.generation = chip[s].generation /\ ctx'.stage = "WAITING"
         /\ ~ctx'.connection /\ ctx'.udp = udp
    BY <1>2, <2>3, <2>7, <2>9 DEF ContextType, Stage
  <2>11. job' \in JobType /\ job'.pc = "valid"
    BY <1>4 DEF JobType, JobPc, Idle, Command, Action
  <2>12. compat.outer = 0 /\ gre.pc = "none" /\ gre.app = 0 /\ gre.bridge = 0
    BY <1>1, <1>2 DEF Claims, Connects
  <2>13. \A t \in Socket : ~(chip[t].match_udp /\ chip[t].fd # 0)
    BY <1>1, <1>2, MatchAssumption DEF CopyKnown, Claims
  <2>14. NoSocket \notin Socket /\ open \subseteq Fd /\ chip[s].generation <= chip[s].generation
    BY <1>1, <2>7, Epochs, MatchAssumption DEF MatchShapes, NoSocket
  <2>15. MatchShapes'
    BY <1>1, <1>2, <2>1, <2>5, <2>6, <2>8, <2>10, <2>11, <2>14 DEF MatchShapes
  <2>16. ChipOwns'
    BY <1>1, <1>2, <2>1, <2>4, <2>5, <2>6, <2>8, <2>12 DEF ChipOwns
  <2>17. MatchOwns'
    BY <1>2, <2>1, <2>5, <2>8, <2>12 DEF MatchOwns
  <2>18. NothingLeaks'
    <3> SUFFICES ASSUME NEW d \in open', d # fd
                 PROVE  \E t \in Socket : chip'[t].fd = d
      BY <2>8 DEF NothingLeaks
    <3>1. d \in open /\ d # chip[s].fd /\ d # 0
      BY <2>5, <2>14, MatchAssumption
    <3>2. PICK t \in Socket : chip[t].fd = d
      BY <1>1, <2>12, <3>1 DEF NothingLeaks
    <3> QED
      BY <2>6, <3>1, <3>2
  <2>19. Claims'
    BY <1>2, <2>1, <2>4, <2>6, <2>8, <2>10, <2>11, <2>14 DEF Claims
  <2>20. Connects'
    BY <1>1, <1>2, <2>4, <2>6, <2>8, <2>10, <2>11, <2>12 DEF Connects
  <2>21. LeftAlone'
    BY <1>4, <2>3, <2>4, <2>6, <2>8, <2>10 DEF LeftAlone, Ours
  <2>22. CopyKnown'
    BY <2>4, <2>6, <2>13 DEF CopyKnown
  <2> QED
    BY <2>15, <2>16, <2>17, <2>18, <2>19, <2>20, <2>21, <2>22 DEF MatchKnown
<1> QED
  BY <1>3, <1>4 DEF CommandClaims

-----------------------------------------------------------------------------
(* post.                                                                     *)

LEMMA PausedSockets ==
  ASSUME MatchKnown, NEW p \in BOOLEAN, chip' = Paused(p)
  PROVE  /\ SocketsKept
         /\ p => \A s \in Socket : chip[s].match_udp /\ chip[s].fd # 0 => chip'[s].match_paused
<1> DEFINE s == compat.claimed
<1>1. chip \in [Socket -> ChipType] /\ compat \in CompatType /\ Claims /\ CopyKnown
  BY DEF MatchKnown, MatchShapes
<1>2. CASE compat.attached /\ Ours(s) /\ chip[s].match_udp
  <2>1. s \in Socket
    BY <1>1, <1>2 DEF CompatType, Claims
  <2> DEFINE r == [chip[s] EXCEPT !.match_paused = p]
  <2>2. /\ r \in ChipType /\ r.fd = chip[s].fd /\ r.generation = chip[s].generation
        /\ r.match_udp = chip[s].match_udp /\ r.state = chip[s].state /\ r.match_paused = p
    BY <1>1, <2>1 DEF ChipType
  <2>3. chip' = [chip EXCEPT ![s] = r]
    BY <1>1, <1>2 DEF Paused
  <2> HIDE DEF r
  <2>4. chip' \in [Socket -> ChipType] /\ chip'[s] = r /\ \A t \in Socket : t # s => chip'[t] = chip[t]
    BY <1>1, <2>1, <2>2, <2>3, OneSocket
  <2>5. SocketsKept
    BY <2>2, <2>4 DEF SocketsKept
  <2>6. \A t \in Socket : chip[t].match_udp /\ chip[t].fd # 0 => t = s
    BY <1>1 DEF CopyKnown
  <2> QED
    BY <2>2, <2>4, <2>5, <2>6
<1>3. CASE ~(compat.attached /\ Ours(s) /\ chip[s].match_udp)
  <2>1. UNCHANGED chip
    BY <1>3 DEF Paused
  <2>2. SocketsKept
    BY <2>1, SocketsStay
  <2>3. \A t \in Socket : ~(chip[t].match_udp /\ chip[t].fd # 0)
    BY <1>1, <1>3 DEF CopyKnown
  <2> QED
    BY <2>2, <2>3
<1> QED
  BY <1>2, <1>3

LEMMA StunStep ==
  ASSUME MatchKnown, StunBegins \/ StunEnds \/ StunReturns
  PROVE  MatchKnown'
<1>1. /\ job.pc \in {"pause", "stun", "unpause"} /\ job \in JobType /\ ctx.active
      /\ UNCHANGED <<open, ctx, compat, gre, touched>>
  BY Serving DEF MatchKnown, MatchShapes, StunBegins, StunEnds, StunReturns, PostStep
<1>2. MatchKept
  BY <1>1, MatchStays
<1>3. CASE chip' = Paused(TRUE) /\ Goes("stun")
  <2>1. job' \in JobType /\ job'.pc = "stun"
    BY <1>1, <1>3, JobGoes DEF JobPc
  <2>2. SocketsKept /\ JobMoves
    BY <1>1, <1>3, <2>1, PausedSockets DEF JobMoves
  <2> QED
    BY <1>1, <1>2, <2>2, QuietStep
<1>4. CASE UNCHANGED chip /\ Fails
  BY <1>1, <1>2, <1>4, JobFails, JobStep
<1>5. CASE UNCHANGED chip /\ Goes("unpause")
  <2>1. job' \in JobType /\ job'.pc = "unpause"
    BY <1>1, <1>5, JobGoes DEF JobPc
  <2> QED
    BY <1>1, <1>2, <1>5, <2>1, JobStep
<1>6. CASE chip' = Paused(FALSE) /\ (Goes("http") \/ Fails)
  <2>1. job' \in JobType /\ job'.pc \in {"http", "none", "stop"}
    BY <1>1, <1>6, JobGoes, JobFails DEF JobPc
  <2>2. SocketsKept /\ JobMoves
    BY <1>1, <1>6, <2>1, PausedSockets DEF JobMoves
  <2> QED
    BY <1>1, <1>2, <2>2, QuietStep
<1> QED
  BY <1>3, <1>4, <1>5, <1>6 DEF StunBegins, StunEnds, StunReturns

LEMMA HttpStep ==
  ASSUME MatchKnown, HttpReturns
  PROVE  MatchKnown'
<1>1. /\ job.pc = "http" /\ job \in JobType /\ ctx.active
      /\ UNCHANGED <<chip, open, compat, gre, touched>>
  BY Serving DEF MatchKnown, MatchShapes, HttpReturns, PostStep
<1>2. CASE Fails /\ UNCHANGED ctx
  BY <1>1, <1>2, MatchStays, JobFails, JobStep
<1>3. CASE Ends /\ ctx' = [ctx EXCEPT !.stage = "WAITING"]
  <2>1. MatchKept
    BY <1>3, StageSet DEF Stage
  <2> QED
    BY <1>1, <1>3, <2>1, JobEnds, JobStep
<1>4. CASE ~ctx.connection /\ ctx' = [ctx EXCEPT !.connection = TRUE] /\ Goes("start")
  <2>1. job' \in JobType /\ job'.pc = "start"
    BY <1>1, <1>4, JobGoes DEF JobPc
  <2>2. MatchKept /\ ctx'.connection
    BY <1>4, ConnectionMade
  <2> QED
    BY <1>1, <1>4, <2>1, <2>2, JobStep
<1>5. CASE Ends /\ UNCHANGED ctx
  BY <1>1, <1>5, MatchStays, JobEnds, JobStep
<1> QED
  BY <1>2, <1>3, <1>4, <1>5 DEF HttpReturns

-----------------------------------------------------------------------------
(* A connection begins.                                                      *)

\* The socket gets a copy of the outer socket.
LEMMA StartUdpStep ==
  ASSUME MatchKnown, job.pc = "start", ctx.udp, StartUdp(compat.claimed),
         ctx' = [ctx EXCEPT !.stage = "CONNECTING"], Ends, UNCHANGED touched
  PROVE  MatchKnown'
<1> DEFINE s == compat.claimed
           fd == NewFd(open)
           r == [chip[s] EXCEPT !.fd = fd, !.bound = TRUE, !.match_udp = TRUE]
<1>1. ctx.active /\ s \in Socket /\ compat.outer # 0
  BY Serving
<1>2. MatchShapes /\ ChipOwns /\ MatchOwns /\ NothingLeaks /\ Claims /\ Connects /\ LeftAlone /\ CopyKnown
  BY DEF MatchKnown
<1>3. fd \in Fd \ open /\ fd # 0
  BY StartSpare, MatchAssumption
<1>4. /\ chip \in [Socket -> ChipType] /\ chip[s] \in ChipType /\ compat \in CompatType
      /\ ctx \in ContextType /\ open \subseteq Fd
  BY <1>1, <1>2 DEF MatchShapes
<1>5. /\ gre.pc = "none" /\ ~compat.attached /\ ctx.connection /\ chip[s].fd = 0
      /\ chip[s].generation = compat.generation /\ gre' = gre
  BY <1>1, <1>2 DEF Connects, StartUdp, Ours
<1>6. /\ r \in ChipType /\ r.fd = fd /\ r.generation = chip[s].generation
      /\ r.state = chip[s].state
  BY <1>3, <1>4 DEF ChipType
<1>7. chip' = [chip EXCEPT ![s] = r] /\ open' = open \union {fd}
  BY DEF StartUdp
<1> HIDE DEF fd, r
<1>8. chip' \in [Socket -> ChipType] /\ chip'[s] = r /\ \A t \in Socket : t # s => chip'[t] = chip[t]
  BY <1>1, <1>4, <1>6, <1>7, OneSocket
<1>9. /\ compat' \in CompatType /\ compat'.attached /\ compat'.claimed = s
      /\ compat'.generation = compat.generation /\ compat'.outer = compat.outer
  BY <1>4 DEF CompatType, StartUdp
<1>10. MatchKept /\ ctx'.connection = ctx.connection /\ ctx'.stage = "CONNECTING"
  BY <1>4 DEF ContextType, MatchKept, Stage
<1>11. job' \in JobType /\ job'.pc = "none" /\ touched' = touched
  BY JobEnds
<1>12. MatchShapes'
  BY <1>2, <1>3, <1>5, <1>7, <1>8, <1>9, <1>10, <1>11 DEF MatchShapes, MatchKept
<1>13. ChipOwns'
  BY <1>2, <1>3, <1>5, <1>6, <1>7, <1>8, <1>9 DEF ChipOwns, MatchOwns
<1>14. MatchOwns'
  BY <1>2, <1>5, <1>7, <1>9 DEF MatchOwns
<1>15. NothingLeaks'
  <2> SUFFICES ASSUME NEW d \in open', d # fd
               PROVE  \/ d = compat.outer \/ d = gre.app \/ d = gre.bridge
                      \/ \E t \in Socket : chip'[t].fd = d
    BY <1>1, <1>5, <1>6, <1>8, <1>9 DEF NothingLeaks
  <2>1. d \in open /\ d # 0
    BY <1>4, <1>7, MatchAssumption
  <2> QED
    BY <1>2, <1>5, <1>8, <2>1 DEF NothingLeaks
<1>16. Claims'
  BY <1>1, <1>2, <1>5, <1>6, <1>8, <1>9, <1>10, <1>11 DEF Claims, MatchKept
<1>17. Connects'
  BY <1>1, <1>2, <1>5, <1>9, <1>10, <1>11 DEF Connects, MatchKept
<1>18. LeftAlone'
  BY <1>1, <1>2, <1>3, <1>6, <1>8, <1>9, <1>10, <1>11 DEF LeftAlone, MatchKept, Ours
<1>19. CopyKnown'
  BY <1>2, <1>5, <1>6, <1>8, <1>9, <1>11 DEF CopyKnown, Ours
<1> QED
  BY <1>12, <1>13, <1>14, <1>15, <1>16, <1>17, <1>18, <1>19 DEF MatchKnown

\* gre_start opens both ends of the bridge.
LEMMA StartTunnelStep ==
  ASSUME MatchKnown, job.pc = "start", ~ctx.udp, StartTunnel,
         ctx' = [ctx EXCEPT !.stage = "CONNECTING"], Ends, UNCHANGED touched
  PROVE  MatchKnown'
<1> DEFINE app == NewFd(open)
           bridge == NewFd(open \union {app})
<1>1. ctx.active /\ compat.claimed \in Socket /\ compat.outer # 0
  BY Serving
<1>2. MatchShapes /\ ChipOwns /\ MatchOwns /\ NothingLeaks /\ Claims /\ Connects /\ LeftAlone /\ CopyKnown
  BY DEF MatchKnown
<1>3. /\ app \in Fd \ open /\ app # 0
      /\ bridge \in Fd \ (open \union {app}) /\ bridge # 0
  BY StartSpare, MatchAssumption
<1>4. chip \in [Socket -> ChipType] /\ ctx \in ContextType /\ open \subseteq Fd
  BY <1>2 DEF MatchShapes
<1>5. gre.pc = "none" /\ gre.app = 0 /\ gre.bridge = 0 /\ ~compat.attached /\ ctx.connection
  BY <1>1, <1>2 DEF Connects
<1>6. /\ open' = open \union {app, bridge} /\ chip' = chip /\ compat' = compat
      /\ gre' = [pc |-> "setup", ready |-> 0, stop |-> FALSE, app |-> app, bridge |-> bridge]
  BY DEF StartTunnel
<1> HIDE DEF app, bridge
<1>7. /\ gre' \in TunnelType /\ gre'.pc = "setup" /\ gre'.app = app /\ gre'.bridge = bridge
  BY <1>3, <1>6 DEF TunnelType
<1>8. MatchKept /\ ctx'.connection = ctx.connection /\ ctx'.stage = "CONNECTING"
  BY <1>4 DEF ContextType, MatchKept, Stage
<1>9. job' \in JobType /\ job'.pc = "none" /\ touched' = touched
  BY JobEnds
<1>10. MatchShapes'
  BY <1>2, <1>3, <1>6, <1>7, <1>8, <1>9 DEF MatchShapes, MatchKept
<1>11. ChipOwns'
  BY <1>2, <1>3, <1>6, <1>7 DEF ChipOwns
<1>12. MatchOwns'
  BY <1>2, <1>3, <1>6, <1>7 DEF MatchOwns
<1>13. NothingLeaks'
  <2> SUFFICES ASSUME NEW d \in open', d # app, d # bridge
               PROVE  d = compat.outer \/ \E t \in Socket : chip[t].fd = d
    BY <1>6, <1>7 DEF NothingLeaks
  <2>1. d \in open /\ d # 0
    BY <1>4, <1>6, MatchAssumption
  <2> QED
    BY <1>2, <1>5, <2>1 DEF NothingLeaks
<1>14. Claims'
  BY <1>1, <1>2, <1>6, <1>8, <1>9 DEF Claims, MatchKept
<1>15. Connects'
  BY <1>1, <1>2, <1>3, <1>5, <1>6, <1>7, <1>8, <1>9 DEF Connects, MatchKept, Ours
<1>16. LeftAlone'
  BY <1>2, <1>6, <1>8, <1>9 DEF LeftAlone, MatchKept, Ours
<1>17. CopyKnown'
  BY <1>2, <1>6, <1>9 DEF CopyKnown, Ours
<1> QED
  BY <1>10, <1>11, <1>12, <1>13, <1>14, <1>15, <1>16, <1>17 DEF MatchKnown

LEMMA StartStep ==
  ASSUME MatchKnown, Starts
  PROVE  MatchKnown'
<1>1. CASE Fails /\ UNCHANGED <<chip, open, ctx, compat, gre>>
  <2>1. job.pc = "start" /\ ctx.active /\ touched' = touched
    BY Serving DEF Starts
  <2> QED
    BY <1>1, <2>1, MatchStays, JobFails, JobStep
<1>2. CASE ctx.udp /\ StartUdp(compat.claimed) /\ ctx' = [ctx EXCEPT !.stage = "CONNECTING"] /\ Ends
  BY <1>2, StartUdpStep DEF Starts
<1>3. CASE ~ctx.udp /\ StartTunnel /\ ctx' = [ctx EXCEPT !.stage = "CONNECTING"] /\ Ends
  BY <1>3, StartTunnelStep DEF Starts
<1> QED
  BY <1>1, <1>2, <1>3 DEF Starts

-----------------------------------------------------------------------------
(* The GRE thread, and the release of a match.                               *)

\* The thread comes up, fails or ends; the descriptors stay.
LEMMA TunnelStep ==
  ASSUME MatchKnown, UNCHANGED <<chip, open, ctx, compat, touched>>, gre' \in TunnelType,
         gre'.app = gre.app, gre'.bridge = gre.bridge,
         \/ gre'.pc = gre.pc /\ gre'.ready = gre.ready
         \/ gre.pc \in {"setup", "up"} /\ gre'.pc # "none",
         job' \in JobType, job' = job \/ (job.pc = "stop" /\ job'.pc = "join")
  PROVE  MatchKnown'
<1>1. MatchShapes /\ ChipOwns /\ MatchOwns /\ NothingLeaks /\ Claims /\ Connects /\ LeftAlone /\ CopyKnown
  BY DEF MatchKnown
<1>2. MatchShapes'
  BY <1>1 DEF MatchShapes
<1>3. ChipOwns' /\ MatchOwns' /\ NothingLeaks'
  BY <1>1 DEF ChipOwns, MatchOwns, NothingLeaks
<1>4. Claims'
  BY <1>1 DEF Claims
<1>5. Connects'
  BY <1>1 DEF Connects, Ours
<1>6. LeftAlone' /\ CopyKnown'
  BY <1>1 DEF LeftAlone, CopyKnown, Ours
<1> QED
  BY <1>2, <1>3, <1>4, <1>5, <1>6 DEF MatchKnown

LEMMA GreStep ==
  ASSUME MatchKnown, GreThread
  PROVE  MatchKnown'
<1>1. /\ gre \in TunnelType /\ job \in JobType /\ gre.pc \in {"setup", "up"}
      /\ UNCHANGED <<chip, open, ctx, compat, touched, job>>
  BY DEF MatchKnown, MatchShapes, GreThread, GreReady, GreFails, GreExits, Tunnel
<1>2. \E pc \in {"up", "done"} : \E ready \in {-1, 0, 1} : gre' = [gre EXCEPT !.pc = pc, !.ready = ready]
  <2>1. CASE GreReady
    BY <2>1 DEF GreReady
  <2>2. CASE GreFails
    <3>1. PICK pc \in {gre.pc, "done"} \ {"setup"} : gre' = [gre EXCEPT !.pc = pc, !.ready = -1]
      BY <2>2 DEF GreFails
    <3>2. pc \in {"up", "done"}
      BY <1>1
    <3> QED
      BY <3>1, <3>2
  <2>3. CASE GreExits
    <3>1. gre' = [gre EXCEPT !.pc = "done", !.ready = gre.ready] /\ gre.ready \in {-1, 0, 1}
      BY <1>1, <2>3 DEF GreExits, TunnelType
    <3> QED
      BY <3>1
  <2> QED
    BY <2>1, <2>2, <2>3 DEF GreThread
<1>3. gre' \in TunnelType /\ gre'.app = gre.app /\ gre'.bridge = gre.bridge /\ gre'.pc # "none"
  BY <1>1, <1>2 DEF TunnelType
<1> QED
  BY <1>1, <1>3, TunnelStep

LEMMA StopStep ==
  ASSUME MatchKnown, StopTunnel
  PROVE  MatchKnown'
<1>1. /\ gre \in TunnelType /\ job \in JobType /\ job.pc = "stop"
      /\ UNCHANGED <<chip, open, ctx, compat, touched>>
  BY DEF MatchKnown, MatchShapes, StopTunnel
<1>2. job' \in JobType /\ job'.pc = "join"
  BY <1>1, JobGoes DEF StopTunnel, JobPc
<1>3. /\ gre' \in TunnelType /\ gre'.app = gre.app /\ gre'.bridge = gre.bridge
      /\ gre'.pc = gre.pc /\ gre'.ready = gre.ready
  BY <1>1 DEF TunnelType, StopTunnel
<1> QED
  BY <1>1, <1>2, <1>3, TunnelStep

LEMMA JoinStep ==
  ASSUME MatchKnown, JoinTunnel
  PROVE  MatchKnown'
<1>1. MatchShapes /\ ChipOwns /\ MatchOwns /\ NothingLeaks /\ Claims /\ Connects /\ LeftAlone /\ CopyKnown
  BY DEF MatchKnown
<1>2. /\ compat \in CompatType /\ job \in JobType /\ job.pc = "join"
      /\ open' = open \ {gre.app, gre.bridge, compat.outer}
      /\ UNCHANGED <<chip, ctx, touched>>
  BY <1>1 DEF MatchShapes, JoinTunnel
<1>3. gre' \in TunnelType /\ gre'.pc = "none" /\ gre'.app = 0 /\ gre'.bridge = 0 /\ gre'.ready = 0
  BY DEF JoinTunnel, NoTunnel, TunnelType
<1>4. /\ compat' \in CompatType /\ compat'.outer = 0 /\ compat'.attached = compat.attached
      /\ compat'.claimed = compat.claimed /\ compat'.generation = compat.generation
  BY <1>2 DEF JoinTunnel, CompatType
<1>5. job' \in JobType /\ job'.pc = "restore"
  BY <1>2, JobGoes DEF JoinTunnel, JobPc
<1>6. MatchShapes'
  BY <1>1, <1>2, <1>3, <1>4, <1>5 DEF MatchShapes
<1>7. ChipOwns' /\ MatchOwns'
  BY <1>1, <1>2, <1>3, <1>4 DEF ChipOwns, MatchOwns
<1>8. NothingLeaks'
  BY <1>1, <1>2 DEF NothingLeaks
<1>9. Claims'
  BY <1>1, <1>2, <1>3, <1>4, <1>5 DEF Claims
<1>10. Connects'
  BY <1>1, <1>2, <1>3, <1>4, <1>5 DEF Connects, Ours
<1>11. LeftAlone' /\ CopyKnown'
  BY <1>1, <1>2, <1>4, <1>5 DEF LeftAlone, CopyKnown, Ours
<1> QED
  BY <1>6, <1>7, <1>8, <1>9, <1>10, <1>11 DEF MatchKnown

\* The claim is given up.
LEMMA RestoreStep ==
  ASSUME MatchKnown, Restores
  PROVE  /\ MatchKnown' /\ ~ctx'.active
         /\ \A t \in Socket : chip'[t].generation = chip[t].generation
<1> DEFINE s == compat.claimed
<1>1. MatchShapes /\ ChipOwns /\ MatchOwns /\ NothingLeaks /\ Claims /\ Connects /\ LeftAlone /\ CopyKnown
  BY DEF MatchKnown
<1>2. /\ job.pc = "restore" /\ gre' = gre /\ ~touched' /\ compat.outer = 0 /\ gre.pc = "none"
      /\ gre.app = 0 /\ gre.bridge = 0 /\ ctx \in ContextType /\ job \in JobType
      /\ chip \in [Socket -> ChipType] /\ open \subseteq Fd /\ 0 \notin Fd
  BY <1>1, MatchAssumption DEF Restores, Claims, Connects, MatchShapes
<1>3. compat' \in CompatType /\ compat'.claimed = NoSocket /\ ~compat'.attached /\ compat'.outer = 0
  BY Epochs, MatchAssumption DEF Restores, RestoresSocket, Unclaimed, CompatType
<1>4. ctx' \in ContextType /\ ctx'.active = FALSE
  <2>1. job.after \in {"CANCELLED", "ERROR", "RESOLVE", "RESET"}
    BY <1>2 DEF JobType
  <2>2. NoMatch \in ContextType /\ NoMatch.active = FALSE
    BY Epochs, MatchAssumption DEF NoMatch, ContextType, Stage
  <2>3. CASE ctx' = [ctx EXCEPT !.active = FALSE, !.pending = TRUE]
    BY <1>2, <2>3 DEF ContextType
  <2>4. CASE ctx' = NoMatch
    BY <2>2, <2>4 DEF ContextType
  <2>5. CASE ctx' = [NoMatch EXCEPT !.stage = job.after] /\ job.after \in {"CANCELLED", "ERROR"}
    BY <2>2, <2>5 DEF ContextType, Stage
  <2> QED
    BY <2>1, <2>3, <2>4, <2>5 DEF Restores, After
<1>5. job' \in JobType /\ job'.pc = "none"
  BY JobEnds DEF Restores
<1>6. /\ chip' \in [Socket -> ChipType] /\ open' \subseteq open
      /\ \A t \in Socket : chip'[t].fd = chip[t].fd \/ chip'[t].fd = 0
      /\ \A t \in Socket : chip'[t].generation = chip[t].generation
      /\ \A t \in Socket : ~(chip'[t].match_udp /\ chip'[t].fd # 0)
      /\ \A d \in open : d \notin open' <=> \E t \in Socket : chip[t].fd = d /\ chip'[t].fd = 0
  <2>1. CASE s # NoSocket /\ Ours(s)
    <3>1. s \in Socket /\ chip[s] \in ChipType
      BY <1>1, <2>1 DEF MatchShapes, CompatType
    <3> DEFINE r == Restored(chip[s])
    <3>2. r \in ChipType /\ r.fd = 0 /\ r.generation = chip[s].generation
      BY <3>1 DEF Restored, ChipType
    <3>3. chip' = [chip EXCEPT ![s] = r] /\ open' = open \ {chip[s].fd}
      BY <2>1 DEF Restores, RestoresSocket
    <3> HIDE DEF r
    <3>4. chip' \in [Socket -> ChipType] /\ chip'[s] = r /\ \A t \in Socket : t # s => chip'[t] = chip[t]
      BY <1>2, <3>1, <3>2, <3>3, OneSocket
    <3>5. \A t \in Socket : t # s => ~(chip[t].match_udp /\ chip[t].fd # 0)
      BY <1>1 DEF CopyKnown
    <3> QED
      BY <1>2, <3>1, <3>2, <3>3, <3>4, <3>5
  <2>2. CASE ~(s # NoSocket /\ Ours(s))
    <3>1. chip' = chip /\ open' = open
      BY <2>2 DEF Restores, RestoresSocket
    <3>2. \A t \in Socket : ~(chip[t].match_udp /\ chip[t].fd # 0)
      BY <1>1, <2>2, MatchAssumption DEF CopyKnown, NoSocket
    <3> QED
      BY <1>2, <3>1, <3>2
  <2> QED
    BY <2>1, <2>2
<1>7. MatchShapes'
  BY <1>1, <1>2, <1>3, <1>4, <1>5, <1>6 DEF MatchShapes
<1>8. ChipOwns'
  BY <1>1, <1>2, <1>3, <1>6 DEF ChipOwns
<1>9. MatchOwns' /\ NothingLeaks'
  <2>1. MatchOwns'
    BY <1>2, <1>3 DEF MatchOwns
  <2>2. ASSUME NEW d \in open' PROVE \E t \in Socket : chip'[t].fd = d
    <3>1. d \in open /\ d # 0
      BY <1>2, <1>6
    <3>2. PICK t \in Socket : chip[t].fd = d
      BY <1>1, <1>2, <3>1 DEF NothingLeaks
    <3>3. chip'[t].fd # 0
      BY <1>6, <3>1, <3>2
    <3> QED
      BY <1>6, <3>2, <3>3
  <2> QED
    BY <2>1, <2>2 DEF NothingLeaks
<1>10. Claims'
  BY <1>2, <1>3, <1>4, <1>5 DEF Claims
<1>11. Connects'
  BY <1>1, <1>2, <1>3, <1>4, <1>5 DEF Connects
<1>12. LeftAlone' /\ CopyKnown'
  BY <1>4, <1>6 DEF LeftAlone, CopyKnown
<1> QED
  BY <1>4, <1>6, <1>7, <1>8, <1>9, <1>10, <1>11, <1>12 DEF MatchKnown

-----------------------------------------------------------------------------
(* The controller's other calls, and the reset.                              *)

LEMMA ControllerStep ==
  ASSUME MatchKnown, match_resolve \/ match_complete \/ match_reset
  PROVE  MatchKnown'
<1>1. job.pc = "none" /\ job \in JobType /\ UNCHANGED <<chip, open, compat, gre, touched>>
  BY DEF MatchKnown, MatchShapes, match_resolve, match_complete, match_reset
<1>2. CASE match_resolve
  <2>1. CASE UNCHANGED ctx /\ Stops("RESOLVE")
    BY <1>1, <2>1, MatchStays, JobStops, JobStep
  <2>2. CASE ctx' = [ctx EXCEPT !.pending = TRUE] /\ UNCHANGED job
    BY <1>1, <2>2, PendingSet, JobStep
  <2> QED
    BY <1>2, <2>1, <2>2 DEF match_resolve
<1>3. CASE match_complete
  <2>1. MatchKept
    BY <1>3, CompletionTaken DEF match_complete
  <2>2. CASE ctx.active /\ job' = [Idle EXCEPT !.pc = "pause", !.action = "connected"]
    <3>1. job' \in JobType /\ job'.pc = "pause"
      BY <2>2, JobPosts DEF Posts, Action
    <3> QED
      BY <1>1, <2>1, <2>2, <3>1, JobStep
  <2>3. CASE job' = Idle
    <3>1. job' \in JobType /\ job'.pc = "none"
      BY <2>3, JobEnds DEF Ends
    <3> QED
      BY <1>1, <2>1, <3>1, JobStep
  <2> QED
    BY <1>3, <2>2, <2>3 DEF match_complete
<1>4. CASE match_reset
  <2>1. UNCHANGED ctx /\ Stops("RESET")
    BY <1>4 DEF match_reset
  <2> QED
    BY <1>1, <2>1, MatchStays, JobStops, JobStep
<1> QED
  BY <1>2, <1>3, <1>4

\* The chip is reset after the match is gone.
LEMMA ChipResetStep ==
  ASSUME MatchKnown, Resets, nic_w5100_reset
  PROVE  MatchKnown'
<1>1. MatchShapes /\ ChipOwns /\ MatchOwns /\ NothingLeaks /\ Claims /\ Connects /\ LeftAlone /\ CopyKnown
  BY DEF MatchKnown
<1>2. /\ job.pc = "none" /\ ~ctx.active /\ UNCHANGED <<ctx, compat, gre, job, touched>>
      /\ \A s \in Socket : chip[s].generation < MaxEpochs
      /\ open' = open \ {chip[s].fd : s \in Socket}
  BY DEF Resets, nic_w5100_reset
<1>3. chip \in [Socket -> ChipType] /\ open \subseteq Fd /\ 0 \notin Fd
  BY <1>1, MatchAssumption DEF MatchShapes
<1>4. chip' \in [Socket -> ChipType] /\ \A s \in Socket : chip'[s].fd = 0
  <2> DEFINE r(s) == [Cleaned(chip[s]) EXCEPT !.mode = "CLOSED", !.state = "CLOSED", !.gre = FALSE]
  <2>1. ASSUME NEW s \in Socket PROVE r(s) \in ChipType /\ r(s).fd = 0
    <3>1. PICK c \in ChipType : c = Cleaned(chip[s]) /\ c.fd = 0
      BY <1>2, <1>3, CleanedType
    <3>2. [c EXCEPT !.mode = "CLOSED", !.state = "CLOSED", !.gre = FALSE] \in ChipType
          /\ [c EXCEPT !.mode = "CLOSED", !.state = "CLOSED", !.gre = FALSE].fd = 0
      BY <3>1 DEF ChipType
    <3> QED
      BY <3>1, <3>2
  <2>2. chip' = [s \in Socket |-> r(s)]
    BY DEF nic_w5100_reset
  <2> HIDE DEF r
  <2> QED
    BY <2>1, <2>2
<1>5. compat.outer = 0 /\ gre.pc = "none" /\ gre.app = 0 /\ gre.bridge = 0
  BY <1>1, <1>2 DEF Claims, Connects
<1>6. open' = {}
  BY <1>1, <1>2, <1>3, <1>5 DEF NothingLeaks
<1>7. MatchShapes'
  BY <1>1, <1>2, <1>4, <1>6 DEF MatchShapes
<1>8. ChipOwns' /\ MatchOwns' /\ NothingLeaks'
  BY <1>2, <1>4, <1>5, <1>6 DEF ChipOwns, MatchOwns, NothingLeaks
<1>9. Claims' /\ Connects'
  BY <1>1, <1>2 DEF Claims, Connects
<1>10. LeftAlone' /\ CopyKnown'
  BY <1>2, <1>4 DEF LeftAlone, CopyKnown
<1> QED
  BY <1>7, <1>8, <1>9, <1>10 DEF MatchKnown

-----------------------------------------------------------------------------
(* The invariant.                                                            *)

LEMMA MatchInitially == MatchInit => MatchIInv
<1> SUFFICES ASSUME MatchInit PROVE MatchIInv
  OBVIOUS
<1>1. 0 \in 0 .. MaxEpochs
  BY MatchAssumption
<1>2. /\ chip \in [Socket -> ChipType] /\ \A s \in Socket : chip[s].fd = 0
      /\ open = {} /\ ~reset /\ ~stolen
  BY <1>1 DEF MatchInit, ChipType
<1>3. ctx \in ContextType /\ ctx.active = FALSE
  BY <1>1 DEF MatchInit, NoMatch, ContextType, Stage
<1>4. compat \in CompatType /\ compat.claimed = NoSocket /\ ~compat.attached /\ compat.outer = 0
  BY <1>1 DEF MatchInit, Unclaimed, CompatType
<1>5. gre \in TunnelType /\ gre.pc = "none" /\ gre.app = 0 /\ gre.bridge = 0 /\ gre.ready = 0
  BY DEF MatchInit, NoTunnel, TunnelType
<1>6. job \in JobType /\ job.pc = "none"
  BY DEF MatchInit, Idle, JobType, JobPc, Command, Action
<1>7. MatchShapes
  BY <1>2, <1>3, <1>4, <1>5, <1>6 DEF MatchShapes
<1>8. ChipOwns /\ MatchOwns /\ NothingLeaks
  BY <1>2, <1>4, <1>5 DEF ChipOwns, MatchOwns, NothingLeaks
<1>9. Claims /\ Connects
  BY <1>3, <1>4, <1>5, <1>6 DEF Claims, Connects
<1>10. LeftAlone /\ CopyKnown /\ Resets
  BY <1>2, <1>3 DEF LeftAlone, CopyKnown, Resets
<1> QED
  BY <1>2, <1>7, <1>8, <1>9, <1>10 DEF MatchIInv, MatchKnown

\* Only the I/O thread receives, and only the release goes on during a reset.
LEMMA ResetsKept ==
  ASSUME MatchIInv, MatchKnown', MatchNext
  PROVE  Resets'
<1> SUFFICES ASSUME reset' PROVE Resets'
  BY DEF Resets
<1>1. MatchKnown /\ Resets /\ job \in JobType
  BY DEF MatchIInv, MatchKnown, MatchShapes
<1>2. ASSUME NEW s \in Socket, Registers(s) PROVE FALSE
  BY <1>2 DEF Registers, Guest, w5100_write_socket_mr, w5100_socket_open,
    w5100_socket_close, w5100_socket_discon, w5100_socket_listen, w5100_socket_connect,
    w5100_socket_bind_port
<1>3. ASSUME NEW s \in Socket, IoThread(s) PROVE Resets'
  <2>1. SocketsKept /\ UNCHANGED <<ctx, job, reset>>
    BY <1>1, <1>3, IoThreadStep
  <2> QED
    BY <1>1, <2>1 DEF SocketsKept, Resets
<1>4. ASSUME NEW s \in Socket, CommandClaims(s) PROVE FALSE
  BY <1>4 DEF CommandClaims, Begin, Jobs
<1>5. ASSUME NEW cmd \in Command,
             CommandLeaves(cmd) \/ CommandUnavailable(cmd) \/ CommandBegins(cmd)
      PROVE  FALSE
  BY <1>5 DEF CommandLeaves, CommandUnavailable, CommandBegins, Begin, Jobs
<1>6. CASE GreThread
  BY <1>1, <1>6 DEF GreThread, GreReady, GreFails, GreExits, Tunnel, Resets
<1>7. ASSUME CommandProceeds \/ CommandPolls \/ StunBegins \/ StunEnds \/ StunReturns
             \/ HttpReturns \/ Starts
      PROVE  FALSE
  BY <1>1, <1>7 DEF CommandProceeds, CommandPolls, StunBegins, StunEnds, StunReturns,
    HttpReturns, Starts, PostStep, Jobs, Resets
<1>8. CASE StopTunnel \/ JoinTunnel
  <2>1. \E pc \in {"join", "restore"} : Goes(pc)
    BY <1>8 DEF StopTunnel, JoinTunnel
  <2>2. job'.pc \in {"join", "restore"}
    BY <1>1, <2>1, JobGoes DEF JobPc
  <2>3. UNCHANGED <<chip, reset>>
    BY <1>8 DEF StopTunnel, JoinTunnel, Releases
  <2> QED
    BY <1>1, <2>2, <2>3 DEF Resets
<1>9. CASE Restores
  <2>1. ~ctx'.active /\ \A t \in Socket : chip'[t].generation = chip[t].generation
    BY <1>1, <1>9, RestoreStep
  <2>2. job'.pc = "none" /\ reset' = reset
    BY <1>9, JobEnds DEF Restores, Releases
  <2> QED
    BY <1>1, <2>1, <2>2 DEF Resets
<1>10. ASSUME match_resolve \/ match_complete \/ nic_w5100_reset PROVE FALSE
  BY <1>10 DEF match_resolve, match_complete, nic_w5100_reset, Jobs
<1>11. CASE match_reset
  <2>1. job'.pc = "stop" /\ chip' = chip /\ \A s \in Socket : chip[s].generation < MaxEpochs
    BY <1>11, JobStops DEF match_reset
  <2> QED
    BY <2>1 DEF Resets
<1> QED
  BY <1>2, <1>3, <1>4, <1>5, <1>6, <1>7, <1>8, <1>9, <1>10, <1>11 DEF MatchNext, Serves

LEMMA NothingStolen ==
  ASSUME MatchIInv, MatchNext
  PROVE  ~stolen'
<1>1. MatchKnown /\ ~stolen
  BY DEF MatchIInv
<1>2. ASSUME NEW s \in Socket, Registers(s) \/ CommandClaims(s) PROVE stolen' = stolen
  BY <1>2 DEF Registers, Guest, w5100_write_socket_mr, w5100_socket_open,
    w5100_socket_close, w5100_socket_discon, w5100_socket_listen, w5100_socket_connect,
    w5100_socket_bind_port, CommandClaims, Begin, Jobs
<1>3. ASSUME NEW s \in Socket, IoThread(s) PROVE ~stolen'
  BY <1>1, <1>3, IoThreadStep
<1>4. ASSUME NEW cmd \in Command,
             CommandLeaves(cmd) \/ CommandUnavailable(cmd) \/ CommandBegins(cmd)
      PROVE  stolen' = stolen
  BY <1>4 DEF CommandLeaves, CommandUnavailable, CommandBegins, Begin, Jobs
<1>5. ASSUME GreThread \/ Serves PROVE stolen' = stolen
  BY <1>5 DEF GreThread, GreReady, GreFails, GreExits, Tunnel, Serves, CommandProceeds,
    CommandPolls, StunBegins, StunEnds, StunReturns, HttpReturns, Starts, PostStep, Jobs,
    StopTunnel, JoinTunnel, Restores, Releases
<1>6. ASSUME match_resolve \/ match_complete \/ match_reset \/ nic_w5100_reset
      PROVE  stolen' = stolen
  BY <1>6 DEF match_resolve, match_complete, match_reset, nic_w5100_reset, Jobs
<1> QED
  BY <1>1, <1>2, <1>3, <1>4, <1>5, <1>6 DEF MatchNext

LEMMA MatchNextIInv == MatchIInv /\ [MatchNext]_matchVars => MatchIInv'
<1> SUFFICES ASSUME MatchIInv, [MatchNext]_matchVars PROVE MatchIInv'
  OBVIOUS
<1>1. MatchKnown /\ Resets
  BY DEF MatchIInv
<1>2. CASE MatchNext
  <2>1. ASSUME NEW s \in Socket, Registers(s) \/ IoThread(s) \/ CommandClaims(s)
        PROVE  MatchKnown'
    BY <1>1, <2>1, GuestTouching, GuestStep, IoThreadStep, ClaimStep
  <2>2. ASSUME NEW cmd \in Command,
               CommandLeaves(cmd) \/ CommandUnavailable(cmd) \/ CommandBegins(cmd)
        PROVE  MatchKnown'
    BY <1>1, <2>2, BeginStep
  <2>3. ASSUME Serves PROVE MatchKnown'
    BY <1>1, <2>3, ProceedStep, PollStep, StunStep, HttpStep, StartStep, StopStep, JoinStep,
      RestoreStep DEF Serves
  <2>4. MatchKnown'
    BY <1>1, <1>2, <2>1, <2>2, <2>3, GreStep, ControllerStep, ChipResetStep DEF MatchNext
  <2> QED
    BY <1>2, <2>4, ResetsKept, NothingStolen DEF MatchIInv
<1>3. CASE UNCHANGED matchVars
  BY <1>3 DEF matchVars, MatchIInv, MatchKnown, MatchShapes, ChipOwns, MatchOwns,
    NothingLeaks, Claims, Connects, LeftAlone, CopyKnown, Resets, Ours
<1> QED
  BY <1>2, <1>3

\* What matchmaking, the guest and the chip's I/O thread rely on, whatever the guest
\* does to the claimed socket while a command of match_command is under way.
THEOREM MatchInvariance == MatchSpec => []MatchIInv
  BY MatchInitially, MatchNextIInv, PTL DEF MatchSpec

-----------------------------------------------------------------------------
(* What follows from it.                                                     *)

\* Every descriptor is held once and no other is open: match_compat_claim,
\* match_compat_ready, match_compat_start and match_compat_release hand them over
\* without losing or closing one twice, whenever the guest opens or closes the socket.
THEOREM MatchFdsOwned == MatchSpec => []FdsOwned
<1>1. MatchIInv => FdsOwned
  <2> SUFFICES ASSUME MatchIInv PROVE FdsOwned
    OBVIOUS
  <2>1. MatchShapes /\ ChipOwns /\ MatchOwns /\ NothingLeaks /\ Claims /\ Connects
    BY DEF MatchIInv, MatchKnown
  <2>2. MatchTypeOK
    <3>1. \A s \in Socket : chip[s] \in ChipType
      BY <2>1 DEF MatchShapes
    <3>2. \A x \in ChipType :
            /\ x.mode \in {"CLOSED", "TCP", "UDP"} /\ x.fd \in Fd \cup {0}
            /\ x.state \in {"CLOSED", "INIT", "LISTEN", "ESTABLISHED", "CLOSE_WAIT", "UDP"}
            /\ x.generation \in 0 .. MaxEpochs
      BY DEF ChipType
    <3>3. /\ open \subseteq Fd /\ ctx.stage \in Stage
          /\ ctx.active = (compat.claimed # NoSocket)
          /\ compat.claimed \in Socket \cup {NoSocket} /\ compat.outer \in Fd \cup {0}
      BY <2>1 DEF MatchShapes, ContextType, CompatType, Claims
    <3>4. /\ gre.pc \in {"none", "setup", "up", "done"} /\ gre.ready \in {-1, 0, 1}
          /\ {gre.app, gre.bridge} \subseteq Fd \cup {0}
          /\ job.pc \in JobPc /\ job.cmd \in Command /\ job.action \in Action
      BY <2>1 DEF MatchShapes, TunnelType, JobType
    <3> QED
      BY <3>1, <3>2, <3>3, <3>4 DEF MatchTypeOK
  <2>3. Held("outer") = compat.outer /\ Held("app") = gre.app /\ Held("bridge") = gre.bridge
    BY DEF Held
  <2>4. \A s \in Socket : Held(s) = chip[s].fd /\ s # "outer" /\ s # "app" /\ s # "bridge"
    BY MatchAssumption DEF Held
  <2>5. \A h \in Holder : Held(h) # 0 => Held(h) \in open
    BY <2>1, <2>3, <2>4 DEF ChipOwns, MatchOwns, Holder
  <2>6. \A h, g \in Holder : Held(h) # 0 /\ Held(h) = Held(g) => h = g
    BY <2>1, <2>3, <2>4 DEF ChipOwns, MatchOwns, Holder
  <2>7. open = {Held(h) : h \in Holder} \ {0}
    <3>1. 0 \notin open
      BY <2>1, MatchAssumption DEF MatchShapes
    <3>2. \A fd \in open : \E h \in Holder : Held(h) = fd
      BY <2>1, <2>3, <2>4 DEF NothingLeaks, Holder
    <3> QED
      BY <2>5, <3>1, <3>2
  <2>8. gre.pc \in {"setup", "up"} => compat.outer # 0 /\ gre.bridge # 0
    BY <2>1 DEF Claims, Connects
  <2> QED
    BY <2>2, <2>5, <2>6, <2>7, <2>8 DEF FdsOwned
<1> QED
  BY <1>1, MatchInvariance, PTL

\* A match that match_command reports CONNECTED has a socket the guest can use, unless
\* the guest itself changed it since the claim.
THEOREM MatchConnectedUsable == MatchSpec => []ConnectedUsable
<1>1. MatchIInv => ConnectedUsable
  <2> SUFFICES ASSUME MatchIInv, ctx.active, ctx.stage = "CONNECTED", ~touched
               PROVE  /\ chip[ctx.socket].generation = ctx.generation
                      /\ chip[ctx.socket].fd # 0
                      /\ chip[ctx.socket].state \in
                           (IF ctx.udp THEN {"UDP"} ELSE {"ESTABLISHED", "CLOSE_WAIT"})
    BY DEF ConnectedUsable
  <2>1. ctx.socket = compat.claimed /\ ctx.generation = compat.generation /\ compat.attached
    BY DEF MatchIInv, MatchKnown, Claims, Connects
  <2> QED
    BY <2>1 DEF MatchIInv, MatchKnown, LeftAlone, Ours
<1> QED
  BY <1>1, MatchInvariance, PTL

\* While STUN waits for its answer on the outer socket, the chip's I/O thread takes
\* nothing off the queue the two descriptors share.
THEOREM MatchStunUndisturbed == MatchSpec => []StunUndisturbed
<1>1. MatchIInv => StunUndisturbed
  BY DEF MatchIInv, StunUndisturbed
<1> QED
  BY <1>1, MatchInvariance, PTL

\* A command changes the claimed socket only, in the epoch of the claim only: the
\* socket that the guest has reopened meanwhile is left alone.
THEOREM MatchReopenedUntouched == MatchSpec => ReopenedUntouched
<1> DEFINE Change == Serves => \A s \in Socket :
                       chip'[s] # chip[s] => s = compat.claimed /\ Ours(s)
<1>1. ASSUME MatchIInv, Serves PROVE Change
  <2>1. chip \in [Socket -> ChipType]
    BY <1>1 DEF MatchIInv, MatchKnown, MatchShapes
  <2>2. CASE UNCHANGED chip
    BY <2>2
  <2>3. ASSUME NEW r, Ours(compat.claimed), chip' = [chip EXCEPT ![compat.claimed] = r]
        PROVE  Change
    BY <2>1, <2>3
  <2>4. ASSUME NEW p, chip' = Paused(p) PROVE Change
    BY <2>1, <2>4 DEF Paused
  <2>5. CASE CommandPolls
    BY <2>2, <2>3, <2>5 DEF CommandPolls, HandOver
  <2>6. CASE StunBegins \/ StunEnds \/ StunReturns
    BY <2>2, <2>4, <2>6 DEF StunBegins, StunEnds, StunReturns
  <2>7. CASE Starts
    BY <2>2, <2>3, <2>7 DEF Starts, StartUdp, StartTunnel
  <2>8. CASE Restores
    BY <2>2, <2>3, <2>8 DEF Restores, RestoresSocket
  <2>9. CASE CommandProceeds \/ HttpReturns \/ StopTunnel \/ JoinTunnel
    BY <2>2, <2>9 DEF CommandProceeds, HttpReturns, PostStep, StopTunnel, JoinTunnel
  <2> QED
    BY <1>1, <2>5, <2>6, <2>7, <2>8, <2>9 DEF Serves
<1>2. MatchIInv /\ [MatchNext]_matchVars => [Change]_matchVars
  BY <1>1
<1> QED
  BY <1>2, MatchInvariance, PTL DEF MatchSpec, ReopenedUntouched

=============================================================================
