--------------------------- MODULE GdbServerProofs ---------------------------
(***************************************************************************)
(* Proofs about the GDB stub, for every number of sessions and starts and  *)
(* for every kind of client: the type invariant and the four safety        *)
(* invariants of GdbServer, among them that the breakpoint list is never   *)
(* freed during a walk where the emulation thread stops the server.        *)
(***************************************************************************)
EXTENDS GdbServer, TLAPS

Stopping == upc \in {"stop_wake", "stop_sockets", "stop_disable", "join"}

\* The network thread is inside the loop that serves a client.
Serving == npc \in {"serve", "wait", "sleep", "detrap", "drop", "drop_remove", "drop_close"}

\* A step or continue was received and the trap is not open yet.
Resuming == npc = "detrap" \/ (npc \in {"wait", "sleep"} /\ after = "detrap")

\* The emulator cannot leave the trap by itself.
Held == epc = "lock" \/ (epc \in {"parked", "woken"} /\ trapped = 1)

(***************************************************************************)
(* The inductive invariant: what the three threads know of each other.     *)
(***************************************************************************)
Answered == delivered = 1 => sched = "none"
ThreadJoined == upc = "off" => npc = "none"
ShuttingDown == shutting = 1 => Stopping
TrapIsParked == trapped = 1 => epc \in {"parked", "woken"}
ClientServed ==
  /\ client = IF Serving THEN session ELSE 0
  /\ Serving \/ npc = "accepted" => session # 0
  /\ ~Serving => stopped = 0
HeldForClient ==
  /\ ~Stopping /\ Serving /\ (stopped = 1 \/ Resuming) => Held
  /\ ~Stopping /\ Resuming => stopped = 0
Dropped == npc = "drop_close" => bps = {} \/ pending = 1
OneStopper ==
  StopThread = "emulator" => /\ Stopping => epc = "run"
                             /\ npc = "drop_remove" => trapped = 1

GdbIInv ==
  /\ GdbTypeOK
  /\ StackBorrowed
  /\ LeftoversPending
  /\ Answered
  /\ ThreadJoined
  /\ ShuttingDown
  /\ TrapIsParked
  /\ ClientServed
  /\ HeldForClient
  /\ Dropped
  /\ OneStopper

LEMMA GdbInitIInv == Init => GdbIInv
<1> SUFFICES ASSUME Init PROVE GdbIInv
  OBVIOUS
<1>1. GdbTypeOK
  BY GdbAssumption DEF Init, GdbTypeOK, Mode, EmuPc, NetPc, UiPc, Session
<1>2. StackBorrowed /\ LeftoversPending /\ Answered /\ ThreadJoined /\ ShuttingDown
  BY DEF Init, StackBorrowed, LeftoversPending, Answered, ThreadJoined, ShuttingDown
<1>3. TrapIsParked /\ ClientServed /\ HeldForClient /\ Dropped /\ OneStopper
  BY DEF Init, TrapIsParked, ClientServed, HeldForClient, Dropped, OneStopper,
     Serving, Resuming, Stopping, StopThread
<1> QED
  BY <1>1, <1>2, <1>3 DEF GdbIInv

(***************************************************************************)
(* One lemma per thread: its steps preserve the inductive invariant.       *)
(***************************************************************************)
LEMMA EmulatorKeeps ==
  ASSUME GdbIInv, EmuStep \/ SpuriousWakeup, UNCHANGED setting
  PROVE  GdbIInv'
<1> USE DEF GdbIInv, GdbTypeOK, StackBorrowed, LeftoversPending, Answered, ThreadJoined,
            ShuttingDown, TrapIsParked, ClientServed, HeldForClient, Dropped, OneStopper,
            Stopping, Serving, Resuming, Held, dbgVars, trapVars, srvVars, histVars,
            StopThread, Mode, EmuPc, NetPc
<1>1. CASE EmuBoot
  BY <1>1 DEF EmuBoot
<1>2. CASE debugger_check
  <2>1. mode' \in Mode /\ pending' = 0 /\ (bps' = {} \/ (bps' = bps /\ pending = 0))
    BY <1>2 DEF debugger_check, RemoveAll
  <2>2. epc = "run" /\ epc' \in {"reply", "walk", "run"}
    BY <1>2 DEF debugger_check
  <2>3. UNCHANGED <<trapVars, srvVars, npc, upc, after, histVars>>
    BY <1>2 DEF debugger_check
  <2>4. upc \in {"off", "on"} \/ StopThread = "ui"
    BY <1>2 DEF debugger_check, EmuFree
  <2> QED
    BY <2>1, <2>2, <2>3, <2>4, GdbAssumption
<1>3. CASE WalkHit
  BY <1>3 DEF WalkHit
<1>4. CASE WalkMiss
  BY <1>4 DEF WalkMiss
<1>5. CASE UiDebugger
  BY <1>5 DEF UiDebugger
<1>6. CASE SendStopReply
  BY <1>6 DEF SendStopReply
<1>7. CASE Park
  BY <1>7 DEF Park
<1>8. CASE WokenByStop
  BY <1>8 DEF WokenByStop, Leave
<1>9. CASE Woken
  BY <1>9 DEF Woken, Leave, Perform, WakeNet, Session
<1>10. CASE SpuriousWakeup
  BY <1>10 DEF SpuriousWakeup
<1> QED
  BY <1>1, <1>2, <1>3, <1>4, <1>5, <1>6, <1>7, <1>8, <1>9, <1>10 DEF EmuStep

LEMMA NetworkKeeps ==
  ASSUME GdbIInv, NetStep \/ NetAccept \/ NetInterrupt \/ NetQuery \/ NetResume \/ NetHup,
         UNCHANGED setting
  PROVE  GdbIInv'
<1> USE DEF GdbIInv, GdbTypeOK, StackBorrowed, LeftoversPending, Answered, ThreadJoined,
            ShuttingDown, TrapIsParked, ClientServed, HeldForClient, Dropped, OneStopper,
            Stopping, Serving, Resuming, Held, dbgVars, trapVars, srvVars, histVars,
            StopThread, Mode, EmuPc, NetPc
<1>1. CASE NetBoot
  BY <1>1 DEF NetBoot
<1>2. CASE NetExit
  BY <1>2 DEF NetExit
<1>3. CASE NetAccepted
  <2>1. bps = {} \/ pending = 1
    BY <1>3 DEF NetAccepted, Session
  <2> QED
    BY <1>3, <2>1 DEF NetAccepted
<1>4. CASE AwaitResponse
  <2>1. CASE delivered = 0 /\ shutting = 0
    BY <1>4, <2>1 DEF AwaitResponse
  <2>2. CASE ~(delivered = 0 /\ shutting = 0)
    <3>1. sched' = "none" /\ npc' = after /\ after' = "serve"
      BY <1>4, <2>2 DEF AwaitResponse
    <3>2. npc = "wait" /\ Serving /\ Serving'
      BY <1>4, <3>1 DEF AwaitResponse
    <3>3. UNCHANGED <<dbgVars, trapped, halt, delivered, shutting, srvVars, epc, upc, histVars>>
      BY <1>4 DEF AwaitResponse
    <3> QED
      BY <3>1, <3>2, <3>3
  <2> QED
    BY <2>1, <2>2
<1>5. CASE gdbserver_detrap
  BY <1>5 DEF gdbserver_detrap, WakeEmu
<1>6. CASE DropTest
  BY <1>6 DEF DropTest
<1>7. CASE DropRemove
  BY <1>7 DEF DropRemove, RemoveAll
<1>8. CASE DropClose
  BY <1>8 DEF DropClose
<1>9. CASE NetAccept
  BY <1>9, GdbAssumption DEF NetAccept
<1>10. CASE NetInterrupt
  BY <1>10 DEF NetInterrupt
<1>11. CASE NetQuery
  BY <1>11 DEF NetQuery
<1>12. CASE NetResume
  BY <1>12 DEF NetResume, ClientCommands
<1>13. CASE NetHup
  BY <1>13 DEF NetHup
<1> QED
  BY <1>1, <1>2, <1>3, <1>4, <1>5, <1>6, <1>7, <1>8, <1>9, <1>10, <1>11, <1>12, <1>13
     DEF NetStep

LEMMA ExecuteKeeps ==
  ASSUME GdbIInv, NEW cmd \in Commands, gdbserver_execute_on_main_thread(cmd[1], cmd[2]),
         UNCHANGED setting
  PROVE  GdbIInv'
<1> DEFINE call == cmd[1]
           next == cmd[2]
<1>1. call \in Call /\ next \in {"serve", "detrap"}
  BY DEF Commands, Call
<1> HIDE DEF call, next
<1>2. gdbserver_execute_on_main_thread(call, next)
  BY DEF call, next
<1> QED
  BY <1>1, <1>2 DEF gdbserver_execute_on_main_thread, ClientCommands, WakeEmu,
     GdbIInv, GdbTypeOK, StackBorrowed, LeftoversPending, Answered, ThreadJoined,
     ShuttingDown, TrapIsParked, ClientServed, HeldForClient, Dropped, OneStopper,
     Stopping, Serving, Resuming, Held, dbgVars, srvVars, EmuPc, NetPc, StopThread

LEMMA ServerKeeps ==
  ASSUME GdbIInv, StartThread \/ StopTrap \/ UiStep, UNCHANGED setting
  PROVE  GdbIInv'
<1> USE DEF GdbIInv, GdbTypeOK, StackBorrowed, LeftoversPending, Answered, ThreadJoined,
            ShuttingDown, TrapIsParked, ClientServed, HeldForClient, Dropped, OneStopper,
            Stopping, Serving, Resuming, Held, dbgVars, trapVars, srvVars, histVars,
            StopThread, EmuPc, NetPc, UiPc
<1>1. CASE StartThread
  BY <1>1, GdbAssumption DEF StartThread
<1>2. CASE StopTrap
  BY <1>2 DEF StopTrap, WakeEmu, WakeNet
<1>3. CASE StartEnable
  BY <1>3 DEF StartEnable
<1>4. CASE StopEmulating
  BY <1>4 DEF StopEmulating
<1>5. CASE StopSockets
  BY <1>5 DEF StopSockets, Session
<1>6. CASE StopDisable
  BY <1>6 DEF StopDisable
<1>7. CASE StopJoin
  BY <1>7 DEF StopJoin
<1> QED
  BY <1>1, <1>2, <1>3, <1>4, <1>5, <1>6, <1>7 DEF UiStep

LEMMA GdbNextIInv == GdbIInv /\ [Next]_<<vars, setting>> => GdbIInv'
<1> SUFFICES ASSUME GdbIInv, [Next]_<<vars, setting>> PROVE GdbIInv'
  OBVIOUS
<1>1. CASE UNCHANGED <<vars, setting>>
  BY <1>1 DEF vars, dbgVars, trapVars, srvVars, histVars, GdbIInv, GdbTypeOK,
     StackBorrowed, LeftoversPending, Answered, ThreadJoined, ShuttingDown,
     TrapIsParked, ClientServed, HeldForClient, Dropped, OneStopper,
     Stopping, Serving, Resuming, Held, StopThread
<1>2. CASE Next
  BY <1>1, <1>2, EmulatorKeeps, NetworkKeeps, ExecuteKeeps, ServerKeeps
     DEF Next, Steps, EmuIdle
<1> QED
  BY <1>1, <1>2

THEOREM GdbInvariance == Spec => []GdbIInv
  BY GdbInitIInv, GdbNextIInv, PTL DEF Spec

\* The flags of the stub and the positions of the three threads keep their types.
THEOREM GdbTypeCorrect == Spec => []GdbTypeOK
<1>1. GdbIInv => GdbTypeOK
  BY DEF GdbIInv
<1> QED
  BY <1>1, GdbInvariance, PTL

\* The emulation thread never touches the stack frame of a call of
\* gdbserver_execute_on_main_thread that has returned.
THEOREM GdbStackBorrowed == Spec => []StackBorrowed
<1>1. GdbIInv => StackBorrowed
  BY DEF GdbIInv
<1> QED
  BY <1>1, GdbInvariance, PTL

\* A target that was reported stopped executes nothing until its client resumes
\* it, whatever wakeups, actions and interrupts come in between.
THEOREM GdbStopHolds == Spec => []StopHolds
<1>1. GdbIInv => StopHolds
  BY DEF GdbIInv, GdbTypeOK, ClientServed, HeldForClient, StopHolds, Stopping, Serving,
     Held, UiPc
<1> QED
  BY <1>1, GdbInvariance, PTL

\* The breakpoints of a client that disconnected are about to be removed.
THEOREM GdbLeftoversPending == Spec => []LeftoversPending
<1>1. GdbIInv => LeftoversPending
  BY DEF GdbIInv
<1> QED
  BY <1>1, GdbInvariance, PTL

\* If the emulation thread is the one that stops the server, the network thread
\* never frees the breakpoint list while the emulation thread walks it.
THEOREM GdbNoListRace == Spec => []NoListRace
<1>1. GdbIInv => NoListRace
  BY DEF GdbIInv, OneStopper, TrapIsParked, NoListRace
<1> QED
  BY <1>1, GdbInvariance, PTL

=============================================================================
