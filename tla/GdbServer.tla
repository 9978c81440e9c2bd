------------------------------- MODULE GdbServer -------------------------------
(***************************************************************************)
(* The GDB stub (debugger/gdbserver.c) and the breakpoint check it hooks   *)
(* into (debugger/breakpoint.c).  Three threads take part: the emulator,   *)
(* which parks in gdbserver_activate_with_reason while a client has it     *)
(* stopped; the network thread, which serves one client at a time and has  *)
(* the parked emulator execute actions for it; and the thread that starts  *)
(* and stops the server, which is the emulator's own on most ports and the *)
(* application's main thread on macOS.                                     *)
(*                                                                         *)
(* debugger_mode, gdbserver_trapped, gdbserver_client_socket and           *)
(* debugger_breakpoints_remove_pending are read and written outside        *)
(* trap_process_mutex; the steps below keep those accesses apart.          *)
(***************************************************************************)
EXTENDS Integers, FiniteSets

CONSTANTS
  MaxSessions,  \* bound: clients accepted
  MaxStarts,    \* bound: times the server is started
  Settings      \* the ports and the kinds of clients considered

ASSUME GdbAssumption ==
  /\ MaxSessions \in Nat \ {0}
  /\ MaxStarts \in Nat \ {0}
  /\ Settings \subseteq [stop : {"emulator", "ui"}, prompt : BOOLEAN, leave : BOOLEAN]

Session == 1 .. MaxSessions
Mode == {"INACTIVE", "ACTIVE", "HALTED"}
Call == {"read", "setbp", "clearbp", "step"}    \* the kinds of trapped_action_t
EmuPc == {"boot", "run", "walk", "reply", "lock", "parked", "woken"}
NetPc == {"none", "boot", "boot_wait", "accept", "accepted", "serve", "wait",
          "sleep", "detrap", "drop", "drop_remove", "drop_close", "drop_detrap",
          "exited"}
UiPc == {"off", "starting", "on", "stop_wake", "stop_sockets", "stop_disable", "join"}

VARIABLES
  setting,     \* one of Settings, for good
  mode,        \* debugger_mode
  trapped,     \* gdbserver_trapped
  halt,        \* the local of gdbserver_activate_with_reason
  sched,       \* scheduled_action
  delivered,   \* scheduled_action_response_delivered
  shutting,    \* gdbserver_shutting_down
  enabled,     \* gdbserver_debugging_enabled
  emulating,   \* gdbserver_emulating
  client,      \* gdbserver_client_socket: a session, or 0 for -1
  session,     \* the last session accepted
  hup,         \* the sessions whose socket gdbserver_stop has shut down
  bps,         \* debugger_breakpoints: the sessions that own some
  pending,     \* debugger_breakpoints_remove_pending
  epc, npc, upc, \* where the three threads are
  after,       \* what process_packet does after the action: "serve" or "detrap"
  starts,      \* how often the server was started
  stopped,     \* the client has a stop reply and has not resumed since
  asked        \* an interrupt byte was taken and not yet answered

dbgVars == <<mode, bps, pending>>
trapVars == <<trapped, halt, sched, delivered, shutting>>
srvVars == <<enabled, emulating, client, session, hup, starts>>
histVars == <<stopped, asked>>
vars == <<dbgVars, trapVars, srvVars, epc, npc, upc, after, histVars>>

\* The thread that calls gdbserver_refresh_status.
StopThread == setting.stop

\* A client sends commands as soon as the stop reply is out; otherwise only when
\* the emulator is already parked.
PromptClient == setting.prompt

\* Fairness: every client disconnects at some time.
ClientsLeave == setting.leave

Init ==
  /\ setting \in Settings
  /\ mode = "INACTIVE" /\ bps = {} /\ pending = 0
  /\ trapped = 0 /\ halt = 0 /\ sched = "none" /\ delivered = 0 /\ shutting = 0
  /\ enabled = 0 /\ emulating = 0 /\ client = 0 /\ session = 0 /\ hup = {} /\ starts = 0
  /\ epc = "boot" /\ npc = "none" /\ upc = "off" /\ after = "serve"
  /\ stopped = 0 /\ asked = 0

-----------------------------------------------------------------------------
\* debugger_breakpoint_remove_all
RemoveAll == bps' = {} /\ mode' = IF mode = "ACTIVE" THEN "INACTIVE" ELSE mode

\* Wakeups: of the emulator on trapped_cond, of the network thread on
\* response_cond.
WakeEmu == epc' = IF epc = "parked" THEN "woken" ELSE epc
WakeNet(pc) == IF pc = "sleep" THEN "wait" ELSE pc

\* The emulator runs its own code unless it is the one stopping the server.
EmuFree == StopThread = "ui" \/ upc \in {"off", "on"}

(***************************************************************************)
(* The emulator thread.                                                    *)
(***************************************************************************)

\* The first frame: gdbserver_note_emulating releases the network thread.
\* --gdbserver-wait halts before the first opcode.
EmuBoot ==
  /\ epc = "boot" /\ EmuFree /\ upc = "on"
  /\ emulating' = 1
  /\ npc' = IF npc = "boot_wait" THEN "boot" ELSE npc
  /\ mode' \in {mode, "HALTED"}
  /\ epc' = "run"
  /\ UNCHANGED <<bps, pending, trapVars, enabled, client, session, hup, starts,
                 upc, after, histVars>>

\* debugger_check, up to the walk of the list; HALTED leads to debugger_trap.
debugger_check ==
  /\ epc = "run" /\ EmuFree
  /\ mode # "INACTIVE" \/ enabled = 1
  /\ IF pending = 1 THEN RemoveAll ELSE UNCHANGED <<mode, bps>>
  /\ pending' = 0
  /\ epc' = IF mode' = "HALTED" /\ enabled = 1 THEN "reply"
            ELSE IF mode' = "ACTIVE" /\ bps' # {} THEN "walk" ELSE "run"
  /\ UNCHANGED <<trapVars, srvVars, npc, upc, after, histVars>>

\* The walk finds a breakpoint that triggers; a one-shot breakpoint, perhaps
\* its owner's last, leaves the list.
WalkHit ==
  /\ epc = "walk"
  /\ \E s \in bps : bps' \in {bps, bps \ {s}}
  /\ mode' = "HALTED"
  /\ epc' = IF enabled = 1 THEN "reply" ELSE "run"
  /\ UNCHANGED <<pending, trapVars, srvVars, npc, upc, after, histVars>>

\* It finds none; an interrupt may have come meanwhile.
WalkMiss ==
  /\ epc = "walk"
  /\ epc' = IF mode = "HALTED" /\ enabled = 1 THEN "reply" ELSE "run"
  /\ UNCHANGED <<dbgVars, trapVars, srvVars, npc, upc, after, histVars>>

\* Halted with the server off: the built-in debugger's user continues.
UiDebugger ==
  /\ epc = "run" /\ EmuFree /\ enabled = 0 /\ mode = "HALTED"
  /\ mode' = IF bps = {} THEN "INACTIVE" ELSE "ACTIVE"
  /\ UNCHANGED <<bps, pending, trapVars, srvVars, epc, npc, upc, after, histVars>>

\* Instructions executed with the debugger inactive.
EmuIdle == epc = "run" /\ EmuFree /\ mode = "INACTIVE" /\ enabled = 0 /\ UNCHANGED vars

\* gdbserver_activate_with_reason sends the stop reply, before the lock.
SendStopReply ==
  /\ epc = "reply"
  /\ epc' = "lock"
  /\ IF client # 0 /\ enabled = 1
       THEN stopped' = 1 /\ asked' = 0
       ELSE UNCHANGED histVars
  /\ UNCHANGED <<dbgVars, trapVars, srvVars, npc, upc, after>>

\* trapped = 1, and the first pthread_cond_wait on trapped_cond.
Park ==
  /\ epc = "lock"
  /\ trapped' = 1 /\ halt' = 0
  /\ epc' = "parked"
  /\ UNCHANGED <<dbgVars, sched, delivered, shutting, srvVars, npc, upc, after, histVars>>

SpuriousWakeup ==
  /\ \/ epc = "parked" /\ epc' = "woken" /\ UNCHANGED npc
     \/ npc = "sleep" /\ npc' = "wait" /\ UNCHANGED epc
  /\ UNCHANGED <<dbgVars, trapVars, srvVars, upc, after, histVars>>

\* The scheduled action and its effect on the debugger, for client s.
Perform(call, s) ==
  /\ bps' = CASE call = "setbp" -> bps \cup {s}
              [] call = "clearbp" -> bps \ {s}
              [] OTHER -> bps
  /\ halt' = IF call = "step" THEN 1 ELSE 0

\* The end of gdbserver_activate_with_reason.
Leave(m) == mode' = m /\ trapped' = 0 /\ epc' = "run"

\* pthread_cond_wait returned while the server is being stopped.
WokenByStop ==
  /\ epc = "woken" /\ shutting = 1
  /\ Leave("ACTIVE")
  /\ UNCHANGED <<bps, pending, halt, sched, delivered, shutting, srvVars, npc,
                 upc, after, histVars>>

(* Faulty variants: the loop is left after any wakeup; the network thread   *)
(* is not told that the response is there.                                  *)
WokenLeaves ==
  /\ epc = "woken" /\ shutting = 0
  /\ IF sched # "none"
       THEN /\ Perform(sched, session)
            /\ sched' = "none" /\ delivered' = 1
            /\ npc' = WakeNet(npc)
       ELSE UNCHANGED <<bps, halt, sched, delivered, npc>>
  /\ Leave(IF halt' = 0 THEN "ACTIVE" ELSE "HALTED")
  /\ UNCHANGED <<pending, shutting, srvVars, upc, after, histVars>>
WokenSilent ==
  /\ epc = "woken" /\ shutting = 0
  /\ IF sched # "none"
       THEN /\ Perform(sched, session)
            /\ sched' = "none" /\ delivered' = 1
       ELSE UNCHANGED <<bps, halt, sched, delivered>>
  /\ npc' = npc
  /\ IF trapped = 0
       THEN Leave(IF halt' = 0 THEN "ACTIVE" ELSE "HALTED")
       ELSE epc' = "parked" /\ UNCHANGED <<mode, trapped>>
  /\ UNCHANGED <<pending, shutting, srvVars, upc, after, histVars>>

\* pthread_cond_wait returned: perform the scheduled action, if any, tell the
\* network thread, and leave if the client resumed; else wait again.
Woken ==
  /\ epc = "woken" /\ shutting = 0
  /\ IF sched # "none"
       THEN /\ Perform(sched, session)
            /\ sched' = "none" /\ delivered' = 1
            /\ npc' = WakeNet(npc)
       ELSE UNCHANGED <<bps, halt, sched, delivered, npc>>
  /\ IF trapped = 0
       THEN Leave(IF halt' = 0 THEN "ACTIVE" ELSE "HALTED")
       ELSE epc' = "parked" /\ UNCHANGED <<mode, trapped>>
  /\ UNCHANGED <<pending, shutting, srvVars, upc, after, histVars>>

EmuStep ==
  \/ EmuBoot
  \/ debugger_check
  \/ WalkHit
  \/ WalkMiss
  \/ UiDebugger
  \/ SendStopReply
  \/ Park
  \/ WokenByStop
  \/ Woken

-----------------------------------------------------------------------------
(***************************************************************************)
(* The network thread.                                                     *)
(***************************************************************************)

\* The listening socket is open until gdbserver_stop shuts it down.
Listening == upc \notin {"stop_disable", "join"}

\* Wait for the first frame; then the loop over clients, which runs while
\* gdbserver_debugging_enabled.
NetBoot ==
  /\ npc = "boot"
  /\ npc' = IF emulating = 0 /\ shutting = 0 /\ enabled = 1 THEN "boot_wait" ELSE "accept"
  /\ UNCHANGED <<dbgVars, trapVars, srvVars, epc, upc, after, histVars>>

NetExit ==
  /\ npc = "accept" /\ enabled = 0
  /\ npc' = "exited"
  /\ UNCHANGED <<dbgVars, trapVars, srvVars, epc, upc, after, histVars>>

NetAccept ==
  /\ npc = "accept" /\ enabled = 1 /\ Listening
  /\ session < MaxSessions
  /\ session' = session + 1
  /\ npc' = "accepted"
  /\ UNCHANGED <<dbgVars, trapVars, enabled, emulating, client, hup, starts, epc,
                 upc, after, histVars>>

\* gdbserver_client_socket = sock, some calls after accept() returned.
NetAccepted ==
  /\ npc = "accepted"
  /\ client' = session
  /\ npc' = "serve"
  /\ UNCHANGED <<dbgVars, trapVars, enabled, emulating, session, hup, starts, epc,
                 upc, after, histVars>>

\* 0x03, or "?" while the emulator is not trapped: debugger_mode = HALTED,
\* without the lock.
NetInterrupt ==
  /\ npc = "serve"
  /\ mode' = "HALTED"
  /\ asked' = IF stopped = 0 THEN 1 ELSE asked
  /\ UNCHANGED <<bps, pending, trapVars, srvVars, epc, npc, upc, after, stopped>>

\* "?" while the emulator is trapped repeats the stop reply.
NetQuery ==
  /\ npc = "serve" /\ trapped = 1
  /\ stopped' = 1 /\ asked' = 0
  /\ UNCHANGED <<dbgVars, trapVars, srvVars, epc, npc, upc, after>>

\* The client sends commands for a stopped target only.
ClientCommands ==
  /\ npc = "serve" /\ stopped = 1
  /\ ~PromptClient => epc \in {"parked", "woken"}

\* gdbserver_execute_on_main_thread, its first critical section: refused, or
\* scheduled and signalled.  "s", "i" and "vCont;s" resume afterwards.
gdbserver_execute_on_main_thread(call, next) ==
  /\ ClientCommands
  /\ after' = next
  /\ stopped' = IF next = "detrap" THEN 0 ELSE stopped
  /\ IF shutting = 0 /\ (trapped = 1 \/ mode = "HALTED")
       THEN sched' = call /\ delivered' = 0 /\ npc' = "wait" /\ WakeEmu
       ELSE npc' = next /\ UNCHANGED <<sched, delivered, epc>>
  /\ UNCHANGED <<dbgVars, trapped, halt, shutting, srvVars, upc, asked>>

\* "c", "vCont;c", "D": resume.
NetResume ==
  /\ ClientCommands
  /\ npc' = "detrap" /\ after' = "serve" /\ stopped' = 0
  /\ UNCHANGED <<dbgVars, trapVars, srvVars, epc, upc, asked>>

(* Faulty variant: "if" instead of "while" around pthread_cond_wait.        *)
AwaitOnce ==
  /\ npc = "wait"
  /\ \/ /\ delivered = 0 /\ shutting = 0 /\ npc' = "sleep" /\ UNCHANGED <<sched, after>>
     \/ npc' = after /\ after' = "serve"
        /\ sched' = IF shutting = 1 /\ delivered = 0 THEN "none" ELSE sched
  /\ UNCHANGED <<dbgVars, trapped, halt, delivered, shutting, srvVars, epc, upc, histVars>>

\* Its second critical section: while there is no response, wait; when the
\* server is being stopped, withdraw the action.
AwaitResponse ==
  /\ npc = "wait"
  /\ IF delivered = 0 /\ shutting = 0
       THEN npc' = "sleep" /\ UNCHANGED <<sched, after>>
       ELSE /\ sched' = IF shutting = 1 /\ delivered = 0 THEN "none" ELSE sched
            /\ npc' = after /\ after' = "serve"
  /\ UNCHANGED <<dbgVars, trapped, halt, delivered, shutting, srvVars, epc, upc, histVars>>

\* gdbserver_detrap, after a resume command or a disconnection.
gdbserver_detrap ==
  /\ npc \in {"detrap", "drop_detrap"}
  /\ npc' = IF npc = "detrap" THEN "serve" ELSE "accept"
  /\ trapped' = 0
  /\ IF trapped = 1 THEN WakeEmu ELSE UNCHANGED epc
  /\ UNCHANGED <<dbgVars, halt, sched, delivered, shutting, srvVars, upc, after, histVars>>

\* recv() fails: the client closed its side, or the socket was shut down.
NetHup ==
  /\ npc = "serve"
  /\ npc' = "drop" /\ stopped' = 0 /\ asked' = 0
  /\ UNCHANGED <<dbgVars, trapVars, srvVars, epc, upc, after>>

(* Faulty variant: breakpoints go at once in any case.                      *)
DropAlways ==
  /\ npc = "drop"
  /\ npc' = "drop_remove"
  /\ UNCHANGED pending
  /\ UNCHANGED <<mode, bps, trapVars, srvVars, epc, upc, after, histVars>>

\* The client's breakpoints go now, if the emulator is trapped, or later.
DropTest ==
  /\ npc = "drop"
  /\ IF trapped = 1
       THEN npc' = "drop_remove" /\ UNCHANGED pending
       ELSE npc' = "drop_close" /\ pending' = 1
  /\ UNCHANGED <<mode, bps, trapVars, srvVars, epc, upc, after, histVars>>

DropRemove ==
  /\ npc = "drop_remove"
  /\ RemoveAll
  /\ npc' = "drop_close"
  /\ UNCHANGED <<pending, trapVars, srvVars, epc, upc, after, histVars>>

\* close(client), gdbserver_client_socket = -1
DropClose ==
  /\ npc = "drop_close"
  /\ client' = 0 /\ stopped' = 0 /\ asked' = 0
  /\ npc' = "drop_detrap"
  /\ UNCHANGED <<dbgVars, trapVars, enabled, emulating, session, hup, starts, epc,
                 upc, after>>

Commands == {<<"read", "serve">>, <<"setbp", "serve">>, <<"clearbp", "serve">>,
             <<"step", "detrap">>, <<"setbp", "detrap">>}

\* The steps the network thread takes by itself.
NetStep ==
  \/ NetBoot
  \/ NetExit
  \/ NetAccepted
  \/ AwaitResponse
  \/ gdbserver_detrap
  \/ DropTest
  \/ DropRemove
  \/ DropClose

-----------------------------------------------------------------------------
(***************************************************************************)
(* Starting and stopping the server.                                       *)
(***************************************************************************)

\* gdbserver_start: the thread is created ...
StartThread ==
  /\ upc = "off" /\ starts < MaxStarts
  /\ StopThread = "emulator" => epc \in {"boot", "run"}
  /\ starts' = starts + 1
  /\ npc' = "boot" /\ upc' = "starting"
  /\ UNCHANGED <<dbgVars, trapVars, enabled, emulating, client, session, hup, epc,
                 after, histVars>>

\* ... and then gdbserver_debugging_enabled is set.
StartEnable ==
  /\ upc = "starting"
  /\ enabled' = 1 /\ upc' = "on"
  /\ UNCHANGED <<dbgVars, trapVars, emulating, client, session, hup, starts, epc,
                 npc, after, histVars>>

(* Faulty variant: the thread that waits for a response is not woken.       *)
StopWakesEmu ==
  /\ upc = "on"
  /\ StopThread = "emulator" => epc = "run"
  /\ shutting' = 1 /\ sched' = "none"
  /\ WakeEmu /\ npc' = npc
  /\ upc' = "stop_wake"
  /\ UNCHANGED <<dbgVars, trapped, halt, delivered, srvVars, after, histVars>>

\* gdbserver_stop: under trap_process_mutex, withdraw the action and wake up
\* everybody.
StopTrap ==
  /\ upc = "on"
  /\ StopThread = "emulator" => epc = "run"
  /\ shutting' = 1 /\ sched' = "none"
  /\ WakeEmu /\ npc' = WakeNet(npc)
  /\ upc' = "stop_wake"
  /\ UNCHANGED <<dbgVars, trapped, halt, delivered, srvVars, after, histVars>>

\* Broadcast on emulating_cond.
StopEmulating ==
  /\ upc = "stop_wake"
  /\ npc' = IF npc = "boot_wait" THEN "boot" ELSE npc
  /\ upc' = "stop_sockets"
  /\ UNCHANGED <<dbgVars, trapVars, srvVars, epc, after, histVars>>

\* shutdown() of the client's socket, if there is one, and of the listener.
StopSockets ==
  /\ upc = "stop_sockets"
  /\ hup' = IF client # 0 THEN hup \cup {client} ELSE hup
  /\ upc' = "stop_disable"
  /\ UNCHANGED <<dbgVars, trapVars, enabled, emulating, client, session, starts, epc,
                 npc, after, histVars>>

StopDisable ==
  /\ upc = "stop_disable"
  /\ enabled' = 0 /\ upc' = "join"
  /\ UNCHANGED <<dbgVars, trapVars, emulating, client, session, hup, starts, epc,
                 npc, after, histVars>>

\* pthread_join, close the sockets, shutting_down = 0.
StopJoin ==
  /\ upc = "join" /\ npc = "exited"
  /\ client' = 0 /\ shutting' = 0 /\ npc' = "none" /\ upc' = "off"
  /\ UNCHANGED <<dbgVars, trapped, halt, sched, delivered, enabled, emulating,
                 session, hup, starts, epc, after, histVars>>

UiStep == StartEnable \/ StopEmulating \/ StopSockets \/ StopDisable \/ StopJoin

Steps ==
  \/ EmuStep
  \/ EmuIdle
  \/ SpuriousWakeup
  \/ NetStep
  \/ NetAccept
  \/ NetInterrupt
  \/ NetQuery
  \/ \E cmd \in Commands : gdbserver_execute_on_main_thread(cmd[1], cmd[2])
  \/ NetResume
  \/ NetHup
  \/ StartThread
  \/ StopTrap
  \/ UiStep

Next == Steps /\ UNCHANGED setting

Spec == Init /\ [][Next]_<<vars, setting>>

(***************************************************************************)
(* The three threads are scheduled.  Nothing is assumed of clients but     *)
(* that a socket which was shut down returns from recv(), and, if          *)
(* ClientsLeave, that they disconnect some day.                            *)
(***************************************************************************)
FairSpec ==
  /\ Spec
  /\ WF_vars(EmuStep)
  /\ WF_vars(NetStep)
  /\ WF_vars(UiStep)
  /\ SF_vars(NetHup /\ (client \in hup \/ ClientsLeave))

-----------------------------------------------------------------------------
(***************************************************************************)
(* Properties.                                                             *)
(***************************************************************************)

\* Type invariant of the stub's flags and of the three threads.
GdbTypeOK ==
  /\ setting \in Settings
  /\ mode \in Mode /\ bps \subseteq Session /\ pending \in {0, 1}
  /\ trapped \in {0, 1} /\ halt \in {0, 1} /\ delivered \in {0, 1}
  /\ sched \in Call \cup {"none"} /\ shutting \in {0, 1}
  /\ enabled \in {0, 1} /\ emulating \in {0, 1}
  /\ session \in 0 .. MaxSessions /\ client \in 0 .. session
  /\ hup \subseteq Session /\ starts \in 0 .. MaxStarts
  /\ epc \in EmuPc /\ npc \in NetPc /\ upc \in UiPc
  /\ after \in {"serve", "detrap"}
  /\ stopped \in {0, 1} /\ asked \in {0, 1}

\* While an action is scheduled its caller is still inside
\* gdbserver_execute_on_main_thread: data and response are on that stack.
StackBorrowed == sched # "none" => npc \in {"wait", "sleep"}

\* A client that was told the target stopped and did not resume it finds it
\* stopped: the emulator executes nothing until then (or until shutdown).
StopHolds ==
  stopped = 1 /\ client # 0 /\ upc \in {"off", "starting", "on"}
    => epc \notin {"run", "walk"}

\* The breakpoint list is never freed by the network thread while the emulator
\* thread walks it, on the ports where the emulator thread stops the server.
NoListRace == StopThread = "emulator" => ~(npc = "drop_remove" /\ epc = "walk")

\* A breakpoint outlives its client only until the emulator's next check: the
\* removal is in progress, or pending.
LeftoversPending ==
  \A s \in bps : s = client \/ pending = 1

\* The client sends its commands when the emulator is parked.
Patient == StopThread = "emulator" /\ ~PromptClient

\* What a patient client asks for is answered, unless the server is stopped.
ActionAnswered == (Patient /\ npc = "wait") ~> (npc \notin {"wait", "sleep"})

\* The same of every client.
EveryActionAnswered == (npc = "wait") ~> (npc \notin {"wait", "sleep"})

\* A patient client's continue of a trapped target resumes emulation.
ContinueResumes == (Patient /\ npc = "detrap" /\ trapped = 1) ~> (epc = "run")

\* A patient client is served: its actions are answered and its continue resumes.
RequestsServed == ActionAnswered /\ ContinueResumes

\* gdbserver_stop returns when clients do not stay for ever.
StopReturns == (ClientsLeave /\ upc = "stop_wake") ~> (upc = "off")

-----------------------------------------------------------------------------
(***************************************************************************)
(* What a user of the server would also expect and the code does not       *)
(* provide; the README says under which constants TLC shows it.            *)
(***************************************************************************)

\* A client's breakpoints are removed by its own requests, by its
\* disconnection, or when a one-shot one triggers.
OwnBreakpoints ==
  [][ \A s \in bps \ bps' :
        \/ sched = "clearbp" /\ s = session
        \/ s # client
        \/ epc = "walk"
        \/ npc \in {"drop", "drop_remove", "drop_close"} ]_vars

\* An interrupt stops the target: a stop reply follows, unless the client
\* leaves or the server is stopped.
InterruptAnswered == (asked = 1 /\ upc = "on") ~> (asked = 0 \/ upc # "on")

\* Stopping the server releases the emulator from the trap.
StopReleases ==
  (shutting = 1 /\ epc \in {"lock", "parked", "woken"}) ~> (epc = "run")

\* A server that was started has its thread until it is stopped.
ServerServes == upc = "on" => npc # "exited"

=============================================================================
