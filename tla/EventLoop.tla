------------------------------ MODULE EventLoop ------------------------------
(***************************************************************************)
(* The emulator's main loop (spectrum.c) and the event list that drives it *)
(* (event.c), with the end of a frame, the pacing timer, RZX playback,     *)
(* which generates the ends of frames itself, and changes of machine.      *)
(*                                                                         *)
(* Everything runs in one thread: an action is a handler, one turn of a    *)
(* loop, or one step of spectrum_do_frame_end.  Times are libspectrum_     *)
(* dwords: arithmetic is modulo Word, and Word - 1 stands for "no events". *)
(***************************************************************************)
EXTENDS Naturals, Sequences, SequencesExt, Bags

CONSTANTS
  Word,            \* 2^32
  Frame,           \* machine_current->timings.tstates_per_frame
  Sentinel,        \* RZX_SENTINEL_TIME
  SentinelReduce,  \* RZX_SENTINEL_TIME_REDUCE
  ContentionSize,  \* ULA_CONTENTION_SIZE
  MaxStep,         \* bound: T-states an instruction or an interrupt takes at most
  Delays,          \* bound: how far ahead of a handler its next event may be
  SnapTimes,       \* T-state counts restored from an RZX file or a snapshot
  SnapInside,      \* bound: may an RZX recording hold snapshots after its start
  MaxDevice,       \* bound: device events pending at the same time
  MaxQueue,        \* bound: entries of the list, beyond which nothing new starts
  Shortest         \* bound: T-states of the shortest recorded frame

\* Beyond the sentinel the clock goes by an instruction and by one interrupt for
\* each device: the tables have room for them (80000 against 79000).
ASSUME LoopAssumption ==
  /\ {Word, Frame, Sentinel, SentinelReduce, ContentionSize} \subseteq Nat \ {0}
  /\ {MaxStep, MaxDevice, MaxQueue, Shortest} \subseteq Nat \ {0}
  /\ MaxStep <= Frame /\ Frame < Sentinel /\ SentinelReduce < Sentinel
  /\ Sentinel + (MaxDevice + 1) * MaxStep <= ContentionSize
  /\ Sentinel + ContentionSize < Word
  /\ Delays \subseteq Nat \ {0}
  /\ SnapTimes \subseteq 0 .. Frame - 1
  /\ SnapInside \in BOOLEAN

Time == 0 .. Word - 1
Steps == 1 .. MaxStep
NoEvents == Word - 1

\* "device" stands for the events of the peripherals: one shot or repeated,
\* added by an instruction or a handler, and removed by type.
Type == {"frame", "timer", "sentinel", "device"}
TypeOrder == <<"null", "frame", "timer", "sentinel", "device">>
Rank(type) == CHOOSE i \in DOMAIN TypeOrder : TypeOrder[i] = type
Event == [t : Time, type : Type \cup {"null"}]

VARIABLES
  queue,      \* event_list and event_next_event
  tstates,    \* the clock
  frame_end,  \* event_frame_end
  playback,   \* rzx_playback
  pc,         \* where the main loop is
  caller,     \* who called event_do_events: the loop or event_force_events
  firing      \* the event whose handler is called, if any

loopVars == <<queue, tstates, frame_end, playback, pc, caller, firing>>

-----------------------------------------------------------------------------
(***************************************************************************)
(* event.c: the operations on the list, as functions of the queue.         *)
(***************************************************************************)
EmptyQueue == [list |-> <<>>, next |-> NoEvents]

NextOf(list) == IF list = <<>> THEN NoEvents ELSE Head(list).t

(* Faulty variant: the comparison has the wrong sign.                      *)
NotBefore(e, f) == e.t > f.t \/ (e.t = f.t /\ Rank(e.type) <= Rank(f.type))

\* event_add_cmp(e, f) <= 0
NotAfter(e, f) == e.t < f.t \/ (e.t = f.t /\ Rank(e.type) <= Rank(f.type))

(* Faulty variant: event_next_event is not told of a new head.             *)
AddSilently(q, t, type) ==
  LET e == [t |-> t, type |-> type]
      later == {i \in DOMAIN q.list : NotAfter(e, q.list[i])}
  IN [q EXCEPT !.list = InsertAt(@, Min(later \cup {Len(@) + 1}), e)]

\* event_add_with_data: before the head, or at its place in the sorted list.
event_add(q, t, type) ==
  LET e == [t |-> t, type |-> type]
      later == {i \in DOMAIN q.list : NotAfter(e, q.list[i])}
  IN IF t < q.next THEN [list |-> <<e>> \o q.list, next |-> t]
     ELSE [q EXCEPT !.list = InsertAt(@, Min(later \cup {Len(@) + 1}), e)]

\* event_remove_type: the entries stay where they are, as null events.
event_remove_type(q, type) ==
  [q EXCEPT !.list = [i \in DOMAIN @ |->
     IF @[i].type = type THEN [@[i] EXCEPT !.type = "null"] ELSE @[i]]]

\* event_frame: every time is reduced, modulo the width of a dword.
event_frame(q, n) ==
  LET list == [i \in DOMAIN q.list |-> [q.list[i] EXCEPT !.t = (@ + Word - n) % Word]]
  IN [list |-> list, next |-> NextOf(list)]

\* Removing the head, with what event_do_events makes of event_next_event.
PopHead(q) == [list |-> Tail(q.list), next |-> NextOf(Tail(q.list))]

Pending(q, type) == {i \in DOMAIN q.list : q.list[i].type = type}

\* machine_select_machine: event_reset and the two first events of a machine.
SelectedQueue == event_add(event_add(EmptyQueue, 0, "timer"), Frame, "frame")

Init ==
  /\ queue = SelectedQueue
  /\ tstates = 0
  /\ frame_end = FALSE
  /\ playback = FALSE
  /\ pc = "z80"
  /\ caller = "loop"
  /\ firing = <<>>

-----------------------------------------------------------------------------
(***************************************************************************)
(* z80_do_opcodes: while( tstates < event_next_event ) ...                 *)
(***************************************************************************)
InZ80 == pc = "z80" /\ tstates < queue.next

Room == Len(queue.list) < MaxQueue

Instruction ==
  /\ InZ80
  /\ \E d \in Steps : tstates' = (tstates + d) % Word
  /\ UNCHANGED <<queue, frame_end, playback, pc, caller, firing>>

\* An instruction starts a device, which schedules its next event ...
DeviceStart ==
  /\ InZ80
  /\ Room /\ Cardinality(Pending(queue, "device")) < MaxDevice
  /\ \E d \in Steps, delay \in Delays :
       /\ tstates' = (tstates + d) % Word
       /\ queue' = event_add(queue, (tstates + d + delay) % Word, "device")
  /\ UNCHANGED <<frame_end, playback, pc, caller, firing>>

\* ... or stops it, which removes what it had scheduled.
DeviceStop ==
  /\ InZ80
  /\ Pending(queue, "device") # {}
  /\ \E d \in Steps : tstates' = (tstates + d) % Word
  /\ queue' = event_remove_type(queue, "device")
  /\ UNCHANGED <<frame_end, playback, pc, caller, firing>>

\* The recording says that the frame has had all its instructions.
PlaybackFrameEnd ==
  /\ InZ80
  /\ playback
  /\ tstates >= Shortest
  /\ queue' = event_add(queue, tstates, "frame")
  /\ pc' = "events" /\ caller' = "loop"
  /\ UNCHANGED <<tstates, frame_end, playback, firing>>

\* rzx_stop_playback: the queue and the clock it leaves.
rzx_stop_playback(q, now, add_interrupt) ==
  LET stopped == event_remove_type(q, "sentinel")
  IN IF add_interrupt
     THEN [queue |-> event_add(stopped, Frame, "frame"),
           tstates |-> IF now > Frame THEN Frame ELSE now]
     ELSE [queue |-> stopped, tstates |-> Frame]

\* readport: the recording has no byte for this IN.  Playback stops, and a
\* null event ends z80_do_opcodes so that it starts afresh.
PortReadError ==
  /\ InZ80
  /\ playback
  /\ \E d \in Steps :
       LET stop == rzx_stop_playback(queue, tstates + d, TRUE)
       IN /\ queue' = event_add(stop.queue, stop.tstates, "null")
          /\ tstates' = stop.tstates
  /\ playback' = FALSE
  /\ UNCHANGED <<frame_end, pc, caller, firing>>

LeaveZ80 ==
  /\ pc = "z80"
  /\ tstates >= queue.next
  /\ pc' = "events" /\ caller' = "loop"
  /\ UNCHANGED <<queue, tstates, frame_end, playback, firing>>

Z80 == \/ Instruction \/ DeviceStart \/ DeviceStop
       \/ PlaybackFrameEnd \/ PortReadError \/ LeaveZ80

-----------------------------------------------------------------------------
(***************************************************************************)
(* event_do_events: while( event_next_event <= tstates ) ...               *)
(***************************************************************************)

\* The head leaves the list before its handler, if it has one, is called.
PopEvent ==
  /\ pc = "events"
  /\ queue.next <= tstates
  /\ queue' = PopHead(queue)
  /\ IF Head(queue.list).type = "null"
     THEN UNCHANGED <<pc, firing>>
     ELSE pc' = "handler" /\ firing' = <<Head(queue.list)>>
  /\ UNCHANGED <<tstates, frame_end, playback, caller>>

Handler(type) ==
  /\ pc = "handler"
  /\ firing[1].type = type
  /\ pc' = "events"
  /\ firing' = <<>>
  /\ UNCHANGED <<playback, caller>>

\* spectrum_frame_event_fn
FrameHandler ==
  /\ Handler("frame")
  /\ frame_end' = TRUE
  /\ UNCHANGED <<queue, tstates>>

\* timer_frame: paces the emulation, then schedules itself again.
TimerHandler ==
  /\ Handler("timer")
  /\ \E delay \in Delays :
       queue' = event_add(queue, (firing[1].t + delay) % Word, "timer")
  /\ UNCHANGED <<tstates, frame_end>>

(* Faulty variant: the sentinel is not set again.                          *)
SentinelOnce ==
  /\ Handler("sentinel")
  /\ tstates' = (tstates + Word - SentinelReduce) % Word
  /\ UNCHANGED <<queue, frame_end>>

\* rzx_sentinel: the clock goes back, and the sentinel is set again.
SentinelHandler ==
  /\ Handler("sentinel")
  /\ tstates' = (tstates + Word - SentinelReduce) % Word
  /\ queue' = event_add(queue, Sentinel, "sentinel")
  /\ UNCHANGED frame_end

\* A device is done (an interrupt, say, which takes some T-states) or goes on.
DeviceHandler ==
  /\ Handler("device")
  /\ \/ tstates' \in {tstates} \cup {tstates + d : d \in Steps} /\ UNCHANGED queue
     \/ \E delay \in Delays :
          /\ queue' = event_add(queue, (firing[1].t + delay) % Word, "device")
          /\ UNCHANGED tstates
  /\ UNCHANGED frame_end

\* event_do_events returns; spectrum_do_frame tests event_frame_end.
EventsDone ==
  /\ pc = "events"
  /\ queue.next > tstates
  /\ pc' = IF caller = "force" THEN "force" ELSE IF ~frame_end THEN "z80"
           ELSE IF playback THEN "force" ELSE "rzx"
  /\ UNCHANGED <<queue, tstates, frame_end, playback, caller, firing>>

Events == \/ PopEvent \/ FrameHandler \/ TimerHandler \/ SentinelHandler
          \/ DeviceHandler \/ EventsDone

-----------------------------------------------------------------------------
(***************************************************************************)
(* spectrum_do_frame_end.                                                  *)
(***************************************************************************)

\* event_force_events: jump to each event of the frame that is still to come.
ForceEvent ==
  /\ pc = "force"
  /\ queue.next < Frame
  /\ tstates' = queue.next
  /\ pc' = "events" /\ caller' = "force"
  /\ UNCHANGED <<queue, frame_end, playback, firing>>

ForceDone ==
  /\ pc = "force"
  /\ queue.next >= Frame
  /\ pc' = "rzx"
  /\ UNCHANGED <<queue, tstates, frame_end, playback, caller, firing>>

\* rzx_frame without playback.
NoPlayback ==
  /\ pc = "rzx"
  /\ ~playback
  /\ pc' = "frame"
  /\ UNCHANGED <<queue, tstates, frame_end, playback, caller, firing>>

\* playback_frame: the recording is at its end, or broken.
PlaybackFinished ==
  /\ pc = "rzx"
  /\ playback
  /\ LET stop == rzx_stop_playback(queue, tstates, FALSE)
     IN queue' = stop.queue /\ tstates' = stop.tstates
  /\ playback' = FALSE
  /\ pc' = "frame"
  /\ UNCHANGED <<frame_end, caller, firing>>

\* playback_frame: another frame; a snapshot inside the recording brings its
\* own T-state count (ula_from_snapshot).
PlaybackContinues ==
  /\ pc = "rzx"
  /\ playback
  /\ queue' = event_add(event_remove_type(queue, "sentinel"),
                        (Sentinel + tstates) % Word, "sentinel")
  /\ tstates' \in {tstates} \cup (IF SnapInside THEN SnapTimes ELSE {})
  /\ pc' = "frame"
  /\ UNCHANGED <<frame_end, playback, caller, firing>>

\* spectrum_frame
FrameLength == IF playback THEN tstates ELSE Frame

SpectrumFrame ==
  /\ pc = "frame"
  /\ LET reduced == event_frame(queue, FrameLength)
     IN queue' = IF playback THEN reduced ELSE event_add(reduced, Frame, "frame")
  /\ tstates' = (tstates + Word - FrameLength) % Word
  /\ pc' = "ui"
  /\ UNCHANGED <<frame_end, playback, caller, firing>>

\* The rest of spectrum_do_frame_end: the interrupt may take some T-states,
\* ui_event lets the user act, and the next frame begins.
FrameStarts ==
  /\ pc = "ui"
  /\ frame_end' = FALSE
  /\ pc' = "z80"
  /\ UNCHANGED <<caller, firing>>

AfterInterrupt == {tstates} \cup {tstates + d : d \in Steps}

UiNothing ==
  /\ FrameStarts
  /\ tstates' \in AfterInterrupt
  /\ UNCHANGED <<queue, playback>>

(* Faulty variant: the frame event of the machine is left in the list.     *)
StartKeepsFrame ==
  /\ FrameStarts
  /\ ~playback /\ Room
  /\ queue' = event_add(queue, Sentinel, "sentinel")
  /\ tstates' \in SnapTimes
  /\ playback' = TRUE

\* start_playback, from a snapshot that may need another machine.
UiStartPlayback ==
  /\ FrameStarts
  /\ ~playback /\ Room
  /\ \E q \in {queue, SelectedQueue} :
       queue' = event_add(event_remove_type(q, "frame"), Sentinel, "sentinel")
  /\ tstates' \in SnapTimes
  /\ playback' = TRUE

\* rzx_stop_playback( 1 ) from a menu.
UiStopPlayback ==
  /\ FrameStarts
  /\ playback
  /\ \E now \in AfterInterrupt :
       LET stop == rzx_stop_playback(queue, now, TRUE)
       IN queue' = stop.queue /\ tstates' = stop.tstates
  /\ playback' = FALSE

\* machine_select: playback stops and the event list starts afresh.
UiMachineSelect ==
  /\ FrameStarts
  /\ queue' = SelectedQueue
  /\ tstates' = 0
  /\ playback' = FALSE

FrameEnd == \/ ForceEvent \/ ForceDone \/ NoPlayback \/ PlaybackFinished
            \/ PlaybackContinues \/ SpectrumFrame \/ UiNothing
            \/ UiStartPlayback \/ UiStopPlayback \/ UiMachineSelect

Next == Z80 \/ Events \/ FrameEnd

Spec == Init /\ [][Next]_loopVars

-----------------------------------------------------------------------------
(***************************************************************************)
(* Properties.                                                             *)
(***************************************************************************)

\* The type invariant; a handler runs exactly for an event taken off the list.
LoopTypeOK ==
  /\ queue \in [list : Seq(Event), next : Time]
  /\ tstates \in Time
  /\ frame_end \in BOOLEAN /\ playback \in BOOLEAN
  /\ pc \in {"z80", "events", "handler", "force", "rzx", "frame", "ui"}
  /\ caller \in {"loop", "force"}
  /\ firing \in {<<>>} \cup {<<e>> : e \in Event}
  /\ (pc = "handler") = (firing # <<>>)

\* The list is in the order of time, null events and all, and
\* event_next_event is the time of its head: what event_add_with_data (which
\* prepends on the strength of it) and both loops rely on.  And when
\* spectrum_frame subtracts the length of the frame, neither the clock nor the
\* time of any entry is smaller: nothing wraps round to the end of time
\* (event_reduce_tstates, spectrum_frame).
TimeOrder ==
  /\ LoopTypeOK
  /\ queue.next = NextOf(queue.list)
  /\ \A i, j \in DOMAIN queue.list : i < j => queue.list[i].t <= queue.list[j].t
  /\ pc = "frame" => /\ FrameLength <= tstates
                     /\ \A i \in DOMAIN queue.list : FrameLength <= queue.list[i].t

\* While instructions run there is exactly one end of frame to come, and none
\* during playback, when only the recording ends frames (start_playback,
\* rzx_stop_playback, spectrum_frame).
OneFrameComing ==
  pc = "z80" => Cardinality(Pending(queue, "frame")) = IF playback THEN 0 ELSE 1

\* During playback a sentinel is set no later than RZX_SENTINEL_TIME from the
\* start of the frame ("Move the RZX sentinel back out to 79000 tstates").
SentinelInReach ==
  playback /\ pc = "z80" =>
    \E i \in Pending(queue, "sentinel") : queue.list[i].t <= Sentinel

\* The clock stays inside the contention tables, which have ContentionSize
\* entries ("Add a sentinel event to prevent tstates overrun"): no recorded frame
\* runs away from its sentinel.
ClockInTables == pc = "z80" => tstates < ContentionSize

-----------------------------------------------------------------------------
(***************************************************************************)
(* The list implements the schedule of EventSchedule: null entries are     *)
(* events that were removed.                                               *)
(***************************************************************************)
\* How often an event is in the list.
Copies(q, e) == Cardinality({i \in DOMAIN q.list : q.list[i] = e})

Live(q) == {e \in {q.list[i] : i \in DOMAIN q.list} : e.type # "null"}
BagOf(q) == [e \in Live(q) |-> Copies(q, e)]

Schedule == INSTANCE EventSchedule WITH
  StartUp <- {[t |-> 0, type |-> "timer"], [t |-> Frame, type |-> "frame"],
              [t |-> Sentinel, type |-> "sentinel"]},
  pending <- BagOf(queue),
  firing  <- {firing[i] : i \in DOMAIN firing},
  clock   <- tstates

\* Every step of the loop is a step the schedule allows.
ImplementsSchedule == Schedule!Spec
=============================================================================
