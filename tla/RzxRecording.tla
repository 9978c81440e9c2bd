---------------------------- MODULE RzxRecording ----------------------------
(***************************************************************************)
(* Recording an RZX file (rzx_recording.c, the recording menu of menu.c):  *)
(* frames, snapshots put in by hand, automatic snapshots and their         *)
(* pruning, rollback, and competition mode.                                *)
(*                                                                         *)
(* A recording is a stream of frames with snapshots between them; only     *)
(* how many frames stand before a snapshot matters here.  A frame is       *)
(* stored at the end of an emulated frame, and again when the processor    *)
(* accepts an interrupt late: one that EI put off by an instruction, or a  *)
(* second one.                                                             *)
(***************************************************************************)
EXTENDS Naturals, Sequences, FiniteSetsExt

CONSTANTS
  Interval,  \* AUTOSAVE_INTERVAL
  Ages,      \* 15 * 50, 60 * 50 and 300 * 50: the ages at which a save is looked at
  MaxFrames, \* bound: frames of a recording
  MaxLate,   \* bound: frames of one that is not steady
  MaxManual  \* bound: snapshots that are not automatic

ASSUME RecordingAssumption ==
  /\ Interval \in Nat \ {0} /\ MaxFrames \in Nat /\ MaxLate \in Nat /\ MaxManual \in Nat
  /\ Interval < MaxFrames /\ MaxLate <= MaxFrames
  /\ \A age \in Ages : age \in Nat \ {0} /\ age % Interval = 0
  /\ \A age, older \in Ages : age < older => older % age = 0

VARIABLES
  recording,   \* rzx_recording
  competition, \* rzx_competition_mode
  autosaves,   \* settings_current.rzx_autosaves
  frames,      \* the frames of the stream
  snaps,       \* its snapshots: after how many frames, automatic or not
  count,       \* autosave_frame_count, modulo Interval: nothing else of it is read
  pending,     \* autosave_pending
  delayed,     \* z80_ei_delayed_interrupt_event is in the event list
  steady,      \* ghost: so far every frame counted, and every save was taken on its frame
  longest,     \* ghost: the most frames this recording has had
  rolled       \* ghost: it was rolled back

recordingVars ==
  <<recording, competition, autosaves, frames, snaps, count, pending, delayed, steady, longest, rolled>>

RecordingInit ==
  /\ recording = FALSE /\ competition = FALSE /\ autosaves = TRUE
  /\ frames = 0 /\ snaps = <<>> /\ count = 0
  /\ pending = FALSE /\ delayed = FALSE /\ steady = TRUE /\ longest = 0 /\ rolled = FALSE

Snapshot == [at : 0 .. MaxFrames, auto : BOOLEAN]
Automatic(stream) == {stream[i] : i \in {j \in DOMAIN stream : stream[j].auto}}
Manual(stream) == {j \in DOMAIN stream : ~stream[j].auto}
Age(save, now) == now - save.at

-----------------------------------------------------------------------------
(***************************************************************************)
(* The operations on the stream.                                           *)
(***************************************************************************)
\* A stream without some of its snapshots: the loop that calls
\* libspectrum_rzx_iterator_delete for each of them.
Without(stream, doomed) ==
  LET kept[i \in 0 .. Len(stream)] ==
        IF i = 0 THEN <<>>
        ELSE IF stream[i] \in doomed THEN kept[i - 1] ELSE Append(kept[i - 1], stream[i])
  IN  kept[Len(stream)]

(* Faulty variant: what is exactly twice as old counts as close.            *)
PruneOlder(stream, now) ==
  LET doomed == {save \in Automatic(stream) :
                   /\ Age(save, now) \in Ages
                   /\ \E older \in Automatic(stream) :
                        older.at < save.at /\ Age(older, now) <= 2 * Age(save, now)}
  IN Without(stream, doomed)

\* autosave_prune: a save that has just reached one of the ages goes, if the one
\* before it is less than twice as old.
autosave_prune(stream, now) ==
  LET doomed == {save \in Automatic(stream) :
                   /\ Age(save, now) \in Ages
                   /\ \E older \in Automatic(stream) :
                        older.at < save.at /\ Age(older, now) < 2 * Age(save, now)}
  IN Without(stream, doomed)

\* autosave_reset: the frames since the last automatic snapshot.
autosave_reset(stream, now) ==
  (now - Max({0} \cup {save.at : save \in Automatic(stream)})) % Interval

-----------------------------------------------------------------------------
(***************************************************************************)
(* Starting and stopping.                                                  *)
(***************************************************************************)
\* start_recording, with the stream it goes on from.
StartsWith(stream, length, mode) ==
  /\ ~recording /\ recording' = TRUE /\ competition' = mode
  /\ snaps' = stream /\ frames' = length /\ count' = 0 /\ pending' = FALSE
  /\ steady' = (Automatic(stream) = {}) /\ longest' = length /\ rolled' = FALSE
  /\ UNCHANGED <<autosaves, delayed>>

\* The menu embeds a snapshot, or leaves it to a setting.
rzx_start_recording ==
  \E mode \in BOOLEAN, embedded \in {<<>>, <<[at |-> 0, auto |-> FALSE]>>} :
    StartsWith(embedded, 0, mode)

\* A file that was not finalised ends in a snapshot; whether the library still knows
\* the others as automatic is left open.
rzx_continue_recording ==
  \E length \in 1 .. Interval + 1, auto \in BOOLEAN :
    StartsWith(<<[at |-> 1, auto |-> auto], [at |-> length, auto |-> FALSE]>>, length, FALSE)

\* rzx_competition_mode keeps its value; the stream is written and freed.
Stopped ==
  /\ recording' = FALSE /\ pending' = FALSE
  /\ snaps' = <<>> /\ frames' = 0 /\ longest' = 0 /\ rolled' = FALSE
  /\ UNCHANGED <<competition, autosaves, count, steady>>

rzx_stop_recording == recording /\ Stopped /\ UNCHANGED delayed

ToggleAutosaves ==
  /\ autosaves' = ~autosaves /\ steady' = (steady /\ ~recording)
  /\ UNCHANGED <<recording, competition, frames, snaps, count, pending, delayed, longest, rolled>>

-----------------------------------------------------------------------------
(***************************************************************************)
(* Frames.  rzx_recording_frame is followed by the interrupt and by        *)
(* rzx_frame_interrupt_complete, which takes the snapshot that is due      *)
(* unless EI has put the interrupt off.                                    *)
(***************************************************************************)
Counts == ~competition /\ autosaves

\* rzx_frame_interrupt_complete, when autosave_pending has the value "due".
Completes(due) ==
  /\ pending' = FALSE
  /\ snaps' = IF due THEN autosave_prune(Append(snaps, [at |-> frames', auto |-> TRUE]), frames')
              ELSE snaps

\* rzx_recording_frame.  A competition recording stops when the speed is off.
StoresFrame ==
  /\ frames < IF steady THEN MaxFrames ELSE MaxLate
  /\ frames' = frames + 1 /\ longest' = Max({longest, frames'})
  /\ count' = IF Counts THEN (count + 1) % Interval ELSE count
  /\ UNCHANGED <<recording, competition, autosaves, rolled>>

\* autosave_frame.
Pends == pending \/ (Counts /\ count' = 0)

\* spectrum_do_frame_end: the interrupt is accepted or refused ...
FrameEnd ==
  /\ recording /\ ~delayed /\ StoresFrame
  /\ Completes(Pends)
  /\ steady' = (steady /\ ~pending)
  /\ UNCHANGED delayed

\* ... or comes right after EI, and the snapshot waits for it.
FrameEndAfterEI ==
  /\ recording /\ ~delayed /\ StoresFrame
  /\ delayed' = TRUE /\ pending' = Pends
  /\ steady' = (steady /\ ~pending')
  /\ UNCHANGED snaps

OffSpeed ==
  /\ recording /\ competition /\ frames < MaxFrames
  /\ Stopped /\ delayed' \in {delayed, TRUE}

\* z80_ei_delayed_interrupt_event_fn: accepted it stores a frame of its own ...
DelayedInterrupt ==
  /\ recording /\ delayed /\ StoresFrame /\ delayed' = FALSE
  /\ Completes(Pends)
  /\ UNCHANGED steady

\* ... too late or disabled it stores none, and a snapshot waits for the next frame.
DelayedInterruptRefused ==
  /\ delayed /\ delayed' = FALSE
  /\ UNCHANGED <<recording, competition, autosaves, frames, snaps, count, pending, steady, longest, rolled>>

\* z80_interrupt_event_fn: /INT is still low when interrupts are enabled again.
RetriggeredInterrupt ==
  /\ recording /\ ~delayed /\ StoresFrame
  /\ Completes(Pends)
  /\ steady' = (steady /\ ~pending)
  /\ UNCHANGED delayed

-----------------------------------------------------------------------------
(***************************************************************************)
(* The menu.                                                               *)
(***************************************************************************)
menu_file_recording_insertsnapshot ==
  /\ recording /\ Cardinality(Manual(snaps)) < MaxManual
  /\ snaps' = Append(snaps, [at |-> frames, auto |-> FALSE])
  /\ UNCHANGED <<recording, competition, autosaves, frames, count, pending, delayed, steady, longest, rolled>>

\* What follows the snapshot is dropped; rzx_start_after_rollback.
RollsBackTo(which) ==
  /\ recording /\ ~competition
  /\ snaps' = SubSeq(snaps, 1, which) /\ frames' = snaps[which].at
  /\ pending' = FALSE
  /\ count' = IF autosaves THEN autosave_reset(snaps', frames') ELSE count
  /\ steady' = (steady /\ autosaves) /\ rolled' = TRUE
  /\ UNCHANGED <<recording, competition, autosaves, delayed, longest>>

rzx_rollback == snaps # <<>> /\ RollsBackTo(Len(snaps))
rzx_rollback_to == \E which \in DOMAIN snaps : RollsBackTo(which)

-----------------------------------------------------------------------------
RecordingNext ==
  \/ rzx_start_recording \/ rzx_continue_recording \/ rzx_stop_recording
  \/ ToggleAutosaves
  \/ FrameEnd \/ FrameEndAfterEI \/ OffSpeed
  \/ DelayedInterrupt \/ DelayedInterruptRefused \/ RetriggeredInterrupt
  \/ menu_file_recording_insertsnapshot \/ rzx_rollback \/ rzx_rollback_to

RecordingSpec == RecordingInit /\ [][RecordingNext]_recordingVars

-----------------------------------------------------------------------------
(***************************************************************************)
(* Properties.                                                             *)
(***************************************************************************)

\* Type invariant of the recording; the snapshots stand in the order of the stream.
RecordingTypeOK ==
  /\ {recording, competition, autosaves, pending, delayed, steady, rolled} \subseteq BOOLEAN
  /\ frames \in 0 .. MaxFrames /\ longest \in frames .. MaxFrames /\ count \in 0 .. Interval - 1
  /\ snaps \in Seq(Snapshot)
  /\ \A i, j \in DOMAIN snaps : i <= j => snaps[i].at <= snaps[j].at
  /\ \A i \in DOMAIN snaps : snaps[i].at <= frames

\* How far apart two automatic snapshots may be, the older of which has this age.
Spacing(age) ==
  LET reached == {a \in Ages : a < age} IN Max({Interval} \cup reached)

\* Automatic snapshots are thinned out with age and never more than that.  The one
\* before a save of 15 seconds is 15 seconds off at least, and so on, across any number
\* of rollbacks and of snapshots put in by hand; and no two are further apart than
\* their age allows, or than twice that once the recording was rolled back.  Holds
\* while every save is taken on the frame it is due.
AutosavesSpaced ==
  /\ RecordingTypeOK
  /\ steady =>
       \A save, older \in Automatic(snaps) : older.at < save.at =>
         /\ \A age \in Ages : Age(save, frames) >= age => save.at - older.at >= age
         /\ \/ \E other \in Automatic(snaps) : older.at < other.at /\ other.at < save.at
            \/ ~rolled /\ save.at - older.at <= Spacing(Age(older, longest))
            \/ rolled /\ save.at - older.at < 2 * Spacing(Age(older, longest))

=============================================================================
