-------------------------------- MODULE Fdd ---------------------------------
(* A floppy drive (fdd.c) as a value: what its functions make of a drive.    *)
(* The two kinds of controller, WdFdc and UpdFdc, each keep their drives in  *)
(* variables of their own and apply these operators to them.                 *)
(*                                                                           *)
(* Bytes, sides and the place of the head on the track are left out, but for *)
(* whether it is at the index hole; so is how many index events a drive has  *)
(* on the event list, which may be several.                                  *)
EXTENDS Naturals

CONSTANTS
  Cylinders,    \* how many a drive has (fdd_cylinders)
  DiskSizes,    \* how many of them a disk has tracks for; 0 if it is unreadable
  Sectors,      \* sectors of a track
  Bytes,        \* bytes of a sector, of an id and of a track
  Revolutions   \* how often the index hole may pass in a search (rev)

ASSUME FddAssumption ==
  /\ {Cylinders, Sectors, Bytes, Revolutions} \subseteq Nat \ {0}
  /\ DiskSizes \subseteq 0..Cylinders /\ DiskSizes # {}

\* fdd_t. size is disk.cylinders; track says that disk.track is not NULL.
\* motorEvents are the pending events of that type, indexed says that there is
\* an index event; waiting that a controller wants to hear of the next pulse.
Drive == [loaded : BOOLEAN, size : 0..Cylinders, wrprot : BOOLEAN,
          motoron : BOOLEAN, ready : BOOLEAN, selected : BOOLEAN, loadhead : BOOLEAN,
          cylinder : 0..Cylinders - 1, track : BOOLEAN,
          hole : BOOLEAN, pulse : BOOLEAN, waiting : BOOLEAN,
          motorEvents : 0..1, indexed : BOOLEAN]

\* A drive as fdd_init leaves it: no disk, and the index line up.
fdd_init == [loaded |-> FALSE, size |-> 0, wrprot |-> TRUE,
             motoron |-> FALSE, ready |-> FALSE, selected |-> FALSE, loadhead |-> FALSE,
             cylinder |-> 0, track |-> FALSE,
             hole |-> TRUE, pulse |-> FALSE, waiting |-> FALSE,
             motorEvents |-> 0, indexed |-> FALSE]

\* The disk turns under the head (fdd_read_write_data moves on only then).
Spinning(d) == d.loaded /\ d.motoron

\* A byte is read from the track, and not the emptiness of a drive that is
\* not ready, not selected, whose head is off or where the disk has no track.
Reads(d) == d.selected /\ d.ready /\ d.loadhead /\ d.track

\* fdd_set_data: beyond the tracks of the disk all else stays as it is; on a
\* track the head comes down anywhere but, as is assumed, right at the hole.
fdd_set_data(d) ==
  IF ~d.loaded THEN d
  ELSE IF d.cylinder >= d.size THEN [d EXCEPT !.track = FALSE]
  ELSE [d EXCEPT !.track = TRUE, !.hole = FALSE]

(* Faulty variant: the event that is pending goes, and none is added.       *)
MotorOffForgets(d, on) ==
  IF ~d.loaded \/ d.motoron = on THEN d
  ELSE [d EXCEPT !.motoron = on, !.motorEvents = IF on THEN 1 ELSE 0,
                 !.indexed = @ \/ on]

\* Nothing happens without a disk. The motor events of the drive go and one is
\* added; an index event is added to those there may be.
fdd_motoron(d, on) ==
  IF ~d.loaded \/ d.motoron = on THEN d
  ELSE [d EXCEPT !.motoron = on, !.motorEvents = 1, !.indexed = @ \/ on]

fdd_head_load(d, load) ==
  IF ~d.loaded \/ d.loadhead = load THEN d
  ELSE fdd_set_data([d EXCEPT !.loadhead = load])

\* All drives of the machines modelled are of the Shugart type.
fdd_select(d, select) == fdd_head_load([d EXCEPT !.selected = select], select)

fdd_load(d, size, wrprot) ==
  LET in == [d EXCEPT !.loaded = TRUE, !.size = size, !.wrprot = wrprot]
      on == IF d.selected THEN fdd_head_load(in, TRUE) ELSE in
  IN fdd_set_data([on EXCEPT !.ready = d.motoron])

\* loaded is cleared first, so that the two calls that follow, to stop the
\* motor and to take the head off, do nothing.
fdd_unload(d) ==
  LET out == [d EXCEPT !.ready = FALSE, !.loaded = FALSE, !.hole = TRUE, !.wrprot = TRUE]
      off == fdd_motoron(out, FALSE)
  IN IF off.selected THEN fdd_head_load(off, FALSE) ELSE off

Tr00(d) == d.cylinder = 0

fdd_step(d, out) ==
  fdd_set_data([d EXCEPT !.cylinder = IF out THEN IF @ > 0 THEN @ - 1 ELSE @
                                      ELSE IF @ < Cylinders - 1 THEN @ + 1 ELSE @])

fdd_wait_index_hole(d) == IF d.selected /\ d.ready THEN [d EXCEPT !.hole = TRUE] ELSE d

\* fdd_event for motor_event, taken from the list.
MotorUp(d) == [d EXCEPT !.motorEvents = 0, !.ready = d.motoron /\ d.loaded]

\* fdd_event for index_event: the pulse begins or ends, and the event is added
\* again while the disk turns, else there may be another one left. At its end
\* a waiting controller is told.
IndexTells(d) == d.pulse /\ d.waiting
IndexTurn(d, another) ==
  [d EXCEPT !.pulse = ~@, !.waiting = @ /\ ~IndexTells(d),
            !.indexed = Spinning(d) \/ another]

\* The disk moves on by a byte when one is read.
Advances(d) == Spinning(d) \/ Reads(d)

\* A search gives records of the controller and whether it goes on at once, or
\* at the next event. What follows the search, where it has ended.
After(results, Then(_)) ==
  {r.f : r \in {x \in results : ~x.goes}}
    \union UNION {Then(r.f) : r \in {x \in results : x.goes}}

\* READY follows the motor: where the two differ, the event that makes them
\* equal is pending; and a drive without a disk is not ready.
ReadySettles(d) ==
  /\ d.ready => d.loaded
  /\ d.loaded => d.ready = d.motoron \/ d.motorEvents = 1
=============================================================================
