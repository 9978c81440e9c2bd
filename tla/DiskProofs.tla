----------------------------- MODULE DiskProofs -----------------------------
(***************************************************************************)
(* Proofs about the floppy disk controllers, for every number of           *)
(* cylinders, sectors, bytes and revolutions and for every guest that      *)
(* takes none of the liberties of its model.                               *)
(***************************************************************************)
EXTENDS MCDevices, TLAPS

(***************************************************************************)
(* The drive.  READY follows the motor, and without a disk the index line  *)
(* is up.                                                                  *)
(***************************************************************************)
DriveGood(d) == d \in Drive /\ ReadySettles(d) /\ (d.loaded \/ d.hole)

\* A disk that is in turns.
On(d) == d.loaded => d.motoron

\* The same disk, turning or not as it did, heard of or not.
Alike(e, d) ==
  e.loaded = d.loaded /\ e.motoron = d.motoron /\ e.waiting = d.waiting

\* There is a track where the disk has one at the cylinder of the head.
Fits(d) == d.loaded => (d.track <=> d.cylinder < d.size)

\* The head stays where it is, over a disk that is ready as before.
Stays(e, d) ==
  /\ e.ready = d.ready /\ e.cylinder = d.cylinder /\ e.size = d.size
  /\ Fits(d) => Fits(e)

LEMMA DriveMotor ==
  ASSUME NEW d, NEW on \in BOOLEAN, DriveGood(d)
  PROVE  LET e == fdd_motoron(d, on) IN
         /\ DriveGood(e) /\ (on => On(e))
         /\ e.loaded = d.loaded /\ e.waiting = d.waiting /\ Stays(e, d)
         /\ e.loaded /\ e.motoron => on
         /\ d.loaded \/ e = d
<1> DEFINE e == fdd_motoron(d, on)
<1> USE DEF DriveGood, ReadySettles, On, Stays, Fits
<1>1. CASE ~d.loaded \/ d.motoron = on
  BY <1>1 DEF fdd_motoron
<1>2. CASE d.loaded /\ d.motoron # on
  <2> DEFINE n == d.indexed \/ on
  <2>1. e = [d EXCEPT !.motoron = on, !.motorEvents = 1, !.indexed = n]
    BY <1>2 DEF fdd_motoron
  <2>2. n \in BOOLEAN
    OBVIOUS
  <2> HIDE DEF n
  <2>6. \A m \in 0..1 : [d EXCEPT !.motoron = on, !.motorEvents = m, !.indexed = n] \in Drive
    BY <2>2 DEF Drive
  <2>7. 1 \in 0..1
    OBVIOUS
  <2>8. e \in Drive
    BY <2>1, <2>6, <2>7
  <2>5. /\ e.loaded = d.loaded /\ e.waiting = d.waiting /\ e.motoron = on
        /\ e.motorEvents = 1 /\ e.ready = d.ready /\ e.hole = d.hole
        /\ e.cylinder = d.cylinder /\ e.size = d.size /\ e.track = d.track
    BY <2>1 DEF Drive
  <2> QED
    BY <1>2, <2>5, <2>8
<1> QED
  BY <1>1, <1>2

LEMMA DriveData ==
  ASSUME NEW d, DriveGood(d)
  PROVE  LET e == fdd_set_data(d) IN
         /\ DriveGood(e) /\ Alike(e, d) /\ Fits(e)
         /\ e.ready = d.ready /\ e.cylinder = d.cylinder /\ e.size = d.size
         /\ e.selected = d.selected /\ e.loadhead = d.loadhead
<1> DEFINE n == [d EXCEPT !.track = FALSE]
           t == [d EXCEPT !.track = TRUE, !.hole = FALSE]
<1>0. d \in Drive /\ d.cylinder \in Nat /\ d.size \in Nat
  BY DEF DriveGood, Drive
<1>1. CASE ~d.loaded
  <2>1. fdd_set_data(d) = d
    BY <1>1 DEF fdd_set_data
  <2> QED
    BY <1>1, <2>1 DEF Alike, Fits
<1>2. CASE d.loaded /\ d.cylinder >= d.size
  <2>1. /\ n \in Drive /\ Alike(n, d) /\ n.track = FALSE /\ n.loaded
        /\ n.ready = d.ready /\ n.motorEvents = d.motorEvents
        /\ n.cylinder = d.cylinder /\ n.size = d.size
        /\ n.selected = d.selected /\ n.loadhead = d.loadhead
    BY <1>0, <1>2 DEF Drive, Alike
  <2>2. fdd_set_data(d) = n
    BY <1>2 DEF fdd_set_data
  <2> HIDE DEF n
  <2>3. DriveGood(n)
    BY <1>2, <2>1 DEF DriveGood, ReadySettles, Alike
  <2>4. Fits(n)
    BY <1>0, <1>2, <2>1 DEF Fits
  <2> QED
    BY <2>1, <2>2, <2>3, <2>4
<1>3. CASE d.loaded /\ d.cylinder < d.size
  <2>1. /\ t \in Drive /\ Alike(t, d) /\ t.track /\ t.loaded
        /\ t.ready = d.ready /\ t.motorEvents = d.motorEvents
        /\ t.cylinder = d.cylinder /\ t.size = d.size
        /\ t.selected = d.selected /\ t.loadhead = d.loadhead
    BY <1>0, <1>3 DEF Drive, Alike
  <2>2. fdd_set_data(d) = t
    BY <1>0, <1>3 DEF fdd_set_data
  <2> HIDE DEF t
  <2> QED
    BY <1>3, <2>1, <2>2 DEF DriveGood, ReadySettles, Alike, Fits
<1> QED
  BY <1>0, <1>1, <1>2, <1>3

LEMMA DriveHead ==
  ASSUME NEW d, NEW load \in BOOLEAN, DriveGood(d)
  PROVE  /\ LET e == fdd_head_load(d, load) IN
              DriveGood(e) /\ Alike(e, d) /\ Stays(e, d)
         /\ LET e == fdd_select(d, load) IN
              DriveGood(e) /\ Alike(e, d) /\ Stays(e, d)
<1>1. ASSUME NEW g, DriveGood(g)
      PROVE  LET e == fdd_head_load(g, load) IN
             DriveGood(e) /\ Alike(e, g) /\ Stays(e, g)
  <2> DEFINE h == [g EXCEPT !.loadhead = load]
  <2>1. /\ DriveGood(h) /\ Alike(h, g)
        /\ h.ready = g.ready /\ h.cylinder = g.cylinder /\ h.size = g.size
    BY <1>1 DEF DriveGood, Drive, ReadySettles, Alike
  <2>2. fdd_head_load(g, load) = IF ~g.loaded \/ g.loadhead = load THEN g ELSE fdd_set_data(h)
    BY DEF fdd_head_load
  <2> HIDE DEF h
  <2>3. CASE ~g.loaded \/ g.loadhead = load
    BY <1>1, <2>2, <2>3 DEF Alike, Stays
  <2>4. CASE g.loaded /\ g.loadhead # load
    BY <2>1, <2>2, <2>4, DriveData DEF Alike, Stays
  <2> QED
    BY <2>3, <2>4
<1> DEFINE s == [d EXCEPT !.selected = load]
<1>2. DriveGood(s) /\ Alike(s, d) /\ Stays(s, d)
  BY DEF DriveGood, Drive, ReadySettles, Alike, Stays, Fits
<1>3. fdd_select(d, load) = fdd_head_load(s, load)
  BY DEF fdd_select
<1> HIDE DEF s
<1>4. DriveGood(fdd_head_load(s, load)) /\ Alike(fdd_head_load(s, load), s) /\ Stays(fdd_head_load(s, load), s)
  BY <1>1, <1>2
<1> QED
  BY <1>1, <1>2, <1>3, <1>4 DEF Alike, Stays

LEMMA DriveStep ==
  ASSUME NEW d, NEW out \in BOOLEAN, DriveGood(d)
  PROVE  /\ DriveGood(fdd_step(d, out)) /\ Alike(fdd_step(d, out), d)
         /\ Fits(fdd_step(d, out)) /\ fdd_step(d, out).ready = d.ready
         /\ DriveGood([d EXCEPT !.cylinder = 0]) /\ Alike([d EXCEPT !.cylinder = 0], d)
<1> DEFINE c == IF out THEN IF d.cylinder > 0 THEN d.cylinder - 1 ELSE d.cylinder
                ELSE IF d.cylinder < Cylinders - 1 THEN d.cylinder + 1 ELSE d.cylinder
           s == [d EXCEPT !.cylinder = c]
<1>1. d.cylinder \in 0..Cylinders - 1 /\ Cylinders \in Nat \ {0}
  BY FddAssumption DEF DriveGood, Drive
<1>2. c \in 0..Cylinders - 1 /\ 0 \in 0..Cylinders - 1
  BY <1>1
<1>3. fdd_step(d, out) = fdd_set_data(s)
  BY DEF fdd_step
<1> HIDE DEF c
<1>4. DriveGood(s) /\ Alike(s, d) /\ s.ready = d.ready
  BY <1>2 DEF DriveGood, Drive, ReadySettles, Alike
<1> HIDE DEF s
<1>5. /\ DriveGood(fdd_set_data(s)) /\ Alike(fdd_set_data(s), d)
      /\ Fits(fdd_set_data(s)) /\ fdd_set_data(s).ready = d.ready
  BY <1>4, DriveData DEF Alike
<1>6. DriveGood([d EXCEPT !.cylinder = 0]) /\ Alike([d EXCEPT !.cylinder = 0], d)
  BY <1>2 DEF DriveGood, Drive, ReadySettles, Alike
<1> QED
  BY <1>3, <1>5, <1>6

LEMMA DriveHole ==
  ASSUME NEW d, DriveGood(d)
  PROVE  /\ DriveGood(fdd_wait_index_hole(d)) /\ Alike(fdd_wait_index_hole(d), d)
         /\ Stays(fdd_wait_index_hole(d), d)
         /\ DriveGood([d EXCEPT !.hole = TRUE]) /\ Alike([d EXCEPT !.hole = TRUE], d)
         /\ \A b \in BOOLEAN : Stays([d EXCEPT !.hole = b], d)
         /\ d.loaded => /\ DriveGood([d EXCEPT !.hole = FALSE])
                        /\ Alike([d EXCEPT !.hole = FALSE], d)
<1>1. ASSUME NEW b \in BOOLEAN, b \/ d.loaded
      PROVE  /\ DriveGood([d EXCEPT !.hole = b]) /\ Alike([d EXCEPT !.hole = b], d)
  BY <1>1 DEF DriveGood, Drive, ReadySettles, Alike
<1>2. ASSUME NEW b \in BOOLEAN PROVE Stays([d EXCEPT !.hole = b], d)
  BY DEF DriveGood, Drive, Stays, Fits
<1>3. fdd_wait_index_hole(d) \in {d, [d EXCEPT !.hole = TRUE]}
  BY DEF fdd_wait_index_hole
<1>4. Alike(d, d) /\ Stays(d, d)
  BY DEF Alike, Stays
<1> QED
  BY <1>1, <1>2, <1>3, <1>4

LEMMA DriveWaits ==
  ASSUME NEW d, NEW w \in BOOLEAN, DriveGood(d)
  PROVE  LET e == [d EXCEPT !.waiting = w] IN
         DriveGood(e) /\ e.waiting = w /\ e.loaded = d.loaded /\ e.motoron = d.motoron
BY DEF DriveGood, Drive, ReadySettles

LEMMA DriveDisk ==
  ASSUME NEW d, NEW size \in DiskSizes, NEW wrprot \in BOOLEAN, DriveGood(d)
  PROVE  LET e == IF d.loaded THEN fdd_unload(d) ELSE fdd_load(d, size, wrprot) IN
         /\ DriveGood(e) /\ Fits(e)
         /\ e.motoron = d.motoron /\ e.waiting = d.waiting
         /\ e.ready => Spinning(e)
<1>1. CASE d.loaded
  <2> DEFINE o == [d EXCEPT !.ready = FALSE, !.loaded = FALSE, !.hole = TRUE, !.wrprot = TRUE]
  <2>1. /\ DriveGood(o) /\ ~o.loaded /\ ~o.ready
        /\ o.motoron = d.motoron /\ o.waiting = d.waiting
    BY <1>1 DEF DriveGood, Drive, ReadySettles
  <2>2. fdd_motoron(o, FALSE) = o /\ fdd_head_load(o, FALSE) = o
    BY <2>1 DEF fdd_motoron, fdd_head_load
  <2>3. fdd_unload(d) = o
    BY <2>2 DEF fdd_unload
  <2> HIDE DEF o
  <2> QED
    BY <1>1, <2>1, <2>3 DEF Fits
<1>2. CASE ~d.loaded
  <2> DEFINE i == [d EXCEPT !.loaded = TRUE, !.size = size, !.wrprot = wrprot]
             o == IF d.selected THEN fdd_head_load(i, TRUE) ELSE i
             r == [o EXCEPT !.ready = d.motoron]
  <2>0. d \in Drive /\ size \in 0..Cylinders
    BY FddAssumption DEF DriveGood
  <2>1. /\ i \in Drive /\ i.loaded /\ i.motoron = d.motoron /\ i.waiting = d.waiting
    BY <1>2, <2>0 DEF Drive
  <2> HIDE DEF i
  <2>2. /\ o \in Drive /\ o.loaded /\ o.motoron = d.motoron /\ o.waiting = d.waiting
    BY <2>1 DEF Drive, fdd_head_load, fdd_set_data
  <2> HIDE DEF o
  <2>3. /\ DriveGood(r) /\ r.loaded /\ r.motoron = d.motoron /\ r.waiting = d.waiting
        /\ r.ready = d.motoron
    BY <2>2 DEF DriveGood, Drive, ReadySettles
  <2>5. fdd_load(d, size, wrprot) = fdd_set_data(r)
    BY DEF fdd_load, i, o
  <2> HIDE DEF r
  <2> QED
    BY <1>2, <2>3, <2>5, DriveData DEF Alike, Spinning
<1> QED
  BY <1>1, <1>2

LEMMA DriveUp ==
  ASSUME NEW d, DriveGood(d)
  PROVE  /\ DriveGood(MotorUp(d)) /\ Alike(MotorUp(d), d)
         /\ MotorUp(d).cylinder = d.cylinder /\ MotorUp(d).size = d.size
         /\ Fits(d) => Fits(MotorUp(d))
         /\ MotorUp(d).ready => Spinning(MotorUp(d))
<1> DEFINE up == d.motoron /\ d.loaded
<1>1. up \in BOOLEAN
  BY DEF DriveGood, Drive
<1>a. MotorUp(d) = [d EXCEPT !.motorEvents = 0, !.ready = up]
  BY DEF MotorUp
<1> HIDE DEF up
<1>b. \A m \in 0..1 : [d EXCEPT !.motorEvents = m, !.ready = up] \in Drive
  BY <1>1 DEF DriveGood, Drive
<1>c. 0 \in 0..1
  OBVIOUS
<1>2. MotorUp(d) \in Drive
  BY <1>a, <1>b, <1>c
<1>3. /\ Alike(MotorUp(d), d) /\ MotorUp(d).hole = d.hole /\ MotorUp(d).ready = up
      /\ MotorUp(d).cylinder = d.cylinder /\ MotorUp(d).size = d.size
      /\ MotorUp(d).track = d.track
  BY <1>a DEF DriveGood, Drive, Alike
<1>4. MotorUp(d).ready = (d.motoron /\ d.loaded)
  BY <1>3 DEF up
<1>5. d.loaded \in BOOLEAN /\ d.motoron \in BOOLEAN /\ MotorUp(d).loaded = d.loaded
      /\ MotorUp(d).motoron = d.motoron /\ MotorUp(d).ready \in BOOLEAN
  BY <1>2, <1>3 DEF DriveGood, Drive, Alike
<1>6. DriveGood(MotorUp(d))
  BY <1>2, <1>3, <1>4, <1>5 DEF DriveGood, ReadySettles
<1>7. MotorUp(d).track = d.track
  BY <1>a DEF DriveGood, Drive
<1> QED
  BY <1>3, <1>4, <1>5, <1>6, <1>7 DEF Spinning, Fits

LEMMA DriveIndex ==
  ASSUME NEW d, DriveGood(d), NEW another \in BOOLEAN
  PROVE  LET e == IndexTurn(d, another) IN
         /\ DriveGood(e) /\ e.loaded = d.loaded /\ e.motoron = d.motoron
         /\ (e.waiting => d.waiting)
         /\ LET p == [e EXCEPT !.pulse = FALSE] IN DriveGood(p) /\ Stays(p, d)
<1> DEFINE e == IndexTurn(d, another)
           w == d.waiting /\ ~IndexTells(d)
           n == Spinning(d) \/ another
           p == ~d.pulse
<1>1. w \in BOOLEAN /\ (w => d.waiting) /\ p \in BOOLEAN /\ n \in BOOLEAN
  BY DEF DriveGood, Drive
<1>2. e = [d EXCEPT !.pulse = p, !.waiting = w, !.indexed = n]
  BY DEF IndexTurn
<1> HIDE DEF e, w, n, p
<1>a. /\ e \in Drive /\ e.loaded = d.loaded /\ e.motoron = d.motoron
      /\ e.waiting = w /\ e.ready = d.ready /\ e.motorEvents = d.motorEvents
      /\ e.hole = d.hole /\ e.cylinder = d.cylinder /\ e.size = d.size /\ e.track = d.track
  BY <1>1, <1>2 DEF DriveGood, Drive
<1>3. DriveGood(e) /\ Stays(e, d)
  BY <1>a DEF DriveGood, ReadySettles, Stays, Fits
<1>4. DriveGood([e EXCEPT !.pulse = FALSE]) /\ Stays([e EXCEPT !.pulse = FALSE], d)
  BY <1>3 DEF DriveGood, Drive, ReadySettles, Stays, Fits
<1>5. IndexTurn(d, another) = e
  BY DEF e
<1> QED
  BY <1>1, <1>a, <1>3, <1>4, <1>5

(***************************************************************************)
(* The WD controllers.                                                     *)
(***************************************************************************)
SeekStates == {"SEEK", "SEEK_DELAY"}
SearchStates == {"VERIFY", "READ", "WRITE", "READID"}

\* The line that holds the motor.
Line(f) == IF board.old THEN f.motor ELSE f.head

\* Whatever a controller does: its drive is well, and turns while it is held on.
WdFrame(f) ==
  f \in WdType /\ DriveGood(f.drive) /\ ~f.hung /\ (Line(f) => On(f.drive))

\* A command under way has no motor off event pending, is told of no index
\* pulse, and holds the motor on, but for a seek of the newer chips, which may
\* start it to verify.
WdCommanded(f) ==
  f.busy => /\ f.off = 0 /\ ~f.drive.waiting
            /\ f.state \notin SeekStates \/ board.old => Line(f)

\* A transfer is served and timed, and is not taken for a search.
WdServed(f) ==
  f.datarq => /\ f.state \in Transfer /\ f.timeout = 1 /\ ~f.read_id
              /\ f.fdc <= 2 /\ f.offset < Bytes
              /\ f.state \in {"READ", "WRITE"} => f.sector <= Sectors

WdSearching(f) ==
  f.read_id => /\ f.state \in SearchStates
               /\ f.state \in {"READ", "WRITE"} /\ f.id => f.sector <= Sectors

WdBase(f) ==
  /\ WdFrame(f) /\ WdCommanded(f) /\ WdServed(f) /\ WdSearching(f)
  /\ f.busy <=> f.state # "NONE"

\* What waits is moved.
WdMoved(f) == f.busy /\ ~f.datarq => f.fdc > 0

WdGood(f) == WdBase(f) /\ WdMoved(f)

WdIInv == board \in Boards /\ WdGood(wd)

\* A controller without a command is well if its drive is.
LEMMA WdAtRest ==
  ASSUME NEW f, WdFrame(f), ~f.busy, f.state = "NONE", ~f.datarq, ~f.read_id
  PROVE  WdGood(f)
BY DEF WdGood, WdBase, WdCommanded, WdServed, WdSearching, WdMoved, Transfer

LEMMA WdIdle ==
  ASSUME NEW f, WdFrame(f)
  PROVE  LET e == Idle(f) IN
         /\ WdFrame(e) /\ ~e.busy /\ e.state = "NONE"
         /\ e.datarq = f.datarq /\ e.read_id = f.read_id /\ e.off = f.off
<1>1. NoCommand \in Command
  BY DEF NoCommand, Command
<1>2. 0 \in 0..Revolutions /\ 0 \in 0..Bytes
  BY FddAssumption
<1>3. Idle(f) \in WdType
  BY <1>1, <1>2 DEF WdFrame, Idle, WdType, WdState
<1>4. LET e == Idle(f) IN
      /\ ~e.busy /\ e.state = "NONE" /\ e.datarq = f.datarq /\ e.read_id = f.read_id
      /\ e.off = f.off /\ e.hung = f.hung /\ e.motor = f.motor /\ e.head = f.head
      /\ e.drive = f.drive
  BY DEF WdFrame, Idle, WdType
<1> QED
  BY <1>3, <1>4 DEF WdFrame, Line

LEMMA WdIntrq ==
  ASSUME NEW f, board \in Boards, WdFrame(f), f.off <= MaxPending
  PROVE  LET e == wd_fdc_set_intrq(f) IN
         /\ WdFrame(e) /\ e.busy = f.busy /\ e.state = f.state
         /\ e.datarq = f.datarq /\ e.read_id = f.read_id /\ e.drive = f.drive
         /\ e.motor = f.motor /\ e.head = f.head /\ e.fdc = f.fdc /\ e.command = f.command
<1> DEFINE n == IF Line(f) THEN f.off + 1 ELSE f.off
<1>1. n \in 0..MaxPending + 1
  BY WdAssumption DEF WdFrame, WdType
<1>2. wd_fdc_set_intrq(f) = [f EXCEPT !.off = n]
  BY DEF wd_fdc_set_intrq, Line
<1> HIDE DEF n
<1>3. wd_fdc_set_intrq(f) \in WdType
  BY <1>1, <1>2 DEF WdFrame, WdType
<1>4. LET e == wd_fdc_set_intrq(f) IN
      /\ e.busy = f.busy /\ e.state = f.state
      /\ e.datarq = f.datarq /\ e.read_id = f.read_id
      /\ e.hung = f.hung /\ e.motor = f.motor /\ e.head = f.head /\ e.drive = f.drive
      /\ e.fdc = f.fdc /\ e.command = f.command
  BY <1>2 DEF WdFrame, WdType
<1> QED
  BY <1>3, <1>4 DEF WdFrame, Line

\* What no lemma above looks at in a controller that has come to rest.
LEMMA WdFields ==
  ASSUME NEW f, WdFrame(f)
  PROVE  /\ \A b \in BOOLEAN : LET e == [f EXCEPT !.read_id = b] IN
              /\ WdFrame(e) /\ e.busy = f.busy /\ e.state = f.state
              /\ e.datarq = f.datarq /\ e.read_id = b /\ e.off = f.off
         /\ \A b \in BOOLEAN : LET e == [f EXCEPT !.datarq = b] IN
              /\ WdFrame(e) /\ e.busy = f.busy /\ e.state = f.state
              /\ e.datarq = b /\ e.read_id = f.read_id /\ e.off = f.off
BY DEF WdFrame, WdType, Line

\* The end of a command.
LEMMA WdDone ==
  ASSUME NEW f, board \in Boards, WdFrame(f), f.off <= MaxPending
  PROVE  /\ ~f.datarq /\ ~f.read_id => WdGood(Done(f))
         /\ ~f.datarq => WdGood([Done(f) EXCEPT !.read_id = FALSE])
         /\ ~f.read_id => WdGood(reset_datarq(Done(f))) /\ WdGood(Done(reset_datarq(f)))
<1> DEFINE e == Done(f)
           r == reset_datarq(f)
<1>1. /\ WdFrame(e) /\ ~e.busy /\ e.state = "NONE"
      /\ e.datarq = f.datarq /\ e.read_id = f.read_id
  BY WdIdle, WdIntrq DEF Done
<1>2. WdFrame(r) /\ ~r.datarq /\ r.read_id = f.read_id /\ r.off = f.off
  BY WdFields DEF reset_datarq
<1> HIDE DEF r
<1>3. /\ WdFrame(Done(r)) /\ ~Done(r).busy /\ Done(r).state = "NONE"
      /\ ~Done(r).datarq /\ Done(r).read_id = f.read_id
  BY <1>2, WdIdle, WdIntrq DEF Done
<1> HIDE DEF e
<1>4. /\ ~f.datarq => WdGood([e EXCEPT !.read_id = FALSE])
      /\ ~f.read_id => WdGood(reset_datarq(e))
  BY <1>1, WdFields, WdAtRest DEF reset_datarq
<1>5. /\ ~f.datarq /\ ~f.read_id => WdGood(e)
      /\ ~f.read_id => WdGood(Done(r))
  BY <1>1, <1>3, WdAtRest
<1> QED
  BY <1>4, <1>5 DEF e, r

\* A search leaves a controller that goes on, or that an event moves.
LEMMA WdRev ==
  ASSUME NEW f, WdBase(f), NEW n \in 0..Revolutions
  PROVE  LET e == [f EXCEPT !.rev = n] IN
         WdBase(e) /\ e.read_id = f.read_id /\ e.state = f.state /\ e.fdc = f.fdc /\ e.datarq = f.datarq
BY DEF WdBase, WdFrame, WdType, Line, WdCommanded, WdServed, WdSearching

LEMMA WdFdcSet ==
  ASSUME NEW f, WdBase(f), NEW n \in 0..3, f.datarq => n <= 2
  PROVE  LET e == [f EXCEPT !.fdc = n] IN
         WdBase(e) /\ e.read_id = f.read_id /\ e.state = f.state /\ e.fdc = n /\ e.datarq = f.datarq
BY DEF WdBase, WdFrame, WdType, Line, WdCommanded, WdServed, WdSearching

\* A search never meets a disk that stands.
LEMMA WdSearched ==
  ASSUME NEW f, board \in Boards, WdBase(f), f.read_id, NEW r \in Searched(f)
  PROVE  /\ WdBase(r.f) /\ r.f.read_id /\ r.f.state = f.state
         /\ r.goes => r.f.fdc = f.fdc
         /\ ~r.goes => r.f.fdc > 0
<1> DEFINE found == [f EXCEPT !.id = TRUE, !.drive.hole = FALSE]
           later(g) == [f |-> [g EXCEPT !.fdc = 1], goes |-> FALSE]
           wanted == f.state \in {"READ", "WRITE"} => f.sector <= Sectors
<1>0. f.busy /\ ~f.datarq /\ f.rev \in 0..Revolutions /\ f.state \in SearchStates
  BY DEF WdBase, WdServed, WdSearching, SearchStates, WdFrame, WdType
<1>1. ~(~Advances(f.drive) /\ ~f.drive.hole)
  BY <1>0 DEF WdBase, WdFrame, WdCommanded, SearchStates, SeekStates, DriveGood, On, Advances, Spinning
<1>2. ASSUME Spinning(f.drive), wanted
      PROVE  WdBase(found) /\ found.read_id /\ found.state = f.state /\ found.fdc = f.fdc
  <2> DEFINE d == [f.drive EXCEPT !.hole = FALSE]
  <2>1. DriveGood(f.drive) /\ f.drive.loaded
    BY <1>2 DEF WdBase, WdFrame, Spinning
  <2>2. DriveGood(d) /\ Alike(d, f.drive)
    BY <2>1, DriveHole
  <2>3. found = [f EXCEPT !.id = TRUE, !.drive = d]
    BY DEF WdBase, WdFrame, WdType
  <2> HIDE DEF d
  <2>4. d \in Drive
    BY <2>2 DEF DriveGood
  <2>5. found \in WdType
    BY <2>3, <2>4 DEF WdBase, WdFrame, WdType
  <2>6. /\ found.drive = d /\ found.id
        /\ found.hung = f.hung /\ found.motor = f.motor /\ found.head = f.head
        /\ found.busy = f.busy /\ found.off = f.off /\ found.state = f.state
        /\ found.command = f.command /\ found.datarq = f.datarq /\ found.read_id = f.read_id
        /\ found.fdc = f.fdc /\ found.timeout = f.timeout /\ found.offset = f.offset
        /\ found.sector = f.sector
    BY <2>3 DEF WdBase, WdFrame, WdType
  <2> HIDE DEF found
  <2>7. WdFrame(found)
    BY <2>2, <2>5, <2>6 DEF WdBase, WdFrame, Line, Alike, On
  <2>8. WdCommanded(found) /\ WdServed(found) /\ WdSearching(found)
    BY <1>2, <2>2, <2>6 DEF WdBase, Line, WdCommanded, WdServed, WdSearching, Alike
  <2> QED
    BY <2>6, <2>7, <2>8 DEF WdBase
<1> DEFINE Fine(x) == /\ WdBase(x.f) /\ x.f.read_id /\ x.f.state = f.state
                      /\ x.goes => x.f.fdc = f.fdc
                      /\ ~x.goes => x.f.fdc > 0
<1>3. ASSUME NEW g, WdBase(g), g.read_id, g.state = f.state, g.fdc = f.fdc
      PROVE  Fine(later(g)) /\ Fine([f |-> g, goes |-> TRUE])
  <2> DEFINE h == [g EXCEPT !.fdc = 1]
  <2>1. 1 \in 0..3 /\ 1 <= 2
    OBVIOUS
  <2>2. WdBase(h) /\ h.read_id /\ h.state = f.state /\ h.fdc = 1
    BY <1>3, <2>1, WdFdcSet
  <2> HIDE DEF h
  <2>3. Fine([f |-> h, goes |-> FALSE])
    BY <2>2
  <2>4. later(g) = [f |-> h, goes |-> FALSE]
    BY DEF h
  <2> QED
    BY <1>3, <2>3, <2>4
<1>4. CASE f.id \/ f.rev = 0
  <2>1. r = [f |-> f, goes |-> TRUE]
    BY <1>4 DEF Searched
  <2> QED
    BY <2>1, <1>3
<1>5. CASE ~(f.id \/ f.rev = 0)
  <2>1. \/ r = later([f EXCEPT !.rev = f.rev - 1])
        \/ r = [f |-> [f EXCEPT !.rev = 0], goes |-> TRUE]
        \/ Spinning(f.drive) /\ wanted /\ r \in {later(found), [f |-> found, goes |-> TRUE]}
    BY <1>1, <1>5 DEF Searched, Search
  <2>2. f.rev - 1 \in 0..Revolutions /\ 0 \in 0..Revolutions
    BY <1>0, <1>5, FddAssumption
  <2> HIDE DEF later, found, wanted
  <2> HIDE DEF Fine
  <2>3. Fine(later([f EXCEPT !.rev = f.rev - 1])) /\ Fine([f |-> [f EXCEPT !.rev = 0], goes |-> TRUE])
    <3>1. ASSUME NEW n \in 0..Revolutions
          PROVE  Fine(later([f EXCEPT !.rev = n])) /\ Fine([f |-> [f EXCEPT !.rev = n], goes |-> TRUE])
      <4> DEFINE g == [f EXCEPT !.rev = n]
      <4>1. WdBase(g) /\ g.read_id /\ g.state = f.state /\ g.fdc = f.fdc
        BY WdRev
      <4> HIDE DEF g
      <4>2. Fine(later(g)) /\ Fine([f |-> g, goes |-> TRUE])
        BY <4>1, <1>3
      <4> QED
        BY <4>2 DEF g
    <3> QED
      BY <3>1, <2>2
  <2>4. Spinning(f.drive) /\ wanted => Fine(later(found)) /\ Fine([f |-> found, goes |-> TRUE])
    BY <1>2, <1>3
  <2>5. Fine(r)
    BY <2>1, <2>3, <2>4
  <2> QED
    BY <2>5 DEF Fine
<1> QED
  BY <1>4, <1>5

\* Two controllers with the same command, as far as it has come.
Same(e, f) ==
  /\ e.drive = f.drive /\ e.hung = f.hung /\ e.motor = f.motor /\ e.head = f.head
  /\ e.busy = f.busy /\ e.off = f.off /\ e.state = f.state /\ e.command = f.command
  /\ e.datarq = f.datarq /\ e.timeout = f.timeout /\ e.offset = f.offset
  /\ e.sector = f.sector

LEMMA WdSame ==
  ASSUME NEW f, NEW e, WdBase(f), ~f.datarq, e \in WdType, Same(e, f), WdSearching(e)
  PROVE  WdBase(e)
BY DEF Same, WdBase, WdFrame, Line, WdCommanded, WdServed

LEMMA WdOff ==
  ASSUME NEW f, WdBase(f), f.busy
  PROVE  f.off = 0 /\ f.off <= MaxPending /\ WdFrame(f)
BY WdAssumption DEF WdBase, WdCommanded

LEMMA WdTransferring ==
  ASSUME NEW f, WdBase(f), f.state \in Transfer, ~f.read_id, f.fdc <= 2,
         f.state \in {"READ", "WRITE"} => f.sector <= Sectors
  PROVE  WdGood(Transferring(f))
<1> DEFINE e == Transferring(f)
<1>1. e = [f EXCEPT !.datarq = TRUE, !.offset = 0, !.timeout = 1]
  BY DEF Transferring, set_datarq, WdBase, WdFrame, WdType
<1>2. 0 \in 0..Bytes /\ 0 < Bytes /\ 1 \in 0..1
  BY FddAssumption
<1>3. e \in WdType
  BY <1>1, <1>2 DEF WdBase, WdFrame, WdType
<1>4. /\ e.drive = f.drive /\ e.hung = f.hung /\ e.motor = f.motor /\ e.head = f.head
      /\ e.busy = f.busy /\ e.off = f.off /\ e.state = f.state
      /\ e.command = f.command /\ e.read_id = f.read_id /\ e.fdc = f.fdc
      /\ e.sector = f.sector /\ e.datarq /\ e.timeout = 1 /\ e.offset = 0
  BY <1>1 DEF WdBase, WdFrame, WdType
<1> HIDE DEF e
<1>5. WdGood(e)
  BY <1>2, <1>3, <1>4
     DEF WdGood, WdBase, WdFrame, Line, WdCommanded, WdServed, WdSearching, WdMoved
<1> QED
  BY <1>5 DEF e

\* What a search that does not go on leaves, an event moves.
LEMMA WdLater ==
  ASSUME NEW f, board \in Boards, WdBase(f), f.read_id, NEW r \in Searched(f), ~r.goes
  PROVE  WdGood(r.f)
BY WdSearched DEF WdGood, WdMoved

LEMMA WdVerifyReadId ==
  ASSUME NEW f, board \in Boards, WdBase(f), f.state = "VERIFY", ~f.datarq,
         NEW x \in wd_fdc_seek_verify_read_id(f)
  PROVE  WdGood(x)
<1> DEFINE g == [f EXCEPT !.read_id = TRUE, !.fdc = 0]
<1>a. \A n \in 0..3 : [f EXCEPT !.read_id = TRUE, !.fdc = n] \in WdType
  BY DEF WdBase, WdFrame, WdType
<1>b. 0 \in 0..3
  OBVIOUS
<1>c. g \in WdType
  BY <1>a, <1>b
<1>d. Same(g, f) /\ g.read_id
  BY DEF WdBase, WdFrame, WdType, Same
<1>1. WdBase(g) /\ g.read_id /\ g.state = "VERIFY"
  BY <1>c, <1>d, WdSame DEF Same, WdSearching, SearchStates
<1>2. \E r \in Searched(g) : IF r.goes THEN x = [Done(r.f) EXCEPT !.read_id = FALSE] ELSE x = r.f
  BY DEF wd_fdc_seek_verify_read_id, After
<1> HIDE DEF g
<1>3. PICK r \in Searched(g) : IF r.goes THEN x = [Done(r.f) EXCEPT !.read_id = FALSE] ELSE x = r.f
  BY <1>2
<1>4. WdBase(r.f) /\ ~r.f.datarq /\ r.f.busy
  BY <1>1, WdSearched DEF WdBase, WdServed
<1> QED
  BY <1>1, <1>3, <1>4, WdLater, WdOff, WdDone

LEMMA WdVerify ==
  ASSUME NEW f, board \in Boards, WdBase(f), f.state = "VERIFY", ~f.datarq, ~f.read_id,
         NEW x \in wd_fdc_seek_verify(f)
  PROVE  WdGood(x)
<1>1. f.id \in BOOLEAN /\ f.rev \in 0..Revolutions /\ Revolutions \in 0..Revolutions
  BY FddAssumption DEF WdBase, WdFrame, WdType
<1>2. CASE ~board.old /\ ~f.hlt
  <2> DEFINE g == [f EXCEPT !.fdc = 1]
  <2>a. 1 \in 0..3
    OBVIOUS
  <2>1. WdBase(g) /\ g.fdc = 1
    BY <2>a, WdFdcSet
  <2>2. x = g
    BY <1>2 DEF wd_fdc_seek_verify
  <2> QED
    BY <2>1, <2>2 DEF WdGood, WdMoved
<1>3. CASE ~(~board.old /\ ~f.hlt)
  <2> DEFINE g == [f EXCEPT !.fdc = 0, !.rev = Revolutions, !.id = FALSE]
  <2>a. \A n \in 0..3, v \in 0..Revolutions :
          [f EXCEPT !.fdc = n, !.rev = v, !.id = FALSE] \in WdType
    BY DEF WdBase, WdFrame, WdType
  <2>b. 0 \in 0..3
    OBVIOUS
  <2>c. g \in WdType
    BY <1>1, <2>a, <2>b
  <2>d. Same(g, f) /\ ~g.read_id
    BY DEF WdBase, WdFrame, WdType, Same
  <2>1. WdBase(g) /\ g.state = "VERIFY" /\ ~g.datarq
    BY <2>c, <2>d, WdSame DEF Same, WdSearching
  <2>2. x \in wd_fdc_seek_verify_read_id(g)
    BY <1>3 DEF wd_fdc_seek_verify
  <2> HIDE DEF g
  <2> QED
    BY <2>1, <2>2, WdVerifyReadId
<1> QED
  BY <1>2, <1>3

LEMMA WdSectorFound ==
  ASSUME NEW f, board \in Boards, WdBase(f), f.state \in {"READ", "WRITE"}, f.read_id, f.fdc <= 2,
         NEW x \in SectorFound(f)
  PROVE  WdGood(x)
<1> DEFINE g == [f EXCEPT !.read_id = FALSE]
           h == [g EXCEPT !.id = FALSE]
<1>1. /\ g \in WdType /\ Same(g, f) /\ ~g.read_id /\ g.id = f.id /\ g.fdc = f.fdc
      /\ h \in WdType /\ Same(h, f) /\ ~h.read_id
  BY DEF WdBase, WdFrame, WdType, Same
<1>2. ~f.datarq /\ f.busy /\ (f.id => f.sector <= Sectors)
  BY DEF WdBase, WdServed, WdSearching
<1>3. x \in (IF ~g.id THEN {Done(g)}
             ELSE IF g.state = "READ" THEN {Done(h), Transferring(g)} ELSE {Transferring(g)})
  BY DEF SectorFound
<1> HIDE DEF g, h
<1>4. WdBase(g) /\ WdBase(h)
  BY <1>1, <1>2, WdSame DEF WdSearching
<1>5. WdGood(Done(g)) /\ WdGood(Done(h))
  BY <1>1, <1>2, <1>4, WdOff, WdDone DEF Same
<1>6. g.id => WdGood(Transferring(g))
  BY <1>1, <1>2, <1>4, WdTransferring DEF Same, Transfer
<1> QED
  BY <1>3, <1>5, <1>6

LEMMA WdTypeIISeek ==
  ASSUME NEW f, board \in Boards, WdBase(f), f.state \in {"READ", "WRITE"}, ~f.datarq,
         f.read_id \/ ~f.id, NEW x \in wd_fdc_type_ii_seek(f)
  PROVE  WdGood(x)
<1> DEFINE g == [f EXCEPT !.fdc = 0, !.read_id = f.read_id \/ ~f.id]
<1>1. \A n \in 0..3 : [f EXCEPT !.fdc = n, !.read_id = TRUE] \in WdType
  BY DEF WdBase, WdFrame, WdType
<1>0. 0 \in 0..3
  OBVIOUS
<1>a. (f.read_id \/ ~f.id) = TRUE
  OBVIOUS
<1>2. g = [f EXCEPT !.fdc = 0, !.read_id = TRUE]
  BY <1>a, Zenon
<1>3. g \in WdType
  BY <1>0, <1>1, <1>2
<1>4. Same(g, f) /\ g.read_id /\ g.id = f.id /\ g.fdc = 0
  BY <1>2 DEF WdBase, WdFrame, WdType, Same
<1>5. \E r \in Searched(g) : IF r.goes THEN x \in SectorFound(r.f) ELSE x = r.f
  BY DEF wd_fdc_type_ii_seek, After
<1> HIDE DEF g
<1>6. WdSearching(g)
  BY <1>4 DEF Same, WdBase, WdSearching, SearchStates
<1>7. WdBase(g)
  BY <1>3, <1>4, <1>6, WdSame
<1>8. PICK r \in Searched(g) : IF r.goes THEN x \in SectorFound(r.f) ELSE x = r.f
  BY <1>5
<1>9. CASE r.goes
  <2> DEFINE h == r.f
  <2>1. WdBase(h) /\ h.read_id /\ h.state \in {"READ", "WRITE"} /\ h.fdc <= 2
    BY <1>4, <1>7, <1>9, WdSearched DEF Same
  <2>2. x \in SectorFound(h)
    BY <1>8, <1>9
  <2> HIDE DEF h
  <2> QED
    BY <2>1, <2>2, WdSectorFound
<1>10. CASE ~r.goes
  BY <1>4, <1>7, <1>8, <1>10, WdLater
<1> QED
  BY <1>9, <1>10

LEMMA WdTypeII ==
  ASSUME NEW f, board \in Boards, WdBase(f), f.state \in {"READ", "WRITE"}, ~f.datarq, ~f.read_id,
         NEW x \in wd_fdc_type_ii(f)
  PROVE  WdGood(x)
<1> DEFINE g == [f EXCEPT !.fdc = 0]
           w == [g EXCEPT !.fdc = 1]
           h == [g EXCEPT !.multi = g.command.m, !.rev = Revolutions, !.id = FALSE]
<1>1. 0 \in 0..3 /\ 1 \in 0..3 /\ Revolutions \in 0..Revolutions
  BY FddAssumption
<1>2. WdBase(g) /\ ~g.datarq /\ ~g.read_id /\ g.state = f.state
  BY <1>1, WdFdcSet
<1>3. WdBase(w) /\ w.fdc = 1
  BY <1>1, <1>2, WdFdcSet
<1>4. \/ x \in {Done(g), w}
      \/ x \in wd_fdc_type_ii_seek(h)
  BY DEF wd_fdc_type_ii
<1> HIDE DEF g
<1>5. WdGood(w)
  BY <1>3 DEF WdGood, WdMoved
<1>6. WdGood(Done(g))
  BY <1>2, WdOff, WdDone DEF WdBase
<1>7. g.command.m \in BOOLEAN
  BY <1>2 DEF WdBase, WdFrame, WdType, Command
<1>8. \A m \in BOOLEAN : [g EXCEPT !.multi = m, !.rev = Revolutions, !.id = FALSE] \in WdType
  BY <1>1, <1>2 DEF WdBase, WdFrame, WdType
<1>9. h \in WdType
  BY <1>7, <1>8
<1>10. Same(h, g) /\ ~h.read_id /\ ~h.id
  BY <1>2 DEF WdBase, WdFrame, WdType, Same
<1> HIDE DEF h
<1>11. WdBase(h)
  BY <1>2, <1>9, <1>10, WdSame DEF WdSearching
<1>12. x \in wd_fdc_type_ii_seek(h) => WdGood(x)
  BY <1>2, <1>10, <1>11, WdTypeIISeek DEF Same
<1> QED
  BY <1>4, <1>5, <1>6, <1>12

LEMMA WdIdRead ==
  ASSUME NEW f, board \in Boards, WdBase(f), f.state = "READID", f.read_id, f.fdc <= 2,
         NEW x \in IdRead(f)
  PROVE  WdGood(x)
<1> DEFINE g == [f EXCEPT !.read_id = FALSE]
<1>1. g \in WdType /\ Same(g, f) /\ ~g.read_id /\ g.fdc = f.fdc
  BY DEF WdBase, WdFrame, WdType, Same
<1>2. ~f.datarq /\ f.busy
  BY DEF WdBase, WdServed
<1>3. x \in {Transferring(g), [Done(f) EXCEPT !.read_id = FALSE]}
  BY DEF IdRead
<1> HIDE DEF g
<1>4. WdBase(g)
  BY <1>1, <1>2, WdSame DEF WdSearching
<1>5. WdGood(Transferring(g))
  BY <1>1, <1>4, WdTransferring DEF Same, Transfer
<1>6. WdGood([Done(f) EXCEPT !.read_id = FALSE])
  BY <1>2, WdOff, WdDone
<1> QED
  BY <1>3, <1>5, <1>6

\* A track is transferred from the index hole on.
LEMMA WdTrack ==
  ASSUME NEW f, WdBase(f), f.state \in Transfer \ {"READ", "WRITE"}, ~f.read_id, f.fdc <= 2
  PROVE  WdGood([Transferring(f) EXCEPT !.drive = fdd_wait_index_hole(@)])
<1> DEFINE t == Transferring(f)
           d == fdd_wait_index_hole(t.drive)
           e == [t EXCEPT !.drive = d]
<1>1. WdGood(t)
  BY WdTransferring
<1> HIDE DEF t
<1>2. DriveGood(d) /\ Alike(d, t.drive)
  BY <1>1, DriveHole DEF WdGood, WdBase, WdFrame
<1> HIDE DEF d
<1>3. /\ e \in WdType /\ e.drive = d /\ e.hung = t.hung /\ e.motor = t.motor /\ e.head = t.head
      /\ e.busy = t.busy /\ e.off = t.off /\ e.state = t.state
      /\ e.command = t.command /\ e.read_id = t.read_id /\ e.fdc = t.fdc /\ e.datarq = t.datarq
      /\ e.sector = t.sector /\ e.id = t.id /\ e.timeout = t.timeout /\ e.offset = t.offset
  BY <1>1, <1>2 DEF WdGood, WdBase, WdFrame, WdType, DriveGood
<1>4. e = [Transferring(f) EXCEPT !.drive = fdd_wait_index_hole(@)]
  BY DEF t, d
<1> HIDE DEF e
<1>5. WdFrame(e) /\ WdCommanded(e)
  BY <1>1, <1>2, <1>3 DEF WdGood, WdBase, WdFrame, Line, WdCommanded, Alike, On
<1>6. WdGood(e)
  BY <1>1, <1>3, <1>5 DEF WdGood, WdBase, WdServed, WdSearching, WdMoved
<1> QED
  BY <1>4, <1>6

LEMMA WdNewSearch ==
  ASSUME NEW g, WdBase(g)
  PROVE  LET n == [g EXCEPT !.read_id = TRUE, !.rev = Revolutions, !.id = FALSE] IN
         n \in WdType /\ Same(n, g) /\ n.read_id /\ n.fdc = g.fdc
<1> DEFINE n == [g EXCEPT !.read_id = TRUE, !.rev = Revolutions, !.id = FALSE]
<1>1. \A v \in 0..Revolutions : [g EXCEPT !.read_id = TRUE, !.rev = v, !.id = FALSE] \in WdType
  BY DEF WdBase, WdFrame, WdType
<1>2. Revolutions \in 0..Revolutions
  BY FddAssumption
<1>3. n \in WdType
  BY <1>1, <1>2
<1>4. Same(n, g) /\ n.read_id /\ n.fdc = g.fdc
  BY DEF WdBase, WdFrame, WdType, Same
<1> QED
  BY <1>3, <1>4

LEMMA WdTypeIII ==
  ASSUME NEW f, board \in Boards, WdBase(f), ~f.datarq,
         f.state \in {"READID", "READTRACK", "WRITETRACK"}, f.read_id => f.state = "READID",
         NEW x \in wd_fdc_type_iii(f)
  PROVE  WdGood(x)
<1> DEFINE g == [f EXCEPT !.fdc = 0]
           w == [g EXCEPT !.fdc = 1]
           h == IF g.read_id THEN g
                ELSE [g EXCEPT !.read_id = TRUE, !.rev = Revolutions, !.id = FALSE]
           t == [Transferring(g) EXCEPT !.drive = fdd_wait_index_hole(@)]
<1>1. 0 \in 0..3 /\ 1 \in 0..3 /\ Revolutions \in 0..Revolutions
  BY FddAssumption
<1>2. /\ WdBase(g) /\ ~g.datarq /\ g.read_id = f.read_id /\ g.state = f.state /\ g.fdc = 0
      /\ g.busy
  BY <1>1, WdFdcSet DEF WdBase
<1>3. WdBase(w) /\ w.fdc = 1
  BY <1>1, <1>2, WdFdcSet
<1>4. \/ x \in {Done(g), w} /\ ~g.read_id
      \/ g.state = "READID" /\ x \in After(Searched(h), IdRead)
      \/ g.state # "READID" /\ x = t
  BY <1>2 DEF wd_fdc_type_iii
<1>5. x \in After(Searched(h), IdRead) =>
        \E r \in Searched(h) : IF r.goes THEN x \in IdRead(r.f) ELSE x = r.f
  BY DEF After
<1> HIDE DEF g
<1>6. CASE x \in {Done(g), w} /\ ~g.read_id
  <2>1. g.off <= MaxPending /\ WdFrame(g)
    BY <1>2, WdOff
  <2>2. WdGood(Done(g))
    BY <1>2, <1>6, <2>1, WdDone
  <2>3. WdGood(w)
    BY <1>3 DEF WdGood, WdMoved
  <2> QED
    BY <1>6, <2>2, <2>3
<1>7. CASE g.state # "READID" /\ x = t
  <2>1. g.state \in Transfer \ {"READ", "WRITE"} /\ ~g.read_id /\ g.fdc <= 2
    BY <1>2, <1>7 DEF Transfer
  <2>2. WdGood(t)
    BY <1>2, <2>1, WdTrack
  <2> QED
    BY <1>7, <2>2
<1>8. CASE g.state = "READID" /\ x \in After(Searched(h), IdRead)
  <2> DEFINE n == [g EXCEPT !.read_id = TRUE, !.rev = Revolutions, !.id = FALSE]
  <2>1. n \in WdType /\ Same(n, g) /\ n.read_id /\ n.fdc = 0
    BY <1>2, WdNewSearch
  <2> HIDE DEF n
  <2>c. h = IF g.read_id THEN g ELSE n
    BY DEF n
  <2>2. h \in WdType /\ Same(h, g) /\ h.read_id /\ h.fdc = 0
    BY <1>2, <2>1, <2>c DEF WdBase, WdFrame, Same
  <2> HIDE DEF h
  <2>3. WdBase(h) /\ h.state = "READID"
    BY <1>2, <1>8, <2>2, WdSame DEF Same, WdSearching, SearchStates
  <2>4. PICK r \in Searched(h) : IF r.goes THEN x \in IdRead(r.f) ELSE x = r.f
    BY <1>5, <1>8
  <2>5. CASE r.goes
    <3> DEFINE i == r.f
    <3>1. WdBase(i) /\ i.read_id /\ i.state = "READID" /\ i.fdc <= 2
      BY <2>2, <2>3, <2>5, WdSearched
    <3>2. x \in IdRead(i)
      BY <2>4, <2>5
    <3> HIDE DEF i
    <3> QED
      BY <3>1, <3>2, WdIdRead
  <2>6. CASE ~r.goes
    BY <2>2, <2>3, <2>4, <2>6, WdLater
  <2> QED
    BY <2>5, <2>6
<1> QED
  BY <1>4, <1>6, <1>7, <1>8

\* Motor and head.
LEMMA WdHold ==
  ASSUME NEW f, board \in Boards, ~board.old, WdFrame(f), NEW on \in BOOLEAN
  PROVE  LET e == Hold(f, on) IN
         /\ WdFrame(e) /\ e.head = on /\ e.drive.waiting = f.drive.waiting
         /\ e.busy = f.busy /\ e.off = f.off /\ e.state = f.state /\ e.command = f.command
         /\ e.datarq = f.datarq /\ e.timeout = f.timeout /\ e.offset = f.offset
         /\ e.sector = f.sector /\ e.read_id = f.read_id /\ e.fdc = f.fdc /\ e.id = f.id
<1> DEFINE d == fdd_motoron(f.drive, on)
<1>1. board.beta
  BY WdAssumption DEF WdBoard
<1>2. DriveGood(d) /\ (on => On(d)) /\ d.waiting = f.drive.waiting
  BY DriveMotor DEF WdFrame
<1>3. Hold(f, on) = [f EXCEPT !.head = on, !.drive = d]
  BY <1>1 DEF Hold
<1> HIDE DEF d
<1> DEFINE s == [f EXCEPT !.head = on, !.drive = d]
<1>4. s \in WdType
  BY <1>2 DEF WdFrame, WdType, DriveGood
<1>5. /\ s.head = on /\ s.motor = f.motor /\ s.drive = d /\ s.hung = f.hung
      /\ s.busy = f.busy /\ s.off = f.off /\ s.state = f.state /\ s.command = f.command
      /\ s.datarq = f.datarq /\ s.timeout = f.timeout /\ s.offset = f.offset
      /\ s.sector = f.sector /\ s.read_id = f.read_id /\ s.fdc = f.fdc /\ s.id = f.id
  BY DEF WdFrame, WdType
<1> HIDE DEF s
<1>6. WdFrame(s)
  BY <1>2, <1>4, <1>5 DEF WdFrame, Line
<1> QED
  BY <1>2, <1>3, <1>5, <1>6 DEF s

LEMMA WdMotor ==
  ASSUME NEW f, board \in Boards, board.old, WdFrame(f), NEW on \in BOOLEAN
  PROVE  LET e == [f EXCEPT !.motor = on, !.drive = fdd_motoron(@, on)] IN
         /\ WdFrame(e) /\ e.motor = on /\ e.drive.waiting = f.drive.waiting
         /\ e.busy = f.busy /\ e.off = f.off /\ e.state = f.state /\ e.command = f.command
         /\ e.datarq = f.datarq /\ e.timeout = f.timeout /\ e.offset = f.offset
         /\ e.sector = f.sector /\ e.read_id = f.read_id /\ e.fdc = f.fdc /\ e.id = f.id
<1> DEFINE d == fdd_motoron(f.drive, on)
           e == [f EXCEPT !.motor = on, !.drive = fdd_motoron(@, on)]
<1>2. DriveGood(d) /\ (on => On(d)) /\ d.waiting = f.drive.waiting
  BY DriveMotor DEF WdFrame
<1>3. e = [f EXCEPT !.motor = on, !.drive = d]
  OBVIOUS
<1> HIDE DEF d
<1> DEFINE s == [f EXCEPT !.motor = on, !.drive = d]
<1>4. s \in WdType
  BY <1>2 DEF WdFrame, WdType, DriveGood
<1>5. /\ s.motor = on /\ s.head = f.head /\ s.drive = d /\ s.hung = f.hung
      /\ s.busy = f.busy /\ s.off = f.off /\ s.state = f.state /\ s.command = f.command
      /\ s.datarq = f.datarq /\ s.timeout = f.timeout /\ s.offset = f.offset
      /\ s.sector = f.sector /\ s.read_id = f.read_id /\ s.fdc = f.fdc /\ s.id = f.id
  BY DEF WdFrame, WdType
<1> HIDE DEF s
<1>6. WdFrame(s)
  BY <1>2, <1>4, <1>5 DEF WdFrame, Line
<1> QED
  BY <1>2, <1>3, <1>5, <1>6 DEF s

LEMMA WdOffSet ==
  ASSUME NEW f, WdFrame(f)
  PROVE  LET e == [f EXCEPT !.off = 0] IN
         /\ WdFrame(e) /\ e.off = 0 /\ e.drive = f.drive /\ e.motor = f.motor /\ e.head = f.head
         /\ e.busy = f.busy /\ e.state = f.state /\ e.command = f.command
         /\ e.datarq = f.datarq /\ e.timeout = f.timeout /\ e.offset = f.offset
         /\ e.sector = f.sector /\ e.read_id = f.read_id /\ e.fdc = f.fdc /\ e.id = f.id
<1>1. \A n \in 0..MaxPending + 1 : [f EXCEPT !.off = n] \in WdType
  BY DEF WdFrame, WdType
<1>2. 0 \in 0..MaxPending + 1
  BY WdAssumption
<1>3. [f EXCEPT !.off = 0] \in WdType
  BY <1>1, <1>2
<1> QED
  BY <1>3 DEF WdFrame, WdType, Line

(***************************************************************************)
(* Seeks.                                                                  *)
(***************************************************************************)
WdSeeks(f) == WdBase(f) /\ f.state \in SeekStates /\ ~f.datarq /\ ~f.read_id

LEMMA WdTrackSet ==
  ASSUME NEW f, WdSeeks(f), NEW t \in 0..Tracks - 1, NEW t2 \in 0..Tracks - 1, NEW o \in BOOLEAN
  PROVE  /\ WdSeeks([f EXCEPT !.track = t])
         /\ WdSeeks([f EXCEPT !.track = t, !.data = t2])
         /\ WdSeeks([f EXCEPT !.out = o])
         /\ [f EXCEPT !.out = o].out = o
<1> DEFINE a == [f EXCEPT !.track = t]
           b == [f EXCEPT !.track = t, !.data = t2]
           c == [f EXCEPT !.out = o]
<1>1. /\ a \in WdType /\ Same(a, f) /\ a.read_id = f.read_id
      /\ b \in WdType /\ Same(b, f) /\ b.read_id = f.read_id
  BY DEF WdSeeks, WdBase, WdFrame, WdType, Same
<1>2. c \in WdType /\ Same(c, f) /\ c.read_id = f.read_id /\ c.out = o
  BY DEF WdSeeks, WdBase, WdFrame, WdType, Same
<1> HIDE DEF a, b, c
<1>3. WdSearching(a) /\ WdSearching(b) /\ WdSearching(c)
  BY <1>1, <1>2 DEF WdSearching, WdSeeks
<1>4. WdBase(a) /\ WdBase(b) /\ WdBase(c)
  BY <1>1, <1>2, <1>3, WdSame DEF WdSeeks
<1>5. WdSeeks(a) /\ WdSeeks(b) /\ WdSeeks(c)
  BY <1>1, <1>2, <1>4 DEF WdSeeks, Same
<1> QED
  BY <1>2, <1>5 DEF a, b, c

LEMMA WdTypeIVerify ==
  ASSUME NEW f, board \in Boards, WdSeeks(f), NEW x \in TypeIVerify(f)
  PROVE  WdGood(x)
<1> DEFINE g == IF board.old THEN f ELSE Hold([f EXCEPT !.off = 0], TRUE)
           h == [g EXCEPT !.state = "VERIFY"]
<1>1. f.busy /\ WdFrame(f) /\ f.off = 0 /\ f.off <= MaxPending
  BY WdOff DEF WdSeeks, WdBase, SeekStates
<1>2. CASE ~f.command.v
  <2>1. x = Done(f)
    BY <1>2 DEF TypeIVerify
  <2> QED
    BY <1>1, <2>1, WdDone DEF WdSeeks
<1>3. CASE f.command.v
  <2>1. ~f.drive.waiting /\ (board.old => f.motor)
    BY <1>1, <1>3 DEF WdSeeks, WdBase, WdCommanded, Line
  <2>2. /\ WdFrame(g) /\ Line(g) /\ ~g.drive.waiting
        /\ g.busy /\ g.off = 0 /\ ~g.datarq /\ ~g.read_id
        /\ board.old => g.motor
    <3>1. CASE board.old
      BY <1>1, <2>1, <3>1 DEF Line, WdSeeks
    <3>2. CASE ~board.old
      <4> DEFINE o == [f EXCEPT !.off = 0]
      <4>1. /\ WdFrame(o) /\ o.off = 0 /\ o.drive = f.drive /\ o.busy = f.busy
            /\ o.datarq = f.datarq /\ o.read_id = f.read_id
        BY <1>1, WdOffSet
      <4> HIDE DEF o
      <4>2. LET e == Hold(o, TRUE) IN
            /\ WdFrame(e) /\ e.head /\ e.drive.waiting = o.drive.waiting
            /\ e.busy = o.busy /\ e.off = o.off /\ e.datarq = o.datarq /\ e.read_id = o.read_id
        BY <2>1, <3>2, <4>1, WdHold
      <4>3. g = Hold(o, TRUE)
        BY <3>2 DEF o
      <4> HIDE DEF g
      <4> QED
        BY <1>1, <2>1, <3>2, <4>1, <4>2, <4>3 DEF Line, WdSeeks
    <3> QED
      BY <3>1, <3>2
  <2> HIDE DEF g
  <2>3. h \in WdType
    BY <2>2 DEF WdFrame, WdType, WdState
  <2>4. /\ h.drive = g.drive /\ h.hung = g.hung /\ h.motor = g.motor /\ h.head = g.head
        /\ h.busy = g.busy /\ h.off = g.off /\ h.state = "VERIFY"
        /\ h.datarq = g.datarq /\ h.read_id = g.read_id
    BY <2>2 DEF WdFrame, WdType
  <2> HIDE DEF h
  <2>5. WdBase(h)
    BY <2>2, <2>3, <2>4
       DEF WdBase, WdFrame, Line, WdCommanded, WdServed, WdSearching, SeekStates
  <2>6. x \in wd_fdc_seek_verify(h)
    <3>1. ~(board.old /\ ~h.motor)
      BY <2>2, <2>4
    <3> QED
      BY <1>3, <3>1 DEF TypeIVerify, h, g
  <2> QED
    BY <2>2, <2>4, <2>5, <2>6, WdVerify
<1> QED
  BY <1>2, <1>3

LEMMA WdTypeIStep ==
  ASSUME NEW f, board \in Boards, WdSeeks(f), NEW x \in TypeIStep(f)
  PROVE  WdGood(x)
<1>1. CASE Tr00(f.drive) /\ f.out
  <2> DEFINE g == [f EXCEPT !.track = 0]
  <2>1. 0 \in 0..Tracks - 1
    BY WdAssumption
  <2>2. WdSeeks(g) /\ x \in TypeIVerify(g)
    BY <1>1, <2>1, WdTrackSet DEF TypeIStep
  <2> HIDE DEF g
  <2> QED
    BY <2>2, WdTypeIVerify
<1>2. CASE ~(Tr00(f.drive) /\ f.out)
  <2> DEFINE d == fdd_step(f.drive, f.out)
             e == [f EXCEPT !.drive = d, !.state = "SEEK_DELAY", !.fdc = 1]
  <2>1. f.out \in BOOLEAN /\ DriveGood(f.drive)
    BY DEF WdSeeks, WdBase, WdFrame, WdType
  <2>2. DriveGood(d) /\ Alike(d, f.drive) /\ d \in Drive
    BY <2>1, DriveStep DEF DriveGood
  <2>3. x = e
    BY <1>2 DEF TypeIStep
  <2> HIDE DEF d
  <2>4. \A n \in 0..3 : [f EXCEPT !.drive = d, !.state = "SEEK_DELAY", !.fdc = n] \in WdType
    BY <2>2 DEF WdSeeks, WdBase, WdFrame, WdType, WdState
  <2>5. 1 \in 0..3
    OBVIOUS
  <2>6. e \in WdType
    BY <2>4, <2>5
  <2>7. /\ e.drive = d /\ e.hung = f.hung /\ e.motor = f.motor /\ e.head = f.head
        /\ e.busy = f.busy /\ e.off = f.off /\ e.state = "SEEK_DELAY" /\ e.command = f.command
        /\ e.datarq = f.datarq /\ e.read_id = f.read_id /\ e.fdc = 1
    BY DEF WdSeeks, WdBase, WdFrame, WdType
  <2> HIDE DEF e
  <2>8. WdFrame(e) /\ WdCommanded(e)
    BY <2>2, <2>6, <2>7
       DEF WdSeeks, WdBase, WdFrame, Line, WdCommanded, SeekStates, Alike, On
  <2>9. WdGood(e)
    BY <2>7, <2>8 DEF WdGood, WdSeeks, WdBase, WdServed, WdSearching, WdMoved, SeekStates
  <2> QED
    BY <2>3, <2>9
<1> QED
  BY <1>1, <1>2

LEMMA WdTypeIUpdate ==
  ASSUME NEW f, board \in Boards, WdSeeks(f), NEW x \in TypeIUpdate(f)
  PROVE  WdGood(x)
<1> DEFINE t == (IF f.out THEN f.track + Tracks - 1 ELSE f.track + 1) % Tracks
           g == [f EXCEPT !.track = t]
<1>1. f.track \in 0..Tracks - 1 /\ Tracks \in Nat \ {0}
  BY WdAssumption DEF WdSeeks, WdBase, WdFrame, WdType
<1>2. \A n \in Nat \ {0}, k \in Nat : k % n \in 0..n - 1
  OBVIOUS
<1> DEFINE k == IF f.out THEN f.track + Tracks - 1 ELSE f.track + 1
<1>a. k \in Nat
  BY <1>1
<1>b. t = k % Tracks
  OBVIOUS
<1> HIDE DEF k, t
<1>3. t \in 0..Tracks - 1
  BY <1>1, <1>2, <1>a, <1>b
<1> USE DEF t
<1>4. x \in TypeIStep(g)
  BY DEF TypeIUpdate
<1> HIDE DEF t
<1>5. WdSeeks(g)
  BY <1>3, WdTrackSet
<1> HIDE DEF g
<1> QED
  BY <1>4, <1>5, WdTypeIStep

LEMMA WdTypeILoop ==
  ASSUME NEW f, board \in Boards, WdSeeks(f), NEW x \in TypeILoop(f)
  PROVE  WdGood(x)
<1> DEFINE g == [f EXCEPT !.out = f.track > f.data]
<1>1. x \in TypeIVerify(f) \/ x \in TypeIUpdate(g)
  BY DEF TypeILoop
<1>2. WdSeeks(g)
  <2>1. CASE f.track > f.data
    <3>1. g = [f EXCEPT !.out = TRUE]
      BY <2>1, Zenon
    <3>2. f.track \in 0..Tracks - 1
      BY DEF WdSeeks, WdBase, WdFrame, WdType
    <3> QED
      BY <3>1, <3>2, WdTrackSet
  <2>2. CASE ~(f.track > f.data)
    <3>1. g = [f EXCEPT !.out = FALSE]
      <4>1. (f.track > f.data) = FALSE
        BY <2>2
      <4> QED
        BY <4>1, Zenon
    <3>2. f.track \in 0..Tracks - 1
      BY DEF WdSeeks, WdBase, WdFrame, WdType
    <3> QED
      BY <3>1, <3>2, WdTrackSet
  <2> QED
    BY <2>1, <2>2
<1> HIDE DEF g
<1> QED
  BY <1>1, <1>2, WdTypeIVerify, WdTypeIUpdate

LEMMA WdTypeI ==
  ASSUME NEW f, board \in Boards, WdSeeks(f), NEW x \in wd_fdc_type_i(f)
  PROVE  WdGood(x)
<1> DEFINE o == IF f.command.kind \in {"STEP_IN", "STEP_OUT"} THEN f.command.kind = "STEP_OUT" ELSE f.out
           g == [f EXCEPT !.out = o]
           h == [f EXCEPT !.track = Tracks - 1, !.data = 0]
<1>1. \/ x \in TypeIVerify(f)
      \/ x \in TypeILoop(f)
      \/ x \in TypeIUpdate(g)
      \/ x \in TypeIStep(g)
      \/ x \in TypeILoop(h)
  BY DEF wd_fdc_type_i
<1>2. f.out \in BOOLEAN /\ f.track \in 0..Tracks - 1
  BY DEF WdSeeks, WdBase, WdFrame, WdType
<1>3. o \in BOOLEAN
  BY <1>2
<1>4. Tracks - 1 \in 0..Tracks - 1 /\ 0 \in 0..Tracks - 1
  BY WdAssumption
<1> HIDE DEF o
<1>5. WdSeeks(g) /\ WdSeeks(h)
  BY <1>2, <1>3, <1>4, WdTrackSet
<1> HIDE DEF g, h
<1> QED
  BY <1>1, <1>5, WdTypeIVerify, WdTypeILoop, WdTypeIUpdate, WdTypeIStep

(***************************************************************************)
(* The motor comes up to speed: what the spin-up of a command leaves.      *)
(***************************************************************************)
LEMMA WdSpinup ==
  ASSUME NEW f, board \in Boards, WdFrame(f), NEW h \in BOOLEAN, NEW v \in BOOLEAN
  PROVE  LET s == wd_fdc_spinup(f, h, v) IN
         /\ WdFrame(s.f) /\ s.f.busy = f.busy /\ s.f.state = f.state /\ s.f.command = f.command
         /\ s.f.datarq = f.datarq /\ s.f.read_id = f.read_id
         /\ s.f.drive.waiting = f.drive.waiting /\ (f.off = 0 => s.f.off = 0)
         /\ f.state # "SEEK" \/ board.old => Line(s.f)
         /\ s.waits => s.f.fdc = 1
         /\ s.f.id = f.id
<1> DEFINE Post(e) ==
         /\ WdFrame(e) /\ e.busy = f.busy /\ e.state = f.state /\ e.command = f.command
         /\ e.datarq = f.datarq /\ e.read_id = f.read_id
         /\ e.drive.waiting = f.drive.waiting /\ (f.off = 0 => e.off = 0)
         /\ f.state # "SEEK" \/ board.old => Line(e)
         /\ e.id = f.id
           wait(g, yes) == [f |-> [g EXCEPT !.fdc = IF yes THEN 1 ELSE @], waits |-> yes]
           s == wd_fdc_spinup(f, h, v)
<1>1. ASSUME NEW g, Post(g), NEW yes, yes \in BOOLEAN
      PROVE  /\ Post(wait(g, yes).f) /\ wait(g, yes).waits = yes
             /\ yes => wait(g, yes).f.fdc = 1
  <2> DEFINE e == [g EXCEPT !.fdc = 1]
  <2>1. \A n \in 0..3 : [g EXCEPT !.fdc = n] \in WdType
    BY <1>1 DEF WdFrame, WdType
  <2>2. 1 \in 0..3
    OBVIOUS
  <2>3. e \in WdType
    BY <2>1, <2>2
  <2>4. /\ e.fdc = 1 /\ e.drive = g.drive /\ e.motor = g.motor /\ e.head = g.head /\ e.hung = g.hung
        /\ e.busy = g.busy /\ e.state = g.state /\ e.command = g.command
        /\ e.datarq = g.datarq /\ e.read_id = g.read_id /\ e.off = g.off /\ e.id = g.id
    BY <1>1 DEF WdFrame, WdType
  <2> HIDE DEF e
  <2>5. Post(e) /\ e.fdc = 1
    BY <1>1, <2>3, <2>4 DEF WdFrame, Line
  <2>6. [g EXCEPT !.fdc = g.fdc] = g
    BY <1>1 DEF WdFrame, WdType
  <2>7. CASE yes
    <3>1. wait(g, yes) = [f |-> e, waits |-> yes]
      BY <2>7 DEF e
    <3> QED
      BY <2>5, <3>1
  <2>8. CASE ~yes
    <3>1. wait(g, yes) = [f |-> g, waits |-> yes]
      BY <2>6, <2>8
    <3> QED
      BY <1>1, <2>8, <3>1
  <2> QED
    BY <1>1, <2>7, <2>8
<1> DEFINE slow == f.state # "SEEK" /\ v
           m == [f EXCEPT !.motor = TRUE, !.drive = fdd_motoron(@, TRUE)]
           o == [f EXCEPT !.off = 0]
<1>2. slow \in BOOLEAN /\ (slow \/ ~h) \in BOOLEAN
  OBVIOUS
<1>3. CASE board.old
  <2>1. Post(m)
    BY <1>3, WdMotor DEF Line
  <2>2. f.motor => Post(f)
    BY <1>3 DEF Line
  <2>3. s = IF f.motor THEN wait(f, slow) ELSE wait(m, slow \/ ~h)
    BY <1>3 DEF wd_fdc_spinup
  <2> HIDE DEF Post, wait, slow, m
  <2>4. /\ Post(s.f) /\ (s.waits => s.f.fdc = 1)
    BY <1>1, <1>2, <2>1, <2>2, <2>3
  <2> QED
    BY <2>4 DEF Post
<1>4. CASE ~board.old
  <2>1. /\ WdFrame(o) /\ o.off = 0 /\ o.drive = f.drive /\ o.motor = f.motor /\ o.head = f.head
        /\ o.busy = f.busy /\ o.state = f.state /\ o.command = f.command
        /\ o.datarq = f.datarq /\ o.read_id = f.read_id /\ o.id = f.id
    BY WdOffSet
  <2>2. s = IF f.state # "SEEK" THEN wait(Hold(o, TRUE), slow)
            ELSE IF h THEN wait(Hold(o, TRUE), FALSE)
            ELSE IF ~v THEN wait(Hold(o, FALSE), FALSE)
            ELSE wait(o, FALSE)
    BY <1>4 DEF wd_fdc_spinup
  <2> HIDE DEF o
  <2>3. Post(Hold(o, TRUE))
    <3>1. LET e == Hold(o, TRUE) IN
          /\ WdFrame(e) /\ e.head /\ e.drive.waiting = o.drive.waiting
          /\ e.busy = o.busy /\ e.off = o.off /\ e.state = o.state /\ e.command = o.command
          /\ e.datarq = o.datarq /\ e.read_id = o.read_id /\ e.id = o.id
      BY <1>4, <2>1, WdHold
    <3> QED
      BY <1>4, <2>1, <3>1 DEF Line
  <2>4. f.state = "SEEK" /\ ~v => Post(Hold(o, FALSE))
    <3>1. LET e == Hold(o, FALSE) IN
          /\ WdFrame(e) /\ e.drive.waiting = o.drive.waiting
          /\ e.busy = o.busy /\ e.off = o.off /\ e.state = o.state /\ e.command = o.command
          /\ e.datarq = o.datarq /\ e.read_id = o.read_id /\ e.id = o.id
      BY <1>4, <2>1, WdHold
    <3> QED
      BY <1>4, <2>1, <3>1
  <2>5. f.state = "SEEK" => Post(o)
    BY <1>4, <2>1
  <2> HIDE DEF Post, wait, slow
  <2>6. /\ Post(s.f) /\ (s.waits => s.f.fdc = 1)
    BY <1>1, <1>2, <2>2, <2>3, <2>4, <2>5
  <2> QED
    BY <2>6 DEF Post
<1> QED
  BY <1>3, <1>4

(***************************************************************************)
(* The steps.                                                              *)
(***************************************************************************)
LEMMA WdFdcEvent ==
  ASSUME board \in Boards, WdGood(wd), FdcEvent
  PROVE  WdGood(wd')
<1> DEFINE f == [wd EXCEPT !.fdc = wd.fdc - 1]
<1>1. wd' \in Handled(f) /\ wd.fdc > 0
  BY DEF FdcEvent
<1>2. wd.fdc - 1 \in 0..3 /\ (wd.datarq => wd.fdc - 1 <= 2)
  BY <1>1 DEF WdGood, WdBase, WdFrame, WdType
<1>3. WdBase(f) /\ f.read_id = wd.read_id /\ f.state = wd.state /\ f.datarq = wd.datarq
  BY <1>2, WdFdcSet DEF WdGood
<1> HIDE DEF f
<1>4. /\ f.state \in WdState
      /\ f.datarq => f.state \in Transfer /\ ~f.read_id
      /\ f.read_id => f.state \in SearchStates
  BY <1>3 DEF WdBase, WdServed, WdSearching, WdFrame, WdType
<1>5. CASE f.state = "VERIFY"
  <2>1. wd' \in IF f.read_id THEN wd_fdc_seek_verify_read_id(f) ELSE wd_fdc_seek_verify(f)
    BY <1>1, <1>5 DEF Handled
  <2>2. ~f.datarq
    BY <1>4, <1>5 DEF Transfer
  <2> QED
    BY <1>3, <1>5, <2>1, <2>2, WdVerifyReadId, WdVerify
<1>6. CASE f.state \in {"READ", "WRITE"} /\ ~f.datarq
  <2>1. wd' \in IF f.read_id THEN wd_fdc_type_ii_seek(f) ELSE wd_fdc_type_ii(f)
    BY <1>1, <1>6 DEF Handled
  <2> QED
    BY <1>3, <1>6, <2>1, WdTypeIISeek, WdTypeII
<1>7. CASE f.state \in {"READID", "READTRACK", "WRITETRACK"} /\ ~f.datarq
  <2>1. f.read_id => f.state = "READID"
    BY <1>4, <1>7 DEF SearchStates
  <2>2. wd' \in wd_fdc_type_iii(f)
    BY <1>1, <1>7, <2>1 DEF Handled
  <2> QED
    BY <1>3, <1>7, <2>1, <2>2, WdTypeIII
<1>8. CASE f.state \in SeekStates
  <2>1. ~f.read_id /\ ~f.datarq
    BY <1>4, <1>8 DEF SearchStates, SeekStates, Transfer
  <2>2. wd' \in wd_fdc_type_i(f)
    BY <1>1, <1>8, <2>1 DEF Handled, SeekStates
  <2> QED
    BY <1>3, <1>8, <2>1, <2>2, WdTypeI DEF WdSeeks
<1>9. CASE f.state = "NONE" \/ f.datarq
  <2>1. wd' = f
    <3>1. CASE f.state = "NONE"
      BY <1>1, <3>1 DEF Handled
    <3>2. CASE f.datarq
      BY <1>1, <1>4, <3>2 DEF Handled, Transfer
    <3> QED
      BY <1>9, <3>1, <3>2
  <2> QED
    BY <1>3, <1>9, <2>1 DEF WdGood, WdMoved, WdBase
<1> QED
  BY <1>4, <1>5, <1>6, <1>7, <1>8, <1>9 DEF WdState, SeekStates

LEMMA WdTimeoutEvent ==
  ASSUME board \in Boards, WdGood(wd), TimeoutEvent, Liberties = {}
  PROVE  WdGood(wd')
<1> DEFINE f == [wd EXCEPT !.timeout = wd.timeout - 1]
<1>1. wd.timeout > 0 /\ ~wd.read_id /\ wd' = IF wd.state \in Transfer THEN Done(reset_datarq(f)) ELSE f
  BY DEF TimeoutEvent
<1>2. wd.timeout - 1 \in 0..1
  BY <1>1 DEF WdGood, WdBase, WdFrame, WdType
<1>a. \A n \in 0..1 : [wd EXCEPT !.timeout = n] \in WdType
  BY DEF WdGood, WdBase, WdFrame, WdType
<1>3. f \in WdType
  BY <1>2, <1>a
<1>4. /\ f.drive = wd.drive /\ f.hung = wd.hung /\ f.motor = wd.motor /\ f.head = wd.head
      /\ f.busy = wd.busy /\ f.off = wd.off /\ f.state = wd.state /\ f.command = wd.command
      /\ f.datarq = wd.datarq /\ f.fdc = wd.fdc /\ f.read_id = wd.read_id
  BY DEF WdGood, WdBase, WdFrame, WdType
<1> HIDE DEF f
<1>5. WdFrame(f)
  BY <1>3, <1>4 DEF WdGood, WdBase, WdFrame, Line
<1>6. CASE wd.state \in Transfer
  <2>1. wd.off <= MaxPending
    BY <1>6, WdOff DEF WdGood, WdBase, Transfer
  <2> QED
    BY <1>1, <1>4, <1>5, <1>6, <2>1, WdDone
<1>7. CASE wd.state \notin Transfer
  <2>1. ~f.datarq /\ ~f.read_id
    BY <1>1, <1>4, <1>7 DEF WdGood, WdBase, WdServed
  <2>2. WdGood(f)
    BY <1>4, <1>5, <2>1
       DEF WdGood, WdBase, WdMoved, Line, WdCommanded, WdServed, WdSearching
  <2> QED
    BY <1>1, <1>7, <2>2
<1> QED
  BY <1>6, <1>7

LEMMA WdMotorOffEvent ==
  ASSUME board \in Boards, WdGood(wd), MotorOffEvent
  PROVE  WdGood(wd')
<1> DEFINE f == [wd EXCEPT !.off = wd.off - 1]
<1>1. wd.off > 0 /\ wd' = IF board.old THEN [f EXCEPT !.motor = FALSE, !.drive = fdd_motoron(@, FALSE)]
                          ELSE Hold(f, FALSE)
  BY DEF MotorOffEvent
<1>2. wd.off - 1 \in 0..MaxPending + 1
  BY <1>1, WdAssumption DEF WdGood, WdBase, WdFrame, WdType
<1>a. \A n \in 0..MaxPending + 1 : [wd EXCEPT !.off = n] \in WdType
  BY DEF WdGood, WdBase, WdFrame, WdType
<1>3. f \in WdType
  BY <1>2, <1>a
<1>4. /\ f.drive = wd.drive /\ f.hung = wd.hung /\ f.motor = wd.motor /\ f.head = wd.head
      /\ f.busy = wd.busy /\ f.state = wd.state /\ f.datarq = wd.datarq /\ f.read_id = wd.read_id
  BY DEF WdGood, WdBase, WdFrame, WdType
<1> HIDE DEF f
<1>5. WdFrame(f) /\ ~f.busy /\ f.state = "NONE" /\ ~f.datarq /\ ~f.read_id
  BY <1>1, <1>3, <1>4
     DEF WdGood, WdBase, WdFrame, Line, WdCommanded, WdServed, WdSearching, SearchStates, Transfer
<1>6. WdFrame(wd') /\ ~wd'.busy /\ wd'.state = "NONE" /\ ~wd'.datarq /\ ~wd'.read_id
  <2>1. CASE board.old
    <3> DEFINE e == [f EXCEPT !.motor = FALSE, !.drive = fdd_motoron(@, FALSE)]
    <3>1. /\ WdFrame(e) /\ e.busy = f.busy /\ e.state = f.state
          /\ e.datarq = f.datarq /\ e.read_id = f.read_id
      BY <1>5, <2>1, WdMotor
    <3> HIDE DEF e
    <3>2. wd' = e
      BY <1>1, <2>1 DEF e
    <3> QED
      BY <1>5, <3>1, <3>2
  <2>2. CASE ~board.old
    <3>1. LET e == Hold(f, FALSE) IN
          /\ WdFrame(e) /\ e.busy = f.busy /\ e.state = f.state
          /\ e.datarq = f.datarq /\ e.read_id = f.read_id
      BY <1>5, <2>2, WdHold
    <3> QED
      BY <1>1, <1>5, <2>2, <3>1
  <2> QED
    BY <2>1, <2>2
<1> QED
  BY <1>6, WdAtRest

\* What the drive does by itself, or the user to it.
LEMMA WdDriveChange ==
  ASSUME board \in Boards, WdGood(wd), NEW d, DriveGood(d), Line(wd) => On(d),
         d.waiting => wd.drive.waiting
  PROVE  /\ WdGood([wd EXCEPT !.drive = d])
         /\ [wd EXCEPT !.drive = d].off = wd.off /\ [wd EXCEPT !.drive = d].busy = wd.busy
<1> DEFINE e == [wd EXCEPT !.drive = d]
<1>1. e \in WdType
  BY DEF WdGood, WdBase, WdFrame, WdType, DriveGood
<1>2. /\ e.drive = d /\ e.hung = wd.hung /\ e.motor = wd.motor /\ e.head = wd.head
      /\ e.busy = wd.busy /\ e.off = wd.off /\ e.state = wd.state
      /\ e.command = wd.command /\ e.read_id = wd.read_id /\ e.fdc = wd.fdc /\ e.datarq = wd.datarq
      /\ e.sector = wd.sector /\ e.id = wd.id /\ e.timeout = wd.timeout /\ e.offset = wd.offset
  BY DEF WdGood, WdBase, WdFrame, WdType
<1> HIDE DEF e
<1>3. WdFrame(e) /\ WdCommanded(e)
  BY <1>1, <1>2 DEF WdGood, WdBase, WdFrame, Line, WdCommanded
<1>4. WdGood(e)
  BY <1>2, <1>3 DEF WdGood, WdBase, WdServed, WdSearching, WdMoved
<1> QED
  BY <1>2, <1>4 DEF e

LEMMA WdDriveMotorEvent ==
  ASSUME board \in Boards, WdGood(wd), DriveMotorEvent
  PROVE  WdGood(wd')
<1> DEFINE d == MotorUp(wd.drive)
<1>1. DriveGood(d) /\ Alike(d, wd.drive)
  BY DriveUp DEF WdGood, WdBase, WdFrame
<1>2. wd' = [wd EXCEPT !.drive = d]
  BY DEF DriveMotorEvent
<1> HIDE DEF d
<1>3. Line(wd) => On(d)
  BY <1>1 DEF WdGood, WdBase, WdFrame, Alike, On
<1> QED
  BY <1>1, <1>2, <1>3, WdDriveChange DEF Alike

LEMMA WdDriveIndexEvent ==
  ASSUME board \in Boards, WdGood(wd), DriveIndexEvent
  PROVE  WdGood(wd')
<1>0. wd.off <= MaxPending
  BY DEF DriveIndexEvent
<1>a. PICK another \in BOOLEAN :
        LET f == [wd EXCEPT !.drive = IndexTurn(wd.drive, another)] IN
        wd' = IF IndexTells(wd.drive) THEN wd_fdc_set_intrq(f) ELSE f
  BY DEF DriveIndexEvent
<1> DEFINE d == IndexTurn(wd.drive, another)
           f == [wd EXCEPT !.drive = d]
<1>1. wd.off <= MaxPending
      /\ wd' = IF IndexTells(wd.drive) THEN wd_fdc_set_intrq(f) ELSE f
  BY <1>0, <1>a
<1>2. /\ DriveGood(d) /\ d.loaded = wd.drive.loaded /\ d.motoron = wd.drive.motoron
      /\ (d.waiting => wd.drive.waiting)
  BY <1>1, DriveIndex DEF WdGood, WdBase, WdFrame
<1> HIDE DEF d
<1>3. Line(wd) => On(d)
  BY <1>2 DEF WdGood, WdBase, WdFrame, On
<1>4. WdGood(f) /\ f.off = wd.off /\ f.busy = wd.busy
  BY <1>2, <1>3, WdDriveChange
<1> HIDE DEF f
<1>5. CASE IndexTells(wd.drive)
  <2>1. ~f.busy /\ ~f.datarq /\ ~f.read_id /\ f.state = "NONE"
    BY <1>4, <1>5 DEF IndexTells, WdGood, WdBase, WdCommanded, WdServed, WdSearching, Transfer, SearchStates
  <2>2. LET e == wd_fdc_set_intrq(f) IN
        /\ WdFrame(e) /\ e.busy = f.busy /\ e.state = f.state
        /\ e.datarq = f.datarq /\ e.read_id = f.read_id
    BY <1>1, <1>4, WdIntrq DEF WdGood, WdBase
  <2> QED
    BY <1>1, <1>5, <2>1, <2>2, WdAtRest
<1> QED
  BY <1>1, <1>4, <1>5

LEMMA WdChangeDisk ==
  ASSUME board \in Boards, WdGood(wd), ChangeDisk, Liberties = {}
  PROVE  WdGood(wd')
<1>1. ~wd.drive.motoron /\ ~wd.motor /\ ~wd.head
  BY DEF ChangeDisk
<1>2. PICK size \in DiskSizes, wrprot \in BOOLEAN :
        wd' = [wd EXCEPT !.drive = IF wd.drive.loaded THEN fdd_unload(wd.drive)
                                   ELSE fdd_load(wd.drive, size, wrprot)]
  BY DEF ChangeDisk
<1> DEFINE d == IF wd.drive.loaded THEN fdd_unload(wd.drive) ELSE fdd_load(wd.drive, size, wrprot)
<1>3. DriveGood(d) /\ d.waiting = wd.drive.waiting
  BY <1>1, DriveDisk DEF WdGood, WdBase, WdFrame
<1>4. wd' = [wd EXCEPT !.drive = d]
  BY <1>2
<1> HIDE DEF d
<1>5. ~Line(wd)
  BY <1>1 DEF Line
<1> QED
  BY <1>3, <1>4, <1>5, WdDriveChange

LEMMA WdHlt ==
  ASSUME board \in Boards, WdGood(wd), NEW hlt \in BOOLEAN, wd_fdc_set_hlt(hlt)
  PROVE  WdGood(wd')
<1>1. wd' = [wd EXCEPT !.hlt = hlt]
  BY DEF wd_fdc_set_hlt
<1>2. wd' \in WdType /\ Same(wd', wd) /\ wd'.read_id = wd.read_id /\ wd'.id = wd.id /\ wd'.fdc = wd.fdc
  BY <1>1 DEF WdGood, WdBase, WdFrame, WdType, Same
<1> QED
  BY <1>2 DEF Same, WdGood, WdBase, WdFrame, Line, WdCommanded, WdServed, WdSearching, WdMoved

LEMMA WdRegisters ==
  ASSUME board \in Boards, WdGood(wd), NEW to \in Targets, SetRegisters(to[1], to[2])
  PROVE  WdGood(wd')
<1>1. to[1] \in 0..Tracks - 1 /\ to[2] \in 0..Tracks - 1
  BY GuestAssumption
<1>2. ~wd.busy /\ wd' = [wd EXCEPT !.track = to[1], !.data = to[2], !.sector = 1]
  BY DEF SetRegisters
<1>3. \A a, b \in 0..Tracks - 1, n \in 1..Sectors + 1 :
        [wd EXCEPT !.track = a, !.data = b, !.sector = n] \in WdType
  BY DEF WdGood, WdBase, WdFrame, WdType
<1>4. 1 \in 1..Sectors + 1
  BY FddAssumption
<1>5. wd' \in WdType
  BY <1>1, <1>2, <1>3, <1>4
<1>6. /\ wd'.drive = wd.drive /\ wd'.hung = wd.hung /\ wd'.motor = wd.motor /\ wd'.head = wd.head
      /\ wd'.busy = wd.busy /\ wd'.state = wd.state /\ wd'.datarq = wd.datarq
      /\ wd'.read_id = wd.read_id
  BY <1>2 DEF WdGood, WdBase, WdFrame, WdType
<1>7. WdFrame(wd')
  BY <1>5, <1>6 DEF WdGood, WdBase, WdFrame, Line
<1>8. wd'.state = "NONE" /\ ~wd'.datarq /\ ~wd'.read_id
  BY <1>2, <1>6 DEF WdGood, WdBase, WdServed, WdSearching, Transfer, SearchStates
<1> QED
  BY <1>2, <1>6, <1>7, <1>8, WdAtRest

\* A controller without a command transfers and searches nothing.
LEMMA WdQuiet ==
  ASSUME WdGood(wd), ~wd.busy
  PROVE  wd.state = "NONE" /\ ~wd.datarq /\ ~wd.read_id
BY DEF WdGood, WdBase, WdServed, WdSearching, Transfer, SearchStates

\* A command that has been taken, before the motor is looked at.
WdTaken(f) ==
  /\ WdFrame(f) /\ f.busy /\ f.off = 0 /\ ~f.datarq /\ ~f.read_id
  /\ ~f.drive.waiting

LEMMA WdStarted ==
  ASSUME NEW f, board \in Boards, WdTaken(f), f.state # "NONE"
  PROVE  LET s == wd_fdc_spinup(f, f.command.h, f.command.v) IN
         /\ WdBase(s.f) /\ s.f.state = f.state /\ ~s.f.datarq /\ ~s.f.read_id
         /\ s.waits => WdGood(s.f)
<1> DEFINE s == wd_fdc_spinup(f, f.command.h, f.command.v)
<1>1. f.command.h \in BOOLEAN /\ f.command.v \in BOOLEAN
  BY DEF WdTaken, WdFrame, WdType, Command
<1> DEFINE Spun(h, v) ==
      LET t == wd_fdc_spinup(f, h, v) IN
      /\ WdFrame(t.f) /\ t.f.busy = f.busy /\ t.f.state = f.state /\ t.f.command = f.command
      /\ t.f.datarq = f.datarq /\ t.f.read_id = f.read_id
      /\ t.f.drive.waiting = f.drive.waiting /\ (f.off = 0 => t.f.off = 0)
      /\ f.state # "SEEK" \/ board.old => Line(t.f)
      /\ t.waits => t.f.fdc = 1
<1>2. Spun(TRUE, TRUE) /\ Spun(TRUE, FALSE) /\ Spun(FALSE, TRUE) /\ Spun(FALSE, FALSE)
  BY WdSpinup DEF WdTaken
<1> HIDE DEF Spun
<1>3. Spun(f.command.h, f.command.v)
  BY <1>1, <1>2, Zenon
<1> DEFINE e == s.f
<1>4. /\ WdFrame(e) /\ e.busy = f.busy /\ e.state = f.state /\ e.command = f.command
      /\ e.datarq = f.datarq /\ e.read_id = f.read_id
      /\ e.drive.waiting = f.drive.waiting /\ (f.off = 0 => e.off = 0)
      /\ f.state # "SEEK" \/ board.old => Line(e)
      /\ s.waits => e.fdc = 1
  BY <1>3 DEF Spun
<1> HIDE DEF s
<1>5. WdBase(e) /\ ~e.datarq /\ ~e.read_id
  BY <1>4 DEF WdTaken, WdBase, WdCommanded, WdServed, WdSearching, SeekStates
<1>6. s.waits => WdGood(e)
  BY <1>4, <1>5 DEF WdGood, WdMoved
<1> QED
  BY <1>4, <1>5, <1>6 DEF s

LEMMA WdTakenState ==
  ASSUME NEW f, WdTaken(f), NEW st \in WdState
  PROVE  LET e == [f EXCEPT !.state = st, !.rev = Revolutions] IN WdTaken(e) /\ e.state = st
<1> DEFINE e == [f EXCEPT !.state = st, !.rev = Revolutions]
<1>a. f \in WdType
  BY DEF WdTaken, WdFrame
<1>1. \A v \in 0..Revolutions : [f EXCEPT !.state = st, !.rev = v] \in WdType
  BY <1>a DEF WdType
<1>2. Revolutions \in 0..Revolutions
  BY FddAssumption
<1>3. e \in WdType
  BY <1>1, <1>2
<1>4. /\ e.drive = f.drive /\ e.hung = f.hung /\ e.motor = f.motor /\ e.head = f.head
      /\ e.busy = f.busy /\ e.off = f.off /\ e.state = st
      /\ e.datarq = f.datarq /\ e.read_id = f.read_id
  BY DEF WdTaken, WdFrame, WdType
<1>5. e = [f EXCEPT !.state = st, !.rev = Revolutions]
  OBVIOUS
<1> HIDE DEF e
<1>6. WdTaken(e) /\ e.state = st
  BY <1>3, <1>4 DEF WdTaken, WdFrame, Line
<1> QED
  BY <1>5, <1>6

LEMMA WdCrWrite ==
  ASSUME board \in Boards, WdGood(wd), NEW c \in Commands, wd_fdc_cr_write(c), Liberties = {}
  PROVE  WdGood(wd')
<1> DEFINE g == [wd EXCEPT !.command = c, !.busy = TRUE, !.off = 0]
           h == [g EXCEPT !.state = c.kind, !.rev = Revolutions]
           q == reset_datarq(g)
           k == [q EXCEPT !.state = "SEEK", !.rev = Revolutions]
           sh == wd_fdc_spinup(h, h.command.h, h.command.v)
           sk == wd_fdc_spinup(k, k.command.h, k.command.v)
<1>1. /\ ~wd.busy /\ ~wd.drive.waiting /\ c \in Command
      /\ c.kind \in {"RESTORE", "SEEK", "STEP_IN", "STEP_OUT"} \union Transfer
  BY GuestAssumption DEF wd_fdc_cr_write, Command
<1>2. \/ /\ c.kind \notin Transfer
         /\ wd' \in IF sk.waits THEN {sk.f} ELSE wd_fdc_type_i(sk.f)
      \/ wd' = Done(g)
      \/ /\ c.kind \in {"READ", "WRITE"}
         /\ wd' \in IF sh.waits THEN {sh.f} ELSE wd_fdc_type_ii(sh.f)
      \/ /\ c.kind \in Transfer \ {"READ", "WRITE"}
         /\ wd' \in IF sh.waits THEN {sh.f} ELSE wd_fdc_type_iii(sh.f)
  BY DEF wd_fdc_cr_write, Started
<1>3. wd.state = "NONE" /\ ~wd.datarq /\ ~wd.read_id
  BY <1>1, WdQuiet
<1>4. \A n \in 0..MaxPending + 1 : [wd EXCEPT !.command = c, !.busy = TRUE, !.off = n] \in WdType
  BY <1>1 DEF WdGood, WdBase, WdFrame, WdType
<1>5. 0 \in 0..MaxPending + 1 /\ 0 <= MaxPending
  BY WdAssumption
<1>6. g \in WdType
  BY <1>4, <1>5
<1>7. /\ g.drive = wd.drive /\ g.hung = wd.hung /\ g.motor = wd.motor /\ g.head = wd.head
      /\ g.busy /\ g.off = 0 /\ g.datarq = wd.datarq /\ g.read_id = wd.read_id
  BY DEF WdGood, WdBase, WdFrame, WdType
<1> HIDE DEF g
<1>8. WdTaken(g) /\ g.off <= MaxPending
  BY <1>1, <1>3, <1>5, <1>6, <1>7 DEF WdTaken, WdGood, WdBase, WdFrame, Line
<1>9. q \in WdType
  BY <1>6 DEF reset_datarq, WdType
<1>10. /\ q.drive = g.drive /\ q.hung = g.hung /\ q.motor = g.motor /\ q.head = g.head
       /\ q.busy = g.busy /\ q.off = g.off /\ ~q.datarq /\ q.read_id = g.read_id
  BY <1>6 DEF reset_datarq, WdType
<1> HIDE DEF q
<1>11. WdTaken(q)
  BY <1>8, <1>9, <1>10 DEF WdTaken, WdFrame, Line
<1>12. "SEEK" \in WdState /\ (c.kind \in Transfer => c.kind \in WdState)
  BY DEF WdState, Transfer
<1>13. WdTaken(k) /\ k.state = "SEEK"
  BY <1>11, <1>12, WdTakenState
<1>14. c.kind \in Transfer => WdTaken(h) /\ h.state = c.kind
  BY <1>8, <1>12, WdTakenState
<1> HIDE DEF k, h
<1>15. WdBase(sk.f) /\ sk.f.state = "SEEK" /\ ~sk.f.datarq /\ ~sk.f.read_id /\ (sk.waits => WdGood(sk.f))
  BY <1>13, WdStarted
<1>16. c.kind \in Transfer =>
         WdBase(sh.f) /\ sh.f.state = c.kind /\ ~sh.f.datarq /\ ~sh.f.read_id /\ (sh.waits => WdGood(sh.f))
  BY <1>14, WdStarted DEF Transfer
<1> HIDE DEF sk, sh
<1>17. CASE wd' \in IF sk.waits THEN {sk.f} ELSE wd_fdc_type_i(sk.f)
  BY <1>15, <1>17, WdTypeI DEF WdSeeks, SeekStates
<1>18. CASE wd' = Done(g)
  BY <1>8, <1>18, WdDone DEF WdTaken
<1>19. CASE c.kind \in {"READ", "WRITE"} /\ wd' \in IF sh.waits THEN {sh.f} ELSE wd_fdc_type_ii(sh.f)
  <2>1. c.kind \in Transfer
    BY <1>19 DEF Transfer
  <2> QED
    BY <1>16, <1>19, <2>1, WdTypeII
<1>20. CASE /\ c.kind \in Transfer \ {"READ", "WRITE"}
            /\ wd' \in IF sh.waits THEN {sh.f} ELSE wd_fdc_type_iii(sh.f)
  <2>1. c.kind \in {"READID", "READTRACK", "WRITETRACK"} /\ c.kind \in Transfer
    BY <1>20 DEF Transfer
  <2> QED
    BY <1>16, <1>20, <2>1, WdTypeIII
<1> QED
  BY <1>2, <1>17, <1>18, <1>19, <1>20

LEMMA WdForce ==
  ASSUME board \in Boards, WdGood(wd), NEW now \in BOOLEAN, NEW later \in BOOLEAN,
         ForceInterrupt(now, later), Liberties = {}
  PROVE  WdGood(wd')
<1> DEFINE z == [wd EXCEPT !.fdc = 0]
           f == reset_datarq(Idle(z))
           g == IF now THEN wd_fdc_set_intrq(f)
                ELSE [f EXCEPT !.drive.waiting = @ \/ later]
           e == wd_fdc_spinup(g, FALSE, later).f
<1>1. wd' = e /\ ~wd.read_id /\ wd.off < MaxPending
  BY DEF ForceInterrupt
<1>2. \A n \in 0..3 : [wd EXCEPT !.fdc = n] \in WdType
  BY DEF WdGood, WdBase, WdFrame, WdType
<1>3. 0 \in 0..3
  OBVIOUS
<1>4. z \in WdType
  BY <1>2, <1>3
<1>5. /\ z.drive = wd.drive /\ z.hung = wd.hung /\ z.motor = wd.motor /\ z.head = wd.head
      /\ z.off = wd.off /\ z.read_id = wd.read_id
  BY DEF WdGood, WdBase, WdFrame, WdType
<1> HIDE DEF z
<1>6. WdFrame(z)
  BY <1>4, <1>5 DEF WdGood, WdBase, WdFrame, Line
<1> DEFINE i == Idle(z)
<1>7. WdFrame(i) /\ ~i.busy /\ i.state = "NONE" /\ ~i.read_id /\ i.off = wd.off /\ i.drive = wd.drive
  <2>1. i.drive = z.drive
    BY <1>4 DEF Idle, WdType
  <2> QED
    BY <1>1, <1>5, <1>6, <2>1, WdIdle
<1>8. f = [i EXCEPT !.datarq = FALSE]
  BY DEF reset_datarq
<1> HIDE DEF i, f
<1>9. /\ WdFrame(f) /\ ~f.busy /\ f.state = "NONE" /\ ~f.datarq /\ ~f.read_id /\ f.off = wd.off
      /\ f.drive = wd.drive
  <2>1. f \in WdType
    BY <1>7, <1>8 DEF WdFrame, WdType
  <2>2. /\ f.drive = i.drive /\ f.hung = i.hung /\ f.motor = i.motor /\ f.head = i.head
        /\ f.busy = i.busy /\ f.state = i.state /\ ~f.datarq /\ f.read_id = i.read_id
        /\ f.off = i.off
    BY <1>7, <1>8 DEF WdFrame, WdType
  <2> QED
    BY <1>7, <2>1, <2>2 DEF WdFrame, Line
<1> HIDE DEF f
<1>10. WdFrame(g) /\ ~g.busy /\ g.state = "NONE" /\ ~g.datarq /\ ~g.read_id
  <2>1. CASE now
    <3>1. f.off <= MaxPending
      BY <1>1, <1>9, WdAssumption DEF WdFrame, WdType
    <3>2. LET s == wd_fdc_set_intrq(f) IN
          /\ WdFrame(s) /\ s.busy = f.busy /\ s.state = f.state
          /\ s.datarq = f.datarq /\ s.read_id = f.read_id /\ s.drive = f.drive
      BY <1>9, <3>1, WdIntrq
    <3>3. g = wd_fdc_set_intrq(f)
      BY <2>1
    <3> HIDE DEF g
    <3> QED
      BY <1>1, <1>9, <3>2, <3>3
  <2>2. CASE ~now
    <3> DEFINE w == f.drive.waiting \/ later
               d == [f.drive EXCEPT !.waiting = w]
    <3>1. w \in BOOLEAN
      OBVIOUS
    <3>2. g = [f EXCEPT !.drive = d]
      BY <2>2, <1>9 DEF WdFrame, WdType
    <3> HIDE DEF w
    <3>3. DriveGood(d) /\ d.loaded = f.drive.loaded /\ d.motoron = f.drive.motoron
      BY <1>9, <3>1, DriveWaits DEF WdFrame
    <3> HIDE DEF d
    <3>4. g \in WdType
      BY <1>9, <3>2, <3>3 DEF WdFrame, WdType, DriveGood
    <3>5. /\ g.drive = d /\ g.hung = f.hung /\ g.motor = f.motor /\ g.head = f.head
          /\ g.busy = f.busy /\ g.state = f.state /\ g.datarq = f.datarq /\ g.read_id = f.read_id
      BY <1>9, <3>2 DEF WdFrame, WdType
    <3> HIDE DEF g
    <3> QED
      BY <1>1, <1>9, <3>3, <3>4, <3>5 DEF WdFrame, Line, On
  <2> QED
    BY <2>1, <2>2
<1> HIDE DEF g
<1>11. LET s == wd_fdc_spinup(g, FALSE, later) IN
       /\ WdFrame(s.f) /\ s.f.busy = g.busy /\ s.f.state = g.state
       /\ s.f.datarq = g.datarq /\ s.f.read_id = g.read_id
  BY <1>10, WdSpinup
<1> QED
  BY <1>1, <1>10, <1>11, WdAtRest

LEMMA WdMasterReset ==
  ASSUME board \in Boards, WdGood(wd), MasterReset
  PROVE  WdGood(wd')
<1> DEFINE i == Idle(wd)
           d0 == i.drive
           off == fdd_motoron(d0, FALSE)
           up == fdd_head_load(d0, FALSE)
           d == IF board.beta THEN [off EXCEPT !.cylinder = 0]
                ELSE fdd_select([up EXCEPT !.cylinder = 0], TRUE)
<1>1. WdFrame(i) /\ ~i.busy /\ i.state = "NONE"
  BY WdIdle DEF WdGood, WdBase
<1>2. wd' = [i EXCEPT !.head = FALSE, !.read_id = FALSE, !.hlt = TRUE, !.datarq = FALSE,
                      !.track = 0, !.data = 0, !.sector = 1, !.motor = FALSE, !.drive = d]
  BY DEF MasterReset
<1> HIDE DEF i
<1>3. DriveGood(d0)
  BY <1>1 DEF WdFrame
<1> HIDE DEF d0
<1>4. DriveGood(d)
  <2>1. DriveGood(off) /\ DriveGood(up)
    BY <1>3, DriveMotor, DriveHead
  <2> HIDE DEF off, up
  <2> DEFINE c == [up EXCEPT !.cylinder = 0]
  <2>2. FALSE \in BOOLEAN /\ TRUE \in BOOLEAN
    OBVIOUS
  <2>3. DriveGood([off EXCEPT !.cylinder = 0]) /\ DriveGood(c)
    BY <2>1, <2>2, DriveStep
  <2> HIDE DEF c
  <2>4. DriveGood(fdd_select(c, TRUE))
    BY <2>3, DriveHead
  <2> QED
    BY <2>3, <2>4 DEF c
<1> HIDE DEF d
<1>5. \A t \in 0..Tracks - 1, n \in 1..Sectors + 1 :
        [i EXCEPT !.head = FALSE, !.read_id = FALSE, !.hlt = TRUE, !.datarq = FALSE,
                  !.track = t, !.data = t, !.sector = n, !.motor = FALSE, !.drive = d] \in WdType
  <2>1. d \in Drive /\ i \in WdType
    BY <1>1, <1>4 DEF WdFrame, DriveGood
  <2> QED
    BY <2>1 DEF WdType
<1>6. 0 \in 0..Tracks - 1 /\ 1 \in 1..Sectors + 1
  BY WdAssumption, FddAssumption
<1>7. wd' \in WdType
  BY <1>2, <1>5, <1>6
<1>8. /\ wd'.drive = d /\ wd'.hung = i.hung /\ ~wd'.motor /\ ~wd'.head
      /\ wd'.busy = i.busy /\ wd'.state = i.state /\ ~wd'.datarq /\ ~wd'.read_id
  BY <1>1, <1>2 DEF WdFrame, WdType
<1>9. WdFrame(wd')
  BY <1>1, <1>4, <1>7, <1>8 DEF WdFrame, Line
<1> QED
  BY <1>1, <1>8, <1>9, WdAtRest

(***************************************************************************)
(* A byte of a transfer.                                                   *)
(***************************************************************************)
\* A controller in a transfer, a byte further than it was.
WdByte(g) ==
  /\ WdFrame(g) /\ WdCommanded(g) /\ g.busy /\ g.datarq /\ g.state \in Transfer
  /\ g.timeout = 1 /\ ~g.read_id /\ g.fdc <= 2
  /\ g.state \in {"READ", "WRITE"} => g.sector <= Sectors

LEMMA WdSectorEnds ==
  ASSUME NEW g, board \in Boards, WdByte(g), NEW more \in BOOLEAN,
         more => g.state \in {"READ", "WRITE"}
  PROVE  WdGood(SectorEnds(g, more)) /\ (~more => ~SectorEnds(g, more).busy)
<1> DEFINE h == [g EXCEPT !.timeout = 0]
<1>1. \A n \in 0..1 : [g EXCEPT !.timeout = n] \in WdType
  BY DEF WdByte, WdFrame, WdType
<1>2. 0 \in 0..1 /\ 1 \in 0..1 /\ Revolutions \in 0..Revolutions
  BY FddAssumption
<1>3. h \in WdType
  BY <1>1, <1>2
<1>4. /\ h.drive = g.drive /\ h.hung = g.hung /\ h.motor = g.motor /\ h.head = g.head
      /\ h.busy = g.busy /\ h.off = g.off /\ h.state = g.state /\ h.command = g.command
      /\ h.fdc = g.fdc /\ h.read_id = g.read_id /\ h.sector = g.sector
  BY DEF WdByte, WdFrame, WdType
<1>a. SectorEnds(g, more) =
        IF more THEN reset_datarq([h EXCEPT !.sector = h.sector + 1, !.rev = Revolutions,
                                            !.timeout = 1, !.fdc = h.fdc + 1])
        ELSE reset_datarq(Done(h))
  BY DEF SectorEnds
<1> HIDE DEF h
<1>5. WdFrame(h) /\ h.off <= MaxPending
  BY <1>3, <1>4, WdAssumption DEF WdByte, WdFrame, Line, WdCommanded
<1>6. CASE ~more
  <2>1. WdGood(reset_datarq(Done(h)))
    BY <1>4, <1>5, WdDone DEF WdByte
  <2>2. WdFrame(Idle(h)) /\ ~Idle(h).busy /\ Idle(h).off = h.off
    BY <1>5, WdIdle
  <2>3. WdFrame(Done(h)) /\ ~Done(h).busy
    BY <1>5, <2>2, WdIntrq DEF Done
  <2>4. ~reset_datarq(Done(h)).busy
    BY <2>3, WdFields DEF reset_datarq
  <2> QED
    BY <1>6, <1>a, <2>1, <2>4
<1>7. CASE more
  <2> DEFINE e == [h EXCEPT !.sector = h.sector + 1, !.rev = Revolutions,
                            !.timeout = 1, !.fdc = h.fdc + 1, !.datarq = FALSE]
  <2>1. SectorEnds(g, more) = e
    BY <1>a, <1>7 DEF reset_datarq
  <2>2. h.sector + 1 \in 1..Sectors + 1 /\ h.fdc + 1 \in 0..3 /\ h.fdc + 1 > 0
    BY <1>3, <1>4, <1>7, FddAssumption DEF WdByte, WdType
  <2>3. \A s \in 1..Sectors + 1, v \in 0..Revolutions, t \in 0..1, n \in 0..3 :
          [h EXCEPT !.sector = s, !.rev = v, !.timeout = t, !.fdc = n, !.datarq = FALSE] \in WdType
    BY <1>3 DEF WdType
  <2>4. e \in WdType
    BY <1>2, <2>2, <2>3
  <2>5. /\ e.drive = h.drive /\ e.hung = h.hung /\ e.motor = h.motor /\ e.head = h.head
        /\ e.busy = h.busy /\ e.off = h.off /\ e.state = h.state /\ e.command = h.command
        /\ e.fdc = h.fdc + 1 /\ e.read_id = h.read_id /\ ~e.datarq
    BY <1>3 DEF WdType
  <2> HIDE DEF e
  <2>6. WdFrame(e) /\ WdCommanded(e)
    BY <1>4, <2>4, <2>5 DEF WdByte, WdFrame, Line, WdCommanded
  <2>7. WdGood(e)
    BY <1>4, <2>2, <2>5, <2>6
       DEF WdByte, WdGood, WdBase, WdServed, WdSearching, WdMoved, Transfer
  <2> QED
    BY <1>7, <2>1, <2>7
<1> QED
  BY <1>6, <1>7

LEMMA WdPulsed ==
  ASSUME NEW f, board \in Boards, WdGood(f)
  PROVE  WdGood(Pulsed(f))
<1>1. CASE board.drq /\ f.busy /\ f.fdc < 2
  <2> DEFINE e == [f EXCEPT !.fdc = f.fdc + 1]
  <2>1. f.fdc + 1 \in 0..3 /\ f.fdc + 1 <= 2 /\ f.fdc + 1 > 0
    BY <1>1 DEF WdGood, WdBase, WdFrame, WdType
  <2>2. WdBase(e) /\ e.fdc > 0
    BY <2>1, WdFdcSet DEF WdGood
  <2>3. Pulsed(f) = e
    BY <1>1 DEF Pulsed
  <2> QED
    BY <2>2, <2>3 DEF WdGood, WdMoved
<1>2. CASE ~(board.drq /\ f.busy /\ f.fdc < 2)
  BY <1>2 DEF Pulsed
<1> QED
  BY <1>1, <1>2

LEMMA WdDr ==
  ASSUME board \in Boards, WdGood(wd), NEW write \in BOOLEAN, wd_fdc_dr(write)
  PROVE  WdGood(wd')
<1> DEFINE f == IF ~write /\ board.drq /\ wd.busy THEN [wd EXCEPT !.fdc = 0] ELSE wd
           g == [f EXCEPT !.offset = f.offset + 1]
<1>1. wd.datarq /\ Accepts(write) /\ \E x \in ByteOf(f, write) : wd' = Pulsed(x)
  BY DEF wd_fdc_dr
<1>2. /\ WdBase(wd) /\ wd.busy /\ wd.state \in Transfer /\ wd.offset < Bytes /\ wd.offset \in 0..Bytes
      /\ wd.fdc <= 2
  BY <1>1 DEF WdGood, WdBase, WdServed, WdFrame, WdType, Transfer
<1>3. /\ WdBase(f) /\ f.datarq /\ f.busy /\ f.state = wd.state /\ f.offset = wd.offset
      /\ f.fdc <= 2
  <2> DEFINE z == [wd EXCEPT !.fdc = 0]
  <2>1. 0 \in 0..3 /\ 0 <= 2
    OBVIOUS
  <2>2. WdBase(z) /\ z.state = wd.state /\ z.fdc = 0
    BY <1>2, <2>1, WdFdcSet
  <2>3. z.offset = wd.offset /\ z.busy /\ z.datarq
    BY <1>1, <1>2 DEF WdBase, WdFrame, WdType
  <2> HIDE DEF z
  <2>4. f = IF ~write /\ board.drq /\ wd.busy THEN z ELSE wd
    BY DEF z
  <2> HIDE DEF f
  <2>5. CASE f = z
    BY <1>2, <2>1, <2>2, <2>3, <2>5
  <2>6. CASE f = wd
    BY <1>1, <1>2, <2>6
  <2> QED
    BY <2>4, <2>5, <2>6
<1> HIDE DEF f
<1>4. f.offset + 1 \in 0..Bytes
  BY <1>2, <1>3, FddAssumption
<1>5. \A n \in 0..Bytes : [f EXCEPT !.offset = n] \in WdType
  BY <1>3 DEF WdBase, WdFrame, WdType
<1>6. g \in WdType
  BY <1>4, <1>5
<1>7. /\ g.drive = f.drive /\ g.hung = f.hung /\ g.motor = f.motor /\ g.head = f.head
      /\ g.busy = f.busy /\ g.off = f.off /\ g.state = f.state /\ g.command = f.command
      /\ g.fdc = f.fdc /\ g.read_id = f.read_id /\ g.sector = f.sector
      /\ g.datarq = f.datarq /\ g.timeout = f.timeout /\ g.offset = f.offset + 1
      /\ g.id = f.id
  BY <1>3 DEF WdBase, WdFrame, WdType
<1>8. g.multi \in BOOLEAN
  BY <1>6 DEF WdType
<1>9. \A x \in ByteOf(f, write) :
        \/ x = g /\ g.offset # Bytes
        \/ x = SectorEnds(g, g.multi) /\ g.state \in {"READ", "WRITE"}
        \/ x = SectorEnds(g, FALSE)
        \/ x = reset_datarq(Done(g))
  BY <1>7 DEF ByteOf
<1> HIDE DEF g
<1>10. WdByte(g)
  <2>1. WdFrame(g) /\ WdCommanded(g)
    BY <1>3, <1>6, <1>7 DEF WdBase, WdFrame, Line, WdCommanded
  <2> QED
    BY <1>3, <1>7, <2>1 DEF WdByte, WdBase, WdServed
<1>11. g.offset # Bytes => WdGood(g)
  <2>1. g.offset # Bytes => g.offset < Bytes
    BY <1>4, <1>7, FddAssumption
  <2> QED
    BY <1>10, <2>1
       DEF WdByte, WdGood, WdBase, WdServed, WdSearching, WdMoved, Transfer
<1>12. g.state \in {"READ", "WRITE"} => WdGood(SectorEnds(g, g.multi))
  <2>1. WdGood(SectorEnds(g, FALSE)) /\ (g.state \in {"READ", "WRITE"} => WdGood(SectorEnds(g, TRUE)))
    BY <1>10, WdSectorEnds
  <2> QED
    BY <1>8, <2>1
<1>13. WdGood(SectorEnds(g, FALSE))
  BY <1>10, WdSectorEnds
<1>14. WdGood(reset_datarq(Done(g)))
  <2>1. g.off <= MaxPending
    BY <1>10, WdAssumption DEF WdByte, WdCommanded
  <2> QED
    BY <1>10, <2>1, WdDone DEF WdByte
<1>15. PICK x \in ByteOf(f, write) : wd' = Pulsed(x)
  BY <1>1
<1>16. WdGood(x)
  BY <1>9, <1>11, <1>12, <1>13, <1>14
<1> QED
  BY <1>15, <1>16, WdPulsed

LEMMA WdInitial ==
  ASSUME WdInit
  PROVE  WdIInv
<1> DEFINE d == [fdd_init EXCEPT !.selected = TRUE]
<1>1. board \in Boards /\ wd.drive = d
  BY DEF WdInit
<1>2. d \in Drive
  <2>1. 0 \in 0..Cylinders - 1 /\ 0 \in 0..1 /\ 0 \in 0..Cylinders
    BY FddAssumption
  <2> QED
    BY <2>1 DEF fdd_init, Drive
<1>3. ~d.loaded /\ d.hole /\ ~d.ready
  BY DEF fdd_init
<1>4. DriveGood(d) /\ On(d)
  BY <1>2, <1>3 DEF DriveGood, ReadySettles, On
<1> HIDE DEF d
<1>5. NoCommand \in Command
  BY DEF NoCommand, Command
<1>6. /\ 0 \in 0..Revolutions /\ 0 \in 0..Tracks - 1 /\ 1 \in 1..Sectors + 1 /\ 0 \in 0..Bytes
      /\ 0 \in 0..3 /\ 0 \in 0..1 /\ 0 \in 0..MaxPending + 1
  BY WdAssumption, FddAssumption
<1>7. \A rv \in 0..Revolutions, t \in 0..Tracks - 1, n \in 1..Sectors + 1, b \in 0..Bytes,
         e \in 0..3, o \in 0..1, p \in 0..MaxPending + 1 :
        [drive |-> d, state |-> "NONE", command |-> NoCommand,
         busy |-> FALSE, motor |-> FALSE, datarq |-> FALSE,
         head |-> FALSE, hlt |-> TRUE, read_id |-> FALSE, id |-> FALSE, rev |-> rv,
         track |-> t, data |-> t, out |-> FALSE, sector |-> n, offset |-> b, multi |-> FALSE,
         fdc |-> e, timeout |-> o, off |-> p, hung |-> FALSE] \in WdType
  BY <1>4, <1>5 DEF WdType, WdState, DriveGood
<1>8. wd \in WdType
  BY <1>1, <1>6, <1>7 DEF WdInit, d
<1>9. ~wd.busy /\ wd.state = "NONE" /\ ~wd.datarq /\ ~wd.read_id /\ ~wd.hung
  BY DEF WdInit
<1>10. WdFrame(wd)
  BY <1>1, <1>4, <1>8, <1>9 DEF WdFrame
<1> QED
  BY <1>1, <1>9, <1>10, WdAtRest DEF WdIInv

LEMMA WdStep ==
  ASSUME WdIInv, WdNext, Liberties = {}
  PROVE  WdIInv'
<1>1. board \in Boards /\ WdGood(wd) /\ board' = board
  BY DEF WdIInv, WdNext, WdGuest, WdEvents, wd_fdc_cr_write, ForceInterrupt, SetRegisters,
         wd_fdc_dr, wd_fdc_set_hlt, MasterReset, FdcEvent, TimeoutEvent, MotorOffEvent,
         DriveMotorEvent, DriveIndexEvent, ChangeDisk
<1>2. WdGood(wd')
  <2>1. CASE WdGuest
    BY <1>1, <2>1, WdCrWrite, WdForce, WdRegisters, WdDr, WdHlt, WdMasterReset DEF WdGuest
  <2>2. CASE WdEvents
    BY <1>1, <2>2, WdFdcEvent, WdTimeoutEvent, WdMotorOffEvent, WdDriveMotorEvent,
       WdDriveIndexEvent DEF WdEvents
  <2>3. CASE ChangeDisk
    BY <1>1, <2>3, WdChangeDisk
  <2> QED
    BY <2>1, <2>2, <2>3 DEF WdNext
<1> QED
  BY <1>1, <1>2
     DEF WdIInv, WdGood, WdBase, WdFrame, Line, WdCommanded, WdServed, WdSearching, WdMoved

LEMMA WdHolds ==
  ASSUME WdIInv
  PROVE  WdTypeOK /\ WdDriven /\ ReadySettles(wd.drive)
BY DEF WdIInv, WdGood, WdBase, WdFrame, WdServed, WdSearching, WdMoved, WdTypeOK, WdDriven,
       DriveGood, SearchStates

(***************************************************************************)
(* The uPD765.  A command in execution waits for an event of its own, or   *)
(* serves a transfer that is timed; else there are the events of the seeks *)
(* under way and no other.                                                 *)
(***************************************************************************)
\* The head of the unit selected is down where the controller takes it to be:
\* then a drive that is ready reads, and a search of it ends.
UpdFrame(f) ==
  /\ f \in UpdType /\ ~f.hung
  /\ \A d \in 0..1 : /\ DriveGood(f.drive[d]) /\ Fits(f.drive[d])
                     /\ f.drive[d].selected <=> d = f.cur
  /\ f.head /\ Current(f).loaded => Current(f).loadhead

\* A guest that waits has one seek under way, or one ended that it hears of,
\* and no other command meanwhile.
UpdSerial(f) ==
  guest.serial =>
    /\ f.queue # <<>> => Len(f.queue) = 1 /\ f.ended = {}
    /\ f.ended # {} => f.intrq = "seek" /\ \E u \in Units : f.ended = {u}
    /\ f.state = "EXE" => f.queue = <<>> /\ f.ended = {}

\* A search of a drive ends, where no seek takes the head away from the track.
Ends(d, still) == Spinning(d) \/ ~d.ready \/ (d.cylinder < d.size /\ still)

\* A command in execution: the head stays down, the track of a format turns, a
\* search ends, and it does not go on to a next track that is one sector.
UpdBusy(f) ==
  /\ f.state = "EXE" /\ f.head /\ f.heads = 0 /\ f.cmd.id \in Moving
  /\ f.cmd.mt => f.cmd.eot # 1
  /\ f.cmd.id = "WRITE_ID" => Spinning(Current(f))
  /\ f.cmd.id \in Searching => Ends(Current(f), f.queue = <<>>)
  /\ f.read_id => f.cmd.id \in Searching

UpdIdle(f) ==
  /\ f.state # "EXE" /\ ~f.dreq /\ ~f.read_id /\ f.timeout = 0
  /\ f.fdc = Len(f.queue)

UpdWaits(f) ==
  /\ UpdBusy(f) /\ ~f.dreq /\ f.fdc = Len(f.queue) + 1
  /\ f.timeout > 0 => f.read_id

UpdServes(f) ==
  /\ UpdBusy(f) /\ f.dreq /\ ~f.read_id /\ f.fdc = Len(f.queue)
  /\ f.timeout > 0 /\ f.offset < Bytes

UpdGood(f) ==
  UpdFrame(f) /\ UpdSerial(f) /\ (UpdIdle(f) \/ UpdWaits(f) \/ UpdServes(f))

UpdIInv == guest \in UpdGuests /\ UpdGood(upd)

\* Seeks are moved for units 0 and 1 only.
FirstUnits == Units \subseteq {0, 1}

LEMMA UnitDrive ==
  ASSUME NEW u \in Units
  PROVE  DriveOf(u) \in 0..1
BY UpdAssumption DEF DriveOf

\* A drive is put in the place of another.
LEMMA UpdDriveSet ==
  ASSUME NEW f, UpdFrame(f), NEW d \in 0..1, NEW v, DriveGood(v), Fits(v),
         v.selected = f.drive[d].selected,
         f.head /\ d = f.cur /\ v.loaded => v.loadhead
  PROVE  LET e == [f EXCEPT !.drive[d] = v] IN
         /\ UpdFrame(e)
         /\ e.drive = [f.drive EXCEPT ![d] = v]
         /\ e.cur = f.cur /\ e.state = f.state /\ e.cmd = f.cmd /\ e.dreq = f.dreq
         /\ e.intrq = f.intrq /\ e.head = f.head /\ e.read_id = f.read_id /\ e.id = f.id
         /\ e.rev = f.rev /\ e.first_rw = f.first_rw /\ e.left = f.left /\ e.past = f.past
         /\ e.offset = f.offset /\ e.queue = f.queue /\ e.togo = f.togo /\ e.out = f.out
         /\ e.recal = f.recal /\ e.ended = f.ended /\ e.fdc = f.fdc
         /\ e.timeout = f.timeout /\ e.heads = f.heads
<1> DEFINE D == [f.drive EXCEPT ![d] = v]
           e == [f EXCEPT !.drive = D]
<1>1. f \in UpdType /\ f.drive \in [0..1 -> Drive] /\ v \in Drive /\ f.cur \in 0..1
  BY DEF UpdFrame, UpdType, DriveGood
<1>2. [f EXCEPT !.drive[d] = v] = e
  BY <1>1 DEF UpdType
<1>3. D \in [0..1 -> Drive] /\ D[d] = v /\ \A o \in 0..1 : o # d => D[o] = f.drive[o]
  BY <1>1
<1>4. \A o \in 0..1 : DriveGood(D[o]) /\ Fits(D[o]) /\ (D[o].selected <=> o = f.cur)
  BY <1>3 DEF UpdFrame
<1>5. f.head /\ D[f.cur].loaded => D[f.cur].loadhead
  BY <1>1, <1>3 DEF UpdFrame, Current
<1> HIDE DEF D
<1>6. e \in UpdType
  BY <1>1, <1>3 DEF UpdType
<1>7. /\ e.drive = D /\ e.hung = f.hung
      /\ e.cur = f.cur /\ e.state = f.state /\ e.cmd = f.cmd /\ e.dreq = f.dreq
      /\ e.intrq = f.intrq /\ e.head = f.head /\ e.read_id = f.read_id /\ e.id = f.id
      /\ e.rev = f.rev /\ e.first_rw = f.first_rw /\ e.left = f.left /\ e.past = f.past
      /\ e.offset = f.offset /\ e.queue = f.queue /\ e.togo = f.togo /\ e.out = f.out
      /\ e.recal = f.recal /\ e.ended = f.ended /\ e.fdc = f.fdc
      /\ e.timeout = f.timeout /\ e.heads = f.heads
  BY <1>1 DEF UpdType
<1> HIDE DEF e
<1>8. UpdFrame(e)
  BY <1>4, <1>5, <1>6, <1>7 DEF UpdFrame, Current
<1> QED
  BY <1>2, <1>7, <1>8 DEF D

\* A search ends as before where the drive is as it was.
LEMMA DriveEnds ==
  ASSUME NEW d, NEW e, Alike(e, d), Stays(e, d), NEW still, Ends(d, still)
  PROVE  Ends(e, still)
BY DEF Alike, Stays, Ends, Spinning

\* Whatever becomes of a drive, the head is down or up as it was.
LEMMA DriveHeadKept ==
  ASSUME NEW d, DriveGood(d), NEW b \in BOOLEAN, NEW another \in BOOLEAN
  PROVE  /\ LET e == fdd_motoron(d, b) IN
              e.loaded = d.loaded /\ e.selected = d.selected /\ e.loadhead = d.loadhead
         /\ LET e == MotorUp(d) IN
              e.loaded = d.loaded /\ e.selected = d.selected /\ e.loadhead = d.loadhead
         /\ LET e == [IndexTurn(d, another) EXCEPT !.pulse = FALSE] IN
              e.loaded = d.loaded /\ e.selected = d.selected /\ e.loadhead = d.loadhead
                /\ e.motoron = d.motoron
         /\ LET e == fdd_step(d, b) IN
              e.loaded = d.loaded /\ e.selected = d.selected /\ e.loadhead = d.loadhead
         /\ LET e == fdd_wait_index_hole(d) IN
              e.loaded = d.loaded /\ e.selected = d.selected /\ e.loadhead = d.loadhead
         /\ LET e == [d EXCEPT !.hole = b] IN
              e.loaded = d.loaded /\ e.selected = d.selected /\ e.loadhead = d.loadhead
BY DEF DriveGood, Drive, fdd_motoron, MotorUp, IndexTurn, fdd_step, fdd_set_data,
       fdd_wait_index_hole

LEMMA DriveHeadDown ==
  ASSUME NEW d, DriveGood(d), NEW b \in BOOLEAN
  PROVE  /\ fdd_head_load(d, b).selected = d.selected
         /\ b /\ fdd_head_load(d, b).loaded => fdd_head_load(d, b).loadhead
         /\ fdd_select(d, b).selected = b
         /\ b /\ fdd_select(d, b).loaded => fdd_select(d, b).loadhead
BY DEF DriveGood, Drive, fdd_head_load, fdd_select, fdd_set_data

LEMMA DriveDiskHead ==
  ASSUME NEW d, DriveGood(d), NEW size \in DiskSizes, NEW wrprot \in BOOLEAN
  PROVE  LET e == IF d.loaded THEN fdd_unload(d) ELSE fdd_load(d, size, wrprot) IN
         e.selected = d.selected /\ (d.selected /\ e.loaded => e.loadhead)
BY FddAssumption DEF DriveGood, Drive, fdd_unload, fdd_load, fdd_motoron, fdd_head_load, fdd_set_data

\* What a controller keeps when its drives and what they wait for stay.
LEMMA UpdFrameKept ==
  ASSUME NEW f, UpdFrame(f), NEW e, e \in UpdType, ~e.hung,
         e.drive = f.drive, e.cur = f.cur, e.head => f.head
  PROVE  UpdFrame(e)
BY DEF UpdFrame, Current

\* What the end of a command asks of the seeks of a guest that waits.
UpdSerialEnd(f) ==
  guest.serial =>
    /\ f.queue # <<>> => Len(f.queue) = 1 /\ f.ended = {}
    /\ f.ended # {} => /\ f.intrq = "seek" /\ ~HasResult(f.cmd)
                       /\ \E u \in Units : f.ended = {u}

LEMMA UpdResult ==
  ASSUME NEW f, UpdFrame(f), f.fdc = Len(f.queue), ~f.read_id, UpdSerialEnd(f)
  PROVE  UpdGood(cmd_result(f)) /\ UpdIdle(cmd_result(f))
<1> DEFINE has == HasResult(f.cmd)
           s == IF has THEN "RES" ELSE "CMD"
           i == IF has THEN "result" ELSE f.intrq
           h == IF f.head /\ f.cmd.id \in Moving /\ f.heads < 2 THEN f.heads + 1 ELSE f.heads
           e == [f EXCEPT !.state = s, !.cmd = NoUpdCommand, !.id = FALSE, !.rev = 0,
                          !.intrq = i, !.dreq = FALSE, !.timeout = 0, !.offset = 0, !.left = 0,
                          !.past = FALSE, !.first_rw = FALSE, !.heads = h]
<1>1. cmd_result(f) = e
  BY DEF cmd_result
<1>2. f \in UpdType /\ f.heads \in 0..2 /\ f.intrq \in {"none", "result", "seek"}
  BY DEF UpdFrame, UpdType
<1>3. /\ s \in {"CMD", "EXE", "RES"} /\ s # "EXE" /\ i \in {"none", "result", "seek"}
      /\ h \in 0..2 /\ (~has => i = f.intrq)
  BY <1>2
<1>4. NoUpdCommand \in UpdCommand
  <2>1. 1 \in 1..Sectors
    BY FddAssumption
  <2> QED
    BY <2>1 DEF NoUpdCommand, UpdCommand, Plain
<1>5. 0 \in 0..Revolutions /\ 0 \in 0..2 /\ 0 \in 0..Bytes /\ 0 \in 0..Sectors
  BY FddAssumption
<1> HIDE DEF s, i, h
<1> DEFINE g == [f EXCEPT !.state = s, !.cmd = NoUpdCommand, !.intrq = i, !.heads = h]
           k == [g EXCEPT !.id = FALSE, !.dreq = FALSE, !.past = FALSE, !.first_rw = FALSE]
<1>6. g \in UpdType
  BY <1>2, <1>3, <1>4 DEF UpdType
<1> HIDE DEF g
<1>a. k \in UpdType
  BY <1>6 DEF UpdType
<1> HIDE DEF k
<1>b. \A rv \in 0..Revolutions, t \in 0..2, o \in 0..Bytes, l \in 0..Sectors :
        [k EXCEPT !.rev = rv, !.timeout = t, !.offset = o, !.left = l] \in UpdType
  BY <1>a DEF UpdType
<1>c. [k EXCEPT !.rev = 0, !.timeout = 0, !.offset = 0, !.left = 0] \in UpdType
  BY <1>5, <1>b
<1>7. e \in UpdType
  <2>1. e = [k EXCEPT !.rev = 0, !.timeout = 0, !.offset = 0, !.left = 0]
    BY DEF k, g
  <2> QED
    BY <1>c, <2>1
<1>8. /\ e.drive = f.drive /\ e.cur = f.cur /\ e.hung = f.hung /\ e.head = f.head
      /\ e.state = s /\ e.intrq = i /\ ~e.dreq /\ e.timeout = 0 /\ e.read_id = f.read_id
      /\ e.queue = f.queue /\ e.ended = f.ended /\ e.fdc = f.fdc
  BY <1>2 DEF UpdType
<1> HIDE DEF e
<1>9. UpdFrame(e)
  BY <1>7, <1>8, UpdFrameKept DEF UpdFrame
<1>10. UpdSerial(e)
  BY <1>3, <1>8 DEF UpdSerial, UpdSerialEnd
<1>11. UpdIdle(e)
  BY <1>3, <1>8 DEF UpdIdle
<1> QED
  BY <1>1, <1>9, <1>10, <1>11 DEF UpdGood

\* A command whose event has come, and that is about to go on.
UpdWorks(f) ==
  UpdFrame(f) /\ UpdSerial(f) /\ UpdBusy(f) /\ ~f.dreq /\ f.fdc = Len(f.queue)

LEMMA UpdWorksEnds ==
  ASSUME NEW f, UpdFrame(f), UpdSerial(f), f.state = "EXE", ~f.read_id, f.fdc = Len(f.queue)
  PROVE  UpdGood(cmd_result(f))
BY UpdResult DEF UpdSerial, UpdSerialEnd

\* The fields that decide.
LEMMA UpdWorksKept ==
  ASSUME NEW f, UpdWorks(f), NEW e, e \in UpdType,
         e.drive = f.drive, e.cur = f.cur, e.hung = f.hung, e.head = f.head,
         e.state = f.state, e.cmd = f.cmd, e.dreq = f.dreq, e.intrq = f.intrq,
         e.queue = f.queue, e.ended = f.ended, e.fdc = f.fdc, e.heads = f.heads,
         e.read_id => f.cmd.id \in Searching
  PROVE  UpdWorks(e)
BY UpdFrameKept DEF UpdWorks, UpdFrame, UpdSerial, UpdBusy, Current

\* It waits for an event of its own.
LEMMA UpdLater ==
  ASSUME NEW f, UpdWorks(f), f.timeout > 0 => f.read_id
  PROVE  UpdGood([f EXCEPT !.fdc = f.fdc + 1])
<1> DEFINE e == [f EXCEPT !.fdc = f.fdc + 1]
<1>1. f \in UpdType /\ f.fdc + 1 \in Nat
  BY DEF UpdWorks, UpdFrame, UpdType
<1>2. e \in UpdType
  BY <1>1 DEF UpdType
<1>3. /\ e.drive = f.drive /\ e.cur = f.cur /\ e.hung = f.hung /\ e.head = f.head
      /\ e.state = f.state /\ e.cmd = f.cmd /\ e.dreq = f.dreq /\ e.intrq = f.intrq
      /\ e.queue = f.queue /\ e.ended = f.ended /\ e.fdc = f.fdc + 1 /\ e.heads = f.heads
      /\ e.read_id = f.read_id /\ e.timeout = f.timeout
  BY <1>1 DEF UpdType
<1> HIDE DEF e
<1>4. UpdFrame(e)
  BY <1>2, <1>3, UpdFrameKept DEF UpdWorks, UpdFrame
<1>5. UpdSerial(e) /\ UpdBusy(e)
  BY <1>3 DEF UpdWorks, UpdSerial, UpdBusy, Current
<1>6. UpdWaits(e)
  BY <1>3, <1>5 DEF UpdWorks, UpdWaits
<1> QED
  BY <1>4, <1>5, <1>6 DEF UpdGood, e

\* Fields that only a search or a transfer reads.
LEMMA UpdIdNone ==
  ASSUME NEW f, UpdWorks(f), NEW n \in 0..Revolutions
  PROVE  LET e == [f EXCEPT !.id = FALSE, !.rev = n] IN
         UpdWorks(e) /\ e.read_id = f.read_id /\ e.cmd = f.cmd /\ e.timeout = f.timeout
<1> DEFINE e == [f EXCEPT !.id = FALSE, !.rev = n]
<1>0. f \in UpdType
  BY DEF UpdWorks, UpdFrame
<1>1. e \in UpdType
  BY <1>0 DEF UpdType
<1>2. /\ e.drive = f.drive /\ e.cur = f.cur /\ e.hung = f.hung /\ e.head = f.head
      /\ e.state = f.state /\ e.cmd = f.cmd /\ e.dreq = f.dreq /\ e.intrq = f.intrq
      /\ e.queue = f.queue /\ e.ended = f.ended /\ e.fdc = f.fdc /\ e.heads = f.heads
      /\ e.read_id = f.read_id /\ e.timeout = f.timeout
  BY <1>0 DEF UpdType
<1> HIDE DEF e
<1>3. UpdWorks(e)
  BY <1>1, <1>2, UpdWorksKept DEF UpdWorks, UpdBusy
<1> QED
  BY <1>2, <1>3 DEF e

LEMMA UpdIdFound ==
  ASSUME NEW f, UpdWorks(f), NEW n \in 0..Revolutions
  PROVE  LET e == [f EXCEPT !.id = TRUE, !.rev = n] IN
         UpdWorks(e) /\ e.read_id = f.read_id /\ e.cmd = f.cmd /\ e.timeout = f.timeout
<1> DEFINE e == [f EXCEPT !.id = TRUE, !.rev = n]
<1>0. f \in UpdType
  BY DEF UpdWorks, UpdFrame
<1>1. e \in UpdType
  BY <1>0 DEF UpdType
<1>2. /\ e.drive = f.drive /\ e.cur = f.cur /\ e.hung = f.hung /\ e.head = f.head
      /\ e.state = f.state /\ e.cmd = f.cmd /\ e.dreq = f.dreq /\ e.intrq = f.intrq
      /\ e.queue = f.queue /\ e.ended = f.ended /\ e.fdc = f.fdc /\ e.heads = f.heads
      /\ e.read_id = f.read_id /\ e.timeout = f.timeout
  BY <1>0 DEF UpdType
<1> HIDE DEF e
<1>3. UpdWorks(e)
  BY <1>1, <1>2, UpdWorksKept DEF UpdWorks, UpdBusy
<1> QED
  BY <1>2, <1>3 DEF e

LEMMA UpdFirstDone ==
  ASSUME NEW f, UpdWorks(f)
  PROVE  LET e == [f EXCEPT !.first_rw = FALSE] IN
         UpdWorks(e) /\ e.read_id = f.read_id /\ e.cmd = f.cmd /\ e.timeout = f.timeout
<1> DEFINE e == [f EXCEPT !.first_rw = FALSE]
<1>0. f \in UpdType
  BY DEF UpdWorks, UpdFrame
<1>1. e \in UpdType
  BY <1>0 DEF UpdType
<1>2. /\ e.drive = f.drive /\ e.cur = f.cur /\ e.hung = f.hung /\ e.head = f.head
      /\ e.state = f.state /\ e.cmd = f.cmd /\ e.dreq = f.dreq /\ e.intrq = f.intrq
      /\ e.queue = f.queue /\ e.ended = f.ended /\ e.fdc = f.fdc /\ e.heads = f.heads
      /\ e.read_id = f.read_id /\ e.timeout = f.timeout
  BY <1>0 DEF UpdType
<1> HIDE DEF e
<1>3. UpdWorks(e)
  BY <1>1, <1>2, UpdWorksKept DEF UpdWorks, UpdBusy
<1> QED
  BY <1>2, <1>3 DEF e

LEMMA UpdLeft ==
  ASSUME NEW f, UpdWorks(f), NEW n \in 0..Sectors
  PROVE  LET e == [f EXCEPT !.left = n] IN
         UpdWorks(e) /\ e.read_id = f.read_id /\ e.cmd = f.cmd /\ e.timeout = f.timeout
<1> DEFINE e == [f EXCEPT !.left = n]
<1>0. f \in UpdType
  BY DEF UpdWorks, UpdFrame
<1>1. e \in UpdType
  BY <1>0 DEF UpdType
<1>2. /\ e.drive = f.drive /\ e.cur = f.cur /\ e.hung = f.hung /\ e.head = f.head
      /\ e.state = f.state /\ e.cmd = f.cmd /\ e.dreq = f.dreq /\ e.intrq = f.intrq
      /\ e.queue = f.queue /\ e.ended = f.ended /\ e.fdc = f.fdc /\ e.heads = f.heads
      /\ e.read_id = f.read_id /\ e.timeout = f.timeout
  BY <1>0 DEF UpdType
<1> HIDE DEF e
<1>3. UpdWorks(e)
  BY <1>1, <1>2, UpdWorksKept DEF UpdWorks, UpdBusy
<1> QED
  BY <1>2, <1>3 DEF e

LEMMA UpdReadIdOff ==
  ASSUME NEW f, UpdWorks(f)
  PROVE  LET e == [f EXCEPT !.read_id = FALSE] IN
         UpdWorks(e) /\ ~e.read_id /\ e.cmd = f.cmd /\ e.timeout = f.timeout /\ e.left = f.left /\ e.id = f.id
<1> DEFINE e == [f EXCEPT !.read_id = FALSE]
<1>0. f \in UpdType
  BY DEF UpdWorks, UpdFrame
<1>1. e \in UpdType
  BY <1>0 DEF UpdType
<1>2. /\ e.drive = f.drive /\ e.cur = f.cur /\ e.hung = f.hung /\ e.head = f.head
      /\ e.state = f.state /\ e.cmd = f.cmd /\ e.dreq = f.dreq /\ e.intrq = f.intrq
      /\ e.queue = f.queue /\ e.ended = f.ended /\ e.fdc = f.fdc /\ e.heads = f.heads
      /\ e.timeout = f.timeout /\ e.left = f.left /\ e.id = f.id /\ ~e.read_id
  BY <1>0 DEF UpdType
<1> HIDE DEF e
<1>3. UpdWorks(e)
  BY <1>1, <1>2, UpdWorksKept DEF UpdWorks, UpdBusy
<1> QED
  BY <1>2, <1>3 DEF e

LEMMA UpdNextTrack ==
  ASSUME NEW f, UpdWorks(f), NEW n \in 0..Sectors
  PROVE  LET e == [f EXCEPT !.left = n, !.past = TRUE] IN
         UpdWorks(e) /\ e.read_id = f.read_id /\ e.cmd = f.cmd /\ e.timeout = f.timeout
<1> DEFINE e == [f EXCEPT !.left = n, !.past = TRUE]
<1>0. f \in UpdType
  BY DEF UpdWorks, UpdFrame
<1>1. e \in UpdType
  BY <1>0 DEF UpdType
<1>2. /\ e.drive = f.drive /\ e.cur = f.cur /\ e.hung = f.hung /\ e.head = f.head
      /\ e.state = f.state /\ e.cmd = f.cmd /\ e.dreq = f.dreq /\ e.intrq = f.intrq
      /\ e.queue = f.queue /\ e.ended = f.ended /\ e.fdc = f.fdc /\ e.heads = f.heads
      /\ e.read_id = f.read_id /\ e.timeout = f.timeout
  BY <1>0 DEF UpdType
<1> HIDE DEF e
<1>3. UpdWorks(e)
  BY <1>1, <1>2, UpdWorksKept DEF UpdWorks, UpdBusy
<1> QED
  BY <1>2, <1>3 DEF e

LEMMA UpdNewSearch ==
  ASSUME NEW f, UpdWorks(f), f.cmd.id \in Searching
  PROVE  LET e == NewSearch(f) IN UpdWorks(e) /\ e.read_id /\ e.cmd = f.cmd
<1> DEFINE e == [f EXCEPT !.read_id = TRUE, !.rev = Revolutions, !.id = FALSE]
<1>0. f \in UpdType /\ Revolutions \in 0..Revolutions
  BY FddAssumption DEF UpdWorks, UpdFrame
<1>1. e \in UpdType
  BY <1>0 DEF UpdType
<1>2. /\ e.drive = f.drive /\ e.cur = f.cur /\ e.hung = f.hung /\ e.head = f.head
      /\ e.state = f.state /\ e.cmd = f.cmd /\ e.dreq = f.dreq /\ e.intrq = f.intrq
      /\ e.queue = f.queue /\ e.ended = f.ended /\ e.fdc = f.fdc /\ e.heads = f.heads
      /\ e.read_id
  BY <1>0 DEF UpdType
<1> HIDE DEF e
<1>3. UpdWorks(e)
  BY <1>1, <1>2, UpdWorksKept
<1>4. NewSearch(f) = e
  BY DEF NewSearch, e
<1> QED
  BY <1>2, <1>3, <1>4

LEMMA UpdWorksDrive ==
  ASSUME NEW f, UpdWorks(f), NEW v, DriveGood(v), Alike(v, Current(f)), Stays(v, Current(f)),
         v.selected = Current(f).selected, Current(f).loadhead => v.loadhead
  PROVE  LET e == [f EXCEPT !.drive[f.cur] = v] IN
         UpdWorks(e) /\ e.read_id = f.read_id /\ e.cmd = f.cmd /\ e.timeout = f.timeout
           /\ e.id = f.id /\ e.rev = f.rev
<1> DEFINE e == [f EXCEPT !.drive[f.cur] = v]
<1>1. f.cur \in 0..1 /\ UpdFrame(f) /\ f.drive \in [0..1 -> Drive]
  BY DEF UpdWorks, UpdFrame, UpdType
<1>2. f.head /\ v.loaded => v.loadhead
  BY <1>1 DEF UpdFrame, Current, Alike
<1>a. Fits(v)
  BY <1>1 DEF UpdFrame, Current, Stays
<1>3. /\ UpdFrame(e)
      /\ e.drive = [f.drive EXCEPT ![f.cur] = v]
      /\ e.cur = f.cur /\ e.state = f.state /\ e.cmd = f.cmd /\ e.dreq = f.dreq
      /\ e.intrq = f.intrq /\ e.head = f.head /\ e.read_id = f.read_id
      /\ e.queue = f.queue /\ e.ended = f.ended /\ e.fdc = f.fdc
      /\ e.timeout = f.timeout /\ e.heads = f.heads /\ e.id = f.id /\ e.rev = f.rev
  BY <1>1, <1>2, <1>a, UpdDriveSet DEF Current
<1> HIDE DEF e
<1>4. Current(e) = v
  BY <1>1, <1>3 DEF Current
<1>b. f.cmd.id \in Searching => Ends(v, f.queue = <<>>)
  BY DriveEnds DEF UpdWorks, UpdBusy
<1>5. UpdSerial(e) /\ UpdBusy(e)
  BY <1>3, <1>4, <1>b DEF UpdWorks, UpdSerial, UpdBusy, Alike, Spinning
<1> QED
  BY <1>3, <1>5 DEF UpdWorks, e

\* A search ends: a drive that is ready turns or reads.
LEMMA UpdSearches ==
  ASSUME NEW f, UpdWorks(f), f.read_id, NEW r \in UpdSearched(f)
  PROVE  /\ r.goes => UpdWorks(r.f) /\ r.f.read_id /\ r.f.cmd = f.cmd
         /\ ~r.goes => UpdGood(r.f)
<1> DEFINE d == Current(f)
           v == [d EXCEPT !.hole = FALSE]
           later(g) == [f |-> [g EXCEPT !.fdc = @ + 1], goes |-> FALSE]
           at_once(g) == [f |-> g, goes |-> TRUE]
           none(n) == [f EXCEPT !.id = FALSE, !.rev = n]
           found == [f EXCEPT !.id = TRUE, !.rev = 0, !.drive[f.cur].hole = FALSE]
           Fine(x) == /\ x.goes => UpdWorks(x.f) /\ x.f.read_id /\ x.f.cmd = f.cmd
                      /\ ~x.goes => UpdGood(x.f)
<1>0. /\ f \in UpdType /\ f.cur \in 0..1 /\ f.rev \in 0..Revolutions
      /\ DriveGood(d) /\ Fits(d) /\ d.selected /\ Ends(d, f.queue = <<>>)
      /\ f.head /\ (f.head /\ d.loaded => d.loadhead)
  BY DEF UpdWorks, UpdFrame, UpdType, Current, UpdBusy
<1>1. d.ready => Advances(d) /\ d.loaded
  BY <1>0 DEF DriveGood, ReadySettles, Reads, Advances, Ends, Fits
<1>2. ASSUME NEW g, UpdWorks(g), g.read_id, g.cmd = f.cmd
      PROVE  Fine(later(g)) /\ Fine(at_once(g))
  <2> DEFINE h == [g EXCEPT !.fdc = g.fdc + 1]
  <2>1. UpdGood(h)
    BY <1>2, UpdLater
  <2> HIDE DEF h
  <2>2. later(g) = [f |-> h, goes |-> FALSE]
    BY DEF h
  <2> QED
    BY <1>2, <2>1, <2>2
<1>3. ASSUME NEW n \in 0..Revolutions
      PROVE  UpdWorks(none(n)) /\ none(n).read_id /\ none(n).cmd = f.cmd
  BY UpdIdNone
<1>4. ASSUME d.loaded
      PROVE  UpdWorks(found) /\ found.read_id /\ found.cmd = f.cmd
  <2> DEFINE h == [f EXCEPT !.drive[f.cur] = v]
             k == [h EXCEPT !.id = TRUE, !.rev = 0]
  <2>1. DriveGood(v) /\ Alike(v, d) /\ Stays(v, d)
    BY <1>0, <1>4, DriveHole
  <2>2. v.selected = d.selected /\ v.loadhead = d.loadhead
    BY <1>0 DEF DriveGood, Drive
  <2>3. found = k
    BY <1>0 DEF UpdType, Current
  <2> HIDE DEF v
  <2>4. UpdWorks(h) /\ h.read_id = f.read_id /\ h.cmd = f.cmd
    BY <2>1, <2>2, UpdWorksDrive
  <2> HIDE DEF h
  <2>5. 0 \in 0..Revolutions
    BY FddAssumption
  <2>6. UpdWorks(k) /\ k.read_id = h.read_id /\ k.cmd = h.cmd
    BY <2>4, <2>5, UpdIdFound
  <2> QED
    BY <2>3, <2>4, <2>6
<1>5. \/ r = at_once(f)
      \/ \E n \in 0..Revolutions : r = later(none(n)) \/ r = at_once(none(n))
      \/ d.loaded /\ (r = later(found) \/ r = at_once(found))
  <2>1. CASE f.rev = 0
    BY <2>1 DEF UpdSearched
  <2>2. CASE f.rev # 0 /\ ~d.ready
    <3>1. 0 \in 0..Revolutions
      BY FddAssumption
    <3>2. \/ r = later([[f EXCEPT !.id = FALSE] EXCEPT !.rev = 0])
          \/ r = at_once([[f EXCEPT !.id = FALSE] EXCEPT !.rev = 0])
      BY <2>2 DEF UpdSearched
    <3>3. [[f EXCEPT !.id = FALSE] EXCEPT !.rev = 0] = none(0)
      OBVIOUS
    <3> QED
      BY <3>1, <3>2, <3>3
  <2>3. CASE f.rev # 0 /\ d.ready
    <3>1. Advances(d) /\ d.loaded
      BY <1>1, <2>3
    <3>2. \/ \E n \in 0..f.rev - 1 : r = later([[f EXCEPT !.id = FALSE] EXCEPT !.rev = n])
          \/ r = at_once([[f EXCEPT !.id = FALSE] EXCEPT !.rev = 0])
          \/ r = later(found) \/ r = at_once(found)
      BY <2>3, <3>1 DEF UpdSearched
    <3>3. \A n \in Nat : [[f EXCEPT !.id = FALSE] EXCEPT !.rev = n] = none(n)
      OBVIOUS
    <3>4. 0 \in 0..Revolutions /\ \A n \in 0..f.rev - 1 : n \in 0..Revolutions /\ n \in Nat
      BY <1>0, FddAssumption
    <3> QED
      BY <3>1, <3>2, <3>3, <3>4
  <2> QED
    BY <2>1, <2>2, <2>3
<1> HIDE DEF found, none, later, at_once
<1>6. Fine(r)
  BY <1>2, <1>3, <1>4, <1>5
<1> QED
  BY <1>6

LEMMA UpdTransfer ==
  ASSUME NEW f, UpdWorks(f), ~f.read_id, NEW t \in 0..2, t > 0
  PROVE  UpdGood([f EXCEPT !.dreq = TRUE, !.offset = 0, !.timeout = t])
<1> DEFINE k(o) == [f EXCEPT !.dreq = TRUE, !.offset = o, !.timeout = t]
           e == k(0)
<1>0. f \in UpdType /\ 0 \in 0..Bytes /\ 0 < Bytes
  BY FddAssumption DEF UpdWorks, UpdFrame
<1>1. \A o \in 0..Bytes : k(o) \in UpdType
  BY <1>0 DEF UpdType
<1>2. e \in UpdType
  BY <1>0, <1>1
<1>3. /\ e.drive = f.drive /\ e.cur = f.cur /\ e.hung = f.hung /\ e.head = f.head
      /\ e.state = f.state /\ e.cmd = f.cmd /\ e.dreq /\ e.intrq = f.intrq
      /\ e.queue = f.queue /\ e.ended = f.ended /\ e.fdc = f.fdc /\ e.heads = f.heads
      /\ e.read_id = f.read_id /\ e.timeout = t /\ e.offset = 0
  BY <1>0 DEF UpdType
<1> HIDE DEF e
<1>4. UpdFrame(e)
  BY <1>2, <1>3, UpdFrameKept DEF UpdWorks, UpdFrame
<1>5. UpdSerial(e) /\ UpdBusy(e)
  BY <1>3 DEF UpdWorks, UpdSerial, UpdBusy, Current
<1>6. UpdServes(e)
  BY <1>0, <1>3, <1>5 DEF UpdWorks, UpdServes
<1> QED
  BY <1>4, <1>5, <1>6 DEF UpdGood, e

LEMMA UpdTransfers ==
  ASSUME NEW f, UpdWorks(f), ~f.read_id
  PROVE  UpdGood(Transfers(f))
<1>1. 1 \in 0..2 /\ 1 > 0
  OBVIOUS
<1> QED
  BY <1>1, UpdTransfer DEF Transfers

LEMMA UpdOver ==
  ASSUME NEW f, UpdWorks(f), ~f.read_id
  PROVE  UpdGood(cmd_result(f))
BY UpdWorksEnds DEF UpdWorks, UpdBusy

LEMMA UpdFound ==
  ASSUME NEW f, UpdWorks(f), f.cmd.id \in Searching, NEW x
  PROVE  /\ x \in UpdSectorFound(f) => UpdGood(x)
         /\ x \in IdFound(f) => UpdGood(x)
<1> DEFINE g == [f EXCEPT !.read_id = FALSE]
           next(l) == [NewSearch([g EXCEPT !.left = l]) EXCEPT !.fdc = @ + 1]
<1>1. UpdWorks(g) /\ ~g.read_id /\ g.cmd = f.cmd /\ g.left = f.left
  BY UpdReadIdOff
<1>a. g.left \in 0..Sectors
  BY <1>1 DEF UpdWorks, UpdFrame, UpdType
<1>2. x \in UpdSectorFound(f) =>
        \/ x = cmd_result(g) \/ x = Transfers(g)
        \/ \E l \in 0..Sectors : x = next(l)
  BY DEF UpdSectorFound
<1>3. x \in IdFound(f) => x = cmd_result(g)
  BY DEF IdFound
<1> HIDE DEF g
<1>4. ASSUME NEW l \in 0..Sectors
      PROVE  UpdGood(next(l))
  <2> DEFINE h == [g EXCEPT !.left = l]
             k == NewSearch(h)
  <2>1. UpdWorks(h) /\ h.cmd = f.cmd
    BY <1>1, UpdLeft
  <2> HIDE DEF h
  <2>2. UpdWorks(k) /\ k.read_id
    BY <2>1, UpdNewSearch
  <2>3. next(l) = [k EXCEPT !.fdc = k.fdc + 1]
    BY DEF h
  <2> HIDE DEF k
  <2>4. UpdGood([k EXCEPT !.fdc = k.fdc + 1])
    BY <2>2, UpdLater
  <2> QED
    BY <2>3, <2>4
<1>5. UpdGood(cmd_result(g)) /\ UpdGood(Transfers(g))
  BY <1>1, UpdOver, UpdTransfers
<1> QED
  BY <1>2, <1>3, <1>4, <1>5

\* A search and what follows it.
LEMMA UpdAfter ==
  ASSUME NEW f, UpdWorks(f), f.read_id, NEW x
  PROVE  /\ x \in After(UpdSearched(f), UpdSectorFound) => UpdGood(x)
         /\ x \in After(UpdSearched(f), IdFound) => UpdGood(x)
<1>1. ASSUME NEW r \in UpdSearched(f)
      PROVE  /\ r.goes => UpdWorks(r.f) /\ r.f.cmd.id \in Searching
             /\ ~r.goes => UpdGood(r.f)
  <2>1. f.cmd.id \in Searching
    BY DEF UpdWorks, UpdBusy
  <2> QED
    BY <2>1, UpdSearches
<1>2. x \in After(UpdSearched(f), UpdSectorFound) =>
        \E r \in UpdSearched(f) : (~r.goes /\ x = r.f) \/ (r.goes /\ x \in UpdSectorFound(r.f))
  BY DEF After
<1>3. x \in After(UpdSearched(f), IdFound) =>
        \E r \in UpdSearched(f) : (~r.goes /\ x = r.f) \/ (r.goes /\ x \in IdFound(r.f))
  BY DEF After
<1> QED
  BY <1>1, <1>2, <1>3, UpdFound

LEMMA UpdAfterNew ==
  ASSUME NEW f, UpdWorks(f), f.cmd.id \in Searching, NEW x
  PROVE  /\ x \in After(UpdSearched(NewSearch(f)), UpdSectorFound) => UpdGood(x)
         /\ x \in After(UpdSearched(NewSearch(f)), IdFound) => UpdGood(x)
<1>1. UpdWorks(NewSearch(f)) /\ NewSearch(f).read_id
  BY UpdNewSearch
<1> QED
  BY <1>1, UpdAfter

LEMMA UpdStartSector ==
  ASSUME NEW f, UpdWorks(f), f.cmd.id \in Searching, NEW x \in start_sector(f)
  PROVE  UpdGood(x)
<1> DEFINE a == [f EXCEPT !.first_rw = FALSE]
           b == [f EXCEPT !.left = f.left - 1]
           c == [f EXCEPT !.left = f.cmd.eot - 2, !.past = TRUE]
<1>0. /\ f.left \in 0..Sectors /\ f.cmd.eot \in 1..Sectors /\ (f.cmd.mt => f.cmd.eot # 1)
      /\ Sectors \in Nat
  BY FddAssumption DEF UpdWorks, UpdFrame, UpdType, UpdBusy, UpdCommand
<1>1. CASE f.read_id
  <2>1. x \in After(UpdSearched(f), UpdSectorFound)
    BY <1>1 DEF start_sector
  <2> QED
    BY <1>1, <2>1, UpdAfter
<1>2. CASE ~f.read_id /\ f.first_rw
  <2>1. x \in After(UpdSearched(NewSearch(a)), UpdSectorFound)
    BY <1>2 DEF start_sector
  <2>2. UpdWorks(a) /\ a.cmd = f.cmd
    BY UpdFirstDone
  <2> QED
    BY <2>1, <2>2, UpdAfterNew
<1>3. CASE ~f.read_id /\ ~f.first_rw /\ f.left > 0
  <2>1. x \in After(UpdSearched(NewSearch(b)), UpdSectorFound)
    BY <1>3 DEF start_sector
  <2>2. f.left - 1 \in 0..Sectors
    BY <1>0, <1>3
  <2>3. UpdWorks(b) /\ b.cmd = f.cmd
    BY <2>2, UpdLeft
  <2> QED
    BY <2>1, <2>3, UpdAfterNew
<1>4. CASE ~f.read_id /\ ~f.first_rw /\ ~(f.left > 0) /\ ~f.cmd.mt
  <2>1. x = cmd_result(f)
    BY <1>4 DEF start_sector
  <2> QED
    BY <1>4, <2>1, UpdOver
<1>5. CASE ~f.read_id /\ ~f.first_rw /\ ~(f.left > 0) /\ f.cmd.mt
  <2>1. f.cmd.eot # 1 /\ f.cmd.eot - 2 \in 0..Sectors
    BY <1>0, <1>5
  <2>2. x \in After(UpdSearched(NewSearch(c)), UpdSectorFound)
    BY <1>5, <2>1 DEF start_sector
  <2>3. UpdWorks(c) /\ c.cmd = f.cmd
    BY <2>1, UpdNextTrack
  <2> QED
    BY <2>2, <2>3, UpdAfterNew
<1> QED
  BY <1>1, <1>2, <1>3, <1>4, <1>5

LEMMA UpdStartSearch ==
  ASSUME NEW f, UpdWorks(f), f.cmd.id \in Searching, NEW x
  PROVE  /\ x \in start_read_id(f) => UpdGood(x)
         /\ x \in start_read_diag(f) => UpdGood(x)
<1>1. CASE f.read_id
  BY <1>1, UpdAfter DEF start_read_id, start_read_diag
<1>2. CASE ~f.read_id
  BY <1>2, UpdAfterNew DEF start_read_id, start_read_diag
<1> QED
  BY <1>1, <1>2

LEMMA UpdAtHole ==
  ASSUME NEW f, UpdWorks(f)
  PROVE  LET e == AtHole(f) IN
         UpdWorks(e) /\ e.read_id = f.read_id /\ e.cmd = f.cmd /\ e.timeout = f.timeout
<1> DEFINE d == Current(f)
           v == fdd_wait_index_hole(d)
<1>1. DriveGood(d)
  BY DEF UpdWorks, UpdFrame, UpdType, Current
<1>2. DriveGood(v) /\ Alike(v, d) /\ Stays(v, d)
  BY <1>1, DriveHole
<1>3. v.selected = d.selected /\ v.loadhead = d.loadhead
  BY <1>1, DriveHeadKept
<1>4. AtHole(f) = [f EXCEPT !.drive[f.cur] = v]
  BY DEF AtHole, Current, UpdWorks, UpdFrame, UpdType
<1> HIDE DEF v
<1> QED
  BY <1>2, <1>3, <1>4, UpdWorksDrive

LEMMA UpdStarts ==
  ASSUME NEW f, UpdWorks(f), NEW x \in UpdStarted(f)
  PROVE  UpdGood(x)
<1>0. f.cmd.id \in Searching \union {"WRITE_ID"} /\ (f.read_id => f.cmd.id \in Searching)
  BY DEF UpdWorks, UpdBusy, Moving
<1>1. CASE f.cmd.id \in {"READ_DATA", "SCAN", "WRITE_DATA"}
  BY <1>1, UpdStartSector DEF UpdStarted, Searching
<1>2. CASE f.cmd.id = "READ_ID"
  <2>1. x \in start_read_id(f) /\ f.cmd.id \in Searching
    BY <1>2 DEF UpdStarted, Searching
  <2> QED
    BY <2>1, UpdStartSearch
<1>3. CASE f.cmd.id = "READ_DIAG"
  <2> DEFINE g == IF f.read_id THEN f ELSE AtHole(f)
  <2>1. x \in start_read_diag(g) /\ f.cmd.id \in Searching
    BY <1>3 DEF UpdStarted, Searching
  <2>2. UpdWorks(g) /\ g.cmd = f.cmd
    BY UpdAtHole
  <2> HIDE DEF g
  <2> QED
    BY <2>1, <2>2, UpdStartSearch
<1>4. CASE f.cmd.id = "WRITE_ID"
  <2> DEFINE g == AtHole(f)
             t == IF g.timeout < 2 THEN g.timeout + 1 ELSE g.timeout
  <2>1. x \in start_write_id(g) /\ ~f.read_id
    BY <1>0, <1>4 DEF UpdStarted, Searching
  <2>2. UpdWorks(g) /\ ~g.read_id
    BY <2>1, UpdAtHole
  <2> HIDE DEF g
  <2>3. t \in 0..2 /\ t > 0
    BY <2>2 DEF UpdWorks, UpdFrame, UpdType
  <2>4. x = [g EXCEPT !.dreq = TRUE, !.offset = 0, !.timeout = t]
    BY <2>1 DEF start_write_id
  <2> HIDE DEF t
  <2> QED
    BY <2>2, <2>3, <2>4, UpdTransfer
<1> QED
  BY <1>0, <1>1, <1>2, <1>3, <1>4 DEF Searching

LEMMA UpdHeadTypes ==
  ASSUME NEW f, f \in UpdType
  PROVE  /\ \A n \in 0..2 : [f EXCEPT !.heads = n] \in UpdType
         /\ [f EXCEPT !.head = TRUE] \in UpdType
BY DEF UpdType

\* The head is down, or an event for it is added.
LEMMA UpdHeadLoad ==
  ASSUME NEW f, UpdFrame(f), UpdSerial(f), f.state = "EXE", f.cmd.id \in Moving,
         f.cmd.mt => f.cmd.eot # 1, f.cmd.id = "WRITE_ID" => Spinning(Current(f)),
         f.cmd.id \in Searching => Ends(Current(f), f.queue = <<>>), ~f.read_id, ~f.dreq, f.timeout = 0, f.fdc = Len(f.queue), NEW x \in head_load(f)
  PROVE  UpdGood(x)
<1> DEFINE g == [f EXCEPT !.heads = 0]
<1>0. f \in UpdType
  BY DEF UpdFrame
<1>1. g \in UpdType
  <2>1. \A n \in 0..2 : [f EXCEPT !.heads = n] \in UpdType
    BY <1>0, UpdHeadTypes
  <2>2. 0 \in 0..2
    OBVIOUS
  <2> QED
    BY <2>1, <2>2
<1>2. /\ g.drive = f.drive /\ g.cur = f.cur /\ g.hung = f.hung /\ g.head = f.head
      /\ g.state = f.state /\ g.cmd = f.cmd /\ g.dreq = f.dreq /\ g.intrq = f.intrq
      /\ g.queue = f.queue /\ g.ended = f.ended /\ g.fdc = f.fdc /\ g.heads = 0
      /\ g.read_id = f.read_id /\ g.timeout = f.timeout
  BY <1>0 DEF UpdType
<1>3. x \in IF g.head THEN UpdStarted(g)
            ELSE {[g EXCEPT !.head = TRUE, !.drive[g.cur] = fdd_head_load(@, TRUE), !.fdc = @ + 1]}
  BY DEF head_load
<1> HIDE DEF g
<1>4. UpdFrame(g)
  BY <1>1, <1>2, UpdFrameKept DEF UpdFrame
<1>5. CASE g.head
  <2>1. UpdWorks(g)
    BY <1>2, <1>4, <1>5 DEF UpdWorks, UpdSerial, UpdBusy, Current
  <2> QED
    BY <1>3, <1>5, <2>1, UpdStarts
<1>6. CASE ~g.head
  <2> DEFINE d == Current(g)
             v == fdd_head_load(d, TRUE)
             h == [g EXCEPT !.drive[g.cur] = v]
             k == [h EXCEPT !.head = TRUE]
  <2>1. DriveGood(d) /\ Fits(d) /\ g.cur \in 0..1 /\ d = g.drive[g.cur]
    BY <1>4 DEF UpdFrame, UpdType, Current
  <2>2. DriveGood(v) /\ Alike(v, d) /\ Stays(v, d) /\ v.selected = d.selected /\ (v.loaded => v.loadhead)
    BY <2>1, DriveHead, DriveHeadDown
  <2>3. x = [k EXCEPT !.fdc = k.fdc + 1]
    BY <1>1, <1>3, <1>6 DEF UpdType, Current
  <2>a. g.cmd.id \in Searching => Ends(v, g.queue = <<>>)
    BY <1>2, <2>2, DriveEnds DEF Current
  <2> HIDE DEF v, d
  <2>b. Fits(v)
    BY <2>1, <2>2 DEF Stays
  <2>4. /\ UpdFrame(h) /\ h.drive = [g.drive EXCEPT ![g.cur] = v]
        /\ h.cur = g.cur /\ h.state = g.state /\ h.cmd = g.cmd /\ h.dreq = g.dreq
        /\ h.intrq = g.intrq /\ h.read_id = g.read_id /\ h.queue = g.queue
        /\ h.ended = g.ended /\ h.fdc = g.fdc /\ h.timeout = g.timeout /\ h.heads = g.heads
    BY <1>4, <2>1, <2>2, <2>b, UpdDriveSet
  <2> HIDE DEF h
  <2>5. Current(h) = v
    BY <1>1, <2>1, <2>4 DEF Current, UpdType
  <2>6. k \in UpdType
    BY <2>4, UpdHeadTypes DEF UpdFrame
  <2>7. /\ k.drive = h.drive /\ k.cur = h.cur /\ k.hung = h.hung /\ k.head
        /\ k.state = h.state /\ k.cmd = h.cmd /\ k.dreq = h.dreq /\ k.intrq = h.intrq
        /\ k.queue = h.queue /\ k.ended = h.ended /\ k.fdc = h.fdc /\ k.heads = h.heads
        /\ k.read_id = h.read_id /\ k.timeout = h.timeout
    BY <2>4 DEF UpdFrame, UpdType
  <2> HIDE DEF k
  <2>8. UpdFrame(k)
    BY <2>2, <2>4, <2>5, <2>6, <2>7 DEF UpdFrame, Current
  <2>9. UpdWorks(k)
    BY <1>2, <2>2, <2>a, <2>4, <2>5, <2>7, <2>8
       DEF UpdWorks, UpdSerial, UpdBusy, Current, Alike, Spinning, d
  <2>10. k.timeout = 0
    BY <1>2, <2>4, <2>7
  <2> QED
    BY <2>3, <2>9, <2>10, UpdLater
<1> QED
  BY <1>5, <1>6

\* A step of a seek: its event is another, or its end is told of.
LEMMA UpdStepOf ==
  ASSUME NEW f, UpdFrame(f), NEW u \in Units, NEW others \in Seq(Units), NEW k \in Nat,
         f.fdc = Len(others) + k
  PROVE  LET e == StepOf(f, u, others) IN
         /\ UpdFrame(e) /\ e.fdc = Len(e.queue) + k
         /\ \/ e.queue = others /\ e.ended = f.ended \union {u} /\ e.intrq = "seek"
            \/ e.queue = Append(others, u) /\ e.ended = f.ended /\ e.intrq = f.intrq
         /\ e.state = f.state /\ e.cmd = f.cmd /\ e.dreq = f.dreq /\ e.head = f.head
         /\ e.read_id = f.read_id /\ e.timeout = f.timeout /\ e.heads = f.heads
         /\ e.offset = f.offset /\ (Spinning(Current(f)) => Spinning(Current(e)))
         /\ Current(e).ready = Current(f).ready
<1> DEFINE c == DriveOf(u)
           d == f.drive[c]
           there == f.togo[u] = 0 \/ (u \in f.recal /\ Tr00(d))
<1>0. /\ f \in UpdType /\ c \in 0..1 /\ f.fdc \in Nat
      /\ f.togo \in [Units -> 0..SeekSteps] /\ f.out \in [Units -> BOOLEAN]
      /\ f.ended \in SUBSET Units /\ f.recal \in SUBSET Units /\ f.cur \in 0..1
      /\ f.drive \in [0..1 -> Drive] /\ DriveGood(d) /\ SeekSteps \in Nat \ {0}
  BY UnitDrive, UpdAssumption DEF UpdFrame, UpdType
<1>1. StepOf(f, u, others) = IF there \/ ~d.ready THEN SeekEnds(f, u, others) ELSE StepSent(f, u, others)
  BY DEF StepOf
<1>2. CASE there \/ ~d.ready
  <2> DEFINE T == [f.togo EXCEPT ![u] = 0]
             O == [f.out EXCEPT ![u] = FALSE]
             E == f.ended \union {u}
             R == f.recal \ {u}
             e == [f EXCEPT !.queue = others, !.ended = E, !.recal = R, !.intrq = "seek",
                            !.togo = T, !.out = O]
  <2>1. StepOf(f, u, others) = e
    BY <1>0, <1>1, <1>2 DEF SeekEnds, UpdType
  <2>2. T \in [Units -> 0..SeekSteps] /\ O \in [Units -> BOOLEAN]
        /\ E \in SUBSET Units /\ R \in SUBSET Units
    BY <1>0
  <2> HIDE DEF T, O, E, R
  <2>3. e \in UpdType
    BY <1>0, <2>2 DEF UpdType
  <2>4. /\ e.drive = f.drive /\ e.cur = f.cur /\ e.hung = f.hung /\ e.head = f.head
        /\ e.state = f.state /\ e.cmd = f.cmd /\ e.dreq = f.dreq /\ e.intrq = "seek"
        /\ e.queue = others /\ e.ended = E /\ e.fdc = f.fdc /\ e.heads = f.heads
        /\ e.read_id = f.read_id /\ e.timeout = f.timeout /\ e.offset = f.offset
    BY <1>0 DEF UpdType
  <2> HIDE DEF e
  <2>5. UpdFrame(e)
    BY <2>3, <2>4, UpdFrameKept DEF UpdFrame
  <2>6. Current(e) = Current(f)
    BY <2>4 DEF Current
  <2> QED
    BY <2>1, <2>4, <2>5, <2>6 DEF E
<1>3. CASE ~(there \/ ~d.ready)
  <2> DEFINE v == fdd_step(d, f.out[u])
             T == [f.togo EXCEPT ![u] = f.togo[u] - 1]
             Q == Append(others, u)
             n == f.fdc + 1
             h == [f EXCEPT !.drive[c] = v]
             e == [h EXCEPT !.togo = T, !.queue = Q, !.fdc = n]
  <2>1. StepOf(f, u, others) = e
    BY <1>0, <1>1, <1>3 DEF StepSent, UpdType
  <2>a. f.togo[u] \in 0..SeekSteps /\ f.togo[u] # 0 /\ f.out[u] \in BOOLEAN
    BY <1>0, <1>3
  <2>b. f.togo[u] - 1 \in 0..SeekSteps
    BY <1>0, <2>a
  <2>2. T \in [Units -> 0..SeekSteps] /\ Q \in Seq(Units) /\ Len(Q) = Len(others) + 1 /\ n \in Nat
    BY <1>0, <2>b
  <2>3. DriveGood(v) /\ Alike(v, d) /\ Fits(v) /\ v.ready = d.ready
    BY <1>0, <2>a, DriveStep
  <2>4. v.selected = d.selected /\ v.loadhead = d.loadhead /\ v.loaded = d.loaded
    BY <1>0, <2>a, DriveHeadKept
  <2>c. f.head /\ c = f.cur /\ v.loaded => v.loadhead
    BY <2>4 DEF UpdFrame, Current
  <2> HIDE DEF v, T, Q, n
  <2>5. /\ UpdFrame(h) /\ h.drive = [f.drive EXCEPT ![c] = v]
        /\ h.cur = f.cur /\ h.state = f.state /\ h.cmd = f.cmd /\ h.dreq = f.dreq
        /\ h.intrq = f.intrq /\ h.head = f.head /\ h.read_id = f.read_id
        /\ h.ended = f.ended /\ h.timeout = f.timeout /\ h.heads = f.heads /\ h.offset = f.offset
    BY <1>0, <2>3, <2>4, <2>c, UpdDriveSet
  <2> HIDE DEF h
  <2>6. h \in UpdType
    BY <2>5 DEF UpdFrame
  <2>7. e \in UpdType
    BY <2>2, <2>6 DEF UpdType
  <2>8. /\ e.drive = h.drive /\ e.cur = h.cur /\ e.hung = h.hung /\ e.head = h.head
        /\ e.state = h.state /\ e.cmd = h.cmd /\ e.dreq = h.dreq /\ e.intrq = h.intrq
        /\ e.queue = Q /\ e.ended = h.ended /\ e.fdc = n /\ e.heads = h.heads
        /\ e.read_id = h.read_id /\ e.timeout = h.timeout /\ e.offset = h.offset
    BY <2>6 DEF UpdType
  <2> HIDE DEF e
  <2>9. UpdFrame(e)
    BY <2>5, <2>7, <2>8, UpdFrameKept DEF UpdFrame
  <2>10. /\ Spinning(Current(f)) => Spinning(Current(e))
         /\ Current(e).ready = Current(f).ready
    <3>1. CASE c = f.cur
      <4>1. e.drive[f.cur] = v
        BY <1>0, <2>5, <2>8, <3>1
      <4>2. Current(e) = v /\ Current(f) = d
        BY <2>5, <2>8, <3>1, <4>1 DEF Current
      <4> QED
        BY <2>3, <4>2 DEF Spinning, Alike
    <3>2. CASE c # f.cur
      BY <1>0, <2>5, <2>8, <3>2 DEF Current
    <3> QED
      BY <3>1, <3>2
  <2>11. e.fdc = Len(e.queue) + k
    <3>1. Len(others) \in Nat /\ e.fdc = n /\ Len(e.queue) = Len(others) + 1
      BY <2>2, <2>8
    <3> QED
      BY <3>1 DEF n
  <2> QED
    BY <2>1, <2>5, <2>8, <2>9, <2>10, <2>11 DEF Q
<1> QED
  BY <1>2, <1>3

LEMMA UpdEventTaken ==
  ASSUME NEW f, UpdGood(f), f.fdc > 0
  PROVE  LET e == [f EXCEPT !.fdc = f.fdc - 1] IN
         /\ UpdFrame(e) /\ e.fdc = f.fdc - 1
         /\ e.state = f.state /\ e.cmd = f.cmd /\ e.dreq = f.dreq /\ e.head = f.head
         /\ e.read_id = f.read_id /\ e.timeout = f.timeout /\ e.heads = f.heads
         /\ e.offset = f.offset /\ e.queue = f.queue /\ e.ended = f.ended /\ e.intrq = f.intrq
         /\ Current(e) = Current(f)
<1> DEFINE e == [f EXCEPT !.fdc = f.fdc - 1]
<1>1. f \in UpdType /\ f.fdc - 1 \in Nat
  BY DEF UpdGood, UpdFrame, UpdType
<1>2. e \in UpdType
  BY <1>1 DEF UpdType
<1>3. /\ e.drive = f.drive /\ e.cur = f.cur /\ e.hung = f.hung /\ e.head = f.head
      /\ e.state = f.state /\ e.cmd = f.cmd /\ e.dreq = f.dreq /\ e.intrq = f.intrq
      /\ e.queue = f.queue /\ e.ended = f.ended /\ e.fdc = f.fdc - 1 /\ e.heads = f.heads
      /\ e.read_id = f.read_id /\ e.timeout = f.timeout /\ e.offset = f.offset
  BY <1>1 DEF UpdType
<1> HIDE DEF e
<1>4. UpdFrame(e)
  BY <1>2, <1>3, UpdFrameKept DEF UpdGood, UpdFrame
<1> QED
  BY <1>3, <1>4 DEF e, Current

\* The event of a seek moves the seek whose turn it is, and no command.
LEMMA UpdSeekMoves ==
  ASSUME NEW f, UpdGood(f), f.fdc > 0, f.queue # <<>>
  PROVE  UpdGood(seek_step([f EXCEPT !.fdc = f.fdc - 1]))
<1> DEFINE g == [f EXCEPT !.fdc = f.fdc - 1]
           u == Head(f.queue)
           others == Tail(f.queue)
           k == IF UpdWaits(f) THEN 1 ELSE 0
           e == StepOf(g, u, others)
<1>1. /\ UpdFrame(g) /\ g.fdc = f.fdc - 1
      /\ g.state = f.state /\ g.cmd = f.cmd /\ g.dreq = f.dreq /\ g.head = f.head
      /\ g.read_id = f.read_id /\ g.timeout = f.timeout /\ g.heads = f.heads
      /\ g.offset = f.offset /\ g.queue = f.queue /\ g.ended = f.ended /\ g.intrq = f.intrq
      /\ Current(g) = Current(f)
  BY UpdEventTaken
<1>2. f.queue \in Seq(Units) /\ f.fdc \in Nat
  BY DEF UpdGood, UpdFrame, UpdType
<1>3. u \in Units /\ others \in Seq(Units) /\ Len(others) = Len(f.queue) - 1 /\ Len(others) \in Nat
      /\ Len(Append(others, u)) = Len(f.queue)
  BY <1>2
<1>4. k \in Nat /\ f.fdc = Len(f.queue) + k
  <2>1. Len(f.queue) \in Nat
    BY <1>2
  <2>2. CASE UpdWaits(f)
    BY <2>1, <2>2 DEF UpdWaits
  <2>3. CASE ~UpdWaits(f)
    <3>1. f.fdc = Len(f.queue)
      BY <2>3 DEF UpdGood, UpdIdle, UpdServes
    <3> QED
      BY <2>1, <2>3, <3>1
  <2> QED
    BY <2>2, <2>3
<1>5. seek_step(g) = e
  BY <1>1 DEF seek_step
<1> HIDE DEF g, u, others, k
<1>6. g.fdc = Len(others) + k
  BY <1>1, <1>2, <1>3, <1>4
<1>7. /\ UpdFrame(e) /\ e.fdc = Len(e.queue) + k
      /\ \/ e.queue = others /\ e.ended = g.ended \union {u} /\ e.intrq = "seek"
         \/ e.queue = Append(others, u) /\ e.ended = g.ended /\ e.intrq = g.intrq
      /\ e.state = g.state /\ e.cmd = g.cmd /\ e.dreq = g.dreq /\ e.head = g.head
      /\ e.read_id = g.read_id /\ e.timeout = g.timeout /\ e.heads = g.heads
      /\ e.offset = g.offset /\ (Spinning(Current(g)) => Spinning(Current(e)))
      /\ Current(e).ready = Current(g).ready
  BY <1>1, <1>3, <1>4, <1>6, UpdStepOf
<1> HIDE DEF e
<1>8. UpdSerial(e)
  <2>1. SUFFICES ASSUME guest.serial PROVE UpdSerial(e)
    BY DEF UpdSerial
  <2>2. Len(f.queue) = 1 /\ f.ended = {} /\ f.state # "EXE"
    BY <2>1 DEF UpdGood, UpdSerial
  <2>3. others = <<>>
    BY <1>3, <2>2
  <2>4. Append(others, u) # <<>> /\ Len(Append(others, u)) = 1
    BY <1>3, <2>2
  <2> QED
    BY <1>1, <1>3, <1>7, <2>2, <2>3, <2>4 DEF UpdSerial
<1>9. UpdIdle(e) \/ UpdWaits(e) \/ UpdServes(e)
  <2>1. UpdBusy(f) => UpdBusy(e)
    BY <1>1, <1>7 DEF UpdBusy, Ends
  <2>2. CASE UpdWaits(f)
    BY <1>1, <1>7, <2>1, <2>2 DEF UpdWaits, k
  <2>3. CASE ~UpdWaits(f) /\ UpdIdle(f)
    <3>1. e.fdc = Len(e.queue)
      BY <1>7, <2>3, <1>4 DEF UpdIdle, k, UpdFrame, UpdType
    <3> QED
      BY <1>1, <1>7, <2>3, <3>1 DEF UpdIdle
  <2>4. CASE ~UpdWaits(f) /\ UpdServes(f)
    <3>1. e.fdc = Len(e.queue)
      BY <1>7, <2>4, <1>4 DEF UpdServes, k, UpdFrame, UpdType
    <3> QED
      BY <1>1, <1>7, <2>1, <2>4, <3>1 DEF UpdServes
  <2> QED
    BY <2>2, <2>3, <2>4 DEF UpdGood
<1> QED
  BY <1>5, <1>7, <1>8, <1>9 DEF UpdGood, g

LEMMA UpdFdcComes ==
  ASSUME FirstUnits, UpdGood(upd), UpdFdcEvent
  PROVE  UpdGood(upd')
<1> DEFINE f == [upd EXCEPT !.fdc = upd.fdc - 1]
           first == \E i \in DOMAIN f.queue : f.queue[i] \in {0, 1}
<1>1. /\ upd.fdc > 0
      /\ upd' \in IF f.read_id THEN UpdStarted(f)
                  ELSE IF first THEN {seek_step(f)} ELSE UpdStarted(f)
  BY DEF UpdFdcEvent
<1>2. /\ UpdFrame(f) /\ f.fdc = upd.fdc - 1
      /\ f.state = upd.state /\ f.cmd = upd.cmd /\ f.dreq = upd.dreq /\ f.head = upd.head
      /\ f.read_id = upd.read_id /\ f.timeout = upd.timeout /\ f.heads = upd.heads
      /\ f.queue = upd.queue /\ f.ended = upd.ended /\ f.intrq = upd.intrq
      /\ Current(f) = Current(upd)
  BY <1>1, UpdEventTaken
<1>3. upd.queue \in Seq(Units) /\ upd.fdc \in Nat
  BY DEF UpdGood, UpdFrame, UpdType
<1>4. first <=> upd.queue # <<>>
  <2>1. CASE upd.queue # <<>>
    <3>1. 1 \in DOMAIN upd.queue /\ upd.queue[1] \in Units
      BY <1>3, <2>1
    <3> QED
      BY <1>2, <2>1, <3>1 DEF FirstUnits
  <2>2. CASE upd.queue = <<>>
    <3>1. DOMAIN upd.queue = {}
      BY <2>2
    <3> QED
      BY <1>2, <2>2, <3>1
  <2> QED
    BY <2>1, <2>2
<1>5. ASSUME UpdWaits(upd)
      PROVE  UpdWorks(f)
  <2>1. UpdSerial(f) /\ UpdBusy(f)
    BY <1>2, <1>5 DEF UpdGood, UpdSerial, UpdWaits, UpdBusy
  <2>2. f.fdc = Len(f.queue)
    BY <1>2, <1>3, <1>5 DEF UpdWaits
  <2> QED
    BY <1>2, <1>5, <2>1, <2>2 DEF UpdWorks, UpdWaits
<1> HIDE DEF f, first
<1>6. CASE upd.queue # <<>> /\ ~f.read_id
  BY <1>1, <1>4, <1>6, UpdSeekMoves DEF f
<1>7. CASE upd.queue = <<>> \/ f.read_id
  <2>1. upd' \in UpdStarted(f)
    BY <1>1, <1>4, <1>7
  <2>2. UpdWaits(upd)
    <3>1. upd.queue = <<>> => Len(upd.queue) = 0
      OBVIOUS
    <3> QED
      BY <1>1, <1>2, <1>3, <1>7, <3>1 DEF UpdGood, UpdIdle, UpdServes
  <2> QED
    BY <1>5, <2>1, <2>2, UpdStarts
<1> QED
  BY <1>6, <1>7

LEMMA UpdSelects ==
  ASSUME NEW f, UpdFrame(f), NEW u \in Units
  PROVE  LET e == Select(f, u) IN
         /\ UpdFrame(e)
         /\ e.state = f.state /\ e.cmd = f.cmd /\ e.dreq = f.dreq /\ e.intrq = f.intrq
         /\ e.read_id = f.read_id /\ e.queue = f.queue /\ e.ended = f.ended /\ e.fdc = f.fdc
         /\ e.timeout = f.timeout
         /\ Alike(Current(e), f.drive[DriveOf(u)]) /\ Stays(Current(e), f.drive[DriveOf(u)])
<1> DEFINE d == DriveOf(u)
           a == fdd_select(f.drive[f.cur], FALSE)
           b == fdd_select(f.drive[d], TRUE)
           D == [f.drive EXCEPT ![f.cur] = a, ![d] = b]
           e == [f EXCEPT !.drive = D, !.cur = d]
<1>0. f \in UpdType /\ f.cur \in 0..1 /\ d \in 0..1 /\ f.drive \in [0..1 -> Drive]
  BY UnitDrive DEF UpdFrame, UpdType
<1>1. CASE d = f.cur
  BY <1>1 DEF Select, Current, Alike, Stays
<1>2. CASE d # f.cur
  <2>1. Select(f, u) = e
    BY <1>0, <1>2 DEF Select, UpdType
  <2>2. /\ DriveGood(a) /\ ~a.selected /\ DriveGood(b) /\ b.selected /\ (b.loaded => b.loadhead)
        /\ Alike(b, f.drive[d]) /\ Stays(b, f.drive[d]) /\ Fits(a) /\ Fits(b)
    <3>1. /\ DriveGood(f.drive[f.cur]) /\ DriveGood(f.drive[d])
          /\ Fits(f.drive[f.cur]) /\ Fits(f.drive[d])
      BY <1>0 DEF UpdFrame
    <3>2. DriveGood(a) /\ a.selected = FALSE /\ Stays(a, f.drive[f.cur])
      BY <3>1, DriveHead, DriveHeadDown
    <3>3. DriveGood(b) /\ b.selected = TRUE /\ Alike(b, f.drive[d]) /\ Stays(b, f.drive[d]) /\ (b.loaded => b.loadhead)
      BY <3>1, DriveHead, DriveHeadDown
    <3> QED
      BY <3>1, <3>2, <3>3 DEF Stays
  <2> HIDE DEF a, b
  <2>3. D \in [0..1 -> Drive] /\ D[d] = b /\ D[f.cur] = a
    BY <1>0, <1>2, <2>2 DEF DriveGood
  <2>4. \A o \in 0..1 : o = d \/ o = f.cur
    BY <1>0, <1>2
  <2>5. \A o \in 0..1 : DriveGood(D[o]) /\ Fits(D[o]) /\ (D[o].selected <=> o = d)
    BY <1>2, <2>2, <2>3, <2>4
  <2> HIDE DEF D, d
  <2>6. e \in UpdType
    BY <1>0, <2>3 DEF UpdType
  <2>7. /\ e.drive = D /\ e.cur = d /\ e.hung = f.hung /\ e.head = f.head
        /\ e.state = f.state /\ e.cmd = f.cmd /\ e.dreq = f.dreq /\ e.intrq = f.intrq
        /\ e.queue = f.queue /\ e.ended = f.ended /\ e.fdc = f.fdc
        /\ e.read_id = f.read_id /\ e.timeout = f.timeout
    BY <1>0 DEF UpdType
  <2> HIDE DEF e
  <2>8. UpdFrame(e) /\ Current(e) = b
    BY <2>2, <2>3, <2>5, <2>6, <2>7 DEF UpdFrame, Current
  <2> QED
    BY <2>1, <2>2, <2>7, <2>8 DEF d
<1> QED
  BY <1>1, <1>2

\* A command that has been given: nothing of it is under way.
UpdGiven(f) ==
  /\ UpdFrame(f) /\ f.fdc = Len(f.queue) /\ ~f.dreq /\ ~f.read_id /\ f.timeout = 0
  /\ f.state = "EXE"
  /\ guest.serial =>
       /\ f.cmd.id # "SENSE_INT" => f.queue = <<>> /\ f.ended = {}
       /\ f.queue # <<>> => Len(f.queue) = 1 /\ f.ended = {}
       /\ f.ended # {} => f.intrq = "seek" /\ \E u \in Units : f.ended = {u}

LEMMA UpdGivenEnds ==
  ASSUME NEW f, UpdGiven(f), f.cmd.id # "SENSE_INT"
  PROVE  UpdGood(cmd_result(f))
BY UpdResult DEF UpdGiven, UpdSerialEnd

LEMMA UpdSenses ==
  ASSUME NEW f, UpdGiven(f), f.cmd.id = "SENSE_INT"
  PROVE  UpdGood(cmd_result(SenseInterrupt(f)))
<1> DEFINE c == CHOOSE u \in f.ended : \A w \in f.ended : u <= w
           E == f.ended \ {c}
           g == [f EXCEPT !.ended = E]
           e == SenseInterrupt(f)
<1>0. f \in UpdType /\ f.ended \in SUBSET Units
  BY DEF UpdGiven, UpdFrame, UpdType
<1>1. CASE f.intrq = "none" \/ f.ended = {}
  <2>1. SenseInterrupt(f) = f
    BY <1>1 DEF SenseInterrupt
  <2>2. UpdSerialEnd(f)
    BY <1>1 DEF UpdGiven, UpdSerialEnd
  <2> QED
    BY <2>1, <2>2, UpdResult DEF UpdGiven
<1>2. CASE ~(f.intrq = "none" \/ f.ended = {})
  <2>1. SenseInterrupt(f) = g
    BY <1>2 DEF SenseInterrupt
  <2>2. guest.serial => E = {} /\ (f.queue = <<>>)
    <3>1. SUFFICES ASSUME guest.serial PROVE E = {} /\ f.queue = <<>>
      OBVIOUS
    <3>2. PICK u \in Units : f.ended = {u}
      BY <1>2, <3>1 DEF UpdGiven
    <3>3. u <= u
      BY <3>2, UpdAssumption
    <3>4. c = u
      BY <3>2, <3>3
    <3> QED
      BY <1>2, <3>1, <3>2, <3>4 DEF UpdGiven
  <2> HIDE DEF c
  <2>3. E \in SUBSET Units
    BY <1>0
  <2> HIDE DEF E
  <2>4. g \in UpdType
    BY <1>0, <2>3 DEF UpdType
  <2>5. /\ g.drive = f.drive /\ g.cur = f.cur /\ g.hung = f.hung /\ g.head = f.head
        /\ g.queue = f.queue /\ g.ended = E /\ g.fdc = f.fdc /\ g.read_id = f.read_id
    BY <1>0 DEF UpdType
  <2> HIDE DEF g
  <2>6. UpdFrame(g)
    BY <2>4, <2>5, UpdFrameKept DEF UpdGiven, UpdFrame
  <2>7. UpdSerialEnd(g)
    BY <2>2, <2>5 DEF UpdSerialEnd
  <2>8. g.fdc = Len(g.queue) /\ ~g.read_id
    BY <2>5 DEF UpdGiven
  <2> QED
    BY <2>1, <2>6, <2>7, <2>8, UpdResult
<1> QED
  BY <1>1, <1>2

LEMMA UpdSeekGiven ==
  ASSUME NEW f, UpdGiven(f), f.cmd.id \in Seeking, NEW u \in Units, NEW recal \in BOOLEAN,
         NEW n \in 0..SeekSteps, NEW out \in BOOLEAN
  PROVE  UpdGood(cmd_result(SeekStarted(f, u, recal, n, out)))
<1>1. CASE \E i \in DOMAIN f.queue : f.queue[i] = u
  <2>1. SeekStarted(f, u, recal, n, out) = f /\ f.cmd.id # "SENSE_INT"
    BY <1>1 DEF SeekStarted, Seeking
  <2> QED
    BY <2>1, UpdGivenEnds
<1>2. CASE ~\E i \in DOMAIN f.queue : f.queue[i] = u
  <2> DEFINE T == [f.togo EXCEPT ![u] = n]
             O == [f.out EXCEPT ![u] = out]
             E == f.ended \ {u}
             R == IF recal THEN f.recal \union {u} ELSE f.recal \ {u}
             g == [f EXCEPT !.togo = T, !.out = O, !.ended = E, !.recal = R]
             e == StepOf(g, u, g.queue)
  <2>0. /\ f \in UpdType /\ f.togo \in [Units -> 0..SeekSteps] /\ f.out \in [Units -> BOOLEAN]
        /\ f.ended \in SUBSET Units /\ f.recal \in SUBSET Units /\ f.queue \in Seq(Units)
        /\ f.fdc \in Nat
    BY DEF UpdGiven, UpdFrame, UpdType
  <2>1. SeekStarted(f, u, recal, n, out) = e
    BY <1>2, <2>0 DEF SeekStarted, seek_start, UpdType
  <2>2. T \in [Units -> 0..SeekSteps] /\ O \in [Units -> BOOLEAN]
        /\ E \in SUBSET Units /\ R \in SUBSET Units
    BY <2>0
  <2>a. E \subseteq f.ended
    OBVIOUS
  <2> HIDE DEF T, O, E, R
  <2>3. g \in UpdType
    BY <2>0, <2>2 DEF UpdType
  <2>4. /\ g.drive = f.drive /\ g.cur = f.cur /\ g.hung = f.hung /\ g.head = f.head
        /\ g.state = f.state /\ g.cmd = f.cmd /\ g.dreq = f.dreq /\ g.intrq = f.intrq
        /\ g.queue = f.queue /\ g.ended = E /\ g.fdc = f.fdc /\ g.read_id = f.read_id
    BY <2>0 DEF UpdType
  <2> HIDE DEF g
  <2>5. UpdFrame(g)
    BY <2>3, <2>4, UpdFrameKept DEF UpdGiven, UpdFrame
  <2>6. Len(g.queue) \in Nat /\ g.queue \in Seq(Units) /\ 0 \in Nat /\ g.fdc = Len(g.queue) + 0
    BY <2>0, <2>4 DEF UpdGiven
  <2>7. /\ UpdFrame(e) /\ e.fdc = Len(e.queue) + 0
        /\ \/ e.queue = g.queue /\ e.ended = g.ended \union {u} /\ e.intrq = "seek"
           \/ e.queue = Append(g.queue, u) /\ e.ended = g.ended /\ e.intrq = g.intrq
        /\ e.cmd = g.cmd /\ e.read_id = g.read_id
    BY <2>5, <2>6, UpdStepOf
  <2> HIDE DEF e
  <2>8. e.fdc = Len(e.queue) /\ ~e.read_id
    <3>1. e.queue \in Seq(Units)
      BY <2>7 DEF UpdFrame, UpdType
    <3>2. Len(e.queue) \in Nat
      BY <3>1
    <3> QED
      BY <2>4, <2>7, <3>2 DEF UpdGiven
  <2>9. UpdSerialEnd(e)
    <3>1. SUFFICES ASSUME guest.serial PROVE UpdSerialEnd(e)
      BY DEF UpdSerialEnd
    <3>2. f.queue = <<>> /\ f.ended = {}
      BY <3>1 DEF UpdGiven, Seeking
    <3>3. Len(Append(<<>>, u)) = 1 /\ g.ended = {} /\ g.queue = <<>>
      BY <2>4, <2>a, <3>2
    <3>4. ~HasResult(e.cmd)
      BY <2>4, <2>7 DEF HasResult
    <3> QED
      BY <2>7, <3>3, <3>4 DEF UpdSerialEnd
  <2> QED
    BY <2>1, <2>7, <2>8, <2>9, UpdResult
<1> QED
  BY <1>1, <1>2

LEMMA UpdExecutes ==
  ASSUME NEW f, UpdGiven(f), NEW u \in Units, f.cmd.mt => f.cmd.eot # 1,
         f.cmd.id = "WRITE_ID" => Spinning(f.drive[DriveOf(u)]),
         f.cmd.id \in Searching => Ends(f.drive[DriveOf(u)], f.queue = <<>>), NEW x \in Executed(f, u)
  PROVE  UpdGood(x)
<1> DEFINE s == Select(f, u)
           rw == f.cmd.id \in {"READ_DATA", "SCAN", "WRITE_DATA"}
           g == [s EXCEPT !.first_rw = rw]
<1>0. f.cmd \in UpdCommand /\ rw \in BOOLEAN
  BY DEF UpdGiven, UpdFrame, UpdType
<1>1. /\ UpdFrame(s)
      /\ s.state = f.state /\ s.cmd = f.cmd /\ s.dreq = f.dreq /\ s.intrq = f.intrq
      /\ s.read_id = f.read_id /\ s.queue = f.queue /\ s.ended = f.ended /\ s.fdc = f.fdc
      /\ s.timeout = f.timeout
      /\ Alike(Current(s), f.drive[DriveOf(u)]) /\ Stays(Current(s), f.drive[DriveOf(u)])
  BY UpdSelects DEF UpdGiven
<1>2. CASE f.cmd.id \in {"SPECIFY", "VERSION"}
  <2>1. Executed(f, u) = {cmd_result(f)} /\ f.cmd.id # "SENSE_INT"
    <3>1. CASE f.cmd.id = "SPECIFY"
      BY <3>1 DEF Executed
    <3>2. CASE f.cmd.id = "VERSION"
      BY <3>2 DEF Executed
    <3> QED
      BY <1>2, <3>1, <3>2
  <2> QED
    BY <2>1, UpdGivenEnds
<1>3. CASE f.cmd.id = "SENSE_INT"
  <2>1. x = cmd_result(SenseInterrupt(f))
    BY <1>3 DEF Executed
  <2> QED
    BY <1>3, <2>1, UpdSenses
<1> HIDE DEF s
<1>4. UpdGiven(s)
  BY <1>1 DEF UpdGiven
<1>5. CASE f.cmd.id = "SENSE_DRIVE"
  <2>1. x = cmd_result(s) /\ s.cmd.id # "SENSE_INT"
    BY <1>1, <1>5 DEF Executed, s
  <2> QED
    BY <1>4, <2>1, UpdGivenEnds
<1>6. CASE f.cmd.id = "RECALIBRATE"
  <2>1. x = cmd_result(SeekStarted(s, u, TRUE, SeekSteps, TRUE)) /\ s.cmd.id \in Seeking
    BY <1>1, <1>6 DEF Executed, s, Seeking
  <2>2. \A a, b \in BOOLEAN, n \in 0..SeekSteps : UpdGood(cmd_result(SeekStarted(s, u, a, n, b)))
    BY <1>4, <2>1, UpdSeekGiven
  <2>3. SeekSteps \in 0..SeekSteps
    BY UpdAssumption
  <2>4. UpdGood(cmd_result(SeekStarted(s, u, TRUE, SeekSteps, TRUE)))
    BY <2>2, <2>3, TRUE \in BOOLEAN, Zenon
  <2> QED
    BY <2>1, <2>4
<1>7. CASE f.cmd.id = "SEEK"
  <2>1. s.cmd.id \in Seeking
    BY <1>1, <1>7 DEF Seeking
  <2>a. Executed(f, u) =
          UNION {{cmd_result(SeekStarted(s, u, FALSE, n, out)) : n \in 0..SeekSteps} : out \in BOOLEAN}
    BY <1>7 DEF Executed, s
  <2>b. PICK out \in BOOLEAN : x \in {cmd_result(SeekStarted(s, u, FALSE, n, out)) : n \in 0..SeekSteps}
    BY <2>a
  <2>2. PICK n \in 0..SeekSteps : x = cmd_result(SeekStarted(s, u, FALSE, n, out))
    BY <2>b
  <2>3. \A a \in BOOLEAN : UpdGood(cmd_result(SeekStarted(s, u, a, n, out)))
    BY <1>4, <2>1, UpdSeekGiven
  <2>4. UpdGood(cmd_result(SeekStarted(s, u, FALSE, n, out)))
    BY <2>3, FALSE \in BOOLEAN, Zenon
  <2> QED
    BY <2>2, <2>4
<1>8. CASE f.cmd.id \in Moving
  <2>1. f.cmd.id # "SENSE_INT" /\ f.cmd.id \notin Seeking \union Plain
    BY <1>8 DEF Moving, Searching, Seeking, Plain
  <2>2. x = cmd_result(s) \/ x \in head_load(g)
    <3>1. CASE f.cmd.id \in {"WRITE_DATA", "WRITE_ID"} /\ Current(s).wrprot
      <4>1. CASE f.cmd.id = "WRITE_DATA"
        BY <3>1, <4>1 DEF Executed, s
      <4>2. CASE f.cmd.id = "WRITE_ID"
        BY <3>1, <4>2 DEF Executed, s
      <4> QED
        BY <3>1, <4>1, <4>2
    <3>2. CASE ~(f.cmd.id \in {"WRITE_DATA", "WRITE_ID"} /\ Current(s).wrprot)
      <4>1. Executed(f, u) = head_load(g)
        BY <2>1, <3>2 DEF Executed, s, Seeking, Plain
      <4> QED
        BY <4>1
    <3> QED
      BY <3>1, <3>2
  <2>3. UpdGood(cmd_result(s))
    BY <1>1, <1>4, <2>1, UpdGivenEnds
  <2>4. x \in head_load(g) => UpdGood(x)
    <3>1. s \in UpdType
      BY <1>1 DEF UpdFrame
    <3> HIDE DEF rw
    <3>2. g \in UpdType
      BY <1>0, <3>1 DEF UpdType
    <3>3. /\ g.drive = s.drive /\ g.cur = s.cur /\ g.hung = s.hung /\ g.head = s.head
          /\ g.state = s.state /\ g.cmd = s.cmd /\ g.dreq = s.dreq /\ g.intrq = s.intrq
          /\ g.queue = s.queue /\ g.ended = s.ended /\ g.fdc = s.fdc
          /\ g.read_id = s.read_id /\ g.timeout = s.timeout
      BY <3>1 DEF UpdType
    <3> HIDE DEF g
    <3>4. UpdFrame(g)
      BY <1>1, <3>2, <3>3, UpdFrameKept DEF UpdFrame
    <3>5. UpdSerial(g)
      BY <1>1, <1>4, <2>1, <3>3 DEF UpdGiven, UpdSerial
    <3>6. /\ g.state = "EXE" /\ g.cmd.id \in Moving /\ (g.cmd.mt => g.cmd.eot # 1)
          /\ ~g.read_id /\ ~g.dreq /\ g.timeout = 0 /\ g.fdc = Len(g.queue)
      BY <1>1, <1>4, <1>8, <3>3 DEF UpdGiven
    <3>7. g.cmd.id = "WRITE_ID" => Spinning(Current(g))
      BY <1>1, <3>3 DEF Current, Alike, Spinning
    <3>8. g.cmd.id \in Searching => Ends(Current(g), g.queue = <<>>)
      BY <1>1, <3>3, DriveEnds DEF Current
    <3> QED
      BY <3>4, <3>5, <3>6, <3>7, <3>8, UpdHeadLoad
  <2> QED
    BY <2>2, <2>3, <2>4
<1> QED
  BY <1>0, <1>2, <1>3, <1>5, <1>6, <1>7, <1>8 DEF UpdCommand, Seeking, Plain

LEMMA UpdWriteGiven ==
  ASSUME UpdLiberties = {}, guest \in UpdGuests, UpdGood(upd), NEW c \in guest.commands,
         NEW u \in Units, NEW left \in 0..Sectors - 1, UpdWriteCommand(c, u, left)
  PROVE  UpdGood(upd')
<1> DEFINE f == [upd EXCEPT !.state = "EXE", !.cmd = c, !.left = left]
<1>0. upd \in UpdType /\ c \in UpdCommand /\ left \in 0..Sectors
  BY UpdGuestAssumption, FddAssumption DEF UpdGood, UpdFrame
<1>1. /\ upd.state = "CMD" /\ upd' \in Executed(f, u)
      /\ guest.serial /\ (upd.queue # <<>> \/ upd.ended # {}) => c.id = "SENSE_INT"
      /\ c.mt => c.eot # 1
      /\ c.id = "WRITE_ID" => Spinning(upd.drive[DriveOf(u)])
      /\ c.id \in Searching => SearchEnds(upd.drive[DriveOf(u)])
  BY DEF UpdWriteCommand
<1>a. DriveGood(upd.drive[DriveOf(u)]) /\ Fits(upd.drive[DriveOf(u)])
  BY UnitDrive DEF UpdGood, UpdFrame
<1>b. c.id \in Searching => Ends(upd.drive[DriveOf(u)], upd.queue = <<>>)
  BY <1>1, <1>a DEF SearchEnds, Ends, Fits, DriveGood, ReadySettles
<1>2. UpdIdle(upd)
  BY <1>1 DEF UpdGood, UpdWaits, UpdServes, UpdBusy
<1>3. f \in UpdType
  BY <1>0 DEF UpdType
<1>4. /\ f.drive = upd.drive /\ f.cur = upd.cur /\ f.hung = upd.hung /\ f.head = upd.head
      /\ f.state = "EXE" /\ f.cmd = c /\ f.dreq = upd.dreq /\ f.intrq = upd.intrq
      /\ f.queue = upd.queue /\ f.ended = upd.ended /\ f.fdc = upd.fdc
      /\ f.read_id = upd.read_id /\ f.timeout = upd.timeout
  BY <1>0 DEF UpdType
<1> HIDE DEF f
<1>5. UpdFrame(f)
  BY <1>3, <1>4, UpdFrameKept DEF UpdGood, UpdFrame
<1>6. UpdGiven(f)
  BY <1>1, <1>2, <1>4, <1>5 DEF UpdGood, UpdIdle, UpdSerial, UpdGiven
<1> QED
  BY <1>1, <1>4, <1>6, <1>b, UpdExecutes

\* A byte of a transfer passes.
LEMMA UpdBytes ==
  ASSUME NEW f, UpdGood(f), f.dreq
  PROVE  /\ UpdFrame(f) /\ UpdSerial(f) /\ UpdServes(f) /\ f.offset + 1 \in 0..Bytes
         /\ LET e == [f EXCEPT !.offset = f.offset + 1] IN
            /\ UpdFrame(e) /\ UpdSerial(e) /\ UpdBusy(e) /\ e.dreq /\ ~e.read_id
            /\ e.fdc = Len(e.queue) /\ e.timeout > 0 /\ e.offset = f.offset + 1
            /\ e.cmd = f.cmd /\ e.left = f.left /\ e.state = "EXE"
<1> DEFINE e == [f EXCEPT !.offset = f.offset + 1]
<1>1. UpdFrame(f) /\ UpdSerial(f) /\ UpdServes(f)
  BY DEF UpdGood, UpdIdle, UpdWaits
<1>2. f \in UpdType /\ f.offset \in 0..Bytes /\ f.offset < Bytes
  BY <1>1 DEF UpdFrame, UpdServes, UpdType
<1>3. f.offset + 1 \in 0..Bytes
  BY <1>2, FddAssumption
<1>4. e \in UpdType
  BY <1>2, <1>3 DEF UpdType
<1>5. /\ e.drive = f.drive /\ e.cur = f.cur /\ e.hung = f.hung /\ e.head = f.head
      /\ e.state = f.state /\ e.cmd = f.cmd /\ e.dreq = f.dreq /\ e.intrq = f.intrq
      /\ e.queue = f.queue /\ e.ended = f.ended /\ e.fdc = f.fdc /\ e.heads = f.heads
      /\ e.read_id = f.read_id /\ e.timeout = f.timeout /\ e.offset = f.offset + 1
      /\ e.left = f.left
  BY <1>2 DEF UpdType
<1> HIDE DEF e
<1>6. UpdFrame(e)
  BY <1>1, <1>4, <1>5, UpdFrameKept DEF UpdFrame
<1>7. UpdSerial(e) /\ UpdBusy(e)
  BY <1>1, <1>5 DEF UpdSerial, UpdServes, UpdBusy, Current
<1>8. e.state = "EXE"
  BY <1>7 DEF UpdBusy
<1> QED
  BY <1>1, <1>3, <1>5, <1>6, <1>7, <1>8 DEF UpdServes, e

\* The sector is through.
LEMMA UpdSectorThrough ==
  ASSUME NEW f, UpdFrame(f), UpdSerial(f), UpdBusy(f), ~f.read_id, f.fdc = Len(f.queue)
  PROVE  LET e == NextSector(f) IN
         UpdWorks(e) /\ e.cmd = f.cmd /\ ~e.read_id /\ e.left = f.left
<1> DEFINE k(o) == [f EXCEPT !.dreq = FALSE, !.offset = o]
           e == k(0)
<1>0. f \in UpdType /\ 0 \in 0..Bytes
  BY FddAssumption DEF UpdFrame
<1>1. \A o \in 0..Bytes : k(o) \in UpdType
  BY <1>0 DEF UpdType
<1>2. e \in UpdType
  BY <1>0, <1>1
<1>3. /\ e.drive = f.drive /\ e.cur = f.cur /\ e.hung = f.hung /\ e.head = f.head
      /\ e.state = f.state /\ e.cmd = f.cmd /\ ~e.dreq /\ e.intrq = f.intrq
      /\ e.queue = f.queue /\ e.ended = f.ended /\ e.fdc = f.fdc /\ e.heads = f.heads
      /\ e.read_id = f.read_id /\ e.left = f.left
  BY <1>0 DEF UpdType
<1> HIDE DEF e
<1>4. UpdFrame(e)
  BY <1>2, <1>3, UpdFrameKept DEF UpdFrame
<1>5. UpdSerial(e) /\ UpdBusy(e)
  BY <1>3 DEF UpdSerial, UpdBusy, Current
<1>6. NextSector(f) = e
  BY DEF NextSector, e
<1> QED
  BY <1>3, <1>4, <1>5, <1>6 DEF UpdWorks

LEMMA UpdServed ==
  ASSUME NEW f, UpdFrame(f), UpdSerial(f), UpdBusy(f), f.dreq, ~f.read_id,
         f.fdc = Len(f.queue), f.timeout > 0, f.offset < Bytes
  PROVE  UpdGood(f)
BY DEF UpdGood, UpdServes

LEMMA UpdRead ==
  ASSUME UpdGood(upd), ReadByte
  PROVE  UpdGood(upd')
<1> DEFINE f == [upd EXCEPT !.offset = upd.offset + 1]
           n == NextSector(f)
           d == [n EXCEPT !.left = n.left - 1]
<1>1. /\ upd.dreq
      /\ \/ f.offset < Bytes /\ upd' = f
         \/ upd' = cmd_result(f)
         \/ f.cmd.id = "READ_DATA" /\ upd' \in start_sector(n)
         \/ f.cmd.id = "READ_DIAG" /\ f.left # 0 /\ upd' \in start_read_diag(d)
  BY DEF ReadByte, UpdGood, UpdFrame, UpdType
<1>2. /\ UpdFrame(f) /\ UpdSerial(f) /\ UpdBusy(f) /\ f.dreq /\ ~f.read_id
      /\ f.fdc = Len(f.queue) /\ f.timeout > 0 /\ f.state = "EXE"
  BY <1>1, UpdBytes
<1> HIDE DEF f
<1>3. UpdWorks(n) /\ n.cmd = f.cmd /\ ~n.read_id /\ n.left = f.left
  BY <1>2, UpdSectorThrough
<1> HIDE DEF n
<1>4. CASE f.offset < Bytes /\ upd' = f
  BY <1>2, <1>4, UpdServed
<1>5. CASE upd' = cmd_result(f)
  BY <1>2, <1>5, UpdWorksEnds
<1>6. CASE f.cmd.id = "READ_DATA" /\ upd' \in start_sector(n)
  BY <1>3, <1>6, UpdStartSector DEF Searching
<1>7. CASE f.cmd.id = "READ_DIAG" /\ f.left # 0 /\ upd' \in start_read_diag(d)
  <2>1. f.left \in 0..Sectors /\ Sectors \in Nat
    BY <1>2, FddAssumption DEF UpdFrame, UpdType
  <2>2. n.left - 1 \in 0..Sectors
    BY <1>3, <1>7, <2>1
  <2>3. UpdWorks(d) /\ d.cmd = n.cmd
    BY <1>3, <2>2, UpdLeft
  <2> HIDE DEF d
  <2>4. d.cmd.id \in Searching
    BY <1>3, <1>7, <2>3 DEF Searching
  <2> QED
    BY <1>7, <2>3, <2>4, UpdStartSearch
<1> QED
  BY <1>1, <1>4, <1>5, <1>6, <1>7

\* The head passes the hole, or has passed it; the disk turns as it did.
LEMMA UpdHoleSet ==
  ASSUME NEW f, UpdFrame(f), UpdSerial(f), UpdBusy(f), Spinning(Current(f)),
         NEW v, v = [Current(f) EXCEPT !.hole = TRUE] \/ v = [Current(f) EXCEPT !.hole = FALSE]
  PROVE  LET e == [f EXCEPT !.drive[f.cur] = v] IN
         /\ UpdFrame(e) /\ UpdSerial(e) /\ UpdBusy(e) /\ Spinning(Current(e))
         /\ e.dreq = f.dreq /\ e.read_id = f.read_id /\ e.fdc = f.fdc /\ e.queue = f.queue
         /\ e.timeout = f.timeout /\ e.offset = f.offset /\ e.left = f.left /\ e.cmd = f.cmd
         /\ e.cur = f.cur /\ Current(e) = v
<1> DEFINE d == Current(f)
           e == [f EXCEPT !.drive[f.cur] = v]
<1>1. f.cur \in 0..1 /\ DriveGood(d) /\ Fits(d) /\ d.loaded /\ f.drive \in [0..1 -> Drive] /\ d = f.drive[f.cur]
  BY DEF UpdFrame, UpdType, Current, Spinning
<1>2. DriveGood(v) /\ Alike(v, d) /\ Stays(v, d)
  BY <1>1, DriveHole
<1>3. v.selected = d.selected /\ v.loadhead = d.loadhead
  BY <1>1 DEF DriveGood, Drive
<1>4. f.head /\ v.loaded => v.loadhead
  BY <1>2, <1>3 DEF UpdFrame, Alike
<1>a. Fits(v)
  BY <1>1, <1>2 DEF Stays
<1>b. f.cmd.id \in Searching => Ends(v, f.queue = <<>>)
  BY <1>2, DriveEnds DEF UpdBusy
<1> HIDE DEF d
<1>5. /\ UpdFrame(e)
      /\ e.drive = [f.drive EXCEPT ![f.cur] = v]
      /\ e.cur = f.cur /\ e.state = f.state /\ e.cmd = f.cmd /\ e.dreq = f.dreq
      /\ e.intrq = f.intrq /\ e.head = f.head /\ e.read_id = f.read_id
      /\ e.queue = f.queue /\ e.ended = f.ended /\ e.fdc = f.fdc /\ e.left = f.left
      /\ e.timeout = f.timeout /\ e.heads = f.heads /\ e.offset = f.offset
  BY <1>1, <1>2, <1>3, <1>4, <1>a, UpdDriveSet
<1> HIDE DEF e
<1>6. Current(e) = v
  BY <1>1, <1>5 DEF Current
<1>7. Spinning(v)
  BY <1>2 DEF Spinning, Alike, d
<1>8. UpdSerial(e) /\ UpdBusy(e)
  BY <1>5, <1>6, <1>7, <1>b DEF UpdSerial, UpdBusy
<1> QED
  BY <1>5, <1>6, <1>7, <1>8 DEF e

LEMMA UpdIdTimed ==
  ASSUME NEW g, UpdFrame(g), UpdSerial(g), UpdBusy(g), g.dreq, ~g.read_id,
         g.fdc = Len(g.queue), g.offset < Bytes, NEW t \in 0..2, t > 0, NEW l \in 0..Sectors
  PROVE  UpdGood([g EXCEPT !.timeout = t, !.left = l])
<1> DEFINE e == [g EXCEPT !.timeout = t, !.left = l]
<1>1. g \in UpdType
  BY DEF UpdFrame
<1>2. e \in UpdType
  BY <1>1 DEF UpdType
<1>3. /\ e.drive = g.drive /\ e.cur = g.cur /\ e.hung = g.hung /\ e.head = g.head
      /\ e.state = g.state /\ e.cmd = g.cmd /\ e.dreq = g.dreq /\ e.intrq = g.intrq
      /\ e.queue = g.queue /\ e.ended = g.ended /\ e.fdc = g.fdc /\ e.heads = g.heads
      /\ e.read_id = g.read_id /\ e.timeout = t /\ e.offset = g.offset
  BY <1>1 DEF UpdType
<1> HIDE DEF e
<1>4. UpdFrame(e)
  BY <1>2, <1>3, UpdFrameKept DEF UpdFrame
<1>5. UpdSerial(e) /\ UpdBusy(e)
  BY <1>3 DEF UpdSerial, UpdBusy, Current
<1> QED
  BY <1>3, <1>4, <1>5, UpdServed DEF e

LEMMA UpdIdWritten ==
  ASSUME NEW f, UpdFrame(f), UpdSerial(f), UpdBusy(f), f.dreq, ~f.read_id,
         f.fdc = Len(f.queue), f.timeout > 0, f.cmd.id = "WRITE_ID"
  PROVE  UpdGood(IdWritten(f))
<1> DEFINE last == f.offset = Bytes
           v == [Current(f) EXCEPT !.hole = FALSE]
           h == [f EXCEPT !.drive[f.cur] = v]
           k(t, o) == [h EXCEPT !.timeout = t, !.offset = o]
           z == k(0, 0)
<1>0. /\ f \in UpdType /\ f.timeout \in 0..2 /\ f.offset \in 0..Bytes /\ f.left \in 0..Sectors
      /\ 0 \in 0..Bytes /\ 0 < Bytes /\ 0 \in 0..2 /\ Spinning(Current(f)) /\ Bytes \in Nat
      /\ f.cur \in 0..1 /\ f.drive \in [0..1 -> Drive]
  BY FddAssumption DEF UpdFrame, UpdType, UpdBusy
<1>a. Spinning(Current(f)) /\ f.left \in 0..Sectors
  BY <1>0
<1>1. CASE ~last
  <2> DEFINE t == IF f.timeout < 2 THEN f.timeout + 1 ELSE f.timeout
  <2>1. IdWritten(f) = [f EXCEPT !.timeout = t, !.left = f.left]
    BY <1>0, <1>1 DEF IdWritten, UpdType
  <2>2. t \in 0..2 /\ t > 0 /\ f.offset < Bytes
    BY <1>0, <1>1
  <2> HIDE DEF t
  <2> QED
    <3> DEFINE l == f.left
    <3>1. l \in 0..Sectors
      BY <1>a
    <3>2. IdWritten(f) = [f EXCEPT !.timeout = t, !.left = l]
      BY <2>1
    <3> HIDE DEF l
    <3>3. UpdGood([f EXCEPT !.timeout = t, !.left = l])
      BY <2>2, <3>1, UpdIdTimed
    <3> QED
      BY <3>2, <3>3
<1>2. CASE last
  <2>1. [f EXCEPT !.timeout = 0, !.offset = 0, !.drive[f.cur].hole = FALSE] = z
    BY <1>0 DEF UpdType, Current
  <2>2. /\ UpdFrame(h) /\ UpdSerial(h) /\ UpdBusy(h) /\ Spinning(Current(h))
        /\ h.dreq = f.dreq /\ h.read_id = f.read_id /\ h.fdc = f.fdc /\ h.queue = f.queue
        /\ h.left = f.left /\ h.cmd = f.cmd /\ h.cur = f.cur
    BY <1>a, UpdHoleSet
  <2> HIDE DEF h
  <2>4. h \in UpdType
    BY <2>2 DEF UpdFrame
  <2>5. \A t \in 0..2, o \in 0..Bytes : k(t, o) \in UpdType
    BY <2>4 DEF UpdType
  <2>6. z \in UpdType
    BY <1>0, <2>5
  <2>7. /\ z.drive = h.drive /\ z.cur = h.cur /\ z.hung = h.hung /\ z.head = h.head
        /\ z.state = h.state /\ z.cmd = h.cmd /\ z.dreq = h.dreq /\ z.intrq = h.intrq
        /\ z.queue = h.queue /\ z.ended = h.ended /\ z.fdc = h.fdc /\ z.heads = h.heads
        /\ z.read_id = h.read_id /\ z.timeout = 0 /\ z.offset = 0 /\ z.left = h.left
    BY <2>4 DEF UpdType
  <2> HIDE DEF z
  <2>3. IdWritten(f) = IF f.left = 0 THEN FormatEnds(z)
                       ELSE [z EXCEPT !.timeout = 1, !.left = z.left - 1]
    <3>1. IdWritten(f) = IF f.left = 0 THEN FormatEnds(z)
                         ELSE [z EXCEPT !.timeout = IF z.timeout < 2 THEN z.timeout + 1 ELSE z.timeout,
                                        !.left = z.left - 1]
      BY <1>2, <2>1, <2>6 DEF IdWritten, UpdType
    <3> QED
      BY <2>7, <3>1
  <2>8. UpdFrame(z)
    BY <2>2, <2>6, <2>7, UpdFrameKept DEF UpdFrame
  <2>9. UpdSerial(z) /\ UpdBusy(z) /\ Spinning(Current(z))
    BY <2>2, <2>7 DEF UpdSerial, UpdBusy, Current
  <2>10. z.dreq /\ ~z.read_id /\ z.fdc = Len(z.queue) /\ z.offset < Bytes /\ z.state = "EXE"
    BY <1>0, <2>2, <2>7, <2>9 DEF UpdBusy
  <2>11. CASE f.left = 0
    <3> DEFINE w == [Current(z) EXCEPT !.hole = TRUE]
               e == [z EXCEPT !.drive[z.cur] = w]
    <3>1. FormatEnds(z) = cmd_result(e)
      BY <2>6, <2>9 DEF FormatEnds, Advances, Current, UpdType
    <3>2. UpdFrame(e) /\ UpdSerial(e) /\ UpdBusy(e) /\ e.read_id = z.read_id /\ e.fdc = z.fdc
          /\ e.queue = z.queue
      BY <2>8, <2>9, UpdHoleSet
    <3> HIDE DEF e
    <3>3. e.state = "EXE" /\ ~e.read_id /\ e.fdc = Len(e.queue)
      BY <2>10, <3>2 DEF UpdBusy
    <3> QED
      BY <2>3, <2>11, <3>1, <3>2, <3>3, UpdWorksEnds
  <2>12. CASE f.left # 0
    <3>1. z.left - 1 \in 0..Sectors
      BY <1>0, <2>2, <2>7, <2>12, FddAssumption
    <3>2. 1 \in 0..2 /\ 1 > 0
      OBVIOUS
    <3>3. UpdGood([z EXCEPT !.timeout = 1, !.left = z.left - 1])
      BY <2>8, <2>9, <2>10, <3>1, <3>2, UpdIdTimed
    <3> QED
      BY <2>3, <2>12, <3>3
  <2> QED
    BY <2>11, <2>12
<1> QED
  BY <1>1, <1>2

LEMMA UpdWritten ==
  ASSUME UpdGood(upd), WriteByte
  PROVE  UpdGood(upd')
<1> DEFINE f == [upd EXCEPT !.offset = upd.offset + 1]
           n == NextSector(f)
<1>1. /\ upd.dreq /\ upd.cmd.id \in {"WRITE_DATA", "WRITE_ID", "SCAN"}
      /\ \/ f.cmd.id = "WRITE_ID" /\ upd' = IdWritten(f)
         \/ f.offset < Bytes /\ upd' = f
         \/ upd' = cmd_result(f)
         \/ f.cmd.id # "WRITE_ID" /\ upd' \in start_sector(n)
  BY DEF WriteByte, UpdGood, UpdFrame, UpdType
<1>2. /\ UpdFrame(f) /\ UpdSerial(f) /\ UpdBusy(f) /\ f.dreq /\ ~f.read_id
      /\ f.fdc = Len(f.queue) /\ f.timeout > 0 /\ f.state = "EXE" /\ f.cmd = upd.cmd
  BY <1>1, UpdBytes
<1> HIDE DEF f
<1>3. UpdWorks(n) /\ n.cmd = f.cmd /\ ~n.read_id /\ n.left = f.left
  BY <1>2, UpdSectorThrough
<1> HIDE DEF n
<1>4. CASE f.offset < Bytes /\ upd' = f
  BY <1>2, <1>4, UpdServed
<1>5. CASE upd' = cmd_result(f)
  BY <1>2, <1>5, UpdWorksEnds
<1>6. CASE f.cmd.id # "WRITE_ID" /\ upd' \in start_sector(n)
  BY <1>1, <1>2, <1>3, <1>6, UpdStartSector DEF Searching
<1>7. CASE f.cmd.id = "WRITE_ID" /\ upd' = IdWritten(f)
  BY <1>2, <1>7, UpdIdWritten
<1> QED
  BY <1>1, <1>4, <1>5, <1>6, <1>7

\* Drives change, and nothing else.
LEMMA UpdDrives ==
  ASSUME NEW f, UpdGood(f), NEW D \in [0..1 -> Drive],
         \A o \in 0..1 : DriveGood(D[o]) /\ Fits(D[o]) /\ D[o].selected = f.drive[o].selected,
         f.head /\ D[f.cur].loaded => D[f.cur].loadhead,
         f.state = "EXE" /\ f.cmd.id = "WRITE_ID" => Spinning(D[f.cur]),
         f.state = "EXE" /\ Ends(Current(f), f.queue = <<>>) => Ends(D[f.cur], f.queue = <<>>)
  PROVE  UpdGood([f EXCEPT !.drive = D])
<1> DEFINE e == [f EXCEPT !.drive = D]
<1>0. f \in UpdType /\ f.cur \in 0..1 /\ UpdFrame(f)
  BY DEF UpdGood, UpdFrame, UpdType
<1>1. e \in UpdType
  BY <1>0 DEF UpdType
<1>2. /\ e.drive = D /\ e.cur = f.cur /\ e.hung = f.hung /\ e.head = f.head
      /\ e.state = f.state /\ e.cmd = f.cmd /\ e.dreq = f.dreq /\ e.intrq = f.intrq
      /\ e.queue = f.queue /\ e.ended = f.ended /\ e.fdc = f.fdc /\ e.heads = f.heads
      /\ e.read_id = f.read_id /\ e.timeout = f.timeout /\ e.offset = f.offset
  BY <1>0 DEF UpdType
<1> HIDE DEF e
<1>3. UpdFrame(e)
  BY <1>0, <1>1, <1>2 DEF UpdFrame, Current
<1>4. UpdSerial(e)
  BY <1>2 DEF UpdGood, UpdSerial
<1>5. UpdBusy(f) => UpdBusy(e)
  BY <1>2 DEF UpdBusy, Current
<1>6. UpdIdle(e) \/ UpdWaits(e) \/ UpdServes(e)
  <2>1. UpdIdle(f) => UpdIdle(e)
    BY <1>2 DEF UpdIdle
  <2>2. UpdWaits(f) => UpdWaits(e)
    BY <1>2, <1>5 DEF UpdWaits
  <2>3. UpdServes(f) => UpdServes(e)
    BY <1>2, <1>5 DEF UpdServes
  <2> QED
    BY <2>1, <2>2, <2>3 DEF UpdGood
<1> QED
  BY <1>3, <1>4, <1>6 DEF UpdGood, e

\* A format has a disk that turns.
LEMMA UpdFormatSpins ==
  ASSUME NEW f, UpdGood(f), f.state = "EXE", f.cmd.id = "WRITE_ID"
  PROVE  Spinning(Current(f))
BY DEF UpdGood, UpdIdle, UpdWaits, UpdServes, UpdBusy

LEMMA UpdOneDrive ==
  ASSUME NEW f, UpdGood(f), NEW d \in 0..1, NEW v, DriveGood(v), Fits(v),
         v.selected = f.drive[d].selected,
         f.head /\ d = f.cur /\ v.loaded => v.loadhead,
         d = f.cur /\ f.state = "EXE" /\ f.cmd.id = "WRITE_ID" /\ Spinning(f.drive[d]) => Spinning(v),
         d = f.cur /\ f.state = "EXE" /\ Ends(f.drive[d], f.queue = <<>>) => Ends(v, f.queue = <<>>)
  PROVE  UpdGood([f EXCEPT !.drive[d] = v])
<1> DEFINE D == [f.drive EXCEPT ![d] = v]
<1>0. f \in UpdType /\ f.cur \in 0..1 /\ UpdFrame(f) /\ f.drive \in [0..1 -> Drive] /\ v \in Drive
  BY DEF UpdGood, UpdFrame, UpdType, DriveGood
<1>1. D \in [0..1 -> Drive] /\ D[d] = v /\ \A o \in 0..1 : o # d => D[o] = f.drive[o]
  BY <1>0
<1> HIDE DEF D
<1>2. \A o \in 0..1 : DriveGood(D[o]) /\ Fits(D[o]) /\ D[o].selected = f.drive[o].selected
  BY <1>0, <1>1 DEF UpdFrame
<1>3. f.head /\ D[f.cur].loaded => D[f.cur].loadhead
  BY <1>0, <1>1 DEF UpdFrame, Current
<1>4. f.state = "EXE" /\ f.cmd.id = "WRITE_ID" => Spinning(D[f.cur])
  BY <1>0, <1>1, UpdFormatSpins DEF Current
<1>a. f.state = "EXE" /\ Ends(Current(f), f.queue = <<>>) => Ends(D[f.cur], f.queue = <<>>)
  BY <1>0, <1>1 DEF Current
<1>5. [f EXCEPT !.drive[d] = v] = [f EXCEPT !.drive = D]
  BY <1>0 DEF UpdType, D
<1>6. UpdGood([f EXCEPT !.drive = D])
  BY <1>1, <1>2, <1>3, <1>4, <1>a, UpdDrives
<1> QED
  BY <1>5, <1>6

LEMMA UpdDriveEvents ==
  ASSUME UpdGood(upd), NEW d \in 0..1
  PROVE  /\ UpdMotorEvent(d) => UpdGood(upd')
         /\ UpdIndexEvent(d) => UpdGood(upd')
<1> DEFINE a == upd.drive[d]
           u == MotorUp(a)
           i(another) == [IndexTurn(a, another) EXCEPT !.pulse = FALSE]
           still == upd.queue = <<>>
<1>0. DriveGood(a) /\ Fits(a) /\ upd \in UpdType
  BY DEF UpdGood, UpdFrame
<1>a. upd.head /\ d = upd.cur /\ a.loaded => a.loadhead
  BY DEF UpdGood, UpdFrame, Current
<1>1. UpdMotorEvent(d) => upd' = [upd EXCEPT !.drive[d] = u]
  BY <1>0 DEF UpdMotorEvent, UpdType
<1>2. UpdIndexEvent(d) => \E another \in BOOLEAN : upd' = [upd EXCEPT !.drive[d] = i(another)]
  BY <1>0 DEF UpdIndexEvent, UpdType
<1>3. /\ DriveGood(u) /\ Fits(u) /\ u.selected = a.selected /\ u.loadhead = a.loadhead
      /\ u.loaded = a.loaded /\ u.motoron = a.motoron
  BY <1>0, DriveUp, DriveHeadKept, TRUE \in BOOLEAN DEF Alike
<1>b. Ends(u, still)
  BY <1>0, DriveUp DEF Ends
<1> HIDE DEF u
<1>6. UpdGood([upd EXCEPT !.drive[d] = u])
  BY <1>3, <1>a, <1>b, UpdOneDrive DEF Spinning
<1>7. ASSUME NEW another \in BOOLEAN
      PROVE  UpdGood([upd EXCEPT !.drive[d] = i(another)])
  <2> DEFINE v == i(another)
  <2>1. DriveGood(v) /\ Stays(v, a)
    BY <1>0, DriveIndex
  <2>2. v.selected = a.selected /\ v.loadhead = a.loadhead /\ v.loaded = a.loaded /\ v.motoron = a.motoron
    BY <1>0, DriveHeadKept, TRUE \in BOOLEAN
  <2> HIDE DEF v
  <2>3. Fits(v) /\ (Ends(a, still) => Ends(v, still))
    BY <1>0, <2>1, <2>2 DEF Stays, Ends, Spinning
  <2>4. UpdGood([upd EXCEPT !.drive[d] = v])
    BY <2>1, <2>2, <2>3, <1>a, UpdOneDrive DEF Spinning
  <2> QED
    BY <2>4 DEF v
<1> QED
  BY <1>1, <1>2, <1>6, <1>7

LEMMA UpdDiskChanged ==
  ASSUME UpdLiberties = {}, UpdGood(upd), NEW d \in 0..1, UpdChangeDisk(d)
  PROVE  UpdGood(upd')
<1>1. PICK size \in DiskSizes, wrprot \in BOOLEAN :
        upd' = [upd EXCEPT !.drive[d] = IF @.loaded THEN fdd_unload(@) ELSE fdd_load(@, size, wrprot)]
  BY DEF UpdChangeDisk
<1> DEFINE a == upd.drive[d]
           v == IF a.loaded THEN fdd_unload(a) ELSE fdd_load(a, size, wrprot)
<1>2. DriveGood(a) /\ upd \in UpdType /\ (d = upd.cur => a.selected)
      /\ ~(d = upd.cur /\ upd.state = "EXE" /\ upd.cmd.id = "WRITE_ID")
  BY DEF UpdGood, UpdFrame, UpdChangeDisk
<1>3. upd' = [upd EXCEPT !.drive[d] = v]
  BY <1>1, <1>2 DEF UpdType
<1>4. DriveGood(v) /\ Fits(v) /\ (v.ready => Spinning(v))
  BY <1>2, DriveDisk
<1>5. v.selected = a.selected /\ (a.selected /\ v.loaded => v.loadhead)
  BY <1>2, DriveDiskHead
<1> HIDE DEF v
<1>6. UpdGood([upd EXCEPT !.drive[d] = v])
  BY <1>2, <1>4, <1>5, UpdOneDrive DEF Spinning, Ends
<1> QED
  BY <1>3, <1>6

\* The motor goes off only where a command does not need it: the search ends
\* without it, and no track is formatted.
LEMMA UpdMotorSet ==
  ASSUME UpdLiberties = {}, UpdGood(upd), NEW on \in BOOLEAN, Motor(on)
  PROVE  UpdGood(upd')
<1> DEFINE D == [d \in 0..1 |-> fdd_motoron(upd.drive[d], on)]
           still == upd.queue = <<>>
           c == Current(upd)
<1>0. /\ upd \in UpdType /\ upd.cur \in 0..1 /\ c = upd.drive[upd.cur]
      /\ \A o \in 0..1 : DriveGood(upd.drive[o]) /\ Fits(upd.drive[o])
  BY DEF UpdGood, UpdFrame, UpdType, Current
<1>1. upd' = [upd EXCEPT !.drive = D]
  BY <1>0 DEF Motor
<1>2. ~on /\ upd.state = "EXE" =>
        upd.cmd.id # "WRITE_ID" /\ SearchEnds([c EXCEPT !.motoron = FALSE])
  BY DEF Motor
<1>3. \A o \in 0..1 : /\ DriveGood(D[o]) /\ D[o].selected = upd.drive[o].selected
                      /\ D[o].loadhead = upd.drive[o].loadhead
                      /\ D[o].loaded = upd.drive[o].loaded /\ (on => On(D[o]))
                      /\ Stays(D[o], upd.drive[o])
  <2>1. SUFFICES ASSUME NEW o \in 0..1
                 PROVE  /\ DriveGood(D[o]) /\ D[o].selected = upd.drive[o].selected
                        /\ D[o].loadhead = upd.drive[o].loadhead
                        /\ D[o].loaded = upd.drive[o].loaded /\ (on => On(D[o]))
                        /\ Stays(D[o], upd.drive[o])
    OBVIOUS
  <2> DEFINE a == upd.drive[o]
             e == fdd_motoron(a, on)
  <2>2. DriveGood(a) /\ D[o] = e
    BY <1>0
  <2>3. DriveGood(e) /\ (on => On(e)) /\ Stays(e, a)
    BY <2>2, DriveMotor
  <2>4. e.loaded = a.loaded /\ e.selected = a.selected /\ e.loadhead = a.loadhead
    BY <2>2, DriveHeadKept, TRUE \in BOOLEAN
  <2> QED
    BY <2>2, <2>3, <2>4
<1>4. D \in [0..1 -> Drive]
  <2>1. \A o \in 0..1 : D[o] \in Drive
    BY <1>3 DEF DriveGood
  <2> QED
    BY <2>1
<1> HIDE DEF D
<1>5. upd.head /\ D[upd.cur].loaded => D[upd.cur].loadhead
  BY <1>0, <1>3 DEF UpdGood, UpdFrame, Current
<1>6. upd.state = "EXE" /\ upd.cmd.id = "WRITE_ID" => Spinning(D[upd.cur])
  <2>1. SUFFICES ASSUME upd.state = "EXE", upd.cmd.id = "WRITE_ID" PROVE Spinning(D[upd.cur])
    OBVIOUS
  <2>2. Spinning(Current(upd)) /\ on
    BY <1>2, <2>1, UpdFormatSpins
  <2> QED
    BY <1>0, <1>3, <2>2 DEF Spinning, On, Current
<1>7. \A o \in 0..1 : Fits(D[o])
  BY <1>0, <1>3 DEF Stays
<1>8. upd.state = "EXE" => Ends(D[upd.cur], still)
  <2> DEFINE e == D[upd.cur]
             n == [c EXCEPT !.motoron = FALSE]
  <2>1. SUFFICES ASSUME upd.state = "EXE" PROVE Ends(e, still)
    OBVIOUS
  <2>2. DriveGood(c) /\ Fits(c) /\ DriveGood(e) /\ e.loaded = c.loaded /\ (on => On(e)) /\ Stays(e, c)
    BY <1>0, <1>3
  <2> HIDE DEF e
  <2>3. CASE on
    BY <2>2, <2>3 DEF Ends, Spinning, On, DriveGood, ReadySettles
  <2>4. CASE ~on
    <3>1. n.ready = c.ready /\ n.track = c.track /\ ~Spinning(n)
      BY <2>2 DEF DriveGood, Drive, Spinning
    <3>2. ~c.ready \/ (c.track /\ still)
      BY <1>2, <2>1, <2>4, <3>1 DEF SearchEnds
    <3>3. c.ready => c.loaded
      BY <2>2 DEF DriveGood, ReadySettles
    <3> QED
      BY <2>2, <3>2, <3>3 DEF Ends, Fits, Stays
  <2> QED
    BY <2>3, <2>4
<1> QED
  BY <1>1, <1>3, <1>4, <1>5, <1>6, <1>7, <1>8, UpdDrives

LEMMA UpdTimeUp ==
  ASSUME UpdLiberties = {}, UpdGood(upd), UpdTimeoutEvent
  PROVE  UpdGood(upd')
<1>1. upd.timeout > 0 /\ ~upd.read_id /\ upd' = cmd_result(upd)
  BY DEF UpdTimeoutEvent
<1>2. UpdServes(upd)
  BY <1>1 DEF UpdGood, UpdIdle, UpdWaits
<1>3. UpdFrame(upd) /\ UpdSerial(upd) /\ upd.state = "EXE" /\ upd.fdc = Len(upd.queue)
  BY <1>2 DEF UpdGood, UpdServes, UpdBusy
<1> QED
  BY <1>1, <1>3, UpdWorksEnds

\* The result, and what its end leaves of the interrupt.
LEMMA UpdResultRead ==
  ASSUME UpdGood(upd), ReadResult
  PROVE  UpdGood(upd')
<1> DEFINE f == upd
           i == IF f.intrq = "seek" THEN f.intrq ELSE "none"
           e == [f EXCEPT !.state = "CMD", !.intrq = i]
<1>0. f \in UpdType /\ i \in {"none", "result", "seek"} /\ (f.intrq = "seek" => i = "seek")
  BY DEF UpdGood, UpdFrame, UpdType
<1>1. f.state = "RES" /\ upd' = e
  BY DEF ReadResult
<1> HIDE DEF i
<1>2. e \in UpdType
  BY <1>0 DEF UpdType
<1>3. /\ e.drive = f.drive /\ e.cur = f.cur /\ e.hung = f.hung /\ e.head = f.head
      /\ e.state = "CMD" /\ e.dreq = f.dreq /\ e.intrq = i
      /\ e.queue = f.queue /\ e.ended = f.ended /\ e.fdc = f.fdc
      /\ e.read_id = f.read_id /\ e.timeout = f.timeout
  BY <1>0 DEF UpdType
<1> HIDE DEF e
<1>4. UpdFrame(e)
  BY <1>2, <1>3, UpdFrameKept DEF UpdGood, UpdFrame
<1>5. UpdSerial(e)
  BY <1>0, <1>3 DEF UpdGood, UpdSerial
<1>6. UpdIdle(e)
  BY <1>1, <1>3 DEF UpdGood, UpdIdle, UpdWaits, UpdServes, UpdBusy
<1> QED
  BY <1>1, <1>4, <1>5, <1>6 DEF UpdGood

\* The head comes off only where no command is in execution.
LEMMA UpdHeadOff ==
  ASSUME UpdGood(upd), HeadEvent
  PROVE  UpdGood(upd')
<1> DEFINE f == upd
           v == fdd_head_load(Current(f), FALSE)
           h == [f EXCEPT !.drive[f.cur] = v]
           n == f.heads - 1
           e == [f EXCEPT !.heads = n, !.head = FALSE]
           x == [e EXCEPT !.drive[f.cur] = v]
<1>0. f \in UpdType /\ f.heads > 0 /\ f.heads \in 0..2 /\ f.cur \in 0..1 /\ UpdFrame(f)
  BY DEF UpdGood, UpdFrame, UpdType, HeadEvent
<1>1. upd' = x
  BY <1>0 DEF HeadEvent, Current, UpdType
<1>2. UpdIdle(f)
  BY <1>0 DEF UpdGood, UpdWaits, UpdServes, UpdBusy
<1>3. n \in 0..2
  BY <1>0
<1> HIDE DEF n, v
<1>4. e \in UpdType
  BY <1>0, <1>3 DEF UpdType
<1>5. /\ e.drive = f.drive /\ e.cur = f.cur /\ e.hung = f.hung /\ ~e.head
      /\ e.state = f.state /\ e.dreq = f.dreq /\ e.intrq = f.intrq
      /\ e.queue = f.queue /\ e.ended = f.ended /\ e.fdc = f.fdc
      /\ e.read_id = f.read_id /\ e.timeout = f.timeout
  BY <1>0 DEF UpdType
<1> HIDE DEF e
<1>6. UpdGood(e)
  <2>1. UpdFrame(e)
    BY <1>0, <1>4, <1>5, UpdFrameKept DEF UpdFrame
  <2>2. UpdSerial(e) /\ UpdIdle(e)
    BY <1>2, <1>5 DEF UpdGood, UpdSerial, UpdIdle
  <2> QED
    BY <2>1, <2>2 DEF UpdGood
<1>7. DriveGood(v) /\ Fits(v) /\ v.selected = Current(f).selected
  <2>1. DriveGood(Current(f)) /\ Fits(Current(f))
    BY <1>0 DEF UpdFrame, Current
  <2> QED
    BY <2>1, DriveHead, DriveHeadDown DEF v, Stays
<1>8. UpdGood([e EXCEPT !.drive[f.cur] = v])
  <2>1. v.selected = e.drive[f.cur].selected /\ e.state # "EXE"
    BY <1>2, <1>5, <1>7 DEF Current, UpdIdle
  <2> QED
    BY <1>0, <1>5, <1>6, <1>7, <2>1, UpdOneDrive
<1> QED
  BY <1>1, <1>8

\* What the reset of the machine makes of a drive.
DriveAgain(d, selected) ==
  LET s == fdd_select(d, selected)
      new == [s EXCEPT !.loaded = FALSE, !.cylinder = 0, !.ready = FALSE,
                       !.hole = TRUE, !.wrprot = TRUE]
  IN IF d.loaded THEN fdd_load(fdd_unload(new), d.size, d.wrprot) ELSE new

LEMMA DriveAgainGood ==
  ASSUME NEW d, DriveGood(d), NEW b \in BOOLEAN
  PROVE  DriveGood(DriveAgain(d, b)) /\ Fits(DriveAgain(d, b)) /\ DriveAgain(d, b).selected = b
<1> DEFINE s == fdd_select(d, b)
           m(c) == [s EXCEPT !.loaded = FALSE, !.cylinder = c, !.ready = FALSE,
                             !.hole = TRUE, !.wrprot = TRUE]
           new == m(0)
           w == d.wrprot
           z == d.size
           in == [new EXCEPT !.loaded = TRUE, !.size = z, !.wrprot = w]
           on == IF new.selected THEN fdd_head_load(in, TRUE) ELSE in
           r == [on EXCEPT !.ready = new.motoron]
<1>1. DriveGood(s) /\ Alike(s, d) /\ s.selected = b /\ d \in Drive
      /\ w \in BOOLEAN /\ z \in 0..Cylinders
  BY DriveHead, DriveHeadDown DEF DriveGood, Drive
<1> HIDE DEF s, w, z
<1>2. 0 \in 0..Cylinders - 1
  BY FddAssumption
<1>3. \A c \in 0..Cylinders - 1 : m(c) \in Drive
  BY <1>1 DEF DriveGood, Drive
<1>4. new \in Drive
  BY <1>2, <1>3
<1>5. /\ ~new.loaded /\ ~new.ready /\ new.hole /\ new.motoron = s.motoron /\ new.selected = b
      /\ new.wrprot = TRUE
  BY <1>1 DEF DriveGood, Drive
<1>a. DriveAgain(d, b) = IF d.loaded THEN fdd_load(fdd_unload(new), z, w) ELSE new
  BY DEF DriveAgain, s, w, z
<1> HIDE DEF m
<1>6. CASE ~d.loaded
  <2> QED
    BY <1>4, <1>5, <1>6, <1>a DEF DriveGood, ReadySettles, Fits
<1>7. CASE d.loaded
  <2>1. fdd_unload(new) = new
    <3> HIDE DEF new
    <3> DEFINE o == [new EXCEPT !.ready = FALSE, !.loaded = FALSE, !.hole = TRUE, !.wrprot = TRUE]
    <3>1. new.ready = FALSE /\ new.loaded = FALSE /\ new.hole = TRUE
      BY <1>4, <1>5 DEF Drive
    <3>2. o = new
      BY <1>4, <1>5, <3>1 DEF Drive
    <3>3. fdd_motoron(o, FALSE) = o /\ fdd_head_load(o, FALSE) = o
      BY <1>5, <3>2 DEF fdd_motoron, fdd_head_load
    <3> QED
      BY <3>2, <3>3 DEF fdd_unload
  <2> HIDE DEF new
  <2>2. in \in Drive /\ in.selected = b /\ in.loaded
    BY <1>1, <1>4, <1>5 DEF Drive
  <2> HIDE DEF in
  <2>3. on \in Drive /\ on.selected = b /\ on.loaded
    BY <2>2 DEF Drive, fdd_head_load, fdd_set_data
  <2> HIDE DEF on
  <2>4. new.motoron \in BOOLEAN
    BY <1>4 DEF Drive
  <2>5. r \in Drive /\ r.selected = b /\ r.loaded /\ r.ready = new.motoron /\ r.motoron = on.motoron
    BY <2>3, <2>4 DEF Drive
  <2>6. on.motoron = new.motoron
    BY <1>4, <2>2 DEF on, in, Drive, fdd_head_load, fdd_set_data
  <2>7. fdd_load(new, z, w) = fdd_set_data(r)
    BY DEF fdd_load, r, on, in
  <2> HIDE DEF r
  <2>8. DriveGood(r)
    BY <2>5, <2>6 DEF DriveGood, ReadySettles
  <2>9. DriveGood(fdd_set_data(r)) /\ Fits(fdd_set_data(r)) /\ fdd_set_data(r).selected = b
    BY <2>5, <2>8, DriveData
  <2> QED
    BY <1>7, <1>a, <2>1, <2>7, <2>9
<1> QED
  BY <1>6, <1>7

LEMMA NoUpdCommandType ==
  /\ NoUpdCommand \in UpdCommand
  /\ 0 \in 0..Revolutions /\ 0 \in 0..Sectors /\ 0 \in 0..Bytes /\ 0 \in 0..2 /\ 0 \in 0..SeekSteps
<1>1. 1 \in 1..Sectors
  BY FddAssumption
<1>2. NoUpdCommand \in UpdCommand
  BY <1>1 DEF NoUpdCommand, UpdCommand, Plain
<1> QED
  BY <1>2, FddAssumption, UpdAssumption

LEMMA UpdReset ==
  ASSUME UpdLiberties = {}, UpdGood(upd), UpdMachineReset
  PROVE  UpdGood(upd')
<1> DEFINE f == upd
           D == [d \in 0..1 |-> DriveAgain(upd.drive[d], d = 0)]
           T == [u \in Units |-> 0]
           O == [u \in Units |-> FALSE]
           a == [f EXCEPT !.drive = D, !.state = "CMD", !.cmd = NoUpdCommand, !.intrq = "none",
                          !.queue = <<>>, !.ended = {}, !.recal = {}, !.togo = T, !.out = O]
           b == [a EXCEPT !.dreq = FALSE, !.head = FALSE, !.id = FALSE, !.read_id = FALSE,
                          !.first_rw = FALSE, !.past = FALSE]
           k(c, r, l, o) == [b EXCEPT !.cur = c, !.rev = r, !.left = l, !.offset = o]
           e == k(0, 0, 0, 0)
<1>0. /\ f \in UpdType /\ UpdFrame(f) /\ f.fdc = 0 /\ f.timeout = 0
      /\ \A o \in 0..1 : DriveGood(f.drive[o])
  BY DEF UpdGood, UpdFrame, UpdMachineReset
<1>1. upd' = e
  BY <1>0 DEF UpdMachineReset, DriveAgain
<1>2. UpdIdle(f)
  <2>1. f.queue \in Seq(Units)
    BY <1>0 DEF UpdType
  <2>2. Len(f.queue) \in Nat
    BY <2>1
  <2>3. ~UpdWaits(f) /\ ~UpdServes(f)
    BY <1>0, <2>2 DEF UpdWaits, UpdServes
  <2> QED
    BY <2>3 DEF UpdGood
<1>3. \A o \in 0..1 : DriveGood(D[o]) /\ Fits(D[o]) /\ (D[o].selected <=> o = 0)
  <2>1. SUFFICES ASSUME NEW o \in 0..1 PROVE DriveGood(D[o]) /\ Fits(D[o]) /\ (D[o].selected <=> o = 0)
    OBVIOUS
  <2>2. DriveGood(f.drive[o]) /\ D[o] = DriveAgain(f.drive[o], o = 0)
    BY <1>0
  <2>3. \A w \in BOOLEAN : /\ DriveGood(DriveAgain(f.drive[o], w)) /\ Fits(DriveAgain(f.drive[o], w))
                           /\ DriveAgain(f.drive[o], w).selected = w
    BY <2>2, DriveAgainGood
  <2> HIDE DEF D
  <2>4. (o = 0) \in BOOLEAN
    OBVIOUS
  <2> QED
    BY <2>2, <2>3, <2>4, Zenon
<1>4. D \in [0..1 -> Drive]
  <2>1. \A o \in 0..1 : D[o] \in Drive
    BY <1>3 DEF DriveGood
  <2> QED
    BY <2>1
<1>5. T \in [Units -> 0..SeekSteps] /\ O \in [Units -> BOOLEAN]
  BY UpdAssumption
<1> HIDE DEF D, T, O
<1>6. <<>> \in Seq(Units) /\ NoUpdCommand \in UpdCommand
  BY NoUpdCommandType
<1>7. a \in UpdType
  BY <1>0, <1>4, <1>5, <1>6 DEF UpdType
<1>8. /\ a.drive = D /\ a.hung = f.hung /\ a.state = "CMD"
      /\ a.queue = <<>> /\ a.ended = {} /\ a.fdc = f.fdc /\ a.timeout = f.timeout
  BY <1>0 DEF UpdType
<1> HIDE DEF a
<1>9. b \in UpdType
  BY <1>7 DEF UpdType
<1>10. /\ b.drive = D /\ b.hung = f.hung /\ b.state = "CMD" /\ ~b.dreq /\ ~b.read_id /\ ~b.head
       /\ b.queue = <<>> /\ b.ended = {} /\ b.fdc = f.fdc /\ b.timeout = f.timeout
  BY <1>7, <1>8 DEF UpdType
<1> HIDE DEF b
<1>11. \A c \in 0..1, r \in 0..Revolutions, l \in 0..Sectors, o \in 0..Bytes : k(c, r, l, o) \in UpdType
  BY <1>9 DEF UpdType
<1>12. e \in UpdType
  <2>1. 0 \in 0..1
    OBVIOUS
  <2> QED
    BY <1>11, <2>1, NoUpdCommandType
<1>13. /\ e.drive = D /\ e.hung = f.hung /\ e.state = "CMD" /\ ~e.dreq /\ ~e.read_id /\ ~e.head
       /\ e.queue = <<>> /\ e.ended = {} /\ e.fdc = f.fdc /\ e.timeout = f.timeout /\ e.cur = 0
  BY <1>9, <1>10 DEF UpdType
<1> HIDE DEF e
<1>14. UpdFrame(e)
  BY <1>0, <1>3, <1>12, <1>13 DEF UpdFrame
<1>15. UpdSerial(e)
  BY <1>13 DEF UpdSerial
<1>16. UpdIdle(e)
  <2>1. Len(<<>>) = 0
    OBVIOUS
  <2> QED
    BY <1>0, <1>13, <2>1 DEF UpdIdle
<1> QED
  BY <1>1, <1>14, <1>15, <1>16 DEF UpdGood

LEMMA UpdInitial ==
  ASSUME UpdInit
  PROVE  UpdIInv
<1> DEFINE in(b) == [fdd_init EXCEPT !.selected = b]
           T == [u \in Units |-> 0]
           O == [u \in Units |-> FALSE]
           k(D, c, r, l, o, p, t, h) ==
             [drive |-> D, cur |-> c, state |-> "CMD", cmd |-> NoUpdCommand, dreq |-> FALSE,
              intrq |-> "none", head |-> FALSE, read_id |-> FALSE, id |-> FALSE, rev |-> r,
              first_rw |-> FALSE, left |-> l, past |-> FALSE, offset |-> o, queue |-> <<>>,
              togo |-> T, out |-> O, recal |-> {}, ended |-> {},
              fdc |-> p, timeout |-> t, heads |-> h, hung |-> FALSE]
<1>0. PICK size \in DiskSizes :
        guest \in UpdGuests
          /\ upd = k([d \in 0..1 |-> fdd_load(in(d = 0), size, FALSE)], 0, 0, 0, 0, 0, 0, 0)
  BY DEF UpdInit
<1> DEFINE D == [d \in 0..1 |-> fdd_load(in(d = 0), size, FALSE)]
<1>1. ASSUME NEW b \in BOOLEAN
      PROVE  LET e == fdd_load(in(b), size, FALSE) IN DriveGood(e) /\ Fits(e) /\ e.selected = b
  <2> DEFINE g == in(b)
             e == IF g.loaded THEN fdd_unload(g) ELSE fdd_load(g, size, FALSE)
  <2>1. g \in Drive
    <3>1. 0 \in 0..Cylinders - 1 /\ 0 \in 0..1 /\ 0 \in 0..Cylinders
      BY FddAssumption
    <3> QED
      BY <3>1 DEF fdd_init, Drive
  <2>2. ~g.loaded /\ g.hole /\ ~g.ready /\ g.selected = b
    BY DEF fdd_init
  <2>3. DriveGood(g)
    BY <2>1, <2>2 DEF DriveGood, ReadySettles
  <2> HIDE DEF g
  <2>4. \A w \in BOOLEAN : LET v == IF g.loaded THEN fdd_unload(g) ELSE fdd_load(g, size, w) IN
                           DriveGood(v) /\ Fits(v)
    BY <2>2, <2>3, DriveDisk
  <2>5. \A w \in BOOLEAN :
          (IF g.loaded THEN fdd_unload(g) ELSE fdd_load(g, size, w)).selected = g.selected
    BY <2>2, <2>3, DriveDiskHead
  <2>6. DriveGood(e) /\ Fits(e) /\ e.selected = g.selected
    BY <2>4, <2>5, FALSE \in BOOLEAN, Zenon
  <2> QED
    BY <2>2, <2>6 DEF g
<1>2. \A o \in 0..1 : DriveGood(D[o]) /\ Fits(D[o]) /\ (D[o].selected <=> o = 0)
  <2>1. SUFFICES ASSUME NEW o \in 0..1 PROVE DriveGood(D[o]) /\ Fits(D[o]) /\ (D[o].selected <=> o = 0)
    OBVIOUS
  <2>2. D[o] = fdd_load(in(o = 0), size, FALSE)
    OBVIOUS
  <2>3. (o = 0) \in BOOLEAN
    OBVIOUS
  <2> HIDE DEF D, in
  <2>4. LET e == fdd_load(in(o = 0), size, FALSE) IN DriveGood(e) /\ Fits(e) /\ e.selected = (o = 0)
    BY <1>1, <2>3, Zenon
  <2> QED
    BY <2>2, <2>4
<1>3. D \in [0..1 -> Drive]
  <2>1. \A o \in 0..1 : D[o] \in Drive
    BY <1>2 DEF DriveGood
  <2> QED
    BY <2>1
<1>4. T \in [Units -> 0..SeekSteps] /\ O \in [Units -> BOOLEAN] /\ <<>> \in Seq(Units)
  BY UpdAssumption
<1>5. guest \in UpdGuests /\ upd = k(D, 0, 0, 0, 0, 0, 0, 0)
  BY <1>0
<1> HIDE DEF D, T, O
<1>6. \A c \in 0..1, r \in 0..Revolutions, l \in 0..Sectors, o \in 0..Bytes, p \in Nat, t, h \in 0..2 :
        k(D, c, r, l, o, p, t, h) \in UpdType
  BY <1>3, <1>4, NoUpdCommandType DEF UpdType
<1>7. upd \in UpdType
  <2>1. 0 \in 0..1 /\ 0 \in Nat
    OBVIOUS
  <2> QED
    BY <1>5, <1>6, <2>1, NoUpdCommandType
<1>8. /\ upd.drive = D /\ upd.cur = 0 /\ upd.state = "CMD" /\ ~upd.dreq /\ ~upd.read_id /\ ~upd.hung
      /\ ~upd.head /\ upd.queue = <<>> /\ upd.ended = {} /\ upd.fdc = 0 /\ upd.timeout = 0
  BY <1>5
<1> HIDE DEF k
<1>9. UpdFrame(upd)
  BY <1>2, <1>7, <1>8 DEF UpdFrame
<1>10. UpdSerial(upd)
  BY <1>8 DEF UpdSerial
<1>11. UpdIdle(upd)
  <2>1. Len(<<>>) = 0
    OBVIOUS
  <2> QED
    BY <1>8, <2>1 DEF UpdIdle
<1> QED
  BY <1>5, <1>9, <1>10, <1>11 DEF UpdIInv, UpdGood

LEMMA UpdStep ==
  ASSUME UpdIInv, UpdNext, UpdLiberties = {}, FirstUnits
  PROVE  UpdIInv'
<1>1. guest \in UpdGuests /\ UpdGood(upd) /\ guest' = guest
  BY DEF UpdIInv, UpdNext
<1>2. UpdGood(upd')
  <2>1. CASE UpdGuestSteps
    BY <1>1, <2>1, UpdWriteGiven, UpdRead, UpdWritten, UpdResultRead, UpdMotorSet DEF UpdGuestSteps
  <2>2. CASE UpdEvents
    BY <1>1, <2>2, UpdFdcComes, UpdTimeUp, UpdHeadOff, UpdDriveEvents DEF UpdEvents
  <2>3. CASE UpdMachineReset
    BY <1>1, <2>3, UpdReset
  <2>4. CASE \E d \in guest.changes : UpdChangeDisk(d)
    <3>1. guest.changes \subseteq 0..1
      BY <1>1, UpdGuestAssumption
    <3> QED
      BY <1>1, <2>4, <3>1, UpdDiskChanged
  <2> QED
    BY <2>1, <2>2, <2>3, <2>4 DEF UpdNext
<1> QED
  BY <1>1, <1>2 DEF UpdIInv, UpdGood, UpdFrame, UpdSerial, UpdIdle, UpdWaits, UpdServes, UpdBusy, Current

LEMMA UpdHolds ==
  ASSUME UpdIInv
  PROVE  UpdTypeOK /\ UpdDriven /\ SeekHeard /\ \A d \in 0..1 : ReadySettles(upd.drive[d])
<1>1. UpdFrame(upd) /\ UpdSerial(upd) /\ guest \in UpdGuests /\ (UpdIdle(upd) \/ UpdWaits(upd) \/ UpdServes(upd))
  BY DEF UpdIInv, UpdGood
<1>2. UpdTypeOK /\ ~upd.hung /\ \A d \in 0..1 : ReadySettles(upd.drive[d])
  BY <1>1 DEF UpdFrame, UpdTypeOK, DriveGood
<1>3. SeekHeard
  BY <1>1 DEF UpdSerial, SeekHeard
<1>4. Len(upd.queue) \in Nat
  <2>1. upd.queue \in Seq(Units)
    BY <1>1 DEF UpdFrame, UpdType
  <2> QED
    BY <2>1
<1>5. UpdDriven
  <2>1. CASE UpdIdle(upd)
    BY <1>2, <1>4, <2>1 DEF UpdIdle, UpdDriven
  <2>2. CASE UpdWaits(upd)
    BY <1>2, <1>4, <2>2 DEF UpdWaits, UpdBusy, UpdDriven
  <2>3. CASE UpdServes(upd)
    BY <1>2, <1>4, <2>3 DEF UpdServes, UpdBusy, UpdDriven
  <2> QED
    BY <1>1, <2>1, <2>2, <2>3
<1> QED
  BY <1>2, <1>3, <1>5

(***************************************************************************)
(* Both, in a machine in which one of them runs.                           *)
(***************************************************************************)
LEMMA DevicesHold ==
  ASSUME Liberties = {}, UpdLiberties = {}, FirstUnits
  PROVE  DevicesSpec => [](WdIInv /\ UpdIInv)
<1>1. DevicesInit => WdIInv /\ UpdIInv
  BY WdInitial, UpdInitial DEF DevicesInit
<1>2. WdIInv /\ UpdIInv /\ [DevicesNext]_devices => (WdIInv /\ UpdIInv)'
  <2>1. SUFFICES ASSUME WdIInv, UpdIInv, [DevicesNext]_devices PROVE (WdIInv /\ UpdIInv)'
    OBVIOUS
  <2>2. UNCHANGED wdVars => WdIInv'
    BY <2>1 DEF wdVars, WdIInv, WdGood, WdBase, WdFrame, Line, WdCommanded, WdServed,
                WdSearching, WdMoved
  <2>3. UNCHANGED updVars => UpdIInv'
    BY <2>1 DEF updVars, UpdIInv, UpdGood, UpdFrame, UpdSerial, UpdIdle, UpdWaits, UpdServes,
                UpdBusy, Current
  <2>4. CASE LoopRuns \/ UNCHANGED devices
    BY <2>2, <2>3, <2>4 DEF LoopRuns, devices
  <2>5. CASE WdNext /\ UNCHANGED <<loopVars, updVars>>
    BY <2>1, <2>3, <2>5, WdStep
  <2>6. CASE UpdNext /\ UNCHANGED <<loopVars, wdVars>>
    BY <2>1, <2>2, <2>6, UpdStep
  <2> QED
    BY <2>1, <2>4, <2>5, <2>6 DEF DevicesNext
<1> QED
  BY <1>1, <1>2, PTL DEF DevicesSpec

\* FdcDriven for every size of a disk, every board and every guest that takes
\* no liberty: what a busy controller waits for is pending, and a search ends
\* (wd_fdc.c:235, upd_fdc.c:913). Beyond the tracks of a disk that is so only
\* while the disk turns or the drive is not ready (fdd.c:353): the guest does
\* not search there with the motor just off. The code handles seeks of units 0
\* and 1.
THEOREM DisksDriven ==
  ASSUME Liberties = {}, UpdLiberties = {}, FirstUnits
  PROVE  DevicesSpec => []FdcDriven
<1>1. WdIInv /\ UpdIInv => FdcDriven
  BY WdHolds, UpdHolds DEF FdcDriven
<1> QED
  BY <1>1, DevicesHold, PTL

\* ReadyFollows: a drive that is not as ready as its motor says has the event
\* pending that makes it so (fdd.c:210). The motors go off and on again before
\* their events have come, disks are changed, those of the uPD765 at any time
\* but when they are formatted, and the machine is reset between two commands, in any order.
THEOREM DisksReady ==
  ASSUME Liberties = {}, UpdLiberties = {}, FirstUnits
  PROVE  DevicesSpec => []ReadyFollows
<1>1. WdIInv /\ UpdIInv => ReadyFollows
  BY WdHolds, UpdHolds DEF ReadyFollows
<1> QED
  BY <1>1, DevicesHold, PTL

\* SeekHeard: the interrupt of a seek outlives the results that are read
\* meanwhile, until a guest that waits for it has sensed it (upd_fdc.c:1078).
THEOREM DisksSeekHeard ==
  ASSUME Liberties = {}, UpdLiberties = {}, FirstUnits
  PROVE  DevicesSpec => []SeekHeard
<1>1. WdIInv /\ UpdIInv => SeekHeard
  BY UpdHolds
<1> QED
  BY <1>1, DevicesHold, PTL

=============================================================================
