------------------------------- MODULE WdFdc --------------------------------
(* The Western Digital floppy disk controllers (wd_fdc.c) of the Beta 128,   *)
(* the +D, the DISCiPLE and the Opus, with the drive that is selected.       *)
(*                                                                           *)
(* A command runs in steps that the event list drives: one event type moves  *)
(* the command on, another ends a transfer the guest is too slow for, a      *)
(* third turns the motor off. Functions of the code are operators from a     *)
(* controller to a controller, or to the set of those it may become where    *)
(* the bytes of the disk decide. Times are left out: pending events fire in  *)
(* any order.                                                                *)
EXTENDS Fdd, Integers

CONSTANTS
  Boards,       \* the boards of a run, a subset of WdBoard
  Tracks,       \* values of the track register
  MaxPending,   \* motor off events the guest lets pile up
  Liberties     \* what guest and user do besides, a subset of Liberty

\* The chip, and what the board makes of its lines.
WdBoard == [old : BOOLEAN,    \* WD1770, which drives the motor; else FD1793
            beta : BOOLEAN,   \* WD_FLAG_BETA128: HLD is READY and MOTOR ON
            drq : BOOLEAN]    \* WD_FLAG_DRQ: a pulse for every byte

Liberty == {"force",    \* interrupt a command that searches for an id
            "late",     \* be so slow that the time for a sector ends while
                        \* the next one is searched, also where it is left
                        \* from a command that ended without taking it
            "change",   \* change the disk while the motor is on
            "index"}    \* give a command while an interrupt at the index
                        \* pulse is still to come

\* The Beta 128 has an FD1793, the others a WD1770.
ASSUME WdAssumption ==
  /\ Boards \subseteq {b \in WdBoard : b.old # b.beta} /\ Boards # {}
  /\ {Tracks, MaxPending} \subseteq Nat \ {0}
  /\ Liberties \subseteq Liberty

VARIABLES
  board,   \* the board, fixed
  wd       \* the controller, its drive and its pending events

wdVars == <<board, wd>>

WdState == {"NONE", "SEEK", "SEEK_DELAY", "VERIFY", "READ", "WRITE",
            "READTRACK", "WRITETRACK", "READID"}
Transfer == {"READ", "WRITE", "READTRACK", "WRITETRACK", "READID"}

\* command_register, as far as it decides: the kind, and the bits h (no
\* spin-up), v (verify), m (several sectors), e (delay), u (update).
Command == [kind : {"RESTORE", "SEEK", "STEP_IN", "STEP_OUT"} \union Transfer,
            h : BOOLEAN, v : BOOLEAN, m : BOOLEAN, u : BOOLEAN]
NoCommand == [kind |-> "RESTORE", h |-> FALSE, v |-> FALSE, m |-> FALSE, u |-> FALSE]

WdType ==
  [drive : Drive, state : WdState, command : Command, busy : BOOLEAN, motor : BOOLEAN,
   datarq : BOOLEAN, head : BOOLEAN, hlt : BOOLEAN,
   read_id : BOOLEAN, id : BOOLEAN, rev : 0..Revolutions,
   track : 0..Tracks - 1, data : 0..Tracks - 1, out : BOOLEAN,
   sector : 1..Sectors + 1, offset : 0..Bytes, multi : BOOLEAN,
   fdc : 0..3, timeout : 0..1, off : 0..MaxPending + 1, hung : BOOLEAN]

WdTypeOK == board \in Boards /\ wd \in WdType

-----------------------------------------------------------------------------
(* Lines and registers.                                                      *)

disk_ready(f) == IF board.beta THEN f.head ELSE f.drive.ready

\* INTRQ itself is an output. What comes with it is a motor off event, added to
\* those there may be already.
wd_fdc_set_intrq(f) ==
  [f EXCEPT !.off = IF (IF board.old THEN f.motor ELSE f.head) THEN @ + 1 ELSE @]

set_datarq(f) == [f EXCEPT !.datarq = TRUE]
reset_datarq(f) == [f EXCEPT !.datarq = FALSE]

\* No command runs. What nothing reads before the next one sets it is dropped.
Idle(f) ==
  [f EXCEPT !.state = "NONE", !.busy = FALSE, !.command = NoCommand, !.rev = 0,
            !.out = FALSE, !.offset = 0, !.multi = FALSE]

\* The end of a command.
Done(f) == wd_fdc_set_intrq(Idle(f))

\* Head and motor of the newer chips: HLD is the motor on the Beta 128.
Hold(f, on) ==
  [f EXCEPT !.head = on,
            !.drive = IF board.beta THEN fdd_motoron(@, on) ELSE fdd_head_load(@, on)]

-----------------------------------------------------------------------------
(* The search for an id. read_id stops at an id or at the index hole; what   *)
(* it has read takes time, for which fdc_event is added, unless that was     *)
(* little. Ids that are passed over are left out. Results are records of the *)
(* controller and whether it is to go on at once.                            *)

Search(f) ==
  IF ~Advances(f.drive) /\ ~f.drive.hole     \* no byte moves: it never stops
  THEN {[f |-> [f EXCEPT !.hung = TRUE], goes |-> FALSE]}
  ELSE LET later(g) == [f |-> [g EXCEPT !.fdc = 1], goes |-> FALSE]
           found == [f EXCEPT !.id = TRUE, !.drive.hole = FALSE]
           wanted == f.state \in {"READ", "WRITE"} => f.sector <= Sectors
       IN {later([f EXCEPT !.rev = @ - 1]), [f |-> [f EXCEPT !.rev = 0], goes |-> TRUE]}
          \union IF Spinning(f.drive) /\ Reads(f.drive) /\ wanted
                 THEN {later(found), [f |-> found, goes |-> TRUE]} ELSE {}

\* The loop around it: an id found earlier, or no revolution left, ends it.
Searched(f) ==
  IF f.id \/ f.rev = 0 THEN {[f |-> f, goes |-> TRUE]} ELSE Search(f)

wd_fdc_seek_verify_read_id(f) ==
  LET g == [f EXCEPT !.read_id = TRUE, !.fdc = 0] IN
  After(Searched(g), LAMBDA h : {[Done(h) EXCEPT !.read_id = FALSE]})

wd_fdc_seek_verify(f) ==
  IF ~board.old /\ ~f.hlt THEN {[f EXCEPT !.fdc = 1]}
  ELSE wd_fdc_seek_verify_read_id([f EXCEPT !.fdc = 0, !.rev = Revolutions, !.id = FALSE])

\* The data mark is there or not; the transfer begins, and the time for it.
Transferring(f) == [set_datarq(f) EXCEPT !.offset = 0, !.timeout = 1]

SectorFound(f) ==
  LET g == [f EXCEPT !.read_id = FALSE] IN
  IF ~g.id THEN {Done(g)}
  ELSE IF g.state = "READ" THEN {Done([g EXCEPT !.id = FALSE]), Transferring(g)}
  ELSE {Transferring(g)}

wd_fdc_type_ii_seek(f) ==
  After(Searched([f EXCEPT !.fdc = 0, !.read_id = f.read_id \/ ~f.id]), SectorFound)

wd_fdc_type_ii(f) ==
  LET g == [f EXCEPT !.fdc = 0] IN
  IF ~board.old /\ ~disk_ready(g) THEN {Done(g)}
  ELSE IF ~board.old /\ ~g.hlt THEN {[g EXCEPT !.fdc = 1]}
  ELSE IF g.state = "WRITE" /\ g.drive.wrprot THEN {Done(g)}
  ELSE wd_fdc_type_ii_seek([g EXCEPT !.multi = g.command.m, !.rev = Revolutions, !.id = FALSE])

(* Faulty variant: the search stays on, and the next command is no search.  *)
IdReadStays(f) ==
  IF f.id THEN {Transferring(f)}
  ELSE {[Done(f) EXCEPT !.read_id = FALSE]}

\* READ ADDRESS gives the bytes of the id that was found.
IdRead(f) ==
  IF f.id THEN {Transferring([f EXCEPT !.read_id = FALSE])}
  ELSE {[Done(f) EXCEPT !.read_id = FALSE]}

wd_fdc_type_iii(f) ==
  LET g == [f EXCEPT !.fdc = 0]
      first == [g EXCEPT !.read_id = TRUE, !.rev = Revolutions, !.id = FALSE]
  IN
  IF ~g.read_id /\ ~board.old /\ ~disk_ready(g) THEN {Done(g)}
  ELSE IF ~g.read_id /\ ~board.old /\ ~g.hlt THEN {[g EXCEPT !.fdc = 1]}
  ELSE IF g.state = "WRITETRACK" /\ g.drive.wrprot THEN {Done(g)}
  ELSE IF g.state = "READID"
  THEN After(Searched(IF g.read_id THEN g ELSE first), IdRead)
  ELSE {[Transferring(g) EXCEPT !.drive = fdd_wait_index_hole(@)]}

\* One step of a seek, or what follows the last.
TypeIVerify(f) ==
  IF f.command.v
  THEN LET g == IF board.old THEN f ELSE Hold([f EXCEPT !.off = 0], TRUE)
           h == [g EXCEPT !.state = "VERIFY"]
       IN IF board.old /\ ~h.motor
          THEN {[h EXCEPT !.motor = TRUE, !.drive = fdd_motoron(@, TRUE), !.fdc = 1]}
          ELSE wd_fdc_seek_verify(h)
  ELSE {Done(f)}

TypeIStep(f) ==
  IF Tr00(f.drive) /\ f.out THEN TypeIVerify([f EXCEPT !.track = 0])
  ELSE {[f EXCEPT !.drive = fdd_step(@, f.out), !.state = "SEEK_DELAY", !.fdc = 1]}

TypeIUpdate(f) ==
  TypeIStep([f EXCEPT !.track = (IF f.out THEN @ + Tracks - 1 ELSE @ + 1) % Tracks])

TypeILoop(f) ==
  IF f.track = f.data THEN TypeIVerify(f)
  ELSE TypeIUpdate([f EXCEPT !.out = f.track > f.data])

wd_fdc_type_i(f) ==
  LET stepping == f.command.kind \in {"STEP_IN", "STEP_OUT"}
      g == [f EXCEPT !.out = IF stepping THEN f.command.kind = "STEP_OUT" ELSE @]
  IN CASE f.state = "SEEK_DELAY" /\ stepping -> TypeIVerify(f)
       [] f.state = "SEEK_DELAY" /\ ~stepping -> TypeILoop(f)
       [] f.state = "SEEK" /\ stepping -> IF f.command.u THEN TypeIUpdate(g) ELSE TypeIStep(g)
       [] f.state = "SEEK" /\ f.command.kind = "SEEK" -> TypeILoop(f)
       [] OTHER -> TypeILoop([f EXCEPT !.track = Tracks - 1, !.data = 0])

\* The controller and whether the command has to wait.
wd_fdc_spinup(f, h, v) ==
  LET slow == f.state # "SEEK" /\ v
      wait(g, yes) == [f |-> [g EXCEPT !.fdc = IF yes THEN 1 ELSE @], waits |-> yes]
  IN IF board.old
     THEN IF f.motor THEN wait(f, slow)
          ELSE wait([f EXCEPT !.motor = TRUE, !.drive = fdd_motoron(@, TRUE)], slow \/ ~h)
     ELSE LET g == [f EXCEPT !.off = 0] IN
          IF f.state # "SEEK" THEN wait(Hold(g, TRUE), slow)
          ELSE IF h THEN wait(Hold(g, TRUE), FALSE)
          ELSE IF ~v THEN wait(Hold(g, FALSE), FALSE)
          ELSE wait(g, FALSE)

-----------------------------------------------------------------------------
(* What the guest does.                                                      *)

Started(f, Go(_)) ==
  LET s == wd_fdc_spinup(f, f.command.h, f.command.v)
  IN IF s.waits THEN {s.f} ELSE Go(s.f)

\* A command while one is busy is ignored.
wd_fdc_cr_write(c) ==
  LET g == [wd EXCEPT !.command = c, !.busy = TRUE, !.off = 0]
      h == [g EXCEPT !.state = c.kind, !.rev = Revolutions]
  IN
  /\ ~wd.hung /\ ~wd.busy
  /\ wd.drive.waiting => "index" \in Liberties
  /\ wd' \in IF c.kind \notin Transfer
             THEN Started([reset_datarq(g) EXCEPT !.state = "SEEK", !.rev = Revolutions],
                          wd_fdc_type_i)
             ELSE IF ~board.old /\ ~disk_ready(g) THEN {Done(g)}
             ELSE IF c.kind \in {"READ", "WRITE"} THEN Started(h, wd_fdc_type_ii)
             ELSE Started(h, wd_fdc_type_iii)
  /\ UNCHANGED board

\* Force Interrupt, at once (now) or at the next index pulse (later). Bit h is
\* masked out of what wd_fdc_spinup is told.
ForceInterrupt(now, later) ==
  LET f == reset_datarq(Idle([wd EXCEPT !.fdc = 0]))
      g == IF now THEN wd_fdc_set_intrq(f)
           ELSE [f EXCEPT !.drive.waiting = @ \/ later]
  IN
  /\ ~wd.hung /\ wd.off < MaxPending
  /\ wd.read_id => "force" \in Liberties
  /\ wd' = wd_fdc_spinup(g, FALSE, later).f
  /\ UNCHANGED board

\* The guest sets the registers between commands: the cylinder to seek, the
\* sector to start at.
SetRegisters(track, data) ==
  /\ ~wd.hung /\ ~wd.busy
  /\ wd' = [wd EXCEPT !.track = track, !.data = data, !.sector = 1]
  /\ UNCHANGED board

\* A sector is through: the next one is looked for, or the command ends.
SectorEnds(f, goes_on) ==
  LET g == [f EXCEPT !.timeout = 0] IN
  IF goes_on
  THEN reset_datarq([g EXCEPT !.sector = @ + 1, !.rev = Revolutions, !.timeout = 1, !.fdc = @ + 1])
  ELSE reset_datarq(Done(g))

\* With WD_FLAG_DRQ the next byte is asked for by an event of its own.
Pulsed(f) == IF board.drq /\ f.busy /\ f.fdc < 2 THEN [f EXCEPT !.fdc = @ + 1] ELSE f

\* A byte goes to or comes from the guest: in the middle, at the end of what
\* is transferred, or where there is none on the disk.
ByteOf(f, write) ==
  LET g == [f EXCEPT !.offset = @ + 1]
      last == g.offset = Bytes
  IN CASE f.state \in {"READ", "WRITE"} ->
            (IF last THEN {SectorEnds(g, g.multi)} ELSE {g})
              \union IF write THEN {} ELSE {reset_datarq(Done(g))}
              \union IF last /\ ~write THEN {SectorEnds(g, FALSE)} ELSE {}
       [] f.state = "READID" -> {IF last THEN SectorEnds(g, FALSE) ELSE g}
       [] OTHER -> {SectorEnds(g, FALSE)} \union IF last THEN {} ELSE {g}

Accepts(write) ==
  wd.state \in IF write THEN {"WRITE", "WRITETRACK"} ELSE {"READ", "READID", "READTRACK"}

wd_fdc_dr(write) ==
  LET f == IF ~write /\ board.drq /\ wd.busy THEN [wd EXCEPT !.fdc = 0] ELSE wd IN
  /\ ~wd.hung /\ wd.datarq /\ Accepts(write)
  /\ wd' \in {Pulsed(g) : g \in ByteOf(f, write)}
  /\ UNCHANGED board

\* The Beta 128 has HLT on a port.
wd_fdc_set_hlt(hlt) ==
  /\ ~wd.hung /\ board.beta /\ wd.hlt # hlt /\ wd' = [wd EXCEPT !.hlt = hlt] /\ UNCHANGED board

\* wd_fdc_master_reset as the board calls it: events stay where they are. The
\* boards other than the Beta 128 select the drive again.
MasterReset ==
  /\ ~wd.hung
  /\ wd' = [Idle(wd) EXCEPT
       !.head = FALSE, !.read_id = FALSE, !.hlt = TRUE, !.datarq = FALSE,
       !.track = 0, !.data = 0, !.sector = 1, !.motor = FALSE,
       !.drive = IF board.beta THEN [fdd_motoron(@, FALSE) EXCEPT !.cylinder = 0]
                 ELSE fdd_select([fdd_head_load(@, FALSE) EXCEPT !.cylinder = 0], TRUE)]
  /\ UNCHANGED board

-----------------------------------------------------------------------------
(* The event list, the drive and the user.                                   *)

Handled(f) ==
  CASE f.state = "VERIFY" -> IF f.read_id THEN wd_fdc_seek_verify_read_id(f) ELSE wd_fdc_seek_verify(f)
    [] f.state \in {"READ", "WRITE"} /\ ~f.datarq ->
         IF f.read_id THEN wd_fdc_type_ii_seek(f) ELSE wd_fdc_type_ii(f)
    [] f.state = "READID" /\ (f.read_id \/ ~f.datarq) -> wd_fdc_type_iii(f)
    [] f.state \in {"READTRACK", "WRITETRACK"} /\ ~f.read_id /\ ~f.datarq -> wd_fdc_type_iii(f)
    [] f.state \in {"SEEK", "SEEK_DELAY"} /\ ~f.read_id -> wd_fdc_type_i(f)
    [] OTHER -> {f}

FdcEvent ==
  /\ ~wd.hung /\ wd.fdc > 0 /\ wd' \in Handled([wd EXCEPT !.fdc = @ - 1]) /\ UNCHANGED board

TimeoutEvent ==
  LET f == [wd EXCEPT !.timeout = @ - 1] IN
  /\ ~wd.hung /\ wd.timeout > 0 /\ (wd.read_id => "late" \in Liberties)
  /\ wd' = IF wd.state \in Transfer THEN Done(reset_datarq(f)) ELSE f
  /\ UNCHANGED board

MotorOffEvent ==
  LET f == [wd EXCEPT !.off = @ - 1] IN
  /\ ~wd.hung /\ wd.off > 0
  /\ wd' = IF board.old THEN [f EXCEPT !.motor = FALSE, !.drive = fdd_motoron(@, FALSE)]
           ELSE Hold(f, FALSE)
  /\ UNCHANGED board

\* The drive's own events. An index pulse that was waited for interrupts.
DriveMotorEvent ==
  /\ ~wd.hung /\ wd.drive.motorEvents > 0
  /\ wd' = [wd EXCEPT !.drive = MotorUp(@)] /\ UNCHANGED board

DriveIndexEvent ==
  /\ ~wd.hung /\ wd.drive.indexed /\ wd.off <= MaxPending
  /\ \E another \in BOOLEAN :
       LET f == [wd EXCEPT !.drive = IndexTurn(@, another)] IN
       wd' = IF IndexTells(wd.drive) THEN wd_fdc_set_intrq(f) ELSE f
  /\ UNCHANGED board

\* The user changes the disk when the motor is off, and not just meant to be on.
ChangeDisk ==
  /\ ~wd.hung
  /\ "change" \in Liberties \/ ~(wd.drive.motoron \/ wd.motor \/ wd.head)
  /\ \E size \in DiskSizes, wrprot \in BOOLEAN :
       wd' = [wd EXCEPT !.drive = IF @.loaded THEN fdd_unload(@) ELSE fdd_load(@, size, wrprot)]
  /\ UNCHANGED board

-----------------------------------------------------------------------------
CONSTANTS
  Commands,   \* those the guest gives
  Targets     \* what it writes to the track and data registers before it does

ASSUME GuestAssumption ==
  Commands \subseteq Command /\ Targets \subseteq (0..Tracks - 1) \X (0..Tracks - 1)

WdInit ==
  /\ board \in Boards
  /\ wd = [drive |-> [fdd_init EXCEPT !.selected = TRUE], state |-> "NONE", command |-> NoCommand,
           busy |-> FALSE, motor |-> FALSE, datarq |-> FALSE,
           head |-> FALSE, hlt |-> TRUE, read_id |-> FALSE, id |-> FALSE, rev |-> 0,
           track |-> 0, data |-> 0, out |-> FALSE, sector |-> 1, offset |-> 0, multi |-> FALSE,
           fdc |-> 0, timeout |-> 0, off |-> 0, hung |-> FALSE]

WdGuest ==
  \/ \E c \in Commands : wd_fdc_cr_write(c)
  \/ \E now, later \in BOOLEAN : ForceInterrupt(now, later)
  \/ \E to \in Targets : SetRegisters(to[1], to[2])
  \/ \E write \in BOOLEAN : wd_fdc_dr(write)
  \/ \E hlt \in BOOLEAN : wd_fdc_set_hlt(hlt)
  \/ MasterReset

WdEvents ==
  \/ FdcEvent \/ TimeoutEvent \/ MotorOffEvent \/ DriveMotorEvent \/ DriveIndexEvent

WdNext == WdGuest \/ WdEvents \/ ChangeDisk

WdSpec == WdInit /\ [][WdNext]_wdVars

\* The event list reaches every event. The guest does not hold HLT down, nor
\* have it down whenever it is looked at.
WdFairness ==
  /\ SF_wdVars(FdcEvent) /\ WF_wdVars(TimeoutEvent) /\ WF_wdVars(wd_fdc_set_hlt(TRUE))

-----------------------------------------------------------------------------
(* Properties.                                                               *)

\* A busy controller has something that will move it: an event that its state
\* and read_id do not make it ignore (wd_fdc.c:794), or a transfer the guest
\* serves and a timeout that ends it. It never searches a disk that stands.
WdDriven ==
  /\ ~wd.hung
  /\ wd.busy => \/ wd.state \in Transfer /\ wd.datarq /\ wd.timeout > 0
                \/ /\ wd.fdc > 0 /\ ~wd.datarq /\ wd.state # "NONE"
                   /\ wd.read_id => wd.state \in {"VERIFY", "READ", "WRITE", "READID"}
=============================================================================
