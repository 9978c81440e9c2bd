------------------------------- MODULE UpdFdc -------------------------------
(* The NEC uPD765 floppy disk controller of the +3 (upd_fdc.c,               *)
(* specplus3.c) with its two drives.                                         *)
(*                                                                           *)
(* One event type serves the search for an id, the loading of the head and   *)
(* every seek under way; which of them an event moves is decided when it     *)
(* comes. Another ends a transfer the guest is too slow for, a third takes   *)
(* the head off. Times are left out: pending events fire in any order. The   *)
(* bytes of a command, and those of its result, pass in one step.            *)
EXTENDS Fdd, Sequences

CONSTANTS
  Units,          \* what a guest selects, a subset of 0..3
  SeekSteps,      \* the most steps of a seek
  UpdGuests,      \* the guests of a run
  UpdLiberties    \* what guest and user do besides, a subset of UpdLiberty

UpdLiberty ==
  {"late",     \* be so slow that the time for a sector ends while the next
               \* one is searched
   "format",   \* format a disk that does not turn, or is taken out
   "tracks",   \* read on to the next track where a track is one sector
   "reset",    \* reset the machine while the controller works
   "coast"}    \* search beyond the tracks of a disk whose motor is off while
               \* the drive is still ready

ASSUME UpdAssumption ==
  /\ Units \subseteq 0..3 /\ Units # {}
  /\ SeekSteps \in Nat \ {0}
  /\ UpdLiberties \subseteq UpdLiberty

VARIABLES
  upd,     \* the controller, its drives and its pending events
  guest    \* the guest and the user, fixed

updVars == <<upd, guest>>

\* The commands, by what they do in the execution phase.
Searching == {"READ_DATA", "SCAN", "READ_ID", "READ_DIAG", "WRITE_DATA"}
Moving == Searching \union {"WRITE_ID"}
Seeking == {"RECALIBRATE", "SEEK"}
Plain == {"SENSE_INT", "SENSE_DRIVE", "SPECIFY", "VERSION"}

\* A command with the number of sectors it is for (EOT, or SC) and MT, sk.
UpdCommand == [id : Moving \union Seeking \union Plain, eot : 1..Sectors,
               mt : BOOLEAN, sk : BOOLEAN]
NoUpdCommand == [id |-> "VERSION", eot |-> 1, mt |-> FALSE, sk |-> FALSE]

\* A guest gives some commands; serial says that it hears of the end of a seek
\* before it gives another; the user changes the disks of some drives.
ASSUME UpdGuestAssumption ==
  \A g \in UpdGuests : g.commands \subseteq UpdCommand /\ g.serial \in BOOLEAN /\ g.changes \subseteq 0..1

\* dreq is DATAREQ in the execution phase. queue holds the units whose bit in
\* main_status is set, the one with the greatest seek_age first; ended those
\* whose seek is 4 or more. togo is how far pcn is from ncn, out the way.
\* intrq is "seek" for UPD_INTRQ_READY and more. left is EOT - R, past
\* says that C is past the cylinder under the head.
UpdType ==
  [drive : [0..1 -> Drive], cur : 0..1, state : {"CMD", "EXE", "RES"}, cmd : UpdCommand,
   dreq : BOOLEAN, intrq : {"none", "result", "seek"}, head : BOOLEAN,
   read_id : BOOLEAN, id : BOOLEAN, rev : 0..Revolutions, first_rw : BOOLEAN,
   left : 0..Sectors, past : BOOLEAN, offset : 0..Bytes,
   queue : Seq(Units),
   togo : [Units -> 0..SeekSteps], out : [Units -> BOOLEAN], recal : SUBSET Units,
   ended : SUBSET Units,
   fdc : Nat, timeout : 0..2, heads : 0..2,
   hung : BOOLEAN]

UpdTypeOK == upd \in UpdType /\ guest \in UpdGuests

\* Drives 2 and 3 are drives 0 and 1 again (specplus3_765_init).
DriveOf(u) == u % 2

Current(f) == f.drive[f.cur]

-----------------------------------------------------------------------------
(* The end of a command.                                                     *)

HasResult(c) == c.id \notin Seeking \union {"SPECIFY"}

\* Fields that are set before they are read again go back to where they began;
\* so does the command, which an event with nothing to move would look at.
cmd_result(f) ==
  [f EXCEPT !.state = IF HasResult(f.cmd) THEN "RES" ELSE "CMD",
            !.cmd = NoUpdCommand, !.id = FALSE, !.rev = 0,
            !.intrq = IF HasResult(f.cmd) THEN "result" ELSE @,
            !.dreq = FALSE, !.timeout = 0, !.offset = 0, !.left = 0, !.past = FALSE, !.first_rw = FALSE,
            !.heads = IF f.head /\ f.cmd.id \in Moving /\ @ < 2 THEN @ + 1 ELSE @]

-----------------------------------------------------------------------------
(* Seeks.                                                                    *)

\* A step is sent and an event added; the unit, which others leaves out, is
\* the youngest now.
StepSent(f, u, others) ==
  [f EXCEPT !.drive[DriveOf(u)] = fdd_step(@, f.out[u]), !.togo[u] = @ - 1,
            !.queue = Append(others, u), !.fdc = @ + 1]

\* In place, or as far as it goes, or the drive is not ready.
SeekEnds(f, u, others) ==
  [f EXCEPT !.queue = others, !.ended = @ \union {u},
            !.recal = @ \ {u}, !.intrq = "seek", !.togo[u] = 0, !.out[u] = FALSE]

StepOf(f, u, others) ==
  LET d == f.drive[DriveOf(u)]
      there == f.togo[u] = 0 \/ (u \in f.recal /\ Tr00(d))
  IN IF there \/ ~d.ready THEN SeekEnds(f, u, others) ELSE StepSent(f, u, others)

\* seek_step, with start for a unit that is not under way, and without.
seek_start(f, u) == StepOf(f, u, f.queue)
seek_step(f) == IF f.queue = <<>> THEN f ELSE StepOf(f, Head(f.queue), Tail(f.queue))

-----------------------------------------------------------------------------
(* The search for an id. read_id stops at an id, at the index hole, or at    *)
(* once where the drive is not ready; what it has read takes time, for which *)
(* an event is added, unless that was little. Ids passed over are left out.  *)

UpdSearched(f) ==
  LET d == Current(f)
      later(g) == [f |-> [g EXCEPT !.fdc = @ + 1], goes |-> FALSE]
      at_once(g) == [f |-> g, goes |-> TRUE]
      none == [f EXCEPT !.id = FALSE]
      found == [f EXCEPT !.id = TRUE, !.rev = 0, !.drive[f.cur].hole = FALSE]
  IN IF f.rev = 0 THEN {at_once(f)}
     ELSE IF ~d.ready THEN {later([none EXCEPT !.rev = 0]), at_once([none EXCEPT !.rev = 0])}
     ELSE IF ~Advances(d) /\ ~d.hole           \* no byte moves: it never stops
     THEN {[f |-> [f EXCEPT !.hung = TRUE], goes |-> FALSE]}
     ELSE {later([none EXCEPT !.rev = r]) : r \in 0..f.rev - 1} \union {at_once([none EXCEPT !.rev = 0])}
            \union IF Reads(d) /\ ~f.past THEN {later(found), at_once(found)} ELSE {}

NewSearch(f) == [f EXCEPT !.read_id = TRUE, !.rev = Revolutions, !.id = FALSE]

\* DATAREQ, and the time for the sector.
Transfers(f) == [f EXCEPT !.dreq = TRUE, !.offset = 0, !.timeout = 1]

\* The id is found or not, and on a read the mark of the data; a sector that
\* is to be skipped has the next one searched.
UpdSectorFound(f) ==
  LET g == [f EXCEPT !.read_id = FALSE] IN
  IF ~g.id THEN {cmd_result(g)}
  ELSE IF g.cmd.id = "WRITE_DATA" THEN {Transfers(g)}
  ELSE {Transfers(g), cmd_result(g)}
         \union IF g.cmd.sk /\ g.cmd.id # "READ_DIAG"
                THEN {[NewSearch([g EXCEPT !.left = l]) EXCEPT !.fdc = @ + 1] :
                        l \in {n \in 0..Sectors : n < g.left}}
                ELSE {}

IdFound(f) == {cmd_result([f EXCEPT !.read_id = FALSE])}

\* start_read_data and start_write_data: the first sector, or the next, or,
\* where the last is through, the next track from its second on.
start_sector(f) ==
  IF f.read_id THEN After(UpdSearched(f), UpdSectorFound)
  ELSE IF f.first_rw THEN After(UpdSearched(NewSearch([f EXCEPT !.first_rw = FALSE])), UpdSectorFound)
  ELSE IF f.left > 0 THEN After(UpdSearched(NewSearch([f EXCEPT !.left = @ - 1])), UpdSectorFound)
  ELSE IF ~f.cmd.mt THEN {cmd_result(f)}
  ELSE IF f.cmd.eot = 1 THEN {[f EXCEPT !.hung = TRUE]}      \* EOT > R never holds
  ELSE After(UpdSearched(NewSearch([f EXCEPT !.left = f.cmd.eot - 2, !.past = TRUE])), UpdSectorFound)

start_read_id(f) ==
  After(UpdSearched(IF f.read_id THEN f ELSE NewSearch(f)), IdFound)

start_read_diag(f) ==
  After(UpdSearched(IF f.read_id THEN f ELSE NewSearch(f)), UpdSectorFound)

\* The timeouts of a format pile up.
start_write_id(f) ==
  {[f EXCEPT !.dreq = TRUE, !.offset = 0, !.timeout = IF @ < 2 THEN @ + 1 ELSE @]}

AtHole(f) == [f EXCEPT !.drive[f.cur] = fdd_wait_index_hole(@)]

UpdStarted(f) ==
  CASE f.cmd.id \in {"READ_DATA", "SCAN", "WRITE_DATA"} -> start_sector(f)
    [] f.cmd.id = "READ_ID" -> start_read_id(f)
    [] f.cmd.id = "READ_DIAG" -> start_read_diag(IF f.read_id THEN f ELSE AtHole(f))
    [] f.cmd.id = "WRITE_ID" -> start_write_id(AtHole(f))
    [] OTHER -> {f}

(* Faulty variant: nothing waits for the head to be loaded.                 *)
LoadsWithoutEvent(f) ==
  LET g == [f EXCEPT !.heads = 0] IN
  IF g.head THEN UpdStarted(g)
  ELSE {[g EXCEPT !.head = TRUE, !.drive[g.cur] = fdd_head_load(@, TRUE)]}

\* The event to come starts the command once the head is down.
head_load(f) ==
  LET g == [f EXCEPT !.heads = 0] IN
  IF g.head THEN UpdStarted(g)
  ELSE {[g EXCEPT !.head = TRUE, !.drive[g.cur] = fdd_head_load(@, TRUE), !.fdc = @ + 1]}

-----------------------------------------------------------------------------
(* What the guest does.                                                      *)

Select(f, u) ==
  LET d == DriveOf(u) IN
  IF d = f.cur THEN f
  ELSE [f EXCEPT !.drive[f.cur] = fdd_select(@, FALSE), !.drive[d] = fdd_select(@, TRUE),
                 !.cur = d]

\* The first unit whose seek has ended is reported. The interrupt is then that
\* of the result.
SenseInterrupt(f) ==
  IF f.intrq = "none" \/ f.ended = {} THEN f
  ELSE [f EXCEPT !.ended = @ \ {CHOOSE u \in @ : \A w \in @ : u <= w}]

\* A recalibration steps outwards as far as it takes, a seek as far as told.
SeekStarted(f, u, recal, n, out) ==
  IF \E i \in DOMAIN f.queue : f.queue[i] = u THEN f
  ELSE seek_start([f EXCEPT !.togo[u] = n, !.out[u] = out, !.ended = @ \ {u},
                            !.recal = IF recal THEN @ \union {u} ELSE @ \ {u}], u)

Executed(f, u) ==
  LET s == Select(f, u) IN
  CASE f.cmd.id \in {"SPECIFY", "VERSION"} -> {cmd_result(f)}
    [] f.cmd.id = "SENSE_INT" -> {cmd_result(SenseInterrupt(f))}
    [] f.cmd.id = "SENSE_DRIVE" -> {cmd_result(s)}
    [] f.cmd.id = "RECALIBRATE" -> {cmd_result(SeekStarted(s, u, TRUE, SeekSteps, TRUE))}
    [] f.cmd.id = "SEEK" ->
         UNION {{cmd_result(SeekStarted(s, u, FALSE, n, out)) : n \in 0..SeekSteps} : out \in BOOLEAN}
    [] f.cmd.id \in {"WRITE_DATA", "WRITE_ID"} /\ Current(s).wrprot -> {cmd_result(s)}
    [] OTHER -> head_load([s EXCEPT !.first_rw = f.cmd.id \in {"READ_DATA", "SCAN", "WRITE_DATA"}])

\* A search of a drive ends: bytes move, or it does not begin.
SearchEnds(d) == Spinning(d) \/ ~d.ready \/ (d.track /\ upd.queue = <<>>)

\* A command for the sectors from some sector on.
UpdWriteCommand(c, u, left) ==
  LET seeks == upd.queue # <<>> \/ upd.ended # {}
      f == [upd EXCEPT !.state = "EXE", !.cmd = c, !.left = left]
  IN
  /\ ~upd.hung /\ upd.state = "CMD" /\ left < c.eot
  /\ guest.serial /\ seeks => c.id = "SENSE_INT"
  /\ c.mt /\ c.eot = 1 => "tracks" \in UpdLiberties
  /\ c.id = "WRITE_ID" => \/ "format" \in UpdLiberties
                          \/ Spinning(upd.drive[DriveOf(u)])
  /\ c.id \in Searching => "coast" \in UpdLiberties \/ SearchEnds(upd.drive[DriveOf(u)])
  /\ upd' \in Executed(f, u)

NextSector(f) == [f EXCEPT !.dreq = FALSE, !.offset = 0]

\* The guest takes a byte. At the end of a sector its CRC or its mark ends the
\* command, or the next sector is searched.
ReadByte ==
  LET f == [upd EXCEPT !.offset = @ + 1] IN
  /\ ~upd.hung /\ upd.state = "EXE" /\ upd.dreq /\ upd.cmd.id \in {"READ_DATA", "READ_DIAG"}
  /\ upd' \in IF f.offset < Bytes THEN {f}
              ELSE IF f.cmd.id = "READ_DATA" THEN {cmd_result(f)} \union start_sector(NextSector(f))
              ELSE IF f.left = 0 THEN {cmd_result(f)}
              ELSE start_read_diag([NextSector(f) EXCEPT !.left = @ - 1])

\* The rest of the track is filled up to the index hole.
FormatEnds(f) ==
  IF ~Current(f).hole /\ ~Advances(Current(f)) THEN [f EXCEPT !.hung = TRUE]
  ELSE cmd_result([f EXCEPT !.drive[f.cur].hole = TRUE])

IdWritten(f) ==
  LET last == f.offset = Bytes
      g == IF last THEN [f EXCEPT !.timeout = 0, !.offset = 0, !.drive[f.cur].hole = FALSE] ELSE f
  IN IF last /\ f.left = 0 THEN FormatEnds(g)
     ELSE [g EXCEPT !.timeout = IF @ < 2 THEN @ + 1 ELSE @, !.left = IF last THEN @ - 1 ELSE @]

\* The guest gives a byte, to be written or compared.
WriteByte ==
  LET f == [upd EXCEPT !.offset = @ + 1] IN
  /\ ~upd.hung /\ upd.state = "EXE" /\ upd.dreq
  /\ upd.cmd.id \in {"WRITE_DATA", "WRITE_ID", "SCAN"}
  /\ upd' \in IF f.cmd.id = "WRITE_ID" THEN {IdWritten(f)}
              ELSE IF f.offset < Bytes THEN {f}
              ELSE start_sector(NextSector(f)) \union IF f.cmd.id = "SCAN" THEN {cmd_result(f)} ELSE {}

(* Faulty variant: whatever interrupt there is goes.                        *)
ReadResultClears ==
  /\ ~upd.hung /\ upd.state = "RES"
  /\ upd' = [upd EXCEPT !.state = "CMD", !.intrq = "none"]

\* The result is read to the end: an interrupt that came with it goes.
ReadResult ==
  /\ ~upd.hung /\ upd.state = "RES"
  /\ upd' = [upd EXCEPT !.state = "CMD",
                        !.intrq = IF @ = "seek" THEN @ ELSE "none"]

\* The motors of both drives are one bit of a port (specplus3.c:303).
Motor(on) ==
  /\ ~upd.hung
  /\ ~on /\ upd.state = "EXE" =>
       /\ "format" \in UpdLiberties \/ upd.cmd.id # "WRITE_ID"
       /\ "coast" \in UpdLiberties \/ upd.cmd.id = "WRITE_ID"
                                  \/ SearchEnds([Current(upd) EXCEPT !.motoron = FALSE])
  /\ upd' = [upd EXCEPT !.drive = [d \in 0..1 |-> fdd_motoron(@[d], on)]]
  /\ upd' # upd

\* upd_fdc_master_reset and fdd_init, as the reset of the machine calls them:
\* the events stay, and a disk is taken out and put in again.
UpdMachineReset ==
  LET again(d, selected) ==
        LET s == fdd_select(d, selected)
            new == [s EXCEPT !.loaded = FALSE, !.cylinder = 0, !.ready = FALSE,
                             !.hole = TRUE, !.wrprot = TRUE]
        IN IF d.loaded THEN fdd_load(fdd_unload(new), d.size, d.wrprot) ELSE new
  IN
  /\ ~upd.hung
  /\ "reset" \in UpdLiberties \/ (upd.fdc = 0 /\ upd.timeout = 0)
  /\ upd' = [upd EXCEPT !.cur = 0, !.drive = [d \in 0..1 |-> again(@[d], d = 0)],
       !.state = "CMD", !.cmd = NoUpdCommand, !.dreq = FALSE, !.intrq = "none",
       !.head = FALSE, !.id = FALSE, !.rev = 0, !.read_id = FALSE, !.first_rw = FALSE, !.left = 0, !.past = FALSE, !.offset = 0,
       !.queue = <<>>, !.ended = {}, !.recal = {},
       !.togo = [u \in Units |-> 0], !.out = [u \in Units |-> FALSE]]

-----------------------------------------------------------------------------
(* The event list, the drives and the user.                                  *)

\* A search under way comes first, then the seeks of units 0 and 1, then the
\* command whose head has been loaded.
UpdFdcEvent ==
  LET f == [upd EXCEPT !.fdc = @ - 1] IN
  /\ ~upd.hung /\ upd.fdc > 0
  /\ upd' \in IF f.read_id THEN UpdStarted(f)
              ELSE IF \E i \in DOMAIN f.queue : f.queue[i] \in {0, 1} THEN {seek_step(f)}
              ELSE UpdStarted(f)

UpdTimeoutEvent ==
  /\ ~upd.hung /\ upd.timeout > 0 /\ (upd.read_id => "late" \in UpdLiberties)
  /\ upd' = cmd_result(upd)

HeadEvent ==
  /\ ~upd.hung /\ upd.heads > 0
  /\ upd' = [upd EXCEPT !.heads = @ - 1, !.head = FALSE,
                        !.drive[upd.cur] = fdd_head_load(@, FALSE)]

UpdMotorEvent(d) ==
  /\ ~upd.hung /\ upd.drive[d].motorEvents > 0
  /\ upd' = [upd EXCEPT !.drive[d] = MotorUp(@)]

\* This controller does not look at the index pulse.
UpdIndexEvent(d) ==
  /\ ~upd.hung /\ upd.drive[d].indexed
  /\ \E another \in BOOLEAN :
       upd' = [upd EXCEPT !.drive[d] = [IndexTurn(@, another) EXCEPT !.pulse = FALSE]]
  /\ upd' # upd

\* A disk that is being formatted stays in.
UpdChangeDisk(d) ==
  /\ ~upd.hung
  /\ d = upd.cur /\ upd.state = "EXE" /\ upd.cmd.id = "WRITE_ID" => "format" \in UpdLiberties
  /\ \E size \in DiskSizes, wrprot \in BOOLEAN :
       upd' = [upd EXCEPT !.drive[d] = IF @.loaded THEN fdd_unload(@) ELSE fdd_load(@, size, wrprot)]

-----------------------------------------------------------------------------
UpdInit ==
  /\ guest \in UpdGuests
  /\ \E size \in DiskSizes :
     upd = [drive |-> [d \in 0..1 |-> fdd_load([fdd_init EXCEPT !.selected = d = 0], size, FALSE)],
           cur |-> 0, state |-> "CMD", cmd |-> NoUpdCommand, dreq |-> FALSE, intrq |-> "none",
           head |-> FALSE, read_id |-> FALSE, id |-> FALSE, rev |-> 0, first_rw |-> FALSE,
           left |-> 0, past |-> FALSE, offset |-> 0, queue |-> <<>>, togo |-> [u \in Units |-> 0],
           out |-> [u \in Units |-> FALSE], recal |-> {}, ended |-> {},
           fdc |-> 0, timeout |-> 0, heads |-> 0, hung |-> FALSE]

UpdGuestSteps ==
  \/ \E c \in guest.commands, u \in Units, left \in 0..Sectors - 1 : UpdWriteCommand(c, u, left)
  \/ ReadByte \/ WriteByte \/ ReadResult \/ \E on \in BOOLEAN : Motor(on)

UpdEvents ==
  UpdFdcEvent \/ UpdTimeoutEvent \/ HeadEvent \/ \E d \in 0..1 : UpdMotorEvent(d) \/ UpdIndexEvent(d)

UpdNext ==
  /\ UpdGuestSteps \/ UpdEvents \/ UpdMachineReset \/ \E d \in guest.changes : UpdChangeDisk(d)
  /\ UNCHANGED guest

UpdSpec == UpdInit /\ [][UpdNext]_updVars

\* The event list reaches every event.
UpdFairness == WF_upd(UpdFdcEvent) /\ WF_upd(UpdTimeoutEvent)

-----------------------------------------------------------------------------
(* Properties.                                                               *)

\* Whatever is under way has one event of its own that moves it: each seek of
\* main_status, the search or the load of the head of a command in execution,
\* or the time of a transfer. None is left over to move something later.
UpdDriven ==
  /\ ~upd.hung
  /\ upd.fdc = Len(upd.queue) + (IF upd.state = "EXE" /\ ~upd.dreq THEN 1 ELSE 0)
  /\ upd.read_id => upd.state = "EXE" /\ ~upd.dreq
  /\ upd.state = "EXE" /\ upd.dreq => upd.timeout > 0

\* A guest that waits for each seek can sense its end: the interrupt is not
\* taken for that of a result that was read (upd_fdc.c:1078).
SeekHeard == guest.serial /\ upd.ended # {} => upd.intrq = "seek"
=============================================================================
