----------------------------- MODULE MCDevices -----------------------------
(* The main loop with its event list, and the floppy disk controllers, whose *)
(* events such a list delivers: in each behaviour one of them runs and the   *)
(* others stay as they were at the start.                                    *)
EXTENDS MCEventLoop, WdFdc, UpdFdc

VARIABLE part   \* the one that runs

devices == <<loopVars, wdVars, updVars, part>>

DevicesInit ==
  /\ Init /\ WdInit /\ UpdInit
  /\ part \in {"loop", "wd", "upd"}
  /\ part # "wd" => board = CHOOSE b \in Boards : TRUE
  /\ part # "upd" => guest = CHOOSE g \in UpdGuests : TRUE

LoopRuns == part = "loop" /\ Next /\ UNCHANGED <<wdVars, updVars>>

DevicesNext ==
  /\ UNCHANGED part
  /\ \/ LoopRuns
     \/ part = "wd" /\ WdNext /\ UNCHANGED <<loopVars, updVars>>
     \/ part = "upd" /\ UpdNext /\ UNCHANGED <<loopVars, wdVars>>

\* The loop's thread runs, and a recorded frame has finitely many instructions;
\* the fairness is that of a loop that runs. A controller that does not run has
\* no event.
DevicesSpec ==
  /\ DevicesInit /\ [][DevicesNext]_devices
  /\ WF_loopVars(LoopRuns) /\ SF_loopVars(PlaybackFrameEnd)
  /\ WdFairness /\ UpdFairness

-----------------------------------------------------------------------------
(* The guests of the runs.                                                   *)

Wd(kind, h, v, m) == [kind |-> kind, h |-> h, v |-> v, m |-> m, u |-> FALSE]

WdCommands ==
  {Wd("RESTORE", FALSE, TRUE, FALSE), Wd("SEEK", TRUE, FALSE, FALSE),
   Wd("READ", FALSE, FALSE, TRUE), Wd("WRITE", FALSE, TRUE, FALSE),
   Wd("READID", FALSE, FALSE, FALSE)}
WdTargets == {<<0, 1>>, <<1, 0>>}

\* The +D and DISCiPLE, the Opus, the Beta 128.
WdBoards == {[old |-> TRUE, beta |-> FALSE, drq |-> FALSE],
             [old |-> TRUE, beta |-> FALSE, drq |-> TRUE],
             [old |-> FALSE, beta |-> TRUE, drq |-> FALSE]}

Upd(id, eot, mt, sk) == [id |-> id, eot |-> eot, mt |-> mt, sk |-> sk]
Seeks == {Upd("SEEK", 1, FALSE, FALSE), Upd("SENSE_INT", 1, FALSE, FALSE)}

\* One seeks and reads; one formats and overlaps its seeks, as one that waits
\* for none may; one gives the other commands, and changes disks.
Guests ==
  {[commands |-> Seeks \union {Upd("RECALIBRATE", 1, FALSE, FALSE), Upd("READ_DATA", 2, TRUE, TRUE)},
    serial |-> TRUE, changes |-> {}],
   [commands |-> Seeks \union {Upd("READ_DATA", 1, FALSE, FALSE), Upd("WRITE_ID", 1, FALSE, FALSE)},
    serial |-> FALSE, changes |-> {}],
   [commands |-> {Upd("WRITE_DATA", 2, FALSE, FALSE), Upd("SCAN", 1, FALSE, FALSE),
                  Upd("READ_ID", 1, FALSE, FALSE), Upd("READ_DIAG", 2, FALSE, FALSE),
                  Upd("SENSE_DRIVE", 1, FALSE, FALSE), Upd("SPECIFY", 1, FALSE, FALSE)},
    serial |-> TRUE, changes |-> {0}]}

-----------------------------------------------------------------------------
(* Properties of both controllers.                                           *)

\* A busy controller has what will move it on pending (wd_fdc.c, upd_fdc.c).
FdcDriven == WdTypeOK /\ UpdTypeOK /\ WdDriven /\ UpdDriven

\* A drive is ready as long as its disk turns, but for the time it takes to get
\* there (fdd.c:197): no order of motor commands, disk changes and resets
\* leaves it ready with the disk at rest, or turning and never ready.
ReadyFollows == ReadySettles(wd.drive) /\ \A d \in 0..1 : ReadySettles(upd.drive[d])

\* A loop that runs keeps ending frames, whatever the recordings and the user
\* do (spectrum_frame); a controller that runs keeps ending its commands, however
\* slow the guest: BUSY is cleared (wd_fdc.c), the execution phase left (upd_fdc.c).
KeepsEnding ==
  []<>(CASE part = "loop" -> pc = "frame"
         [] part = "wd" -> ~wd.busy
         [] part = "upd" -> upd.state # "EXE")
=============================================================================
