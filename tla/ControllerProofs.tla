--------------------------- MODULE ControllerProofs ---------------------------
(***************************************************************************)
(* Proofs about the controller, for every number of channels and every     *)
(* bound.  First the job slots: the type invariant, the safety invariants  *)
(* of ControllerJob and the postcondition of                               *)
(* controller_job_cancel_and_wait.  Then the mailboxes on top of them, for *)
(* any number of submissions and resets: what holds whatever the guest     *)
(* does, and what holds for a guest that waits for its answers.            *)
(***************************************************************************)
EXTENDS Controller, TLAPS

(***************************************************************************)
(* The inductive invariant.  ExactlyOnce, BorrowedRequest, NoLostWakeup    *)
(* and NoOrphanWorker are not inductive by themselves: that the executing  *)
(* worker sees the submitted request needs SlotRequest, and that a slot    *)
(* is never executed and collected at once needs that only running slots   *)
(* are executed.                                                           *)
(***************************************************************************)
SlotRequest == \A c \in Channel : c \in running => request[c] = starts[c]

JobIInv ==
  /\ JobTypeOK
  /\ ExactlyOnce
  /\ BorrowedRequest
  /\ NoLostWakeup
  /\ NoOrphanWorker
  /\ SlotRequest

LEMMA BroadcastType ==
  ASSUME NEW pc \in [Channel -> WorkerPc]
  PROVE  /\ Broadcast(pc) \in [Channel -> WorkerPc]
         /\ \A c \in Channel : /\ Broadcast(pc)[c] # "asleep"
                               /\ pc[c] # "asleep" => Broadcast(pc)[c] = pc[c]
                               /\ pc[c] = "asleep" => Broadcast(pc)[c] = "check"
  BY DEF Broadcast, WorkerPc

LEMMA JobInitIInv == JobInit => JobIInv
<1> SUFFICES ASSUME JobInit PROVE JobIInv
  OBVIOUS
<1>1. JobTypeOK
  BY JobAssumption DEF JobInit, JobTypeOK, WorkerPc, EmuPc, Continuation, Channel
<1>2. ExactlyOnce
  BY DEF JobInit, ExactlyOnce
<1>3. BorrowedRequest /\ NoLostWakeup /\ NoOrphanWorker /\ SlotRequest
  BY DEF JobInit, BorrowedRequest, NoLostWakeup, NoOrphanWorker, SlotRequest, Executing
<1> QED
  BY <1>1, <1>2, <1>3 DEF JobIInv

(***************************************************************************)
(* One lemma per thread: its steps preserve the inductive invariant.       *)
(***************************************************************************)
LEMMA WorkerStep ==
  ASSUME JobIInv, NEW d \in Channel, Worker(d)
  PROVE  JobIInv'
<1> USE DEF JobIInv, JobTypeOK, ExactlyOnce, BorrowedRequest, NoLostWakeup,
            NoOrphanWorker, SlotRequest, Executing, flagVars, emuVars, histVars
<1>1. CASE WorkerCheck(d)
  BY <1>1 DEF WorkerCheck, WorkerPc
<1>2. CASE WorkerExecute(d)
  BY <1>2 DEF WorkerExecute, WorkerPc
<1>3. CASE TransferOpen(d)
  BY <1>3 DEF TransferOpen, WorkerPc
<1>4. CASE TransferEnd(d)
  BY <1>4 DEF TransferEnd, WorkerPc
<1>5. CASE TransferAbort(d)
  BY <1>5 DEF TransferAbort, WorkerPc
<1>6. CASE WorkerFinish(d)
  BY <1>6, BroadcastType DEF WorkerFinish, WorkerPc
<1> QED
  BY <1>1, <1>2, <1>3, <1>4, <1>5, <1>6 DEF Worker

LEMMA ClientStep ==
  ASSUME JobIInv, NEW d \in Channel, ClientStart(d) \/ ClientPoll(d)
  PROVE  JobIInv'
<1> USE DEF JobIInv, JobTypeOK, ExactlyOnce, BorrowedRequest, NoLostWakeup,
            NoOrphanWorker, SlotRequest, Executing, emuVars, workVars
<1>1. CASE ClientStart(d)
  BY <1>1, BroadcastType DEF ClientStart, controller_job_start, FillSlot, Occupied, WorkerPc
<1>2. CASE ClientPoll(d)
  BY <1>2 DEF ClientPoll, controller_job_poll, CollectSlot
<1> QED
  BY <1>1, <1>2

LEMMA CancelKeeps ==
  ASSUME JobIInv, (\E k \in Continuation : CancelAndWait(k)) \/ CancelStep
  PROVE  JobIInv'
<1> USE DEF JobIInv, JobTypeOK, ExactlyOnce, BorrowedRequest, NoLostWakeup,
            NoOrphanWorker, SlotRequest, Executing, flagVars, workVars, histVars,
            EmuPc, Continuation
<1>1. CASE \E k \in Continuation : CancelAndWait(k)
  BY <1>1 DEF CancelAndWait
<1>2. CASE CancelTest
  BY <1>2 DEF CancelTest
<1>3. CASE CancelHttp
  BY <1>3 DEF CancelHttp
<1>4. CASE CancelRetest
  BY <1>4 DEF CancelRetest
<1>5. CASE CancelWake
  BY <1>5 DEF CancelWake
<1> QED
  BY <1>1, <1>2, <1>3, <1>4, <1>5 DEF CancelStep

LEMMA ShutdownKeeps ==
  ASSUME JobIInv, ShutdownStep
  PROVE  JobIInv'
<1> USE DEF JobIInv, JobTypeOK, ExactlyOnce, BorrowedRequest, NoLostWakeup,
            NoOrphanWorker, SlotRequest, Executing, flagVars, workVars, histVars,
            EmuPc
<1>1. CASE StopFlags
  <2>1. 0 \in 0 .. JobCount
    BY JobAssumption
  <2> QED
    BY <1>1, <2>1, BroadcastType DEF StopFlags
<1>2. CASE Join
  <2>1. nextJoin \in Channel /\ nextJoin + 1 \in 0 .. JobCount
    BY <1>2, JobAssumption DEF Join, Channel
  <2>2. epc' = "join"
    BY <1>2 DEF Join, ZeroSlot
  <2>3. JobTypeOK'
    BY <1>2, <2>1 DEF Join, ZeroSlot, WorkerPc
  <2>4. \A c \in Channel \ {nextJoin} : wpc'[c] = wpc[c] /\ request'[c] = request[c]
    BY <1>2, <2>1 DEF Join, ZeroSlot
  <2>5. wpc'[nextJoin] = "none" /\ nextJoin \notin running'
    BY <1>2, <2>1 DEF Join, ZeroSlot
  <2> QED
    BY <1>2, <2>1, <2>2, <2>3, <2>4, <2>5 DEF Join, ZeroSlot
<1>3. CASE JoinDone
  BY <1>3 DEF JoinDone
<1> QED
  BY <1>1, <1>2, <1>3 DEF ShutdownStep

LEMMA JobNextIInv == JobIInv /\ [JobNext]_jobVars => JobIInv'
<1> SUFFICES ASSUME JobIInv, [JobNext]_jobVars PROVE JobIInv'
  OBVIOUS
<1>1. CASE UNCHANGED jobVars
  BY <1>1 DEF jobVars, flagVars, workVars, emuVars, histVars, JobIInv, JobTypeOK,
     ExactlyOnce, BorrowedRequest, NoLostWakeup, NoOrphanWorker, SlotRequest, Executing
<1>2. CASE JobNext
  BY <1>1, <1>2, WorkerStep, ClientStep, CancelKeeps, ShutdownKeeps
     DEF JobNext, CancelStep, ShutdownStep, Ended
<1> QED
  BY <1>1, <1>2

THEOREM JobInvariance == JobSpec => []JobIInv
  BY JobInitIInv, JobNextIInv, PTL DEF JobSpec

\* The job slots and the threads around them keep their types.
THEOREM JobTypeCorrect == JobSpec => []JobTypeOK
<1>1. JobIInv => JobTypeOK
  BY DEF JobIInv
<1> QED
  BY <1>1, JobInvariance, PTL

\* controller_job_poll reports every accepted job once, whatever the order in
\* which workers finish and the emulation thread starts, polls and resets.
THEOREM JobExactlyOnce == JobSpec => []ExactlyOnce
<1>1. JobIInv => ExactlyOnce
  BY DEF JobIInv
<1> QED
  BY <1>1, JobInvariance, PTL

\* A worker executes the request that was submitted, and its slot is not
\* reused while it does.
THEOREM JobBorrowedRequest == JobSpec => []BorrowedRequest
<1>1. JobIInv => BorrowedRequest
  BY DEF JobIInv
<1> QED
  BY <1>1, JobInvariance, PTL

\* No worker sleeps through a submitted job or a stop request.
THEOREM JobNoLostWakeup == JobSpec => []NoLostWakeup
<1>1. JobIInv => NoLostWakeup
  BY DEF JobIInv
<1> QED
  BY <1>1, JobInvariance, PTL

\* A slot is zeroed, and may be given a new worker, only after its thread was
\* joined.
THEOREM JobNoOrphanWorker == JobSpec => []NoOrphanWorker
<1>1. JobIInv => NoOrphanWorker
  BY DEF JobIInv
<1> QED
  BY <1>1, JobInvariance, PTL

\* When controller_job_cancel_and_wait returns, no worker executes anything.
THEOREM JobQuietAfterCancel == JobSpec => QuietAfterCancel
<1>1. ASSUME JobIInv, [JobNext]_jobVars, InCancel(epc), ~InCancel(epc')
      PROVE  /\ running' = {}
             /\ \A c \in Channel : wpc'[c] \notin {"picked", "exec", "transfer"}
  <2>1. CancelTest
    BY <1>1 DEF JobNext, jobVars, InCancel, Worker, WorkerCheck, WorkerExecute,
       TransferOpen, TransferEnd, TransferAbort, WorkerFinish, ClientStart, ClientPoll,
       controller_job_start, controller_job_poll, CancelAndWait, CancelHttp,
       CancelRetest, CancelWake, StopFlags, Join, JoinDone, Ended, emuVars
  <2>2. running = {} /\ running' = running /\ wpc' = wpc
    BY <2>1, <1>1 DEF CancelTest, any_running, InCancel, flagVars, workVars
  <2> QED
    BY <2>2, <1>1 DEF JobIInv, BorrowedRequest
<1>2. JobIInv /\ [JobNext]_jobVars
        => [ (InCancel(epc) /\ ~InCancel(epc'))
               => /\ running' = {}
                  /\ \A c \in Channel : wpc'[c] \notin {"picked", "exec", "transfer"} ]_jobVars
  BY <1>1
<1> QED
  BY <1>2, JobInvariance, PTL DEF JobSpec, QuietAfterCancel

-----------------------------------------------------------------------------
(***************************************************************************)
(* The mailboxes.                                                          *)
(***************************************************************************)

StartsBounded == \A c \in Channel : starts[c] <= MaxStarts

\* The emulation thread is inside an access only while it is in no other call.
Accessing == cpc \in {"poll_background", "poll_0", "poll_1", "access"}
OneCall ==
  /\ Accessing => epc = "run"
  /\ cpc \in {"reset_0", "reset_1"} =>
       (InCancel(epc) /\ cont = "run") \/ (epc = "run" /\ running = {})

\* The body of a request runs in its worker, with its lock, on the message
\* that is still pending.
BodyInWorker ==
  \A m \in Mailbox :
    /\ body[m] # "entry" => wpc[m] = "exec"
    /\ body[m] = "inside" =>
         /\ \A l \in LocksOf(req[m].command) : lock[l] = {m}
         /\ req[m].command = "message" => seen[m] = message

\* A guest that waits does not touch a mailbox with a job in it, which shows
\* the status of that job until its answer is published.
GuestHeld ==
  GuestWaits =>
    /\ \A m \in Mailbox :
         /\ Occupied(m) => m \in waiting /\ status[m] = "IN_PROGRESS"
         /\ body[m] = "done" \/ m \in completed =>
              req[m].ws = [tag |-> "out", job |-> starts[m]]
    /\ Accessing /\ acc.kind # "read_status" => acc.channel \notin waiting

MailboxIInv ==
  /\ JobIInv
  /\ ControllerTypeOK
  /\ StartsBounded
  /\ OneCall
  /\ BodyInWorker
  /\ MessageOnce
  /\ GuestHeld

LEMMA Channels ==
  /\ Channel = {0, 1, 2} /\ Mailbox \subseteq Channel
  /\ Background \in Channel /\ Background \notin Mailbox
  BY ControllerAssumption DEF Channel, Mailbox, Background

LEMMA CommandTypes ==
  /\ AnyCommand \in Command /\ GuestCommands \subseteq Command
  /\ NoAccess \in [kind : Access, channel : Mailbox, command : Command]
<1>1. AnyCommand \in GuestCommands
  BY ControllerAssumption DEF AnyCommand
<1> QED
  BY <1>1, ControllerAssumption DEF NoAccess, Access, Mailbox, Command

LEMMA MailboxInit == Init => MailboxIInv
<1> SUFFICES ASSUME Init PROVE MailboxIInv
  OBVIOUS
<1>1. JobIInv
  BY JobInitIInv DEF Init
<1>2. [tag |-> "in", job |-> 0] \in Workspace
  BY JobAssumption DEF Workspace
<1>3. ControllerTypeOK
  <2>1. req \in [Mailbox -> Request]
    BY <1>2 DEF Init, Request, Command, Status
  <2>2. 0 \in 0 .. MaxResets
    BY ControllerAssumption
  <2> QED
    BY <1>1, <1>2, <2>1, <2>2, CommandTypes DEF Init, ControllerTypeOK, JobIInv, Status
<1>4. StartsBounded
  BY JobAssumption DEF Init, JobInit, StartsBounded
<1>5. OneCall /\ BodyInWorker /\ MessageOnce
  BY DEF Init, OneCall, Accessing, BodyInWorker, MessageOnce
<1>6. GuestHeld
  BY Channels DEF Init, JobInit, GuestHeld, Accessing, Occupied
<1> QED
  BY <1>1, <1>3, <1>4, <1>5, <1>6 DEF MailboxIInv

(***************************************************************************)
(* The job slots: every step of the composition is one of their own, save  *)
(* Publish, which collects a job and may submit another in one access.     *)
(***************************************************************************)
LEMMA PublishSlots ==
  ASSUME JobIInv, epc = "run", NEW m \in Mailbox, Publish(m)
  PROVE  JobIInv'
<1>1. m \in Channel /\ Background \in Channel /\ m # Background
  BY Channels DEF Mailbox, Background
<1> USE DEF JobIInv, JobTypeOK, ExactlyOnce, BorrowedRequest, NoLostWakeup,
            NoOrphanWorker, SlotRequest, Executing, emuVars
<1>2. CASE ~Occupied(Background) /\ FillSlot(Background)
  BY <1>1, <1>2, BroadcastType DEF Publish, CollectSlot, FillSlot, Occupied, WorkerPc
<1>3. CASE UNCHANGED <<created, request, running, wpc, starts>>
  BY <1>1, <1>3 DEF Publish, CollectSlot
<1> QED
  BY <1>2, <1>3 DEF Publish, StartBackground

LEMMA SlotsKept ==
  ASSUME MailboxIInv, [Next]_vars
  PROVE  JobIInv'
<1>1. JobIInv /\ OneCall
  BY DEF MailboxIInv
<1>2. CASE [JobNext]_jobVars
  BY <1>1, <1>2, JobNextIInv
<1>3. ASSUME NEW m \in Mailbox, Publish(m)
      PROVE  JobIInv'
  <2>1. epc = "run"
    BY <1>1, <1>3 DEF Publish, PollPc, OneCall, Accessing
  <2> QED
    BY <1>1, <1>3, <2>1, PublishSlots
<1>4. [JobNext]_jobVars \/ \E m \in Mailbox : Publish(m)
  <2>1. Background \in Channel /\ \A m \in Mailbox : m \in Channel
    BY Channels
  <2>2. CASE UNCHANGED jobVars
    BY <2>2
  <2>3. CASE \E c \in Channel : WorkerLoop(c)
    BY <2>3 DEF WorkerLoop, JobNext, Worker
  <2>4. CASE BackgroundFinish \/ \E m \in Mailbox : MailboxFinish(m)
    BY <2>1, <2>4 DEF BackgroundFinish, MailboxFinish, JobNext, Worker
  <2>5. CASE PollBackground \/ \E m \in Mailbox : ResetPoll(m)
    BY <1>1, <2>1, <2>5
       DEF PollBackground, ResetPoll, JobNext, ClientPoll, OneCall, Accessing
  <2>6. CASE SubmitCommand
    <3>1. acc.channel \in Channel /\ epc = "run"
      BY <1>1, <2>1, <2>6 DEF SubmitCommand, MailboxIInv, ControllerTypeOK, OneCall, Accessing
    <3> QED
      BY <2>6, <3>1 DEF SubmitCommand, JobNext, ClientStart
  <2>7. CASE Reset \/ (\E k \in Continuation : Quiesce(k)) \/ EmuCall
    BY <2>7 DEF Reset, Quiesce, EmuCall, JobNext, Continuation, CancelStep, ShutdownStep
  <2>8. CASE \/ \E m \in Mailbox : BodyEnter(m) \/ BodyLeave(m) \/ PollNothing(m)
             \/ ReadStatus \/ IgnoreWrite \/ StoreByte \/ RefuseCommand \/ MailboxEnded
             \/ \E kind \in Access, m \in GuestMailboxes, cmd \in GuestCommands :
                  BeginAccess(kind, m, cmd)
    BY <2>8 DEF BodyEnter, BodyLeave, PollNothing, ReadStatus, IgnoreWrite, StoreByte,
       RefuseCommand, MailboxEnded, BeginAccess, vars
  <2> QED
    BY <2>2, <2>3, <2>4, <2>5, <2>6, <2>7, <2>8 DEF Next, vars
<1> QED
  BY <1>2, <1>3, <1>4

(***************************************************************************)
(* The rest of the invariant, group of actions by group of actions.        *)
(***************************************************************************)
MailboxState == ControllerTypeOK /\ StartsBounded /\ OneCall /\ BodyInWorker
                /\ MessageOnce /\ GuestHeld

LEMMA BodyTypes ==
  ASSUME ControllerTypeOK, StartsBounded, BorrowedRequest, NEW m \in Mailbox, wpc[m] = "exec"
  PROVE  /\ wreq[m] = starts[m] /\ starts[m] \in 0 .. MaxStarts + 1
         /\ [tag |-> "out", job |-> wreq[m]] \in Workspace
<1>1. m \in Channel
  BY Channels
<1>2. wreq[m] = starts[m] /\ starts[m] \in Nat /\ starts[m] <= MaxStarts
  BY <1>1 DEF ControllerTypeOK, JobTypeOK, StartsBounded, BorrowedRequest, Executing
<1> QED
  BY <1>2, JobAssumption DEF Workspace

LEMMA EnterKeeps ==
  ASSUME MailboxIInv, JobIInv', NEW m \in Mailbox, BodyEnter(m)
  PROVE  MailboxState'
<1> USE DEF MailboxIInv
<1>1. ControllerTypeOK'
  BY DEF BodyEnter, ControllerTypeOK, JobIInv, regVars, accVars
<1>2. StartsBounded' /\ OneCall' /\ MessageOnce'
  BY DEF BodyEnter, StartsBounded, OneCall, Accessing, MessageOnce, jobVars, histVars,
     emuVars, flagVars, accVars
<1>3. BodyInWorker'
  <2>1. wpc' = wpc /\ req' = req /\ message' = message
    BY DEF BodyEnter, jobVars, workVars, regVars
  <2>2. ASSUME NEW n \in Mailbox, n # m, body[n] = "inside"
        PROVE  \A l \in LocksOf(req[n].command) : lock'[l] = {n}
    <3>1. \A l \in LocksOf(req[n].command) : l \in {"state", "engine"} /\ lock[l] = {n}
      BY <2>2 DEF BodyInWorker, LocksOf
    <3> QED
      BY <3>1 DEF BodyEnter, ControllerTypeOK
  <2>3. \A l \in LocksOf(req[m].command) : lock'[l] = {m}
    BY DEF BodyEnter, ControllerTypeOK, LocksOf
  <2> QED
    BY <2>1, <2>2, <2>3 DEF BodyInWorker, BodyEnter, ControllerTypeOK
<1>4. GuestHeld'
  BY DEF BodyEnter, GuestHeld, ControllerTypeOK, Accessing, Occupied, jobVars, flagVars,
     histVars, regVars, accVars
<1> QED
  BY <1>1, <1>2, <1>3, <1>4 DEF MailboxState

LEMMA LeaveKeeps ==
  ASSUME MailboxIInv, JobIInv', NEW m \in Mailbox, BodyLeave(m)
  PROVE  MailboxState'
<1> USE DEF MailboxIInv
<1>1. wpc[m] = "exec" /\ wreq[m] = starts[m]
      /\ [tag |-> "out", job |-> wreq[m]] \in Workspace
  BY BodyTypes DEF BodyLeave, BodyInWorker, JobIInv
<1>2. PICK result \in {"SUCCESS", "ERROR"} :
        req' = [req EXCEPT ![m] = [ws |-> [tag |-> "out", job |-> wreq[m]],
                                   command |-> @.command, status |-> result]]
  BY DEF BodyLeave
<1>3. /\ req'[m].ws = [tag |-> "out", job |-> wreq[m]]
      /\ req'[m].command = req[m].command
      /\ \A n \in Mailbox : n # m => req'[n] = req[n]
      /\ req' \in [Mailbox -> Request]
  BY <1>1, <1>2 DEF ControllerTypeOK, Request, Status
<1>4. /\ UNCHANGED <<jobVars, ws, status, seen, accVars>>
      /\ body[m] = "inside" /\ body' = [body EXCEPT ![m] = "done"]
      /\ lock' = [l \in DOMAIN lock |-> lock[l] \ {m}]
      /\ req[m].command # "message" => UNCHANGED <<delivered, message>>
  BY DEF BodyLeave
<1>5. req[m].command = "message" =>
        /\ seen[m] = message /\ delivered' = delivered + message /\ message' = 0
        /\ \A n \in Mailbox : n # m => ~(body[n] = "inside" /\ req[n].command = "message")
  BY DEF BodyLeave, BodyInWorker, LocksOf, ControllerTypeOK
<1>6. ControllerTypeOK'
  BY <1>3, <1>5 DEF BodyLeave, ControllerTypeOK, JobIInv, accVars
<1>7. StartsBounded' /\ OneCall'
  BY DEF BodyLeave, StartsBounded, OneCall, Accessing, jobVars, histVars, emuVars,
     flagVars, accVars
<1>8. MessageOnce'
  BY <1>5 DEF BodyLeave, MessageOnce, ControllerTypeOK
<1>9. BodyInWorker'
  <2>1. ASSUME NEW n \in Mailbox, n # m, body[n] = "inside"
        PROVE  \A l \in LocksOf(req[n].command) : lock'[l] = {n}
    <3>1. \A l \in LocksOf(req[n].command) : l \in {"state", "engine"} /\ lock[l] = {n}
      BY <2>1 DEF BodyInWorker, LocksOf
    <3> QED
      BY <2>1, <3>1 DEF BodyLeave, ControllerTypeOK
  <2>2. wpc' = wpc /\ body'[m] = "done" /\ \A n \in Mailbox \ {m} : body'[n] = body[n]
    BY <1>4 DEF ControllerTypeOK, jobVars, workVars
  <2>3. ASSUME NEW n \in Mailbox, body'[n] = "inside"
        PROVE  /\ \A l \in LocksOf(req'[n].command) : lock'[l] = {n}
               /\ req'[n].command = "message" => seen'[n] = message'
    <3>1. n # m /\ body[n] = "inside" /\ req'[n] = req[n]
      BY <1>3, <2>2, <2>3
    <3>2. req'[n].command = "message" => seen'[n] = message'
      BY <1>4, <1>5, <3>1 DEF BodyInWorker
    <3> QED
      BY <2>1, <3>1, <3>2
  <2>4. \A n \in Mailbox : body'[n] # "entry" => wpc'[n] = "exec"
    BY <1>1, <2>2 DEF BodyInWorker
  <2> QED
    BY <2>3, <2>4 DEF BodyInWorker, LocksOf
<1>10. GuestHeld'
  <2>1. UNCHANGED <<running, completed, starts, status, waiting, cpc, acc>>
    BY <1>4 DEF jobVars, flagVars, histVars, accVars
  <2>2. \A n \in Mailbox \ {m} : body'[n] = body[n] /\ req'[n] = req[n]
    BY <1>3, <1>4 DEF ControllerTypeOK
  <2>3. req'[m].ws = [tag |-> "out", job |-> starts'[m]]
    BY <1>1, <1>3, <2>1
  <2> QED
    BY <2>1, <2>2, <2>3 DEF GuestHeld, Accessing, Occupied
<1> QED
  BY <1>6, <1>7, <1>8, <1>9, <1>10 DEF MailboxState

LEMMA LoopKeeps ==
  ASSUME MailboxIInv, JobIInv',
         \/ \E c \in Channel : WorkerLoop(c)
         \/ \E m \in Mailbox : MailboxFinish(m)
         \/ BackgroundFinish
  PROVE  MailboxState'
<1> USE DEF MailboxIInv
<1>1. ASSUME NEW c \in Channel, WorkerLoop(c)
      PROVE  MailboxState'
  <2>1. \A d \in Channel : wpc[d] = "exec" => wpc'[d] = "exec"
    BY <1>1 DEF WorkerLoop, WorkerCheck, WorkerExecute, ControllerTypeOK, JobTypeOK
  <2>2. UNCHANGED <<flagVars, emuVars, histVars, regVars, bodyVars, accVars>>
    BY <1>1 DEF WorkerLoop, WorkerCheck, WorkerExecute
  <2> QED
    BY <2>1, <2>2, Channels DEF MailboxState, ControllerTypeOK, StartsBounded, OneCall,
       Accessing, BodyInWorker, MessageOnce, GuestHeld, Occupied, JobIInv, flagVars,
       emuVars, histVars, regVars, bodyVars, accVars
<1>2. ASSUME NEW m \in Mailbox, MailboxFinish(m)
      PROVE  MailboxState'
  <2>1. m \in Channel /\ m \in running
    BY <1>2, Channels DEF MailboxFinish, WorkerFinish, JobIInv, BorrowedRequest
  <2>2. \A d \in Channel : d # m /\ wpc[d] = "exec" => wpc'[d] = "exec"
    BY <1>2, <2>1, BroadcastType DEF MailboxFinish, WorkerFinish, ControllerTypeOK, JobTypeOK
  <2>3. UNCHANGED <<created, stopping, emuVars, starts, regVars, lock, message, delivered, accVars>>
    BY <1>2 DEF MailboxFinish, WorkerFinish
  <2>4. body' = [body EXCEPT ![m] = "entry"] /\ seen' = [seen EXCEPT ![m] = 0]
        /\ body[m] = "done" /\ running' = running \ {m} /\ completed' = completed \cup {m}
    BY <1>2 DEF MailboxFinish, WorkerFinish
  <2>5. ControllerTypeOK' /\ StartsBounded' /\ MessageOnce'
    BY <2>3, <2>4 DEF ControllerTypeOK, StartsBounded, MessageOnce, JobIInv, regVars, accVars
  <2>6. OneCall'
    BY <2>1, <2>3, <2>4 DEF OneCall, Accessing, emuVars, accVars
  <2>7. BodyInWorker'
    BY <2>2, <2>3, <2>4, Channels DEF BodyInWorker, ControllerTypeOK, regVars
  <2>8. GuestHeld'
    BY <2>1, <2>3, <2>4 DEF GuestHeld, ControllerTypeOK, Accessing, Occupied, regVars, accVars
  <2> QED
    BY <2>5, <2>6, <2>7, <2>8 DEF MailboxState
<1>3. CASE BackgroundFinish
  <2>1. Background \in Channel /\ Background \notin Mailbox /\ Background \in running
    BY <1>3, Channels DEF BackgroundFinish, WorkerFinish, JobIInv, BorrowedRequest
  <2>2. \A d \in Channel : d # Background /\ wpc[d] = "exec" => wpc'[d] = "exec"
    BY <1>3, <2>1, BroadcastType DEF BackgroundFinish, WorkerFinish, ControllerTypeOK, JobTypeOK
  <2>3. /\ UNCHANGED <<created, stopping, emuVars, starts, regVars, bodyVars, accVars>>
        /\ running' = running \ {Background} /\ completed' = completed \cup {Background}
    BY <1>3 DEF BackgroundFinish, WorkerFinish
  <2> QED
    BY <2>1, <2>2, <2>3, Channels DEF MailboxState, ControllerTypeOK, StartsBounded, OneCall,
       Accessing, BodyInWorker, MessageOnce, GuestHeld, Occupied, JobIInv, emuVars,
       regVars, bodyVars, accVars
<1> QED
  BY <1>1, <1>2, <1>3

\* What steps of the emulation thread that leave requests and bodies alone
\* must still show: workers that execute go on executing.
LEMMA BodiesStay ==
  ASSUME BodyInWorker, ControllerTypeOK,
         \A c \in Channel : wpc[c] = "exec" => wpc'[c] = "exec",
         UNCHANGED <<req, bodyVars>>
  PROVE  BodyInWorker'
<1>1. \A n \in Mailbox : body'[n] # "entry" => wpc'[n] = "exec"
  BY Channels DEF BodyInWorker, bodyVars
<1> QED
  BY <1>1 DEF BodyInWorker, LocksOf, bodyVars

LEMMA PollKeeps ==
  ASSUME MailboxIInv, JobIInv',
         \/ \E kind \in Access, m \in GuestMailboxes, cmd \in GuestCommands :
              BeginAccess(kind, m, cmd)
         \/ PollBackground
         \/ \E m \in Mailbox : PollNothing(m)
  PROVE  MailboxState'
<1> USE DEF MailboxIInv
<1>1. wpc' = wpc /\ UNCHANGED <<req, bodyVars>>
  BY DEF BeginAccess, PollBackground, PollNothing, controller_job_poll, jobVars, workVars, regVars
<1>2. BodyInWorker'
  BY <1>1, BodiesStay
<1>3. MessageOnce'
  BY <1>1 DEF MessageOnce, bodyVars
<1>4. ASSUME NEW kind \in Access, NEW m \in GuestMailboxes, NEW cmd \in GuestCommands,
             BeginAccess(kind, m, cmd)
      PROVE  MailboxState'
  <2>1. m \in Mailbox /\ cmd \in Command
    BY CommandTypes, ControllerAssumption DEF Mailbox
  <2>2. acc' = [kind |-> kind, channel |-> m, command |-> cmd]
        /\ UNCHANGED <<jobVars, regVars, bodyVars, waiting, resets>>
        /\ epc = "run" /\ cpc' = "poll_background"
        /\ (GuestWaits /\ kind # "read_status" => m \notin waiting)
    BY <1>4 DEF BeginAccess
  <2>3. ControllerTypeOK' /\ StartsBounded' /\ OneCall'
    BY <2>1, <2>2 DEF ControllerTypeOK, StartsBounded, OneCall, Accessing, JobIInv,
       jobVars, histVars, emuVars, regVars, bodyVars
  <2>4. GuestHeld'
    BY <2>2 DEF GuestHeld, Accessing, Occupied, jobVars, flagVars, histVars, regVars, bodyVars
  <2> QED
    BY <1>2, <1>3, <2>3, <2>4 DEF MailboxState
<1>5. CASE PollBackground
  <2>1. /\ cpc = "poll_background" /\ cpc' = "poll_0"
        /\ UNCHANGED <<running, starts, epc, cont, regVars, bodyVars, acc, waiting, resets>>
        /\ completed' = completed \ {Background}
    BY <1>5 DEF PollBackground, controller_job_poll, CollectSlot, emuVars
  <2>2. ControllerTypeOK' /\ StartsBounded' /\ OneCall'
    BY <2>1 DEF ControllerTypeOK, StartsBounded, OneCall, Accessing, JobIInv, regVars, bodyVars
  <2>3. GuestHeld'
    BY <2>1 DEF GuestHeld, Accessing, Occupied, regVars, bodyVars
  <2> QED
    BY <1>2, <1>3, <2>2, <2>3 DEF MailboxState
<1>6. ASSUME NEW m \in Mailbox, PollNothing(m)
      PROVE  MailboxState'
  <2>1. /\ Accessing /\ cpc' \in {"poll_1", "access"}
        /\ UNCHANGED <<jobVars, regVars, bodyVars, acc, waiting, resets>>
    BY <1>6 DEF PollNothing, PollPc, Accessing
  <2>2. ControllerTypeOK' /\ StartsBounded' /\ OneCall'
    BY <2>1 DEF ControllerTypeOK, StartsBounded, OneCall, Accessing, JobIInv, jobVars,
       histVars, emuVars, regVars, bodyVars
  <2>3. GuestHeld'
    BY <2>1 DEF GuestHeld, Accessing, Occupied, jobVars, flagVars, histVars, regVars, bodyVars
  <2> QED
    BY <1>2, <1>3, <2>2, <2>3 DEF MailboxState
<1> QED
  BY <1>4, <1>5, <1>6

LEMMA PublishKeeps ==
  ASSUME MailboxIInv, JobIInv', NEW m \in Mailbox, Publish(m)
  PROVE  MailboxState'
<1> USE DEF MailboxIInv
<1>1. /\ Accessing /\ cpc' \in {"poll_1", "access"} /\ epc = "run"
      /\ UNCHANGED <<emuVars, req, bodyVars, acc, waiting, resets>>
      /\ ws' = [ws EXCEPT ![m] = req[m].ws]
      /\ status' = [status EXCEPT ![m] = req[m].status]
      /\ connected' = connected \ {m}
      /\ completed' = completed \ {m}
  BY DEF Publish, CollectSlot, PollPc, Accessing, OneCall
<1>2. /\ \A c \in Channel : wpc[c] = "exec" => wpc'[c] = "exec"
      /\ \A c \in Channel : starts'[c] = starts[c] \/ (c = Background /\ starts'[c] <= MaxStarts)
      /\ running' \subseteq running \cup {Background}
  <2>1. CASE FillSlot(Background) /\ starts[Background] < MaxStarts
    <3>1. Background \in Channel /\ starts[Background] \in Nat
      BY Channels DEF ControllerTypeOK, JobTypeOK
    <3>2. starts[Background] + 1 <= MaxStarts
      BY <2>1, <3>1, JobAssumption
    <3>3. FillSlot(Background)
      BY <2>1
    <3>4. \A c \in Channel : wpc[c] = "exec" => wpc'[c] = "exec"
      BY <3>1, <3>3, BroadcastType DEF FillSlot, ControllerTypeOK, JobTypeOK, JobIInv,
         NoOrphanWorker
    <3> QED
      BY <3>1, <3>2, <3>3, <3>4 DEF FillSlot, ControllerTypeOK, JobTypeOK
  <2>2. CASE UNCHANGED <<created, request, running, wpc, starts>>
    BY <2>2 DEF StartsBounded
  <2> QED
    BY <2>1, <2>2 DEF Publish, StartBackground
<1>3. ControllerTypeOK'
  <2>1. req[m].ws \in Workspace /\ req[m].status \in Status
    BY DEF ControllerTypeOK, Request
  <2> QED
    BY <1>1, <2>1 DEF ControllerTypeOK, JobIInv, bodyVars
<1>4. StartsBounded' /\ OneCall' /\ MessageOnce'
  BY <1>1, <1>2 DEF StartsBounded, OneCall, Accessing, MessageOnce, emuVars, bodyVars
<1>5. BodyInWorker'
  BY <1>1, <1>2, BodiesStay
<1>6. GuestHeld'
  <2>1. \A n \in Mailbox : starts'[n] = starts[n] /\ (n \in running' => n \in running)
    BY <1>2, Channels
  <2>2. m \notin running
    BY <1>1, Channels DEF Publish, JobIInv, ExactlyOnce
  <2>3. \A n \in Mailbox : n \in running' \/ n \in completed' =>
          Occupied(n) /\ status'[n] = status[n]
    BY <1>1, <2>1, <2>2 DEF Occupied, ControllerTypeOK
  <2>4. UNCHANGED <<req, body, acc, waiting>> /\ completed' \subseteq completed
    BY <1>1 DEF bodyVars
  <2> QED
    BY <1>1, <2>1, <2>3, <2>4 DEF GuestHeld, Accessing, Occupied
<1> QED
  BY <1>3, <1>4, <1>5, <1>6 DEF MailboxState

LEMMA AccessKeeps ==
  ASSUME MailboxIInv, JobIInv', ReadStatus \/ IgnoreWrite \/ StoreByte
  PROVE  MailboxState'
<1> USE DEF MailboxIInv
<1>1. /\ Accessing /\ cpc' = "idle" /\ acc' = NoAccess
      /\ acc.channel \in Mailbox
      /\ UNCHANGED <<jobVars, req, connected, bodyVars, resets>>
  BY DEF ReadStatus, IgnoreWrite, StoreByte, EndAccess, Accessing, regVars, ControllerTypeOK
<1>2. BodyInWorker' /\ MessageOnce' /\ StartsBounded' /\ OneCall'
  <2>1. BodyInWorker'
    BY <1>1, BodiesStay DEF jobVars, workVars
  <2> QED
    BY <1>1, <2>1 DEF MessageOnce, StartsBounded, OneCall, Accessing, jobVars, histVars, bodyVars
<1>3. ws' \in [Mailbox -> Workspace]
  <2>1. starts[acc.channel] \in Nat /\ starts[acc.channel] <= MaxStarts
    BY <1>1, Channels DEF StartsBounded, ControllerTypeOK, JobTypeOK
  <2>2. [tag |-> "in", job |-> starts[acc.channel] + 1] \in Workspace
    BY <2>1, JobAssumption DEF Workspace
  <2> QED
    BY <1>1, <2>2 DEF ReadStatus, IgnoreWrite, StoreByte, regVars, ControllerTypeOK
<1>4. ControllerTypeOK'
  <2>1. status' \in [Mailbox -> Status] /\ waiting' \subseteq Mailbox
    BY <1>1 DEF ReadStatus, IgnoreWrite, StoreByte, regVars, ControllerTypeOK, Status
  <2> QED
    BY <1>1, <1>3, <2>1, CommandTypes DEF ControllerTypeOK, JobIInv, bodyVars
<1>5. GuestHeld'
  <2>1. UNCHANGED <<running, completed, starts, body, req>> /\ ~Accessing'
    BY <1>1 DEF jobVars, flagVars, histVars, bodyVars, Accessing
  <2>2. ASSUME GuestWaits, NEW m \in Mailbox, Occupied(m)
        PROVE  m \in waiting' /\ status'[m] = "IN_PROGRESS"
    <3>1. m \in waiting /\ status[m] = "IN_PROGRESS"
      BY <2>2 DEF GuestHeld
    <3>2. acc.kind # "read_status" => acc.channel # m
      BY <1>1, <2>2, <3>1 DEF GuestHeld
    <3> QED
      BY <3>1, <3>2 DEF ReadStatus, IgnoreWrite, StoreByte, regVars, ControllerTypeOK
  <2> QED
    BY <2>1, <2>2 DEF GuestHeld, Occupied
<1> QED
  BY <1>2, <1>4, <1>5 DEF MailboxState

LEMMA CommandKeeps ==
  ASSUME MailboxIInv, JobIInv', SubmitCommand \/ RefuseCommand
  PROVE  MailboxState'
<1> USE DEF MailboxIInv
<1> DEFINE m == acc.channel
<1>1. /\ m \in Mailbox /\ m \in Channel /\ m \notin running
      /\ Accessing /\ cpc' = "idle" /\ acc' = NoAccess /\ acc.kind = "write_command"
      /\ req' = [req EXCEPT ![m] = NewRequest(m)]
      /\ status' = [status EXCEPT ![m] = IF SubmitCommand THEN "IN_PROGRESS" ELSE "ERROR"]
      /\ waiting' = waiting \cup {m}
      /\ UNCHANGED <<ws, connected, bodyVars, resets, completed, epc, cont>>
  <2>1. m \in Mailbox
    BY DEF ControllerTypeOK
  <2>2. CASE SubmitCommand
    BY <2>1, <2>2, Channels DEF SubmitCommand, EndAccess, Accessing, WriteRefused,
       controller_job_start, emuVars
  <2>3. CASE RefuseCommand /\ ~SubmitCommand
    BY <2>1, <2>3, Channels DEF RefuseCommand, EndAccess, Accessing, WriteRefused,
       jobVars, flagVars, emuVars
  <2> QED
    BY <2>2, <2>3
<1>2. body[m] = "entry" /\ NewRequest(m) \in Request
  BY <1>1 DEF BodyInWorker, JobIInv, BorrowedRequest, NewRequest, Request, ControllerTypeOK,
     Status
<1>3. /\ \A c \in Channel : wpc[c] = "exec" => wpc'[c] = "exec"
      /\ \A c \in Channel : starts'[c] <= MaxStarts /\ (c # m => starts'[c] = starts[c])
      /\ running' \subseteq running \cup {m}
  <2>1. CASE SubmitCommand
    <3>1. FillSlot(m) /\ starts[m] < MaxStarts /\ starts[m] \in Nat
      BY <1>1, <2>1 DEF SubmitCommand, controller_job_start, ControllerTypeOK, JobTypeOK
    <3>2. starts[m] + 1 <= MaxStarts
      BY <3>1, JobAssumption
    <3>3. \A c \in Channel : wpc[c] = "exec" => wpc'[c] = "exec"
      BY <1>1, <3>1, BroadcastType DEF FillSlot, ControllerTypeOK, JobTypeOK, JobIInv,
         NoOrphanWorker
    <3> HIDE DEF m
    <3> QED
      BY <1>1, <3>1, <3>2, <3>3 DEF FillSlot, ControllerTypeOK, JobTypeOK, StartsBounded
  <2>2. CASE RefuseCommand
    BY <2>2 DEF RefuseCommand, jobVars, flagVars, workVars, histVars, StartsBounded
  <2> QED
    BY <2>1, <2>2
<1> HIDE DEF m
<1>4. ControllerTypeOK'
  BY <1>1, <1>2, CommandTypes DEF ControllerTypeOK, JobIInv, bodyVars, Status
<1>5. StartsBounded' /\ OneCall' /\ MessageOnce'
  BY <1>1, <1>3 DEF StartsBounded, OneCall, Accessing, MessageOnce, bodyVars
<1>6. BodyInWorker'
  <2>1. \A n \in Mailbox : body'[n] # "entry" => n # m /\ wpc'[n] = "exec"
    BY <1>1, <1>2, <1>3, Channels DEF BodyInWorker, bodyVars
  <2>2. \A n \in Mailbox : n # m => req'[n] = req[n]
    BY <1>1 DEF ControllerTypeOK
  <2> QED
    BY <1>1, <2>1, <2>2 DEF BodyInWorker, LocksOf, bodyVars
<1>7. GuestHeld'
  <2>1. SUFFICES ASSUME GuestWaits PROVE GuestHeld'
    BY DEF GuestHeld
  <2>2. m \notin waiting /\ ~Occupied(m)
    BY <1>1, <2>1 DEF GuestHeld, m
  <2>3. m \in running' => SubmitCommand
    BY <2>2 DEF RefuseCommand, jobVars, flagVars, m, Occupied
  <2>4. \A n \in Mailbox : n # m => req'[n] = req[n] /\ status'[n] = status[n]
                                     /\ starts'[n] = starts[n] /\ (n \in running' => n \in running)
    BY <1>1, <1>3, Channels DEF ControllerTypeOK
  <2>5. body'[m] = "entry" /\ m \notin completed' /\ m \in waiting'
        /\ (m \in running' => status'[m] = "IN_PROGRESS")
    BY <1>1, <1>2, <2>2, <2>3 DEF bodyVars, Occupied, ControllerTypeOK
  <2>6. ~Accessing' /\ completed' = completed /\ body' = body /\ waiting \subseteq waiting'
    BY <1>1 DEF Accessing, bodyVars
  <2> QED
    BY <2>1, <2>4, <2>5, <2>6 DEF GuestHeld, Occupied
<1> QED
  BY <1>4, <1>5, <1>6, <1>7 DEF MailboxState

LEMMA ResetKeeps ==
  ASSUME MailboxIInv, JobIInv',
         \/ Reset \/ (\E k \in Continuation : Quiesce(k))
         \/ (\E m \in Mailbox : ResetPoll(m))
  PROVE  MailboxState'
<1> USE DEF MailboxIInv
<1>1. wpc' = wpc /\ UNCHANGED <<running, starts, ws, status, req, connected, bodyVars, acc>>
  BY DEF Reset, Quiesce, ResetPoll, CancelAndWait, controller_job_poll, workVars, histVars,
     flagVars, regVars
<1>2. BodyInWorker' /\ MessageOnce' /\ StartsBounded'
  <2>1. BodyInWorker'
    BY <1>1, BodiesStay
  <2> QED
    BY <1>1, <2>1 DEF MessageOnce, StartsBounded, bodyVars
<1>3. CASE Reset \/ \E k \in Continuation : Quiesce(k)
  <2>1. /\ completed' = completed /\ waiting' = waiting /\ resets' = resets + 1
        /\ resets < MaxResets /\ epc' = "cancel_test" /\ cpc = "idle"
        /\ (cpc' = "reset_0" /\ cont' = "run") \/ cpc' = "idle"
    BY <1>3 DEF Reset, Quiesce, CancelAndWait, flagVars
  <2>2. resets' \in 0 .. MaxResets
    BY <2>1, ControllerAssumption DEF ControllerTypeOK
  <2>3. ControllerTypeOK'
    BY <1>1, <2>1, <2>2 DEF ControllerTypeOK, JobIInv, bodyVars
  <2>4. OneCall' /\ GuestHeld'
    BY <1>1, <2>1 DEF OneCall, GuestHeld, Accessing, Occupied, InCancel, bodyVars
  <2> QED
    BY <1>2, <2>3, <2>4 DEF MailboxState
<1>4. ASSUME NEW m \in Mailbox, ResetPoll(m)
      PROVE  MailboxState'
  <2>1. /\ completed' = completed \ {m} /\ waiting' = waiting \ {m} /\ resets' = resets
        /\ epc = "run" /\ epc' = epc /\ cont' = cont
        /\ cpc \in {"reset_0", "reset_1"} /\ cpc' \in {"reset_1", "idle"}
    BY <1>4 DEF ResetPoll, controller_job_poll, CollectSlot, emuVars
  <2>2. running = {}
    BY <2>1 DEF OneCall, InCancel
  <2>3. ControllerTypeOK'
    BY <1>1, <2>1 DEF ControllerTypeOK, JobIInv, bodyVars
  <2>4. OneCall' /\ GuestHeld'
    BY <1>1, <2>1, <2>2 DEF OneCall, GuestHeld, Accessing, Occupied, bodyVars
  <2> QED
    BY <1>2, <2>3, <2>4 DEF MailboxState
<1> QED
  BY <1>3, <1>4

LEMMA CallKeeps ==
  ASSUME MailboxIInv, JobIInv', EmuCall \/ MailboxEnded \/ UNCHANGED vars
  PROVE  MailboxState'
<1> USE DEF MailboxIInv
<1>1. CASE EmuCall
  <2>1. UNCHANGED <<starts, cont, regVars, bodyVars, accVars>>
    BY <1>1 DEF EmuCall, CancelStep, ShutdownStep, CancelTest, CancelHttp, CancelRetest,
       CancelWake, StopFlags, Join, ZeroSlot, JoinDone, histVars
  <2>2. running' \subseteq running /\ completed' \subseteq completed
    BY <1>1 DEF EmuCall, CancelStep, ShutdownStep, CancelTest, CancelHttp, CancelRetest,
       CancelWake, StopFlags, Join, ZeroSlot, JoinDone, flagVars
  <2>3. \A c \in Channel : wpc[c] = "exec" => wpc'[c] = "exec"
    <3>1. CASE CancelStep \/ StopFlags \/ JoinDone
      BY <3>1, BroadcastType DEF CancelStep, CancelTest, CancelHttp, CancelRetest,
         CancelWake, StopFlags, JoinDone, workVars, ControllerTypeOK, JobTypeOK
    <3>2. CASE Join
      <4>1. wpc[nextJoin] # "exec" /\ wpc' = [wpc EXCEPT ![nextJoin] = "none"]
        BY <3>2, JobAssumption DEF Join, JobIInv, JobTypeOK, NoOrphanWorker, Channel
      <4> QED
        BY <4>1 DEF ControllerTypeOK, JobTypeOK
    <3> QED
      BY <1>1, <3>1, <3>2 DEF EmuCall, ShutdownStep
  <2>4. BodyInWorker'
    BY <2>1, <2>3, BodiesStay DEF regVars
  <2>5. OneCall'
    <3>1. epc # "run" /\ (InCancel(epc) /\ cont = "run" => InCancel(epc') \/ (epc' = "run" /\ running = {}))
      BY <1>1 DEF EmuCall, CancelStep, ShutdownStep, CancelTest, CancelHttp, CancelRetest,
         CancelWake, StopFlags, Join, JoinDone, InCancel, any_running
    <3> QED
      BY <2>1, <2>2, <3>1 DEF OneCall, Accessing, InCancel, accVars
  <2>6. ControllerTypeOK' /\ StartsBounded' /\ MessageOnce'
    BY <2>1 DEF ControllerTypeOK, StartsBounded, MessageOnce, JobIInv, regVars, bodyVars, accVars
  <2>7. GuestHeld'
    BY <2>1, <2>2 DEF GuestHeld, Accessing, Occupied, regVars, bodyVars, accVars
  <2> QED
    BY <2>4, <2>5, <2>6, <2>7 DEF MailboxState
<1>2. CASE MailboxEnded \/ UNCHANGED vars
  <2>1. UNCHANGED <<wpc, running, completed, starts, epc, cont, regVars, bodyVars, accVars>>
    BY <1>2 DEF MailboxEnded, vars, jobVars, workVars, flagVars, histVars, emuVars
  <2>2. BodyInWorker'
    BY <2>1, BodiesStay DEF regVars
  <2> QED
    BY <2>1, <2>2 DEF MailboxState, ControllerTypeOK, StartsBounded, OneCall, Accessing,
       MessageOnce, GuestHeld, Occupied, JobIInv, InCancel, regVars, bodyVars, accVars
<1> QED
  BY <1>1, <1>2

LEMMA MailboxNext == MailboxIInv /\ [Next]_vars => MailboxIInv'
<1> SUFFICES ASSUME MailboxIInv, [Next]_vars PROVE MailboxIInv'
  OBVIOUS
<1>1. JobIInv'
  BY SlotsKept
<1>2. MailboxState'
  BY <1>1, EnterKeeps, LeaveKeeps, LoopKeeps, PollKeeps, PublishKeeps, AccessKeeps,
     CommandKeeps, ResetKeeps, CallKeeps DEF Next
<1> QED
  BY <1>1, <1>2 DEF MailboxIInv, MailboxState

(***************************************************************************)
(* The theorems.                                                           *)
(***************************************************************************)
THEOREM MailboxInvariance == Spec => []MailboxIInv
  BY MailboxInit, MailboxNext, PTL DEF Spec

\* The mailboxes' registers, requests and the access in progress keep their
\* types, for every number of submissions and resets.
THEOREM MailboxTypeCorrect == Spec => []ControllerTypeOK
<1>1. MailboxIInv => ControllerTypeOK
  BY DEF MailboxIInv
<1> QED
  BY <1>1, MailboxInvariance, PTL

\* state_lock delivers the pending message to one of the workers that ask for
\* it: once, and to nobody twice.
THEOREM MailboxMessageOnce == Spec => []MessageOnce
<1>1. MailboxIInv => MessageOnce
  BY DEF MailboxIInv
<1> QED
  BY <1>1, MailboxInvariance, PTL

\* Composed with the mailboxes, resets and shutdown, the job slots still report
\* every job once.
THEOREM MailboxExactlyOnce == Spec => []ExactlyOnce
<1>1. MailboxIInv => ExactlyOnce
  BY DEF MailboxIInv, JobIInv
<1> QED
  BY <1>1, MailboxInvariance, PTL

\* Whatever the guest writes, and on whichever mailbox, a request changes only
\* before its job is accepted or by the worker that executes it.
THEOREM MailboxWorkerOwnsRequest == Spec => WorkerOwnsRequest
<1>1. ASSUME MailboxIInv, [Next]_vars, NEW m \in Mailbox, m \in running, req'[m] # req[m]
      PROVE  body[m] = "inside"
  <2>1. CASE \E n \in Mailbox : BodyLeave(n)
    BY <1>1, <2>1 DEF BodyLeave, MailboxIInv, ControllerTypeOK
  <2>2. CASE SubmitCommand \/ RefuseCommand
    BY <1>1, <2>2 DEF SubmitCommand, RefuseCommand, WriteRefused, MailboxIInv, ControllerTypeOK
  <2>3. CASE UNCHANGED req
    BY <1>1, <2>3
  <2>4. (\E n \in Mailbox : BodyLeave(n)) \/ SubmitCommand \/ RefuseCommand \/ UNCHANGED req
    BY <1>1 DEF Next, WorkerLoop, BodyEnter, MailboxFinish, BackgroundFinish, BeginAccess,
       PollBackground, PollNothing, Publish, ReadStatus, IgnoreWrite, StoreByte, Reset,
       ResetPoll, Quiesce, EmuCall, MailboxEnded, vars, regVars
  <2> QED
    BY <2>1, <2>2, <2>3, <2>4
<1>2. MailboxIInv /\ [Next]_vars
        => [ \A m \in Mailbox : m \in running /\ req'[m] # req[m] => body[m] = "inside" ]_vars
  BY <1>1
<1> QED
  BY <1>2, MailboxInvariance, PTL DEF Spec, WorkerOwnsRequest

\* What a step may change in the registers, for a guest that waits.
LEMMA RegisterSteps ==
  ASSUME MailboxIInv, [Next]_vars, NEW m \in Mailbox
  PROVE  \/ ws'[m] = ws[m] /\ status'[m] = status[m]
         \/ Publish(m)
         \/ acc.channel = m /\ acc.kind # "read_status" /\ Accessing
<1>1. CASE UNCHANGED <<ws, status>>
  BY <1>1
<1>2. ASSUME NEW n \in Mailbox, Publish(n)
      PROVE  n = m \/ (ws'[m] = ws[m] /\ status'[m] = status[m])
  BY <1>2 DEF Publish, MailboxIInv, ControllerTypeOK
<1>3. CASE StoreByte \/ SubmitCommand \/ RefuseCommand
  BY <1>3 DEF StoreByte, SubmitCommand, RefuseCommand, Accessing, MailboxIInv, ControllerTypeOK
<1>4. \/ UNCHANGED <<ws, status>>
      \/ \E n \in Mailbox : Publish(n)
      \/ StoreByte \/ SubmitCommand \/ RefuseCommand
  BY DEF Next, WorkerLoop, BodyEnter, BodyLeave, MailboxFinish, BackgroundFinish,
     BeginAccess, PollBackground, PollNothing, ReadStatus, IgnoreWrite, Reset,
     ResetPoll, Quiesce, EmuCall, MailboxEnded, vars, regVars
<1> QED
  BY <1>1, <1>2, <1>3, <1>4

\* A guest that waits for its answers never finds its workspace changed while
\* its job is pending or unpublished, except by the publication.
THEOREM MailboxWorkspaceOwned == ASSUME GuestWaits PROVE Spec => WorkspaceOwned
<1>1. ASSUME MailboxIInv, [Next]_vars, NEW m \in Mailbox, Occupied(m), ws'[m] # ws[m]
      PROVE  m \in completed /\ m \notin completed'
  <2>1. m \in waiting /\ ~(acc.channel = m /\ acc.kind # "read_status" /\ Accessing)
    BY <1>1 DEF MailboxIInv, GuestHeld
  <2>2. Publish(m)
    BY <1>1, <2>1, RegisterSteps
  <2> QED
    BY <2>2 DEF Publish, CollectSlot
<1>2. MailboxIInv /\ [Next]_vars
        => [ \A m \in Mailbox :
               Occupied(m) /\ ws'[m] # ws[m] => m \in completed /\ m \notin completed' ]_vars
  BY <1>1
<1> QED
  BY <1>2, MailboxInvariance, PTL DEF Spec, WorkspaceOwned

\* For a guest that waits, a status in progress ends only with the answer to
\* the job it submitted last, whatever the other mailbox, the background job
\* and resets do, or with a command for which there was no worker thread.
THEOREM MailboxFinishedByAnswer == ASSUME GuestWaits PROVE Spec => FinishedByAnswer
<1>1. ASSUME MailboxIInv, [Next]_vars, NEW m \in Mailbox,
             status[m] = "IN_PROGRESS", status'[m] # "IN_PROGRESS"
      PROVE  Answered(m) \/ NeverStarted(m)
  <2>0. CASE RefuseCommand
    <3>1. /\ m = acc.channel /\ status'[m] = "ERROR" /\ MayRefuse(m)
          /\ UNCHANGED <<jobVars, ws>>
      BY <1>1, <2>0 DEF RefuseCommand, MailboxIInv, ControllerTypeOK
    <3>2. ~Occupied(m)
      BY <1>1, <2>0, <3>1 DEF RefuseCommand, MailboxIInv, GuestHeld, Accessing
    <3>3. epc = "run"
      BY <1>1, <2>0 DEF RefuseCommand, MailboxIInv, OneCall, Accessing
    <3>4. collected[m] = starts[m]
      BY <1>1, <3>1, <3>2, <3>3, Channels DEF MailboxIInv, JobIInv, ExactlyOnce, JobTypeOK, Occupied
    <3> QED
      BY <3>1, <3>2, <3>4 DEF NeverStarted, MayRefuse, jobVars, flagVars, histVars
  <2>1. ASSUME ~RefuseCommand PROVE Publish(m)
    <3>2. CASE StoreByte \/ SubmitCommand
      BY <1>1, <3>2 DEF StoreByte, SubmitCommand, MailboxIInv, ControllerTypeOK
    <3>3. ASSUME NEW n \in Mailbox, Publish(n)
          PROVE  n = m
      BY <1>1, <3>3 DEF Publish, MailboxIInv, ControllerTypeOK
    <3>4. \/ UNCHANGED status \/ \E n \in Mailbox : Publish(n)
          \/ StoreByte \/ SubmitCommand \/ RefuseCommand
      BY <1>1 DEF Next, WorkerLoop, BodyEnter, BodyLeave, MailboxFinish, BackgroundFinish,
         BeginAccess, PollBackground, PollNothing, ReadStatus, IgnoreWrite, Reset,
         ResetPoll, Quiesce, EmuCall, MailboxEnded, vars, regVars
    <3> QED
      BY <1>1, <2>1, <3>2, <3>3, <3>4
  <2>2. ASSUME Publish(m)
        PROVE  Answered(m)
    <3>2. /\ m \in completed /\ ws'[m] = req[m].ws
         /\ collected' = [collected EXCEPT ![m] = @ + 1] /\ epc = "run"
      BY <1>1, <2>2 DEF Publish, CollectSlot, PollPc, MailboxIInv, ControllerTypeOK, OneCall,
        Accessing
    <3>3. req[m].ws = [tag |-> "out", job |-> starts[m]]
      BY <1>1, <3>2 DEF MailboxIInv, GuestHeld
    <3>4. collected[m] + 1 = starts[m]
      BY <1>1, <3>2, Channels DEF MailboxIInv, JobIInv, ExactlyOnce, JobTypeOK
    <3> QED
      BY <1>1, <3>2, <3>3, <3>4, Channels DEF MailboxIInv, JobIInv, JobTypeOK, Answered
  <2> QED
    BY <2>0, <2>1, <2>2
<1>2. MailboxIInv /\ [Next]_vars
        => [ \A m \in Mailbox :
               status[m] = "IN_PROGRESS" /\ status'[m] # "IN_PROGRESS"
                 => Answered(m) \/ NeverStarted(m) ]_vars
  BY <1>1
<1> QED
  BY <1>2, MailboxInvariance, PTL DEF Spec, FinishedByAnswer

=============================================================================
