---------------------------- MODULE ControllerJob ----------------------------
(***************************************************************************)
(* The job slots of the Spectranext controller                             *)
(* (peripherals/nic/controller_job.c): persistent worker threads, one per  *)
(* channel, that execute requests for the emulation thread.  Two of them   *)
(* serve the mailboxes and the last one does background housekeeping.      *)
(*                                                                         *)
(* All slots share one mutex and one condition variable "changed".  An     *)
(* action is one critical section, or the code between two of them; the    *)
(* condition variable is explicit (a sleeping worker runs again only after *)
(* a broadcast), so that a lost wakeup would be a behaviour of the model.  *)
(***************************************************************************)
EXTENDS Naturals, FiniteSets

CONSTANTS
  JobCount,      \* CONTROLLER_JOB_COUNT
  MaxStarts,     \* bound: jobs submitted per channel
  MaxTransfers   \* bound: HTTP transfers one job opens

ASSUME JobAssumption ==
  /\ JobCount \in Nat \ {0}
  /\ MaxStarts \in Nat
  /\ MaxTransfers \in Nat

Channel == 0 .. JobCount - 1

WorkerPc == {"none", "check", "asleep", "picked", "exec", "transfer", "exited"}
EmuPc == {"run", "cancel_test", "cancel_http", "cancel_retest", "cancel_sleep",
          "stop_flags", "join", "ended"}
Continuation == {"run", "stop_flags"}

VARIABLES
  created, running, completed, stopping,  \* the channels whose flag is set
  request,    \* channel |-> the request its slot points to (its serial number)
  wpc,        \* channel |-> where its worker thread is
  wreq,       \* channel |-> the request its worker was called with last
  aborted,    \* the channels whose HTTP transfer was told to abort
  transfers,  \* channel |-> transfers opened by the current job
  epc,        \* where the emulation thread is
  cont,       \* where controller_job_cancel_and_wait returns to
  nextJoin,   \* the channel controller_job_shutdown joins next
  starts, finished, collected \* per channel: accepted, executed, polled jobs

flagVars == <<created, running, completed, stopping>>
workVars == <<wpc, wreq, aborted, transfers>>
emuVars  == <<epc, cont, nextJoin>>
histVars == <<starts, finished, collected>>
jobVars  == <<flagVars, request, workVars, emuVars, histVars>>

JobInit ==
  /\ created = {} /\ running = {} /\ completed = {} /\ stopping = {}
  /\ request = [c \in Channel |-> 0]
  /\ wpc = [c \in Channel |-> "none"]
  /\ wreq = [c \in Channel |-> 0]
  /\ aborted = {}
  /\ transfers = [c \in Channel |-> 0]
  /\ epc = "run" /\ cont = "run" /\ nextJoin = 0
  /\ starts = [c \in Channel |-> 0]
  /\ finished = [c \in Channel |-> 0]
  /\ collected = [c \in Channel |-> 0]

-----------------------------------------------------------------------------
(***************************************************************************)
(* pthread_cond_broadcast(&changed) applied to the worker program counters *)
(* pc: every sleeper goes back to test its predicate.  The emulation       *)
(* thread's sleep is timed, so it needs no broadcast to wake up.           *)
(***************************************************************************)
SilentBroadcast(pc) == pc
Broadcast(pc) == [c \in Channel |-> IF pc[c] = "asleep" THEN "check" ELSE pc[c]]

(***************************************************************************)
(* The worker thread.                                                      *)
(***************************************************************************)

\* while (!job->running && !job->stopping) wait; stopping wins over running.
WorkerCheck(c) ==
  /\ wpc[c] = "check"
  /\ wpc' = [wpc EXCEPT ![c] = IF c \in stopping THEN "exited"
                               ELSE IF c \in running THEN "picked"
                               ELSE "asleep"]
  /\ UNCHANGED <<flagVars, request, wreq, aborted, transfers, emuVars, histVars>>

\* job->execute(job->request): the slot is read without the lock.
WorkerExecute(c) ==
  /\ wpc[c] = "picked"
  /\ wpc' = [wpc EXCEPT ![c] = "exec"]
  /\ wreq' = [wreq EXCEPT ![c] = request[c]]
  /\ transfers' = [transfers EXCEPT ![c] = 0]
  /\ UNCHANGED <<flagVars, request, aborted, emuVars, histVars>>

\* The job opens an HTTP transfer (http_downloader_open refuses a second one).
TransferOpen(c) ==
  /\ wpc[c] = "exec"
  /\ transfers[c] < MaxTransfers
  /\ \A d \in Channel : wpc[d] # "transfer"
  /\ wpc' = [wpc EXCEPT ![c] = "transfer"]
  /\ transfers' = [transfers EXCEPT ![c] = @ + 1]
  /\ UNCHANGED <<flagVars, request, wreq, aborted, emuVars, histVars>>

\* The transfer completes by itself.
TransferEnd(c) ==
  /\ wpc[c] = "transfer"
  /\ c \notin aborted
  /\ wpc' = [wpc EXCEPT ![c] = "exec"]
  /\ UNCHANGED <<flagVars, request, wreq, aborted, transfers, emuVars, histVars>>

\* The transfer ends because it was cancelled.
TransferAbort(c) ==
  /\ wpc[c] = "transfer"
  /\ c \in aborted
  /\ wpc' = [wpc EXCEPT ![c] = "exec"]
  /\ aborted' = aborted \ {c}
  /\ UNCHANGED <<flagVars, request, wreq, transfers, emuVars, histVars>>

\* execute() returned: running = false, completed = true, broadcast.
WorkerFinish(c) ==
  /\ wpc[c] = "exec"
  /\ running' = running \ {c}
  /\ completed' = completed \cup {c}
  /\ wpc' = [Broadcast(wpc) EXCEPT ![c] = "check"]
  /\ finished' = [finished EXCEPT ![c] = @ + 1]
  /\ UNCHANGED <<created, stopping, request, wreq, aborted, transfers, emuVars,
                 starts, collected>>

Worker(c) ==
  \/ WorkerCheck(c)
  \/ WorkerExecute(c)
  \/ TransferOpen(c)
  \/ TransferEnd(c)
  \/ TransferAbort(c)
  \/ WorkerFinish(c)

-----------------------------------------------------------------------------
(***************************************************************************)
(* The operations of the emulation thread.                                 *)
(***************************************************************************)

(* Faulty variant: a result that nobody has collected is overlooked.        *)
OccupiedIfRunning(c) == c \in running

\* controller_job_start returns -1 for an occupied or uncollected slot.
Occupied(c) == c \in running \/ c \in completed

\* ... and also when the channel has no worker yet and pthread_create fails;
\* a refusal changes nothing here.
MayRefuse(c) == Occupied(c) \/ c \notin created

\* The slot is filled in and its worker, created on the first job, is told.
FillSlot(c) ==
  /\ created' = created \cup {c}
  /\ request' = [request EXCEPT ![c] = starts[c] + 1]
  /\ running' = running \cup {c}
  /\ wpc' = [Broadcast(wpc) EXCEPT ![c] = IF c \in created THEN Broadcast(wpc)[c]
                                          ELSE "check"]
  /\ starts' = [starts EXCEPT ![c] = @ + 1]

\* The completion flag is collected and cleared.
CollectSlot(c) ==
  /\ completed' = completed \ {c}
  /\ collected' = [collected EXCEPT ![c] = IF c \in completed THEN @ + 1 ELSE @]

\* controller_job_start, accepted.
controller_job_start(c) ==
  /\ ~Occupied(c)
  /\ starts[c] < MaxStarts
  /\ FillSlot(c)
  /\ UNCHANGED <<completed, stopping, wreq, aborted, transfers, emuVars,
                 finished, collected>>

controller_job_poll(c) ==
  /\ CollectSlot(c)
  /\ UNCHANGED <<created, running, stopping, request, workVars, emuVars,
                 starts, finished>>

\* controller_job_cancel_and_wait is called by a reset ("run") or by
\* controller_job_shutdown, which goes on to stop the workers.
CancelAndWait(k) ==
  /\ epc = "run"
  /\ epc' = "cancel_test"
  /\ cont' = k
  /\ UNCHANGED <<flagVars, request, workVars, nextJoin, histVars>>

any_running == running # {}

\* The while (any_running()) test; leaving the loop ends the call.
CancelTest ==
  /\ epc = "cancel_test"
  /\ epc' = IF any_running THEN "cancel_http"
            ELSE cont
  /\ UNCHANGED <<flagVars, request, workVars, cont, nextJoin, histVars>>

\* http_downloader_cancel_all, called without the job lock: it aborts the
\* transfer that is active now and does nothing to one opened later.
CancelHttp ==
  /\ epc = "cancel_http"
  /\ epc' = "cancel_retest"
  /\ aborted' = aborted \cup {c \in Channel : wpc[c] = "transfer"}
  /\ UNCHANGED <<flagVars, request, wpc, wreq, transfers, cont, nextJoin, histVars>>

\* if (any_running()) timedwait(10 ms).
CancelRetest ==
  /\ epc = "cancel_retest"
  /\ epc' = IF any_running THEN "cancel_sleep" ELSE "cancel_test"
  /\ UNCHANGED <<flagVars, request, workVars, cont, nextJoin, histVars>>

(* Faulty variants: one cancellation for the whole wait; no second test.    *)
CancelWakeOnce ==
  /\ epc = "cancel_sleep"
  /\ epc' = IF any_running THEN "cancel_sleep" ELSE "cancel_test"
  /\ UNCHANGED <<flagVars, request, workVars, cont, nextJoin, histVars>>
CancelWakeReturns ==
  /\ epc = "cancel_sleep"
  /\ epc' = cont
  /\ UNCHANGED <<flagVars, request, workVars, cont, nextJoin, histVars>>

\* The timed wait returns, by a broadcast or after 10 ms.
CancelWake ==
  /\ epc = "cancel_sleep"
  /\ epc' = "cancel_test"
  /\ UNCHANGED <<flagVars, request, workVars, cont, nextJoin, histVars>>

\* controller_job_shutdown: stopping = true in every slot, broadcast.
StopFlags ==
  /\ epc = "stop_flags"
  /\ epc' = "join"
  /\ nextJoin' = 0
  /\ stopping' = Channel
  /\ wpc' = Broadcast(wpc)
  /\ UNCHANGED <<created, running, completed, request, wreq, aborted, transfers,
                 cont, histVars>>

\* jobs[channel] = (struct controller_job){0}
ZeroSlot ==
  /\ created' = created \ {nextJoin}
  /\ running' = running \ {nextJoin}
  /\ completed' = completed \ {nextJoin}
  /\ stopping' = stopping \ {nextJoin}
  /\ request' = [request EXCEPT ![nextJoin] = 0]
  /\ nextJoin' = nextJoin + 1
  /\ UNCHANGED <<wreq, aborted, transfers, epc, cont, histVars>>

\* if (created) pthread_join; then the slot is zeroed, in channel order.
Join ==
  /\ epc = "join"
  /\ nextJoin < JobCount
  /\ nextJoin \in created => wpc[nextJoin] = "exited"
  /\ ZeroSlot
  /\ wpc' = [wpc EXCEPT ![nextJoin] = "none"]

\* The last slot is done: the emulator goes on to exit.
JoinDone ==
  /\ epc = "join"
  /\ nextJoin = JobCount
  /\ epc' = "ended"
  /\ UNCHANGED <<flagVars, request, workVars, cont, nextJoin, histVars>>

CancelStep == CancelTest \/ CancelHttp \/ CancelRetest \/ CancelWake
ShutdownStep == StopFlags \/ Join \/ JoinDone

-----------------------------------------------------------------------------
\* A client that calls the operations in any order, as their header allows.
ClientStart(c) == epc = "run" /\ controller_job_start(c)
ClientPoll(c) == epc = "run" /\ controller_job_poll(c)
Ended == epc = "ended" /\ UNCHANGED jobVars

JobNext ==
  \/ \E c \in Channel : Worker(c)
  \/ \E c \in Channel : ClientStart(c)
  \/ \E c \in Channel : ClientPoll(c)
  \/ \E k \in Continuation : CancelAndWait(k)
  \/ CancelTest
  \/ CancelHttp
  \/ CancelRetest
  \/ CancelWake
  \/ StopFlags
  \/ Join
  \/ JoinDone
  \/ Ended

JobSpec == JobInit /\ [][JobNext]_jobVars

(***************************************************************************)
(* Threads are scheduled: a worker that can take a step does, and the      *)
(* emulation thread does not stop inside a call.  A transfer need not end  *)
(* by itself (a server may keep sending), but an aborted one does.         *)
(***************************************************************************)
WorkerFairness(c) ==
  /\ WF_jobVars(WorkerCheck(c))
  /\ WF_jobVars(WorkerExecute(c))
  /\ WF_jobVars(TransferAbort(c))
  /\ WF_jobVars(WorkerFinish(c))

JobFairness ==
  /\ \A c \in Channel : WorkerFairness(c)
  /\ WF_jobVars(CancelStep)
  /\ WF_jobVars(ShutdownStep)

JobFairSpec == JobSpec /\ JobFairness

-----------------------------------------------------------------------------
(***************************************************************************)
(* Properties.                                                             *)
(***************************************************************************)

\* Type invariant of the job slots and of the threads around them.
JobTypeOK ==
  /\ created \subseteq Channel /\ running \subseteq Channel
  /\ completed \subseteq Channel /\ stopping \subseteq Channel
  /\ request \in [Channel -> Nat]
  /\ wpc \in [Channel -> WorkerPc]
  /\ wreq \in [Channel -> Nat]
  /\ aborted \subseteq Channel
  /\ transfers \in [Channel -> Nat]
  /\ epc \in EmuPc
  /\ cont \in Continuation
  /\ nextJoin \in 0 .. JobCount
  /\ starts \in [Channel -> Nat]
  /\ finished \in [Channel -> Nat]
  /\ collected \in [Channel -> Nat]

\* controller_job_poll reports each finished job exactly once: until shutdown
\* throws the slots away, every accepted job is either still running, or
\* executed and waiting to be collected, or executed and collected, and the
\* slot never holds two of them.
ExactlyOnce ==
  epc \notin {"join", "ended"} =>
    \A c \in Channel :
      /\ starts[c] = finished[c] + (IF c \in running THEN 1 ELSE 0)
      /\ finished[c] = collected[c] + (IF c \in completed THEN 1 ELSE 0)
      /\ ~(c \in running /\ c \in completed)

Executing(c) == wpc[c] \in {"exec", "transfer"}

\* The request pointer is borrowed: while a worker executes, its slot still
\* belongs to the job it was called with, although the worker read the slot
\* after releasing the lock.
BorrowedRequest ==
  \A c \in Channel :
    /\ wpc[c] \in {"picked", "exec", "transfer"} => c \in running
    /\ Executing(c) => wreq[c] = request[c] /\ wreq[c] = starts[c]

\* No lost wakeup: a worker never sleeps on "changed" with a job to run or a
\* stop to obey, so nobody has to broadcast once more for it.
NoLostWakeup ==
  \A c \in Channel : wpc[c] = "asleep" => c \notin running /\ c \notin stopping

\* A slot is zeroed only after its thread has been joined: a slot without the
\* created flag has no thread that could still use it.
NoOrphanWorker ==
  \A c \in Channel : c \notin created => wpc[c] = "none"

InCancel(pc) == pc \in {"cancel_test", "cancel_http", "cancel_retest", "cancel_sleep"}

\* controller_job_cancel_and_wait returns to its caller only when nothing
\* runs, and nothing runs from there until the caller submits a job: the
\* caller may tear down what the workers use.
QuietAfterCancel ==
  [][ (InCancel(epc) /\ ~InCancel(epc'))
        => /\ running' = {}
           /\ \A c \in Channel : wpc'[c] \notin {"picked", "exec", "transfer"} ]_jobVars

\* controller_job_cancel_and_wait returns, although a job may open another
\* transfer after the one that was aborted: cancellation is requested again
\* on every turn of the loop.  controller_job_shutdown joins every worker and
\* returns.
TeardownReturns ==
  /\ InCancel(epc) ~> ~InCancel(epc)
  /\ (cont = "stop_flags") ~> (epc = "ended" /\ created = {})

=============================================================================
