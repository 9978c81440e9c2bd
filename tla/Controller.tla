------------------------------ MODULE Controller ------------------------------
(***************************************************************************)
(* The mailboxes of the Spectranext controller                             *)
(* (peripherals/nic/spectranext_controller.c) composed with the job slots  *)
(* of ControllerJob.  The guest program of the emulated Spectrum writes a  *)
(* workspace, then a command register; the emulation thread copies the     *)
(* workspace into a request, submits it to the mailbox's worker and, on a  *)
(* later access to any controller register, publishes the response.        *)
(*                                                                         *)
(* The command registers are not kept as state: every command that is      *)
(* accepted is reset to IDLE in the same access.  Workspace contents are   *)
(* a tag and the number of the job they belong to.                         *)
(***************************************************************************)
EXTENDS ControllerJob

CONSTANTS
  GuestWaits,   \* the guest touches a mailbox only after it saw its status
  GuestMailboxes, GuestCommands,  \* what the guest program uses
  MaxResets     \* bound: machine resets and other calls that quiesce the workers

ASSUME ControllerAssumption ==
  /\ JobCount = 3
  /\ GuestWaits \in BOOLEAN
  /\ GuestMailboxes \subseteq {0, 1}
  /\ GuestCommands \subseteq {"message", "match", "engine", "xfs_read"}
  /\ GuestCommands # {}
  /\ MaxResets \in Nat

Mailbox == {0, 1}
Background == 2      \* CONTROLLER_JOB_BACKGROUND

Status == {"SUCCESS", "ERROR", "IN_PROGRESS"}
\* GET_MESSAGE; a MATCHMAKING command; ENGINECALL; XFS_READ.
Command == {"message", "match", "engine", "xfs_read"}
Workspace == [tag : {"in", "out"}, job : 0 .. MaxStarts + 1]
Request == [ws : Workspace, command : Command, status : Status]
Access == {"read_status", "write_ws", "write_status", "write_command"}

VARIABLES
  ws, status,   \* mailbox |-> its published workspace and status register
  req,          \* mailbox |-> requests[channel]
  connected,    \* mailbox |-> its response is a MATCH_CONNECTED snapshot
  body,         \* mailbox |-> progress of execute_request in its worker
  lock,         \* state_lock and engine_lock: the mailboxes holding it
  message,      \* message_pending
  seen,         \* mailbox |-> the message_pending its worker read
  delivered,    \* how many responses carried the message
  cpc,          \* where the emulation thread is in a controller access
  acc,          \* the access: its kind, mailbox and command
  waiting,      \* the mailboxes whose answer the guest waits for
  resets

regVars == <<ws, status, req, connected>>
bodyVars == <<body, lock, message, seen, delivered>>
accVars == <<cpc, acc, waiting, resets>>
vars == <<jobVars, regVars, bodyVars, accVars>>

AnyCommand == CHOOSE cmd \in GuestCommands : TRUE
NoAccess == [kind |-> "read_status", channel |-> 0, command |-> AnyCommand]

\* spectranext_controller_init, called once at startup: it posts a message.
Init ==
  /\ JobInit
  /\ ws = [m \in Mailbox |-> [tag |-> "in", job |-> 0]]
  /\ status = [m \in Mailbox |-> "SUCCESS"]
  /\ req = [m \in Mailbox |-> [ws |-> [tag |-> "in", job |-> 0],
                               command |-> "message", status |-> "SUCCESS"]]
  /\ connected = {}
  /\ body = [m \in Mailbox |-> "entry"]
  /\ lock = [l \in {"state", "engine"} |-> {}]
  /\ message = 1
  /\ seen = [m \in Mailbox |-> 0]
  /\ delivered = 0
  /\ cpc = "idle"
  /\ acc = NoAccess
  /\ waiting = {}
  /\ resets = 0

-----------------------------------------------------------------------------
(***************************************************************************)
(* The mailbox workers: execute_request.                                   *)
(***************************************************************************)

(* Faulty variant: message operations do not take the state lock.           *)
UnlockedMessage(cmd) ==
  CASE cmd = "match" -> {"state"}
    [] cmd = "engine" -> {"engine"}
    [] OTHER -> {}

\* State commands hold state_lock, enginecalls engine_lock, XFS_READ neither.
LocksOf(cmd) ==
  CASE cmd \in {"message", "match"} -> {"state"}
    [] cmd = "engine" -> {"engine"}
    [] OTHER -> {}

\* The request takes its lock and reads the shared state.
BodyEnter(m) ==
  /\ wpc[m] = "exec"
  /\ body[m] = "entry"
  /\ \A l \in LocksOf(req[m].command) : lock[l] = {}
  /\ lock' = [l \in DOMAIN lock |-> IF l \in LocksOf(req[m].command) THEN {m} ELSE lock[l]]
  /\ body' = [body EXCEPT ![m] = "inside"]
  /\ seen' = [seen EXCEPT ![m] = message]
  /\ UNCHANGED <<jobVars, regVars, message, delivered, accVars>>

\* The request writes its response and releases the lock.  A message is
\* delivered and cleared; a matchmaking snapshot may report CONNECTED.
BodyLeave(m) ==
  /\ body[m] = "inside"
  /\ body' = [body EXCEPT ![m] = "done"]
  /\ lock' = [l \in DOMAIN lock |-> lock[l] \ {m}]
  /\ \E result \in {"SUCCESS", "ERROR"} :
       req' = [req EXCEPT ![m] = [ws |-> [tag |-> "out", job |-> wreq[m]],
                                  command |-> @.command, status |-> result]]
  /\ IF req[m].command = "message"
       THEN /\ delivered' = delivered + seen[m]
            /\ message' = IF seen[m] = 1 THEN 0 ELSE message
       ELSE UNCHANGED <<delivered, message>>
  /\ connected' \in IF req[m].command = "match"
                      THEN {connected \cup {m}, connected \ {m}}
                      ELSE {connected \ {m}}
  /\ UNCHANGED <<jobVars, ws, status, seen, accVars>>

\* execute_request returns to the worker loop.
MailboxFinish(m) ==
  /\ body[m] = "done"
  /\ WorkerFinish(m)
  /\ body' = [body EXCEPT ![m] = "entry"]
  /\ seen' = [seen EXCEPT ![m] = 0]
  /\ UNCHANGED <<regVars, lock, message, delivered, accVars>>

\* complete_match returns: the background job is done.
BackgroundFinish ==
  /\ WorkerFinish(Background)
  /\ UNCHANGED <<regVars, bodyVars, accVars>>

WorkerLoop(c) ==
  /\ WorkerCheck(c) \/ WorkerExecute(c)
  /\ UNCHANGED <<regVars, bodyVars, accVars>>

-----------------------------------------------------------------------------
(***************************************************************************)
(* The emulation thread: one access of the guest to a controller register. *)
(***************************************************************************)

\* spectranext_controller_read/_write called by the memory map.
BeginAccess(kind, m, cmd) ==
  /\ epc = "run" /\ cpc = "idle"
  /\ GuestWaits /\ kind # "read_status" => m \notin waiting
  /\ kind = "write_command" => starts[m] < MaxStarts
  /\ kind # "write_command" => cmd = AnyCommand
  /\ acc' = [kind |-> kind, channel |-> m, command |-> cmd]
  /\ cpc' = "poll_background"
  /\ UNCHANGED <<jobVars, regVars, bodyVars, waiting, resets>>

\* update_controller_jobs, first line.
PollBackground ==
  /\ cpc = "poll_background"
  /\ controller_job_poll(Background)
  /\ cpc' = "poll_0"
  /\ UNCHANGED <<regVars, bodyVars, acc, waiting, resets>>

PollPc(m) == IF m = 0 THEN "poll_0" ELSE "poll_1"

\* update_controller_jobs, no completion on this mailbox.
PollNothing(m) ==
  /\ cpc = PollPc(m)
  /\ m \notin completed
  /\ cpc' = IF m = 0 THEN "poll_1" ELSE "access"
  /\ UNCHANGED <<jobVars, regVars, bodyVars, acc, waiting, resets>>

\* The background job started when a CONNECTED snapshot was published; a
\* refusal (it is still running, or has no thread) is ignored by the code.
StartBackground(m) ==
  \/ /\ m \in connected /\ ~Occupied(Background) /\ starts[Background] < MaxStarts
     /\ FillSlot(Background)
  \/ /\ m \in connected => MayRefuse(Background) \/ starts[Background] >= MaxStarts
     /\ UNCHANGED <<created, request, running, wpc, starts>>

(* Faulty variants: only the status, or only the workspace is published.    *)
PublishStatusOnly(m) ==
  /\ cpc = PollPc(m)
  /\ m \in completed
  /\ CollectSlot(m)
  /\ ws' = ws
  /\ status' = [status EXCEPT ![m] = req[m].status]
  /\ StartBackground(m)
  /\ connected' = connected \ {m}
  /\ cpc' = IF m = 0 THEN "poll_1" ELSE "access"
  /\ UNCHANGED <<stopping, wreq, aborted, transfers, emuVars, finished, req,
                 bodyVars, acc, waiting, resets>>
PublishWorkspaceOnly(m) ==
  /\ cpc = PollPc(m)
  /\ m \in completed
  /\ CollectSlot(m)
  /\ ws' = [ws EXCEPT ![m] = req[m].ws]
  /\ status' = status
  /\ StartBackground(m)
  /\ connected' = connected \ {m}
  /\ cpc' = IF m = 0 THEN "poll_1" ELSE "access"
  /\ UNCHANGED <<stopping, wreq, aborted, transfers, emuVars, finished, req,
                 bodyVars, acc, waiting, resets>>

\* update_controller_jobs collects a completion and publishes the response.
Publish(m) ==
  /\ cpc = PollPc(m)
  /\ m \in completed
  /\ CollectSlot(m)
  /\ ws' = [ws EXCEPT ![m] = req[m].ws]
  /\ status' = [status EXCEPT ![m] = req[m].status]
  /\ StartBackground(m)
  /\ connected' = connected \ {m}
  /\ cpc' = IF m = 0 THEN "poll_1" ELSE "access"
  /\ UNCHANGED <<stopping, wreq, aborted, transfers, emuVars, finished, req,
                 bodyVars, acc, waiting, resets>>

EndAccess == cpc' = "idle" /\ acc' = NoAccess /\ UNCHANGED resets

\* The read itself: the guest sees the status register.
ReadStatus ==
  /\ cpc = "access" /\ acc.kind = "read_status"
  /\ waiting' = IF status[acc.channel] = "IN_PROGRESS" THEN waiting
                ELSE waiting \ {acc.channel}
  /\ EndAccess
  /\ UNCHANGED <<jobVars, regVars, bodyVars>>

(* Faulty variant: the busy test looks at the other mailbox.                *)
WriteRefusedByOther(m) == (1 - m) \in running

\* if (controller_job_is_running(channel)) return;
WriteRefused(m) == m \in running

IgnoreWrite ==
  /\ cpc = "access" /\ acc.kind # "read_status"
  /\ WriteRefused(acc.channel)
  /\ EndAccess
  /\ UNCHANGED <<jobVars, regVars, bodyVars, waiting>>

\* A workspace byte, or 0xFF in the status register, is stored.
StoreByte ==
  /\ cpc = "access" /\ acc.kind \in {"write_ws", "write_status"}
  /\ ~WriteRefused(acc.channel)
  /\ IF acc.kind = "write_ws"
       THEN /\ ws' = [ws EXCEPT ![acc.channel] =
                        [tag |-> "in", job |-> starts[acc.channel] + 1]]
            /\ UNCHANGED status
       ELSE /\ status' = [status EXCEPT ![acc.channel] = "IN_PROGRESS"]
            /\ UNCHANGED ws
  /\ EndAccess
  /\ UNCHANGED <<jobVars, req, connected, bodyVars, waiting>>

\* spectranext_controller_process_command: the request is filled in before
\* the job is offered to the worker.
NewRequest(m) == [ws |-> ws[m], command |-> acc.command, status |-> "IN_PROGRESS"]

(* Faulty variant: the status register keeps the previous job's result.     *)
SubmitWithoutStatus ==
  /\ cpc = "access" /\ acc.kind = "write_command"
  /\ ~WriteRefused(acc.channel)
  /\ req' = [req EXCEPT ![acc.channel] = NewRequest(acc.channel)]
  /\ controller_job_start(acc.channel)
  /\ waiting' = waiting \cup {acc.channel}
  /\ EndAccess
  /\ UNCHANGED <<status, ws, connected, bodyVars>>

\* A command register goes from IDLE to a command and the job is accepted.
SubmitCommand ==
  /\ cpc = "access" /\ acc.kind = "write_command"
  /\ ~WriteRefused(acc.channel)
  /\ req' = [req EXCEPT ![acc.channel] = NewRequest(acc.channel)]
  /\ controller_job_start(acc.channel)
  /\ status' = [status EXCEPT ![acc.channel] = "IN_PROGRESS"]
  /\ waiting' = waiting \cup {acc.channel}
  /\ EndAccess
  /\ UNCHANGED <<ws, connected, bodyVars>>

\* controller_job_start refuses (an uncollected completion, or no thread for
\* the mailbox's first job): status ERROR, the request has been overwritten.
RefuseCommand ==
  /\ cpc = "access" /\ acc.kind = "write_command"
  /\ ~WriteRefused(acc.channel)
  /\ MayRefuse(acc.channel)
  /\ req' = [req EXCEPT ![acc.channel] = NewRequest(acc.channel)]
  /\ status' = [status EXCEPT ![acc.channel] = "ERROR"]
  /\ waiting' = waiting \cup {acc.channel}
  /\ EndAccess
  /\ UNCHANGED <<jobVars, ws, connected, bodyVars>>

-----------------------------------------------------------------------------
(***************************************************************************)
(* The emulation thread: resets and shutdown.                              *)
(***************************************************************************)

\* spectranet_reset: wait for the workers, then discard their completions.
Reset ==
  /\ cpc = "idle" /\ resets < MaxResets
  /\ CancelAndWait("run")
  /\ cpc' = "reset_0"
  /\ resets' = resets + 1
  /\ UNCHANGED <<regVars, bodyVars, acc, waiting>>

ResetPoll(m) ==
  /\ epc = "run" /\ cpc = IF m = 0 THEN "reset_0" ELSE "reset_1"
  /\ controller_job_poll(m)
  /\ cpc' = IF m = 0 THEN "reset_1" ELSE "idle"
  /\ waiting' = waiting \ {m}
  /\ UNCHANGED <<regVars, bodyVars, acc, resets>>

\* xfs_umount and xfs_free wait too and leave the completions; spectranet_end
\* shuts the workers down.
Quiesce(k) ==
  /\ cpc = "idle" /\ resets < MaxResets
  /\ CancelAndWait(k)
  /\ resets' = resets + 1
  /\ UNCHANGED <<regVars, bodyVars, cpc, acc, waiting>>

EmuCall ==
  /\ CancelStep \/ ShutdownStep
  /\ UNCHANGED <<regVars, bodyVars, accVars>>

MailboxEnded == epc = "ended" /\ UNCHANGED vars

MailboxWorker(m) == BodyEnter(m) \/ BodyLeave(m) \/ MailboxFinish(m)

EmuAccess ==
  \/ PollBackground
  \/ \E m \in Mailbox : PollNothing(m) \/ Publish(m)
  \/ ReadStatus
  \/ IgnoreWrite
  \/ StoreByte
  \/ SubmitCommand
  \/ RefuseCommand
  \/ \E m \in Mailbox : ResetPoll(m)

Next ==
  \/ \E c \in Channel : WorkerLoop(c)
  \/ \E m \in Mailbox : BodyEnter(m)
  \/ \E m \in Mailbox : BodyLeave(m)
  \/ \E m \in Mailbox : MailboxFinish(m)
  \/ BackgroundFinish
  \/ \E kind \in Access, m \in GuestMailboxes, cmd \in GuestCommands :
       BeginAccess(kind, m, cmd)
  \/ PollBackground
  \/ \E m \in Mailbox : PollNothing(m)
  \/ \E m \in Mailbox : Publish(m)
  \/ ReadStatus
  \/ IgnoreWrite
  \/ StoreByte
  \/ SubmitCommand
  \/ RefuseCommand
  \/ Reset
  \/ \E m \in Mailbox : ResetPoll(m)
  \/ \E k \in Continuation : Quiesce(k)
  \/ EmuCall
  \/ MailboxEnded

Spec == Init /\ [][Next]_vars

(***************************************************************************)
(* Threads are scheduled, and a guest that waits for an answer keeps       *)
(* polling the status register.                                            *)
(***************************************************************************)
FairSpec ==
  /\ Spec
  /\ \A c \in Channel : WF_vars(WorkerLoop(c))
  /\ \A m \in Mailbox : SF_vars(BodyEnter(m)) /\ WF_vars(BodyLeave(m))
                         /\ WF_vars(MailboxFinish(m))
  /\ WF_vars(BackgroundFinish)
  /\ WF_vars(EmuAccess)
  /\ WF_vars(EmuCall)
  /\ \A m \in GuestMailboxes : SF_vars(BeginAccess("read_status", m, AnyCommand))

-----------------------------------------------------------------------------
(***************************************************************************)
(* Properties.                                                             *)
(***************************************************************************)

\* Type invariant of the mailboxes and of the accesses to them.
ControllerTypeOK ==
  /\ JobTypeOK
  /\ ws \in [Mailbox -> Workspace]
  /\ status \in [Mailbox -> Status]
  /\ req \in [Mailbox -> Request]
  /\ connected \subseteq Mailbox
  /\ body \in [Mailbox -> {"entry", "inside", "done"}]
  /\ lock \in [{"state", "engine"} -> SUBSET Mailbox]
  /\ message \in {0, 1}
  /\ seen \in [Mailbox -> {0, 1}]
  /\ delivered \in Nat
  /\ cpc \in {"idle", "poll_background", "poll_0", "poll_1", "access", "reset_0", "reset_1"}
  /\ acc \in [kind : Access, channel : Mailbox, command : Command]
  /\ waiting \subseteq Mailbox
  /\ resets \in 0 .. MaxResets

\* The message posted at startup reaches the guest at most once although both
\* mailboxes may ask for it at the same time (state_lock).
MessageOnce == delivered + message = 1

\* A request belongs to its worker from submission to completion: nothing the
\* guest writes meanwhile, on either mailbox, changes the arguments the
\* worker reads ("Busy writes must not corrupt worker-owned arguments").
WorkerOwnsRequest ==
  [][ \A m \in Mailbox :
        m \in running /\ req'[m] # req[m] => body[m] = "inside" ]_vars

\* A workspace whose job is pending or unpublished belongs to that job: the
\* guest cannot change it before the answer is published ("A submitted
\* workspace belongs to its worker until status is published").
WorkspaceOwned ==
  [][ \A m \in Mailbox :
        Occupied(m) /\ ws'[m] # ws[m] => m \in completed /\ m \notin completed' ]_vars

\* The publication of the answer to the job that mailbox m submitted last.
Answered(m) ==
  /\ collected'[m] = starts[m]
  /\ ws'[m] = [tag |-> "out", job |-> starts[m]]

\* The one exception: no worker thread could be created for the mailbox's
\* command, so that there was no job.  No job is outstanding and the workspace
\* is the guest's own.
NeverStarted(m) ==
  /\ m \notin created' /\ collected'[m] = starts'[m]
  /\ status'[m] = "ERROR" /\ ws'[m] = ws[m]

\* A mailbox in progress is finished only by the publication of the answer to
\* the job submitted last, with that job's result, or by a command that found
\* the mailbox without a worker thread and could not create one (the guest may
\* store 0xFF, IN_PROGRESS, in the status register itself).
FinishedByAnswer ==
  [][ \A m \in Mailbox :
        status[m] = "IN_PROGRESS" /\ status'[m] # "IN_PROGRESS"
          => Answered(m) \/ NeverStarted(m) ]_vars

\* A guest that waits for its answer gets it, unless the emulator is shut down.
AnswerArrives ==
  \A m \in Mailbox : (m \in waiting) ~> (m \notin waiting \/ cont = "stop_flags")

=============================================================================
