----------------------------- MODULE HttpDownload -----------------------------
(***************************************************************************)
(* The HTTP downloader of the XFS file systems                             *)
(* (peripherals/fs/http_downloader.c): one detached worker thread that     *)
(* transfers one file at a time into a ring buffer, and the threads that   *)
(* open, read, seek and close downloads: the emulation thread and the      *)
(* mailbox workers of the controller, each with downloads of its own.  The *)
(* emulation thread also cancels whatever transfer is active.              *)
(*                                                                         *)
(* The transfer is httpc_get (peripherals/http/httpc.c): a request whose   *)
(* body breaks off is repeated, and asks for the rest; a server may answer *)
(* it with the whole body again.  A byte of a body is its number.          *)
(*                                                                         *)
(* A step is a critical section under worker_lock or under the lock of one *)
(* download.  A timed wait on h->changed is explicit: a sleeper runs again *)
(* after a broadcast, or its timer fires and it then contends for the lock *)
(* like everybody else, so that an answer can arrive in between.           *)
(***************************************************************************)
EXTENDS Naturals, Sequences, FiniteSets

CONSTANTS
  Client,        \* the threads that use the downloader
  Emulator,      \* the client that may cancel: the emulation thread
  MaxDownloads,  \* bound: downloads opened
  RingSize,      \* RING_SIZE, in model bytes
  MaxBytes,      \* bound: bytes a server sends
  MaxChunk,      \* bound: bytes of one receive_chunk call, or of one read
  MaxTries,      \* HTTPC_CONNECTION_ATTEMPTS: requests repeated without progress
  Sizes,         \* download |-> the Content-Lengths of its server, 0 for an unknown one
  LateTimeouts   \* TRUE: a timer may fire just before the answer it waits for

ASSUME HttpAssumption ==
  /\ Emulator \in Client
  /\ MaxDownloads \in Nat /\ MaxBytes \in Nat /\ MaxTries \in Nat
  /\ RingSize \in Nat \ {0} /\ MaxChunk \in Nat \ {0}
  /\ Sizes \in [1 .. MaxDownloads -> SUBSET Nat]
  /\ LateTimeouts \in BOOLEAN

Download == 1 .. MaxDownloads
Result == {"OK", "IO", "TIMEOUT"}

ClientPc == {"idle", "open_test", "open_sleep", "open_late", "holding",
             "read_test", "read_sleep", "read_late", "close", "close_test",
             "close_sleep", "destroy"}
WorkerPc == {"idle", "taken", "request", "transfer", "backoff", "full_test",
             "full_sleep", "full_late", "ended", "inactive", "destroy"}

VARIABLES
  dl,        \* download |-> its struct http_download
  opened,    \* downloads allocated so far
  destroyed, \* download |-> how often destroy_download was called
  active, pending,  \* the worker's registers; 0 is NULL
  wpc, wh,   \* where the worker is, and its h
  left,      \* bytes of the current chunk not yet copied
  get,       \* the state of httpc_get
  rc,        \* "OK" or "ERROR": what httpc_get returned
  cpc, ch,   \* client |-> where it is, and its h
  want,      \* client |-> size of its read
  last       \* client |-> what its last read returned

workerVars == <<wpc, wh, left, get, rc>>
clientVars == <<cpc, ch, want, last>>
vars == <<dl, opened, destroyed, active, pending, workerVars, clientVars>>

Fresh == [ready |-> FALSE, finished |-> FALSE, cancelled |-> FALSE,
          orphaned |-> FALSE, retain |-> FALSE, seen |-> FALSE,
          replayed |-> FALSE, \* history: a streamed body started again
          result |-> "OK", size |-> 0, head |-> 0, tail |-> 0, used |-> 0,
          received |-> 0, ring |-> [i \in 0 .. RingSize - 1 |-> 0]]

\* The next byte, the length that ends the body (0: not known), the requests
\* repeated without progress, and whether this one has made some.
NoGet == [position |-> 0, length |-> 0, tries |-> 0, progress |-> FALSE]

NothingRead == [out |-> "none", from |-> 0, bytes |-> <<>>]

Init ==
  /\ dl = [d \in Download |-> Fresh]
  /\ opened = 0 /\ destroyed = [d \in Download |-> 0]
  /\ active = 0 /\ pending = 0
  /\ wpc = "idle" /\ wh = 0 /\ left = 0 /\ get = NoGet /\ rc = "ERROR"
  /\ cpc = [c \in Client |-> "idle"] /\ ch = [c \in Client |-> 0]
  /\ want = [c \in Client |-> 0] /\ last = [c \in Client |-> NothingRead]

-----------------------------------------------------------------------------
LesserOf(a, b) == IF a < b THEN a ELSE b

\* pthread_cond_broadcast(&h->changed), for a client and for the worker.
Awake == [open_sleep |-> "open_test", read_sleep |-> "read_test",
          close_sleep |-> "close_test", full_sleep |-> "full_test"]
WakeClients(pc, d) ==
  [c \in Client |-> IF ch[c] = d /\ pc[c] \in DOMAIN Awake THEN Awake[pc[c]] ELSE pc[c]]
WakeWorker(d) == IF wh = d /\ wpc \in DOMAIN Awake THEN Awake[wpc] ELSE wpc

\* The memory is freed: nothing of the download is left.
destroy_download(d) ==
  /\ destroyed' = [destroyed EXCEPT ![d] = @ + 1]
  /\ dl' = [dl EXCEPT ![d] = Fresh]

(***************************************************************************)
(* The worker thread.                                                      *)
(***************************************************************************)

WorkerTake ==
  /\ wpc = "idle" /\ pending # 0
  /\ wh' = pending /\ pending' = 0 /\ wpc' = "taken"
  /\ UNCHANGED <<dl, opened, destroyed, active, left, get, rc, clientVars>>

\* A download cancelled before it started is not transferred.
WorkerStart ==
  /\ wpc = "taken"
  /\ wpc' = IF dl[wh].cancelled THEN "ended" ELSE "request"
  /\ \E n \in Sizes[wh] : dl' = [dl EXCEPT ![wh].size = n]
  /\ UNCHANGED <<opened, destroyed, active, pending, wh, left, get, rc, clientVars>>

\* The length httpc expects of a body that is resumed at get.position: that of
\* the whole body if it comes in chunks, whose framing tells the end; else the
\* position was added once too often.
ResumedLengths(size) == IF size = 0 THEN {0} ELSE {size, size + get.position}

\* The request was answered: with the whole body, or with the rest of it if
\* there is a position to ask for.
RequestAnswered ==
  /\ wpc = "request"
  /\ wpc' = "transfer"
  /\ LET h == dl[wh]
     IN  \/ /\ get' = [get EXCEPT !.position = 0, !.length = h.size]
            /\ dl' = [dl EXCEPT ![wh].replayed = @ \/ (get.position > 0 /\ ~h.retain)]
         \/ /\ get.position > 0 /\ (h.size > 0 => get.position < h.size)
            /\ \E n \in ResumedLengths(h.size) : get' = [get EXCEPT !.length = n]
            /\ dl' = dl
  /\ UNCHANGED <<opened, destroyed, active, pending, wh, left, rc, clientVars>>

\* No answer to the request: httpc backs off.
RequestFails ==
  /\ wpc = "request" /\ wpc' = "backoff"
  /\ UNCHANGED <<dl, opened, destroyed, active, pending, wh, left, get, rc, clientVars>>

\* An answer that ends the transfer: 4xx, or a redirection that leads nowhere.
RequestRefused ==
  /\ wpc = "request" /\ wpc' = "ended"
  /\ UNCHANGED <<dl, opened, destroyed, active, pending, wh, left, get, rc, clientVars>>

\* SM_BCKO: the request is repeated, but for a cancelled download or after too
\* many requests that brought nothing.
Backoff ==
  /\ wpc = "backoff"
  /\ IF dl[wh].cancelled \/ get.tries >= MaxTries
       THEN wpc' = "ended" /\ get' = get
       ELSE /\ wpc' = "request"
            /\ get' = [get EXCEPT !.tries = IF get.progress THEN @ ELSE @ + 1,
                                  !.progress = FALSE]
  /\ UNCHANGED <<dl, opened, destroyed, active, pending, wh, left, rc, clientVars>>

\* The ring of download h after n more bytes, from position p of the body on,
\* were copied to its head.
Filled(h, p, n) ==
  [i \in DOMAIN h.ring |->
     LET k == (i + RingSize - h.head) % RingSize
     IN  IF k < n THEN p + k + 1 ELSE h.ring[i]]

\* The copying loop of receive_chunk, until the bytes or the ring run out.
Copy(h, p, n) ==
  LET take == LesserOf(n, RingSize - h.used)
  IN  [h EXCEPT !.ring = Filled(h, p, take),
                !.head = (@ + take) % RingSize,
                !.used = @ + take,
                !.received = @ + take,
                !.ready = @ \/ (~h.retain /\ take > 0)]

\* receive_chunk with n more bytes of the body: copy, and wait if the ring is
\* full; -1, which ends the transfer, once the download is cancelled.  httpc
\* advances its position by the whole chunk, when it looks at it again.
Receive(h, n) ==
  IF h.cancelled
    THEN /\ dl' = [dl EXCEPT ![wh] = h]
         /\ wpc' = "ended" /\ left' = 0 /\ cpc' = cpc /\ get' = get
    ELSE LET new == Copy(h, get.position, n)
             copied == new.received - h.received
             rest == n - copied
         IN  /\ dl' = [dl EXCEPT ![wh] = new]
             /\ left' = rest
             /\ get' = [get EXCEPT !.position = @ + copied, !.progress = TRUE]
             /\ wpc' = IF rest > 0 THEN "full_sleep" ELSE "transfer"
             /\ cpc' = IF new.received = h.received THEN cpc ELSE WakeClients(cpc, wh)

\* The first chunk tells whether the body is retained or streamed.
WithBody(h) ==
  [h EXCEPT !.retain = IF h.seen THEN @ ELSE h.size > 0 /\ h.size < RingSize,
            !.seen = TRUE]

\* A chunk that a retained body has no place for.
Misplaced(h, n) == get.position # h.used \/ n > h.size - h.used

\* httpc has all the bytes it expects and reads no more.
Complete == get.length > 0 /\ get.position >= get.length

WorkerChunk(n) ==
  /\ wpc = "transfer" /\ ~Complete /\ dl[wh].received + n <= MaxBytes
  /\ LET h == WithBody(dl[wh])
     IN  IF h.retain /\ Misplaced(h, n)
           THEN /\ dl' = [dl EXCEPT ![wh] = [h EXCEPT !.result = "IO"]]
                /\ wpc' = "ended" /\ UNCHANGED <<left, get, cpc>>
           ELSE Receive(h, n)
  /\ UNCHANGED <<opened, destroyed, active, pending, wh, rc, ch, want, last>>

WorkerResume ==
  /\ wpc = "full_test"
  /\ Receive(dl[wh], left)
  /\ UNCHANGED <<opened, destroyed, active, pending, wh, rc, ch, want, last>>

\* Ten seconds without room in the ring.
WorkerTimer ==
  /\ wpc = "full_sleep" /\ wpc' = "full_late"
  /\ UNCHANGED <<dl, opened, destroyed, active, pending, wh, left, get, rc, clientVars>>

\* The loop tests only "cancelled" and "used" after the timeout.
WorkerTimedOut ==
  /\ wpc = "full_late"
  /\ dl' = [dl EXCEPT ![wh].result = "TIMEOUT", ![wh].cancelled = TRUE]
  /\ wpc' = "ended" /\ left' = 0
  /\ UNCHANGED <<opened, destroyed, active, pending, wh, get, rc, clientVars>>

(* Faulty variant: a body that ends early is taken for a whole one.         *)
EndsEarly ==
  /\ wpc = "transfer"
  /\ wpc' = "ended" /\ rc' = "OK"
  /\ UNCHANGED <<dl, opened, destroyed, active, pending, wh, left, get, clientVars>>

\* The end of the body, at the length that httpc expects if there is one.
TransferEnds ==
  /\ wpc = "transfer" /\ (get.length > 0 => Complete)
  /\ wpc' = "ended" /\ rc' = "OK"
  /\ UNCHANGED <<dl, opened, destroyed, active, pending, wh, left, get, clientVars>>

\* The server fails, or ends the body early, or the transfer was aborted.
TransferBreaks ==
  /\ wpc = "transfer" /\ ~Complete
  /\ wpc' = "backoff"
  /\ UNCHANGED <<dl, opened, destroyed, active, pending, wh, left, get, rc, clientVars>>

\* active = NULL: another download may be opened from here on.
WorkerInactive ==
  /\ wpc = "ended"
  /\ active' = 0 /\ wpc' = "inactive" /\ left' = 0 /\ get' = NoGet
  /\ UNCHANGED <<dl, opened, destroyed, pending, wh, rc, clientVars>>

\* The result of the whole transfer.
FinalResult(h) ==
  IF ~h.cancelled /\ rc = "ERROR" THEN "IO"
  ELSE IF h.result # "OK" THEN h.result
  ELSE IF h.cancelled \/ (h.retain /\ h.used # h.size) THEN "IO"
  ELSE "OK"

Finish(h) ==
  [h EXCEPT !.result = FinalResult(h),
            !.retain = @ \/ (FinalResult(h) = "OK" /\ ~h.seen),
            !.ready = TRUE,
            !.finished = TRUE]

(* Faulty variants: an orphan is forgotten; it is destroyed                 *)
(* whether or not its opener gave up.                                       *)
FinishForgets ==
  /\ wpc = "inactive"
  /\ dl' = [dl EXCEPT ![wh] = Finish(dl[wh])]
  /\ cpc' = WakeClients(cpc, wh)
  /\ wpc' = "idle" /\ wh' = 0
  /\ rc' = "ERROR" /\ UNCHANGED <<opened, destroyed, active, pending, left, get, ch, want, last>>
FinishDestroys ==
  /\ wpc = "inactive"
  /\ dl' = [dl EXCEPT ![wh] = Finish(dl[wh])]
  /\ cpc' = WakeClients(cpc, wh)
  /\ wpc' = "destroy" /\ wh' = wh
  /\ rc' = "ERROR" /\ UNCHANGED <<opened, destroyed, active, pending, left, get, ch, want, last>>

\* finished = true, broadcast; an orphan is the worker's to destroy.
WorkerFinish ==
  /\ wpc = "inactive"
  /\ dl' = [dl EXCEPT ![wh] = Finish(dl[wh])]
  /\ cpc' = WakeClients(cpc, wh)
  /\ wpc' = IF dl[wh].orphaned THEN "destroy" ELSE "idle"
  /\ wh' = IF dl[wh].orphaned THEN wh ELSE 0
  /\ rc' = "ERROR" /\ UNCHANGED <<opened, destroyed, active, pending, left, get, ch, want, last>>

WorkerDestroy ==
  /\ wpc = "destroy"
  /\ destroy_download(wh)
  /\ wpc' = "idle" /\ wh' = 0
  /\ UNCHANGED <<opened, active, pending, left, get, rc, clientVars>>

WorkerStep ==
  \/ WorkerTake
  \/ WorkerStart
  \/ Backoff
  \/ WorkerResume
  \/ WorkerTimedOut
  \/ WorkerInactive
  \/ WorkerFinish
  \/ WorkerDestroy

-----------------------------------------------------------------------------
(***************************************************************************)
(* The clients.                                                            *)
(***************************************************************************)
SetPc(c, pc) == cpc' = [cpc EXCEPT ![c] = pc]

\* http_downloader_open, accepted.  While a transfer is active it returns
\* BUSY and leaves nothing behind.
http_downloader_open(c) ==
  /\ cpc[c] = "idle" /\ active = 0 /\ opened < MaxDownloads
  /\ opened' = opened + 1
  /\ active' = opened + 1 /\ pending' = opened + 1
  /\ ch' = [ch EXCEPT ![c] = opened + 1]
  /\ SetPc(c, "open_test")
  /\ last' = [last EXCEPT ![c] = NothingRead]
  /\ UNCHANGED <<dl, destroyed, workerVars, want>>

\* while (!ready) wait; a failed download is closed, another is returned.
OpenTest(c) ==
  /\ cpc[c] = "open_test"
  /\ SetPc(c, IF ~dl[ch[c]].ready THEN "open_sleep"
              ELSE IF dl[ch[c]].result # "OK" THEN "close"
              ELSE "holding")
  /\ UNCHANGED <<dl, opened, destroyed, active, pending, workerVars, ch, want, last>>

(* Faulty variant: a read waits without a deadline.                         *)
TimerOpenOnly(c) ==
  /\ cpc[c] = "open_sleep" /\ SetPc(c, "open_late")
  /\ UNCHANGED <<dl, opened, destroyed, active, pending, workerVars, ch, want, last>>

\* Ten seconds without a broadcast.
ClientTimer(c) ==
  /\ \/ cpc[c] = "open_sleep" /\ SetPc(c, "open_late")
     \/ cpc[c] = "read_sleep" /\ SetPc(c, "read_late")
  /\ UNCHANGED <<dl, opened, destroyed, active, pending, workerVars, ch, want, last>>

\* http_downloader_open gives up, without a look at "ready", and leaves the
\* download to the worker.
OpenTimedOut(c) ==
  /\ cpc[c] = "open_late"
  /\ dl' = [dl EXCEPT ![ch[c]].result = "TIMEOUT", ![ch[c]].cancelled = TRUE,
                      ![ch[c]].orphaned = TRUE]
  /\ SetPc(c, "idle")
  /\ ch' = [ch EXCEPT ![c] = 0]
  /\ UNCHANGED <<opened, destroyed, active, pending, workerVars, want, last>>

ReadBegin(c, n) ==
  /\ cpc[c] = "holding"
  /\ want' = [want EXCEPT ![c] = n]
  /\ last' = [last EXCEPT ![c] = NothingRead]
  /\ SetPc(c, "read_test")
  /\ UNCHANGED <<dl, opened, destroyed, active, pending, workerVars, ch>>

Available(h) == IF h.retain THEN h.used - h.tail ELSE h.used

\* The download after n bytes were taken from it.
Drain(h, n) ==
  IF h.retain THEN [h EXCEPT !.tail = @ + n]
  ELSE [h EXCEPT !.tail = (@ + n) % RingSize, !.used = @ - n]

\* The rest of http_downloader_read once it stopped waiting: copy what is
\* available, else return the result.  The broadcast wakes a full worker.
Deliver(c, h) ==
  LET take == LesserOf(want[c], Available(h))
  IN  /\ dl' = [dl EXCEPT ![ch[c]] = Drain(h, take)]
      /\ last' = [last EXCEPT ![c] =
           [out |-> IF take > 0 THEN "data" ELSE IF h.result = "OK" THEN "eof" ELSE "error",
            from |-> IF h.retain THEN h.tail ELSE h.received - h.used,
            bytes |-> [i \in 1 .. take |-> h.ring[(h.tail + i - 1) % RingSize]]]]
      /\ wpc' = IF take > 0 \/ h.cancelled THEN WakeWorker(ch[c]) ELSE wpc
      /\ want' = [want EXCEPT ![c] = 0]
      /\ SetPc(c, "holding")

MustWait(h) == Available(h) = 0 /\ ~h.finished /\ h.result = "OK"

ReadTest(c) ==
  /\ cpc[c] = "read_test"
  /\ IF MustWait(dl[ch[c]])
       THEN SetPc(c, "read_sleep") /\ UNCHANGED <<dl, wpc, want, last>>
       ELSE Deliver(c, dl[ch[c]])
  /\ UNCHANGED <<opened, destroyed, active, pending, wh, left, get, rc, ch>>

ReadTimedOut(c) ==
  /\ cpc[c] = "read_late"
  /\ Deliver(c, [dl[ch[c]] EXCEPT !.result = "TIMEOUT", !.cancelled = TRUE])
  /\ UNCHANGED <<opened, destroyed, active, pending, wh, left, get, rc, ch>>

\* http_downloader_seek: only in a complete, retained body, clamped to its end.
http_downloader_seek(c, target) ==
  LET h == dl[ch[c]]
  IN  /\ cpc[c] = "holding"
      /\ h.retain /\ h.finished /\ h.result = "OK" /\ ~h.cancelled
      /\ dl' = [dl EXCEPT ![ch[c]].tail = LesserOf(target, h.used)]
      /\ last' = [last EXCEPT ![c] = NothingRead]
      /\ UNCHANGED <<opened, destroyed, active, pending, workerVars, cpc, ch, want>>

CloseBegin(c) ==
  /\ cpc[c] = "holding"
  /\ SetPc(c, "close")
  /\ last' = [last EXCEPT ![c] = NothingRead]
  /\ UNCHANGED <<dl, opened, destroyed, active, pending, workerVars, ch, want>>

\* http_downloader_close: cancel, then wait until the worker is done with it.
http_downloader_close(c) ==
  /\ cpc[c] = "close"
  /\ dl' = [dl EXCEPT ![ch[c]].cancelled = TRUE]
  /\ wpc' = WakeWorker(ch[c])
  /\ SetPc(c, "close_test")
  /\ UNCHANGED <<opened, destroyed, active, pending, wh, left, get, rc, ch, want, last>>

CloseTest(c) ==
  /\ cpc[c] = "close_test"
  /\ SetPc(c, IF dl[ch[c]].finished THEN "destroy" ELSE "close_sleep")
  /\ UNCHANGED <<dl, opened, destroyed, active, pending, workerVars, ch, want, last>>

CloseDestroy(c) ==
  /\ cpc[c] = "destroy"
  /\ destroy_download(ch[c])
  /\ ch' = [ch EXCEPT ![c] = 0]
  /\ SetPc(c, "idle")
  /\ UNCHANGED <<opened, active, pending, workerVars, want, last>>

(* Faulty variant: the blocked readers are not woken.                       *)
CancelSilent ==
  /\ cpc[Emulator] \in {"idle", "holding"} /\ active # 0
  /\ dl' = [dl EXCEPT ![active].cancelled = TRUE, ![active].result = "IO",
                      ![active].ready = TRUE]
  /\ UNCHANGED <<cpc, wpc>>
  /\ UNCHANGED <<opened, destroyed, active, pending, wh, left, get, rc, ch, want, last>>

\* http_downloader_cancel_all, under both locks.
http_downloader_cancel_all ==
  /\ cpc[Emulator] \in {"idle", "holding"} /\ active # 0
  /\ dl' = [dl EXCEPT ![active].cancelled = TRUE, ![active].result = "IO",
                      ![active].ready = TRUE]
  /\ cpc' = WakeClients(cpc, active)
  /\ wpc' = WakeWorker(active)
  /\ UNCHANGED <<opened, destroyed, active, pending, wh, left, get, rc, ch, want, last>>

ClientStep(c) ==
  \/ OpenTest(c)
  \/ OpenTimedOut(c)
  \/ ReadTest(c)
  \/ ReadTimedOut(c)
  \/ http_downloader_close(c)
  \/ CloseTest(c)
  \/ CloseDestroy(c)

\* A timer that has fired is served before the download gets any further.
Late(d) ==
  \E c \in Client : ch[c] = d /\ cpc[c] \in {"open_late", "read_late"}

Next ==
  \/ WorkerStep /\ (LateTimeouts \/ ~Late(wh))
  \/ \E n \in 1 .. MaxChunk : WorkerChunk(n) /\ (LateTimeouts \/ ~Late(wh))
  \/ WorkerTimer
  \/ RequestAnswered
  \/ RequestFails
  \/ RequestRefused
  \/ TransferEnds
  \/ TransferBreaks
  \/ \E c \in Client : http_downloader_open(c)
  \/ \E c \in Client : ClientTimer(c)
  \/ \E c \in Client : ClientStep(c)
  \/ \E c \in Client, n \in 1 .. MaxChunk : ReadBegin(c, n)
  \/ \E c \in Client, t \in 0 .. RingSize : http_downloader_seek(c, t)
  \/ \E c \in Client : CloseBegin(c)
  \/ http_downloader_cancel_all

Spec == Init /\ [][Next]_vars

(***************************************************************************)
(* Threads are scheduled and timers fire.  A server may be silent for      *)
(* ever, but an aborted request or transfer fails, and httpc returns when  *)
(* it has the whole body.                                                  *)
(***************************************************************************)
Aborted == (RequestFails \/ TransferBreaks) /\ dl[wh].cancelled

FairSpec ==
  /\ Spec
  /\ WF_vars(WorkerStep) /\ WF_vars(WorkerTimer)
  /\ WF_vars(Aborted) /\ WF_vars(TransferEnds /\ Complete)
  /\ \A c \in Client : WF_vars(ClientStep(c)) /\ WF_vars(ClientTimer(c))

-----------------------------------------------------------------------------
(***************************************************************************)
(* Properties.                                                             *)
(***************************************************************************)

\* Type invariant of the downloads and of the threads.
HttpTypeOK ==
  /\ \A d \in Download :
       /\ dl[d].result \in Result
       /\ dl[d].used \in 0 .. RingSize
       /\ dl[d].head \in 0 .. RingSize - 1 /\ dl[d].tail \in 0 .. RingSize
       /\ dl[d].received \in 0 .. MaxBytes
  /\ opened \in 0 .. MaxDownloads
  /\ active \in 0 .. opened /\ pending \in {0, active} /\ wh \in 0 .. opened
  /\ wpc \in WorkerPc /\ rc \in {"OK", "ERROR"} /\ left \in 0 .. MaxChunk
  /\ get.position \in 0 .. MaxBytes /\ get.tries \in 0 .. MaxTries
  /\ cpc \in [Client -> ClientPc] /\ ch \in [Client -> 0 .. opened]

InUse(d) == d \in {active, pending, wh} \/ \E c \in Client : ch[c] = d

\* A download is destroyed at most once, and never while a thread or one of
\* the registers "active" and "pending" still refers to it.
DestroyedOnce ==
  \A d \in Download : destroyed[d] <= 1 /\ (destroyed[d] = 1 => ~InUse(d))

\* A download nobody refers to any more has been destroyed: neither a failed
\* open nor an abandoned one leaves its buffer behind.
NoLeak ==
  \A d \in 1 .. opened : ~InUse(d) => destroyed[d] = 1

\* No lost wakeup: whoever sleeps on h->changed still has a reason to, or the
\* worker is about to finish and broadcast.  (An opener that gives up does not
\* broadcast: a worker which filled the ring just before waits for its own
\* timer.)
SleepersJustified ==
  /\ \A c \in Client :
       /\ cpc[c] = "open_sleep" => ~dl[ch[c]].ready
       /\ cpc[c] = "read_sleep" =>
            MustWait(dl[ch[c]]) \/ (wh = ch[c] /\ wpc \in {"ended", "inactive"})
       /\ cpc[c] = "close_sleep" => ~dl[ch[c]].finished
  /\ wpc = "full_sleep" => dl[wh].used = RingSize /\ (dl[wh].cancelled => dl[wh].orphaned)

\* A read returns the bytes of the body that follow the ones read before, in
\* order, across the wrap-around of the ring, after a seek, and although requests
\* were repeated and answered with the rest of the body or with all of it again
\* (a streamed body that started again is excepted: its reader gets the
\* beginning twice).  An end of file is only reported at the end: the transfer
\* succeeded and, retained or streamed, a body of known size arrived in full.
BodyInOrder ==
  /\ HttpTypeOK
  /\ \A c \in Client :
       \A i \in DOMAIN last[c].bytes :
         dl[ch[c]].replayed \/ last[c].bytes[i] = last[c].from + i
  /\ \A c \in Client :
       last[c].out = "eof" =>
         LET h == dl[ch[c]]
         IN  h.finished /\ Available(h) = 0 /\ h.received >= h.size
             /\ (h.retain /\ h.seen => h.received = h.size)

\* A blocked open, read or close returns: by an answer, a cancellation or a timeout,
\* whatever the server does.
CallsReturn ==
  \A c \in Client :
    /\ (cpc[c] \in {"open_test", "read_test"}) ~> (cpc[c] \in {"holding", "close", "idle"})
    /\ (cpc[c] = "close") ~> (cpc[c] = "idle")

=============================================================================
