-------------------------- MODULE HttpDownloadProofs --------------------------
(***************************************************************************)
(* Proofs about the HTTP downloader, for every number of clients,          *)
(* downloads, bytes and timeouts.  First who owns a download, and hence    *)
(* that it is destroyed once and never used again.  On top of it that the  *)
(* ring keeps the bytes in the order of the body, for every size of the    *)
(* ring and of the chunks, that no wakeup on h->changed is lost, and that  *)
(* no download leaks unless a timer fires just before its answer.          *)
(***************************************************************************)
EXTENDS HttpDownload, Integers, TLAPS

\* The fields of a download that ownership depends on, and the rest as data.
Struct ==
  [ready : BOOLEAN, finished : BOOLEAN, cancelled : BOOLEAN, orphaned : BOOLEAN,
   retain : BOOLEAN, seen : BOOLEAN, replayed : BOOLEAN, result : Result, size : Nat, head : Int, tail : Int,
   used : Int, received : Int, ring : [0 .. RingSize - 1 -> Int]]

\* What httpc_get knows of its transfer.
Getting ==
  [position : Int, length : Int, tries : 0 .. MaxTries, progress : BOOLEAN]

\* The worker holds the active download until it clears "active".
Busy == wpc \notin {"idle", "inactive", "destroy"}

Typed ==
  /\ dl \in [Download -> Struct]
  /\ destroyed \in [Download -> Nat]
  /\ opened \in 0 .. MaxDownloads
  /\ active \in 0 .. opened /\ pending \in 0 .. opened /\ wh \in 0 .. opened
  /\ wpc \in WorkerPc /\ rc \in {"OK", "ERROR"} /\ left \in Int /\ get \in Getting
  /\ cpc \in [Client -> ClientPc] /\ ch \in [Client -> 0 .. opened]
  /\ want \in [Client -> Nat]

\* The worker's own download, "active" and "pending".
WorkerOwns ==
  /\ wpc = "idle" <=> wh = 0
  /\ Busy => active = wh /\ pending = 0
  /\ ~Busy => pending = active /\ (wh # 0 => active # wh)
  /\ wpc = "destroy" => dl[wh].orphaned

\* A client holds a download exactly while it is inside or between calls for it.
ClientOwns ==
  /\ \A c \in Client : cpc[c] = "idle" <=> ch[c] = 0
  /\ \A c, e \in Client : ch[c] = ch[e] /\ ch[c] # 0 => c = e
  /\ \A c \in Client : cpc[c] = "destroy" => dl[ch[c]].finished

\* What the flags of a download say of those who hold it.
FlagsTell ==
  \A d \in Download :
    /\ dl[d].finished => active # d /\ (wh = d => wpc = "destroy")
    /\ dl[d].orphaned => \A c \in Client : ch[c] # d
    /\ d > opened => dl[d] = Fresh /\ destroyed[d] = 0

OwnerInv == Typed /\ WorkerOwns /\ ClientOwns /\ FlagsTell /\ DestroyedOnce

(***************************************************************************)
(* What the operators on one download do to its flags.                     *)
(***************************************************************************)
SameOwner(h, g) == h.finished = g.finished /\ h.orphaned = g.orphaned

LEMMA FreshStruct == Fresh \in Struct /\ ~Fresh.finished /\ ~Fresh.orphaned
  BY DEF Fresh, Struct, Result

LEMMA FilledType ==
  ASSUME NEW h \in Struct, NEW p \in Int, NEW n \in Int
  PROVE  Filled(h, p, n) \in [0 .. RingSize - 1 -> Int]
<1> DEFINE k(i) == (i + RingSize - h.head) % RingSize
           byte(i) == IF k(i) < n THEN p + k(i) + 1 ELSE h.ring[i]
<1>1. h.ring \in [0 .. RingSize - 1 -> Int] /\ h.head \in Int
  BY DEF Struct
<1>2. \A i \in 0 .. RingSize - 1 : k(i) \in Int
  BY <1>1, HttpAssumption
<1>3. Filled(h, p, n) = [i \in 0 .. RingSize - 1 |-> byte(i)]
  BY <1>1 DEF Filled
<1>4. ASSUME NEW i \in 0 .. RingSize - 1
      PROVE  byte(i) \in Int
  <2>1. k(i) \in Int /\ h.ring[i] \in Int
    BY <1>1, <1>2
  <2> HIDE DEF k
  <2> QED
    BY <1>1, <2>1
<1> HIDE DEF byte
<1> QED
  BY <1>3, <1>4

LEMMA CopyOwner ==
  ASSUME NEW h \in Struct, NEW p \in Int, NEW n \in Int
  PROVE  Copy(h, p, n) \in Struct /\ SameOwner(Copy(h, p, n), h)
<1> DEFINE take == LesserOf(n, RingSize - h.used)
<1>1. take \in Int
  BY HttpAssumption DEF LesserOf, Struct
<1>2. Filled(h, p, take) \in [0 .. RingSize - 1 -> Int]
  BY <1>1, FilledType
<1>3. (h.head + take) % RingSize \in Int
  BY <1>1, HttpAssumption DEF Struct
<1>4. h.used + take \in Int /\ h.received + take \in Int
  BY <1>1 DEF Struct
<1> HIDE DEF take
<1>5. Copy(h, p, n) = [h EXCEPT !.ring = Filled(h, p, take),
                !.head = (@ + take) % RingSize,
                !.used = @ + take,
                !.received = @ + take,
                !.ready = @ \/ (~h.retain /\ take > 0)]
  BY DEF Copy, take
<1> QED
  BY <1>2, <1>3, <1>4, <1>5 DEF Struct, SameOwner

LEMMA WithBodyOwner ==
  ASSUME NEW h \in Struct
  PROVE  WithBody(h) \in Struct /\ SameOwner(WithBody(h), h)
  BY DEF WithBody, Struct, SameOwner

LEMMA DrainOwner ==
  ASSUME NEW h \in Struct, NEW n \in Int
  PROVE  Drain(h, n) \in Struct /\ SameOwner(Drain(h, n), h)
<1>1. (h.tail + n) % RingSize \in Int /\ h.tail + n \in Int /\ h.used - n \in Int
  BY HttpAssumption DEF Struct
<1> QED
  BY <1>1 DEF Drain, Struct, SameOwner

LEMMA FinishOwner ==
  ASSUME NEW h \in Struct
  PROVE  /\ Finish(h) \in Struct
         /\ Finish(h).finished /\ Finish(h).orphaned = h.orphaned
<1>1. FinalResult(h) \in Result
  BY DEF FinalResult, Result, Struct
<1> QED
  BY <1>1 DEF Finish, Struct

LEMMA WakeClientsOwner ==
  ASSUME NEW pc \in [Client -> ClientPc], NEW d
  PROVE  /\ WakeClients(pc, d) \in [Client -> ClientPc]
         /\ \A c \in Client : /\ (WakeClients(pc, d)[c] = "idle") = (pc[c] = "idle")
                              /\ (WakeClients(pc, d)[c] = "destroy") = (pc[c] = "destroy")
  BY DEF WakeClients, Awake, ClientPc

LEMMA WakeWorkerOwner ==
  ASSUME wpc \in WorkerPc, NEW d
  PROVE  /\ WakeWorker(d) \in WorkerPc
         /\ WakeWorker(d) = wpc \/ (wpc = "full_sleep" /\ WakeWorker(d) = "full_test")
  BY DEF WakeWorker, Awake, WorkerPc

(***************************************************************************)
(* Most steps do not touch ownership: they change the data of one download *)
(* that somebody holds, and move a thread within its call.                 *)
(***************************************************************************)
SameFlags ==
  /\ dl' \in [Download -> Struct]
  /\ \A d \in Download : SameOwner(dl'[d], dl[d]) /\ (d > opened => dl'[d] = dl[d])

LEMMA OneChanges ==
  ASSUME Typed, NEW d \in 1 .. opened, NEW h \in Struct, SameOwner(h, dl[d]),
         dl' = [dl EXCEPT ![d] = h]
  PROVE  SameFlags
<1>1. d \in Download /\ opened \in Nat
  BY HttpAssumption DEF Typed, Download
<1>2. dl' \in [Download -> Struct] /\ dl'[d] = h
  BY <1>1 DEF Typed
<1>3. \A e \in Download : e # d => dl'[e] = dl[e]
  BY DEF Typed
<1>4. \A e \in Download : e > opened => e # d
  BY <1>1 DEF Download
<1> QED
  BY <1>1, <1>2, <1>3, <1>4 DEF SameFlags, SameOwner

LEMMA NoneChanges ==
  ASSUME Typed, dl' = dl
  PROVE  SameFlags
  BY DEF Typed, SameFlags, SameOwner

LEMMA QuietKeeps ==
  ASSUME OwnerInv, SameFlags,
         UNCHANGED <<destroyed, opened, active, pending, wh, ch>>,
         wpc' \in WorkerPc, wpc' = wpc \/ (Busy /\ Busy'),
         rc' \in {"OK", "ERROR"}, left' \in Int, get' \in Getting,
         cpc' \in [Client -> ClientPc], want' \in [Client -> Nat],
         \A c \in Client : /\ (cpc'[c] = "idle") = (cpc[c] = "idle")
                           /\ cpc'[c] = "destroy" => cpc[c] = "destroy" \/ dl[ch[c]].finished
  PROVE  OwnerInv'
<1> USE DEF OwnerInv
<1>1. Typed'
  BY DEF Typed, SameFlags
<1>2. \A d \in Download : dl'[d].finished = dl[d].finished /\ dl'[d].orphaned = dl[d].orphaned
  BY DEF SameFlags, SameOwner
<1>3. WorkerOwns'
  <2>1. wpc = "destroy" => wh \in Download
    BY HttpAssumption DEF Typed, WorkerOwns, Download
  <2> QED
    BY <1>2, <2>1 DEF WorkerOwns, Busy
<1>4. ClientOwns'
  <2>1. \A c \in Client : cpc[c] # "idle" => ch[c] \in Download
    BY HttpAssumption DEF Typed, ClientOwns, Download
  <2> QED
    BY <1>2, <2>1 DEF ClientOwns
<1>5. FlagsTell'
  BY <1>2 DEF FlagsTell, SameFlags, Busy
<1>6. DestroyedOnce'
  BY DEF DestroyedOnce, InUse
<1> QED
  BY <1>1, <1>3, <1>4, <1>5, <1>6

(***************************************************************************)
(* The worker.                                                             *)
(***************************************************************************)
LEMMA BusyDownload ==
  ASSUME OwnerInv, Busy
  PROVE  wh \in 1 .. opened /\ dl[wh] \in Struct /\ wh \in Download
  BY HttpAssumption DEF OwnerInv, Typed, WorkerOwns, Busy, Download

\* The state of httpc_get keeps its type.
LEMMA GettingType ==
  ASSUME NEW g \in Getting
  PROVE  /\ \A p, n \in Int : [g EXCEPT !.position = p, !.length = n] \in Getting
         /\ \A n \in Int : [g EXCEPT !.length = n] \in Getting
         /\ \A p \in Int : [g EXCEPT !.position = p, !.progress = TRUE] \in Getting
         /\ \A k \in 0 .. MaxTries : [g EXCEPT !.tries = k, !.progress = FALSE] \in Getting
  BY DEF Getting

\* Steps of httpc_get that only move the worker.
Polled == RequestFails \/ RequestRefused \/ Backoff \/ TransferEnds \/ TransferBreaks

LEMMA PolledKeeps ==
  ASSUME OwnerInv, Polled
  PROVE  /\ dl' = dl /\ Busy /\ Busy' /\ get' \in Getting
         /\ wpc' \in WorkerPc /\ rc' \in {"OK", "ERROR"}
         /\ UNCHANGED <<opened, destroyed, active, pending, wh, left, clientVars>>
<1> USE DEF Busy, WorkerPc, clientVars
<1>1. get \in Getting /\ rc \in {"OK", "ERROR"}
  BY DEF OwnerInv, Typed
<1>2. CASE Backoff
  <2> DEFINE k == IF get.progress THEN get.tries ELSE get.tries + 1
  <2>1. get' = get \/ (get.tries < MaxTries /\ get' = [get EXCEPT !.tries = k, !.progress = FALSE])
    <3>1. get.tries \in 0 .. MaxTries /\ MaxTries \in Nat
      BY <1>1, HttpAssumption DEF Getting
    <3>2. ~(get.tries >= MaxTries) => get.tries < MaxTries
      BY <3>1
    <3> QED
      BY <1>2, <3>2 DEF Backoff
  <2>2. get.tries < MaxTries => k \in 0 .. MaxTries
    BY <1>1, HttpAssumption DEF Getting
  <2> HIDE DEF k
  <2>3. get' \in Getting
    BY <1>1, <2>1, <2>2, GettingType
  <2> QED
    BY <1>1, <1>2, <2>3 DEF Backoff
<1>3. CASE Polled /\ ~Backoff
  BY <1>1, <1>3 DEF Polled, RequestFails, RequestRefused, TransferEnds, TransferBreaks
<1> QED
  BY <1>2, <1>3

\* An answer to a request only notes that a body starts again.
LEMMA AnsweredKeeps ==
  ASSUME OwnerInv, RequestAnswered
  PROVE  \E b \in BOOLEAN :
           LET h == [dl[wh] EXCEPT !.replayed = b]
           IN  /\ dl' = [dl EXCEPT ![wh] = h] /\ (dl[wh].replayed => b)
               /\ h \in Struct /\ SameOwner(h, dl[wh])
               /\ wh \in 1 .. opened /\ wh \in Download /\ dl[wh] \in Struct
               /\ get' \in Getting
<1>1. wh \in 1 .. opened /\ wh \in Download /\ dl[wh] \in Struct /\ dl \in [Download -> Struct]
  BY BusyDownload DEF RequestAnswered, Busy, OwnerInv, Typed
<1>2. get \in Getting
  BY DEF OwnerInv, Typed
<1>3. \E b \in BOOLEAN : dl' = [dl EXCEPT ![wh] = [dl[wh] EXCEPT !.replayed = b]]
                       /\ (dl[wh].replayed => b)
  <2>1. CASE dl' = dl
    <3>1. dl = [dl EXCEPT ![wh] = [dl[wh] EXCEPT !.replayed = dl[wh].replayed]]
      BY <1>1 DEF Struct
    <3> QED
      BY <1>1, <2>1, <3>1 DEF Struct
  <2>2. CASE dl' # dl
    <3>1. dl' = [dl EXCEPT ![wh] = [dl[wh] EXCEPT !.replayed =
                   @ \/ (get.position > 0 /\ ~dl[wh].retain)]]
      BY <1>1, <2>2 DEF RequestAnswered
    <3> QED
      BY <1>1, <3>1 DEF Struct
  <2> QED
    BY <2>1, <2>2
<1>4. get' \in Getting
  <2>1. dl[wh].size \in Int /\ get.position \in Int
    BY <1>1, <1>2 DEF Struct, Getting
  <2>2. \A n \in ResumedLengths(dl[wh].size) : n \in Int
    BY <2>1 DEF ResumedLengths
  <2>3. \/ get' = [get EXCEPT !.position = 0, !.length = dl[wh].size]
        \/ \E n \in ResumedLengths(dl[wh].size) : get' = [get EXCEPT !.length = n]
    BY DEF RequestAnswered
  <2> QED
    <3> DEFINE g(p, n) == [get EXCEPT !.position = p, !.length = n]
    <3>1. \A p, n \in Int : g(p, n) \in Getting
      BY <1>2, GettingType
    <3>2. CASE get' = g(0, dl[wh].size)
      <4> HIDE DEF g
      <4> QED
        BY <2>1, <3>1, <3>2
    <3>3. CASE get' # g(0, dl[wh].size)
      BY <1>2, <2>2, <2>3, <3>3, GettingType
    <3> QED
      BY <3>2, <3>3
<1> QED
  BY <1>1, <1>3, <1>4 DEF Struct, SameOwner

\* Steps inside a transfer.
LEMMA TransferKeeps ==
  ASSUME OwnerInv,
         \/ WorkerStart
         \/ WorkerTimer
         \/ WorkerTimedOut
         \/ RequestAnswered
         \/ Polled
  PROVE  OwnerInv'
<1> USE DEF clientVars, WorkerPc, Busy
<1>1. CASE WorkerStart
  <2>1. PICK n \in Sizes[wh] : dl' = [dl EXCEPT ![wh].size = n]
    BY <1>1 DEF WorkerStart
  <2>2. wh \in 1 .. opened /\ wh \in Download /\ dl[wh] \in Struct
    BY <1>1, BusyDownload DEF WorkerStart
  <2>6. n \in Nat
    BY <2>2, HttpAssumption DEF Download
  <2> DEFINE h == [dl[wh] EXCEPT !.size = n]
  <2>3. h \in Struct /\ SameOwner(h, dl[wh])
    BY <2>2, <2>6 DEF Struct, SameOwner
  <2>4. dl' = [dl EXCEPT ![wh] = h]
    BY <2>1
  <2> HIDE DEF h
  <2>5. SameFlags
    BY <2>2, <2>3, <2>4, OneChanges DEF OwnerInv
  <2> QED
    BY <1>1, <2>5, QuietKeeps DEF WorkerStart, OwnerInv, Typed
<1>2. CASE WorkerTimer
  <2>1. SameFlags
    BY <1>2, NoneChanges DEF WorkerTimer, OwnerInv
  <2> QED
    BY <1>2, <2>1, QuietKeeps DEF WorkerTimer, OwnerInv, Typed
<1>3. CASE WorkerTimedOut
  <2>2. wh \in 1 .. opened /\ dl[wh] \in Struct
    BY <1>3, BusyDownload DEF WorkerTimedOut
  <2> DEFINE h == [dl[wh] EXCEPT !.result = "TIMEOUT", !.cancelled = TRUE]
  <2>3. h \in Struct /\ SameOwner(h, dl[wh])
    BY <2>2 DEF Struct, SameOwner, Result
  <2>4. dl' = [dl EXCEPT ![wh] = h]
    BY <1>3, <2>2 DEF WorkerTimedOut, OwnerInv, Typed
  <2> HIDE DEF h
  <2>5. SameFlags
    BY <2>2, <2>3, <2>4, OneChanges DEF OwnerInv
  <2> QED
    BY <1>3, <2>5, QuietKeeps DEF WorkerTimedOut, OwnerInv, Typed
<1>4. CASE RequestAnswered
  <2>1. PICK b \in BOOLEAN :
          LET h == [dl[wh] EXCEPT !.replayed = b]
          IN  /\ dl' = [dl EXCEPT ![wh] = h]
              /\ h \in Struct /\ SameOwner(h, dl[wh])
              /\ wh \in 1 .. opened /\ get' \in Getting
    BY <1>4, AnsweredKeeps
  <2>2. SameFlags
    BY <2>1, OneChanges DEF OwnerInv
  <2> QED
    BY <1>4, <2>1, <2>2, QuietKeeps DEF RequestAnswered, OwnerInv, Typed
<1>5. CASE Polled
  <2>1. SameFlags
    BY <1>5, PolledKeeps, NoneChanges DEF OwnerInv
  <2>2. /\ dl' = dl /\ Busy /\ Busy' /\ get' \in Getting
        /\ wpc' \in WorkerPc /\ rc' \in {"OK", "ERROR"}
        /\ UNCHANGED <<opened, destroyed, active, pending, wh, left, clientVars>>
    BY <1>5, PolledKeeps
  <2> QED
    BY <2>1, <2>2, QuietKeeps DEF OwnerInv, Typed
<1> QED
  BY <1>1, <1>2, <1>3, <1>4, <1>5

\* receive_chunk.
LEMMA ReceiveKeeps ==
  ASSUME OwnerInv, Busy, NEW h \in Struct, SameOwner(h, dl[wh]), NEW n \in Int,
         Receive(h, n),
         UNCHANGED <<opened, destroyed, active, pending, wh, rc, ch, want, last>>
  PROVE  OwnerInv'
<1> DEFINE new == Copy(h, get.position, n)
<1>0. get \in Getting /\ get.position \in Int
  BY DEF OwnerInv, Typed, Getting
<1>1. new \in Struct /\ SameOwner(new, dl[wh])
  BY <1>0, CopyOwner DEF SameOwner
<1>2. new.received \in Int /\ h.received \in Int
  BY <1>1 DEF Struct
<1>3. wh \in 1 .. opened
  BY BusyDownload
<1>4. cpc \in [Client -> ClientPc]
  BY DEF OwnerInv, Typed
<1> HIDE DEF new
<1>5. dl' = [dl EXCEPT ![wh] = h] \/ dl' = [dl EXCEPT ![wh] = new]
  BY DEF Receive, new
<1>6. SameFlags
  BY <1>1, <1>3, <1>5, OneChanges DEF OwnerInv
<1>7. wpc' \in {"ended", "full_sleep", "transfer"} /\ left' \in Int
  BY <1>2 DEF Receive, new
<1>10. get' \in Getting
  <2>1. get' = get \/ get' = [get EXCEPT !.position = @ + (new.received - h.received),
                                         !.progress = TRUE]
    BY DEF Receive, new
  <2> QED
    <3> DEFINE p == get.position + (new.received - h.received)
    <3>1. p \in Int /\ (get' = get \/ get' = [get EXCEPT !.position = p, !.progress = TRUE])
      BY <1>0, <1>2, <2>1
    <3> HIDE DEF p
    <3> QED
      BY <1>0, <3>1, GettingType
<1>8. cpc' = cpc \/ cpc' = WakeClients(cpc, wh)
  BY DEF Receive
<1>9. /\ cpc' \in [Client -> ClientPc]
      /\ \A c \in Client : /\ (cpc'[c] = "idle") = (cpc[c] = "idle")
                           /\ (cpc'[c] = "destroy") = (cpc[c] = "destroy")
  BY <1>4, <1>8, WakeClientsOwner
<1> QED
  BY <1>6, <1>7, <1>9, <1>10, QuietKeeps DEF OwnerInv, Typed, Busy, WorkerPc

LEMMA ChunkKeeps ==
  ASSUME OwnerInv, WorkerResume \/ \E n \in 1 .. MaxChunk : WorkerChunk(n)
  PROVE  OwnerInv'
<1>1. CASE WorkerResume
  <2>1. Busy
    BY <1>1 DEF WorkerResume, Busy
  <2>2. dl[wh] \in Struct /\ SameOwner(dl[wh], dl[wh]) /\ left \in Int
    BY <2>1, BusyDownload DEF SameOwner, OwnerInv, Typed
  <2> QED
    BY <1>1, <2>1, <2>2, ReceiveKeeps DEF WorkerResume
<1>2. ASSUME NEW n \in 1 .. MaxChunk, WorkerChunk(n) PROVE OwnerInv'
  <2> DEFINE h == WithBody(dl[wh])
  <2>1. Busy /\ n \in Int
    BY <1>2, HttpAssumption DEF WorkerChunk, Busy
  <2>2. wh \in 1 .. opened /\ h \in Struct /\ SameOwner(h, dl[wh])
    BY <2>1, BusyDownload, WithBodyOwner
  <2>3. UNCHANGED <<opened, destroyed, active, pending, wh, rc, ch, want, last>>
    BY <1>2 DEF WorkerChunk
  <2>4. CASE Receive(h, n)
    BY <2>1, <2>2, <2>3, <2>4, ReceiveKeeps
  <2>5. CASE ~Receive(h, n)
    <3> DEFINE g == [h EXCEPT !.result = "IO"]
    <3>1. dl' = [dl EXCEPT ![wh] = g] /\ wpc' = "ended" /\ UNCHANGED <<left, get, cpc>>
      BY <1>2, <2>5 DEF WorkerChunk
    <3>2. g \in Struct /\ SameOwner(g, dl[wh])
      BY <2>2 DEF Struct, SameOwner, Result
    <3> HIDE DEF g
    <3>3. SameFlags
      BY <2>2, <3>1, <3>2, OneChanges DEF OwnerInv
    <3> QED
      BY <2>1, <2>3, <3>1, <3>3, QuietKeeps DEF OwnerInv, Typed, WorkerPc, Busy
  <2> QED
    BY <2>4, <2>5
<1> QED
  BY <1>1, <1>2

\* The worker takes a download, gives up "active", finishes and destroys.
LEMMA TakeKeeps ==
  ASSUME OwnerInv, WorkerTake
  PROVE  OwnerInv'
<1> USE DEF OwnerInv, WorkerTake, clientVars
<1>1. Typed'
  BY DEF Typed, WorkerPc
<1>2. WorkerOwns'
  BY DEF WorkerOwns, Busy
<1>3. ClientOwns' /\ FlagsTell' /\ DestroyedOnce'
  BY DEF ClientOwns, FlagsTell, DestroyedOnce, InUse, WorkerOwns, Busy
<1> QED
  BY <1>1, <1>2, <1>3

LEMMA InactiveKeeps ==
  ASSUME OwnerInv, WorkerInactive
  PROVE  OwnerInv'
<1> USE DEF OwnerInv, WorkerInactive, clientVars
<1>1. Typed'
  BY HttpAssumption DEF Typed, WorkerPc, Getting, NoGet
<1>2. WorkerOwns'
  BY DEF WorkerOwns, Busy
<1>3. ClientOwns' /\ DestroyedOnce'
  BY DEF ClientOwns, DestroyedOnce, InUse, WorkerOwns, Busy
<1>4. FlagsTell'
  <2>1. \A d \in Download : d # 0
    BY DEF Download
  <2> QED
    BY <2>1 DEF FlagsTell, WorkerOwns, Busy
<1> QED
  BY <1>1, <1>2, <1>3, <1>4

LEMMA FinishKeeps ==
  ASSUME OwnerInv, WorkerFinish
  PROVE  OwnerInv'
<1> USE DEF OwnerInv
<1>1. wh \in 1 .. opened /\ wh \in Download /\ active # wh /\ pending = active
  BY HttpAssumption DEF WorkerFinish, Typed, WorkerOwns, Busy, Download
<1> DEFINE h == Finish(dl[wh])
<1>2. h \in Struct /\ h.finished /\ h.orphaned = dl[wh].orphaned
  BY <1>1, FinishOwner DEF Typed
<1>3. dl' = [dl EXCEPT ![wh] = h]
  BY DEF WorkerFinish
<1> HIDE DEF h
<1>4. dl' \in [Download -> Struct] /\ dl'[wh] = h /\ \A d \in Download \ {wh} : dl'[d] = dl[d]
  BY <1>1, <1>2, <1>3 DEF Typed
<1>5. /\ cpc' \in [Client -> ClientPc]
      /\ \A c \in Client : /\ (cpc'[c] = "idle") = (cpc[c] = "idle")
                           /\ (cpc'[c] = "destroy") = (cpc[c] = "destroy")
  BY WakeClientsOwner DEF WorkerFinish, Typed
<1>6. \/ wpc' = "destroy" /\ wh' = wh /\ dl[wh].orphaned
      \/ wpc' = "idle" /\ wh' = 0
  BY DEF WorkerFinish
<1>7. rc' = "ERROR" /\ UNCHANGED <<opened, destroyed, active, pending, left, get, ch, want>>
  BY DEF WorkerFinish
<1>8. Typed'
  BY <1>4, <1>5, <1>6, <1>7, HttpAssumption DEF Typed, WorkerPc
<1>9. WorkerOwns'
  BY <1>1, <1>2, <1>4, <1>6, <1>7 DEF WorkerOwns, Busy
<1>10. ClientOwns'
  <2>1. \A c \in Client : cpc[c] # "idle" => ch[c] \in Download
    BY HttpAssumption DEF Typed, ClientOwns, Download
  <2> QED
    BY <1>2, <1>4, <1>5, <1>7, <2>1 DEF ClientOwns
<1>11. FlagsTell'
  <2>1. \A d \in Download : d > opened => d # wh
    BY <1>1 DEF Typed, Download
  <2>2. \A d \in Download : d # 0
    BY DEF Download
  <2> QED
    BY <1>1, <1>2, <1>4, <1>6, <1>7, <2>1, <2>2 DEF FlagsTell
<1>12. DestroyedOnce'
  BY <1>6, <1>7 DEF DestroyedOnce, InUse, Download
<1> QED
  BY <1>8, <1>9, <1>10, <1>11, <1>12

\* destroy_download of a download that nobody refers to any more.
LEMMA DestroyKeeps ==
  ASSUME OwnerInv, NEW d \in 1 .. opened, InUse(d), destroy_download(d), ~InUse(d)',
         UNCHANGED <<opened, active, pending, left, get, rc, want>>,
         wh' \in {wh, 0}, wpc' \in WorkerPc, cpc' \in [Client -> ClientPc],
         ch' \in [Client -> 0 .. opened],
         \A c \in Client : ch'[c] \in {ch[c], 0},
         WorkerOwns',
         \A c \in Client : /\ (cpc'[c] = "idle") = (ch'[c] = 0)
                           /\ cpc'[c] = "destroy" => cpc[c] = "destroy" /\ ch'[c] = ch[c],
         wh' = 0 \/ (wpc' = wpc)
  PROVE  OwnerInv'
<1> USE DEF OwnerInv
<1>1. d \in Download /\ opened \in Nat
  BY HttpAssumption DEF Typed, Download
<1>2. /\ dl' \in [Download -> Struct] /\ dl'[d] = Fresh
      /\ \A e \in Download \ {d} : dl'[e] = dl[e] /\ destroyed'[e] = destroyed[e]
      /\ destroyed' \in [Download -> Nat] /\ destroyed'[d] = destroyed[d] + 1
  BY <1>1, FreshStruct DEF destroy_download, Typed
<1>3. destroyed[d] = 0
  BY <1>1 DEF DestroyedOnce, Typed
<1>4. \A e \in Download : InUse(e)' => InUse(e)
  <2>1. \A e \in Download : e # 0
    BY DEF Download
  <2> QED
    BY <2>1 DEF InUse
<1>5. Typed'
  BY <1>2, HttpAssumption DEF Typed
<1>6. ClientOwns'
  <2>1. \A c \in Client : cpc'[c] = "destroy" => ch'[c] \in Download /\ ch'[c] # d
    <3> SUFFICES ASSUME NEW c \in Client, cpc'[c] = "destroy"
                 PROVE  ch'[c] \in Download /\ ch'[c] # d
      OBVIOUS
    <3>1. ch'[c] # 0 /\ ch'[c] \in 0 .. opened
      OBVIOUS
    <3>2. ch'[c] \in Download
      BY <3>1, HttpAssumption DEF Typed, Download
    <3>3. ch'[c] # d
      BY DEF InUse
    <3> QED
      BY <3>2, <3>3
  <2> QED
    BY <1>2, <2>1 DEF ClientOwns
<1>7. FlagsTell'
  <2>1. \A e \in Download : e > opened => e # d
    BY <1>1 DEF Download
  <2>2. \A e \in Download : e # 0
    BY DEF Download
  <2> QED
    BY <1>1, <1>2, <2>1, <2>2, FreshStruct DEF FlagsTell, InUse
<1>8. DestroyedOnce'
  BY <1>1, <1>2, <1>3, <1>4 DEF DestroyedOnce
<1> QED
  BY <1>5, <1>6, <1>7, <1>8

LEMMA WorkerDestroyKeeps ==
  ASSUME OwnerInv, WorkerDestroy
  PROVE  OwnerInv'
<1> USE DEF OwnerInv, WorkerDestroy, clientVars
<1>1. wh \in 1 .. opened /\ wh \in Download /\ active # wh /\ pending = active
  BY HttpAssumption DEF Typed, WorkerOwns, Busy, Download
<1>2. \A c \in Client : ch[c] # wh
  BY <1>1 DEF WorkerOwns, FlagsTell
<1>3. InUse(wh) /\ destroy_download(wh)
  BY DEF InUse
<1>4. ~(wh \in {active', pending', wh'} \/ \E c \in Client : ch'[c] = wh)
  BY <1>1, <1>2
<1>5. WorkerOwns'
  BY <1>1 DEF WorkerOwns, Busy
<1>6. wpc' \in WorkerPc /\ cpc' \in [Client -> ClientPc] /\ ch' \in [Client -> 0 .. opened]
  BY DEF Typed, WorkerPc
<1> QED
  BY <1>1, <1>2, <1>3, <1>4, <1>5, <1>6, DestroyKeeps DEF ClientOwns, InUse

LEMMA WorkerKeeps ==
  ASSUME OwnerInv, WorkerStep
  PROVE  OwnerInv'
  BY TakeKeeps, TransferKeeps, ChunkKeeps, InactiveKeeps, FinishKeeps, WorkerDestroyKeeps
     DEF WorkerStep, Polled

(***************************************************************************)
(* The clients.                                                            *)
(***************************************************************************)
LEMMA HeldDownload ==
  ASSUME OwnerInv, NEW c \in Client, cpc[c] # "idle"
  PROVE  ch[c] \in 1 .. opened /\ ch[c] \in Download /\ dl[ch[c]] \in Struct
  BY HttpAssumption DEF OwnerInv, Typed, ClientOwns, Download

\* A client goes on within its calls for the download it holds.
LEMMA MoveKeeps ==
  ASSUME OwnerInv, SameFlags, NEW c \in Client, cpc[c] # "idle",
         NEW pc \in ClientPc \ {"idle"}, pc = "destroy" => dl[ch[c]].finished,
         SetPc(c, pc), want' \in [Client -> Nat],
         UNCHANGED <<destroyed, opened, active, pending, wh, ch, left, get, rc>>,
         wpc' = wpc \/ wpc' = WakeWorker(ch[c])
  PROVE  OwnerInv'
<1>1. /\ cpc \in [Client -> ClientPc] /\ wpc \in WorkerPc
      /\ rc \in {"OK", "ERROR"} /\ left \in Int /\ get \in Getting
  BY DEF OwnerInv, Typed
<1>2. /\ cpc' \in [Client -> ClientPc]
      /\ \A e \in Client : /\ (cpc'[e] = "idle") = (cpc[e] = "idle")
                           /\ cpc'[e] = "destroy" => cpc[e] = "destroy" \/ dl[ch[e]].finished
  BY <1>1 DEF SetPc
<1>3. wpc' \in WorkerPc /\ (wpc' = wpc \/ (Busy /\ Busy'))
  BY <1>1, WakeWorkerOwner DEF Busy
<1> QED
  BY <1>1, <1>2, <1>3, QuietKeeps

\* The steps that only move the client.
LEMMA WaitKeeps ==
  ASSUME OwnerInv, NEW c \in Client,
         \/ OpenTest(c)
         \/ ClientTimer(c)
         \/ CloseTest(c)
         \/ CloseBegin(c)
         \/ \E n \in 1 .. MaxChunk : ReadBegin(c, n)
  PROVE  OwnerInv'
<1>1. SameFlags
  BY NoneChanges DEF OwnerInv, OpenTest, ClientTimer, CloseTest, CloseBegin, ReadBegin
<1>2. want' \in [Client -> Nat]
  <2>1. want \in [Client -> Nat] /\ \A n \in 1 .. MaxChunk : n \in Nat
    BY HttpAssumption DEF OwnerInv, Typed
  <2>2. want' = want \/ \E n \in 1 .. MaxChunk : want' = [want EXCEPT ![c] = n]
    BY DEF OpenTest, ClientTimer, CloseTest, CloseBegin, ReadBegin
  <2> QED
    BY <2>1, <2>2
<1>3. UNCHANGED <<destroyed, opened, active, pending, wh, ch, left, get, rc, wpc>>
  BY DEF OpenTest, ClientTimer, CloseTest, CloseBegin, ReadBegin, workerVars
<1>4. CASE OpenTest(c)
  <2>1. PICK pc \in {"open_sleep", "close", "holding"} : SetPc(c, pc)
    BY <1>4 DEF OpenTest
  <2> QED
    BY <1>1, <1>2, <1>3, <1>4, <2>1, MoveKeeps DEF OpenTest, ClientPc
<1>5. CASE ClientTimer(c)
  <2>1. PICK pc \in {"open_late", "read_late"} : SetPc(c, pc)
    BY <1>5 DEF ClientTimer
  <2>2. cpc[c] # "idle"
    BY <1>5 DEF ClientTimer
  <2> QED
    BY <1>1, <1>2, <1>3, <2>1, <2>2, MoveKeeps DEF ClientPc
<1>6. CASE CloseTest(c)
  <2>1. PICK pc \in {"close_sleep", "destroy"} :
          SetPc(c, pc) /\ (pc = "destroy" => dl[ch[c]].finished)
    BY <1>6 DEF CloseTest
  <2> QED
    BY <1>1, <1>2, <1>3, <1>6, <2>1, MoveKeeps DEF CloseTest, ClientPc
<1>7. CASE CloseBegin(c)
  BY <1>1, <1>2, <1>3, <1>7, MoveKeeps DEF CloseBegin, ClientPc
<1>8. CASE \E n \in 1 .. MaxChunk : ReadBegin(c, n)
  BY <1>1, <1>2, <1>3, <1>8, MoveKeeps DEF ReadBegin, ClientPc
<1> QED
  BY <1>4, <1>5, <1>6, <1>7, <1>8

\* The end of http_downloader_read, after a wakeup or a timeout.
LEMMA ReadKeeps ==
  ASSUME OwnerInv, NEW c \in Client, ReadTest(c) \/ ReadTimedOut(c)
  PROVE  OwnerInv'
<1>1. cpc[c] # "idle" /\ UNCHANGED <<opened, destroyed, active, pending, wh, left, get, rc, ch>>
  BY DEF ReadTest, ReadTimedOut
<1>2. ch[c] \in 1 .. opened /\ dl[ch[c]] \in Struct
  BY <1>1, HeldDownload
<1>3. ASSUME NEW h \in Struct, SameOwner(h, dl[ch[c]]), Deliver(c, h)
      PROVE  OwnerInv'
  <2> DEFINE take == LesserOf(want[c], Available(h))
  <2>1. take \in Int
    BY DEF LesserOf, Available, OwnerInv, Typed, Struct
  <2>2. Drain(h, take) \in Struct /\ SameOwner(Drain(h, take), dl[ch[c]])
    BY <1>3, <2>1, DrainOwner DEF SameOwner
  <2>3. dl' = [dl EXCEPT ![ch[c]] = Drain(h, take)] /\ SetPc(c, "holding")
        /\ (wpc' = wpc \/ wpc' = WakeWorker(ch[c]))
    BY <1>3 DEF Deliver
  <2>4. want' \in [Client -> Nat]
    BY <1>3 DEF Deliver, OwnerInv, Typed
  <2> HIDE DEF take
  <2>5. SameFlags
    BY <1>2, <2>2, <2>3, OneChanges DEF OwnerInv
  <2> QED
    BY <1>1, <2>3, <2>4, <2>5, MoveKeeps DEF ClientPc
<1>4. CASE ReadTimedOut(c)
  <2> DEFINE h == [dl[ch[c]] EXCEPT !.result = "TIMEOUT", !.cancelled = TRUE]
  <2>1. h \in Struct /\ SameOwner(h, dl[ch[c]])
    BY <1>2 DEF Struct, SameOwner, Result
  <2>2. Deliver(c, h)
    BY <1>4 DEF ReadTimedOut
  <2> QED
    BY <1>3, <2>1, <2>2
<1>5. CASE ReadTest(c) /\ MustWait(dl[ch[c]])
  <2>1. SameFlags /\ SetPc(c, "read_sleep") /\ UNCHANGED <<wpc, want>>
    BY <1>5, NoneChanges DEF ReadTest, OwnerInv
  <2> QED
    BY <1>1, <2>1, MoveKeeps DEF OwnerInv, Typed, ClientPc
<1>6. CASE ReadTest(c) /\ ~MustWait(dl[ch[c]])
  BY <1>2, <1>3, <1>6 DEF ReadTest, SameOwner
<1> QED
  BY <1>4, <1>5, <1>6

\* close and seek, which change the flags of the download, and cancel_all,
\* which changes those of the active one.
LEMMA FlagKeeps ==
  ASSUME OwnerInv, NEW c \in Client,
         \/ http_downloader_close(c)
         \/ \E t \in 0 .. RingSize : http_downloader_seek(c, t)
  PROVE  OwnerInv'
<1>1. cpc[c] # "idle" /\ UNCHANGED <<destroyed, opened, active, pending, wh, ch, left, get, rc, want>>
  BY DEF http_downloader_close, http_downloader_seek, workerVars
<1>2. ch[c] \in 1 .. opened /\ dl[ch[c]] \in Struct /\ dl \in [Download -> Struct]
  BY <1>1, HeldDownload DEF OwnerInv, Typed
<1>3. want' \in [Client -> Nat] /\ cpc \in [Client -> ClientPc]
  BY <1>1 DEF OwnerInv, Typed
<1>4. CASE http_downloader_close(c)
  <2> DEFINE h == [dl[ch[c]] EXCEPT !.cancelled = TRUE]
  <2>1. h \in Struct /\ SameOwner(h, dl[ch[c]]) /\ dl' = [dl EXCEPT ![ch[c]] = h]
    BY <1>2, <1>4 DEF Struct, SameOwner, http_downloader_close
  <2> HIDE DEF h
  <2>2. SameFlags
    BY <1>2, <2>1, OneChanges DEF OwnerInv
  <2> QED
    BY <1>1, <1>3, <1>4, <2>2, MoveKeeps DEF http_downloader_close, ClientPc
<1>5. ASSUME NEW t \in 0 .. RingSize, http_downloader_seek(c, t) PROVE OwnerInv'
  <2> DEFINE h == [dl[ch[c]] EXCEPT !.tail = LesserOf(t, dl[ch[c]].used)]
  <2>1. LesserOf(t, dl[ch[c]].used) \in Int
    BY <1>2, HttpAssumption DEF LesserOf, Struct
  <2>2. h \in Struct /\ SameOwner(h, dl[ch[c]])
    BY <1>2, <2>1 DEF Struct, SameOwner
  <2>3. dl' = [dl EXCEPT ![ch[c]] = h]
    BY <1>2, <1>5 DEF http_downloader_seek
  <2> HIDE DEF h
  <2>4. SameFlags
    BY <1>2, <2>2, <2>3, OneChanges DEF OwnerInv
  <2> QED
    BY <1>1, <1>3, <1>5, <2>4, QuietKeeps DEF http_downloader_seek, workerVars, OwnerInv, Typed
<1> QED
  BY <1>4, <1>5

LEMMA CancelKeeps ==
  ASSUME OwnerInv, http_downloader_cancel_all
  PROVE  OwnerInv'
<1>1. active \in 1 .. opened /\ active \in Download /\ dl[active] \in Struct
  BY HttpAssumption DEF http_downloader_cancel_all, OwnerInv, Typed, Download
<1> DEFINE h == [dl[active] EXCEPT !.cancelled = TRUE, !.result = "IO", !.ready = TRUE]
<1>2. h \in Struct /\ SameOwner(h, dl[active])
  BY <1>1 DEF Struct, SameOwner, Result
<1>3. dl' = [dl EXCEPT ![active] = h]
  BY <1>1 DEF http_downloader_cancel_all, OwnerInv, Typed
<1> HIDE DEF h
<1>4. SameFlags
  BY <1>1, <1>2, <1>3, OneChanges DEF OwnerInv
<1>5. cpc \in [Client -> ClientPc] /\ wpc \in WorkerPc
  BY DEF OwnerInv, Typed
<1>6. cpc' = WakeClients(cpc, active) /\ wpc' = WakeWorker(active)
  BY DEF http_downloader_cancel_all
<1>7. /\ cpc' \in [Client -> ClientPc]
      /\ \A c \in Client : /\ (cpc'[c] = "idle") = (cpc[c] = "idle")
                           /\ (cpc'[c] = "destroy") = (cpc[c] = "destroy")
  BY <1>5, <1>6, WakeClientsOwner
<1>8. wpc' \in WorkerPc /\ (wpc' = wpc \/ (Busy /\ Busy'))
  BY <1>5, <1>6, WakeWorkerOwner DEF Busy
<1> QED
  BY <1>4, <1>7, <1>8, QuietKeeps DEF http_downloader_cancel_all, OwnerInv, Typed

\* A client gets a new download, leaves one to the worker, or destroys one.
LEMMA OpenKeeps ==
  ASSUME OwnerInv, NEW c \in Client, http_downloader_open(c)
  PROVE  OwnerInv'
<1> USE DEF OwnerInv, http_downloader_open, SetPc, workerVars
<1> DEFINE new == opened + 1
<1>1. new \in Download /\ new # 0 /\ new > opened /\ opened \in Nat /\ MaxDownloads \in Nat
  BY HttpAssumption DEF Typed, Download
<1>2. \A x \in 0 .. opened : x # new /\ x \in 0 .. new
  BY <1>1
<1>3. dl[new] = Fresh /\ destroyed[new] = 0
  BY <1>1 DEF FlagsTell
<1>4. new # wh /\ \A e \in Client : ch[e] # new
  BY <1>1, <1>2 DEF Typed
<1>5. cpc' \in [Client -> ClientPc] /\ ch' \in [Client -> 0 .. new]
  BY <1>1, <1>2 DEF Typed, ClientPc
<1>6. Typed'
  BY <1>1, <1>2, <1>5 DEF Typed
<1>7. ~Busy /\ Busy' = Busy
  BY HttpAssumption DEF WorkerOwns, Busy, Typed
<1>8. WorkerOwns'
  BY <1>1, <1>4, <1>7 DEF WorkerOwns, Busy
<1>9. ClientOwns'
  BY <1>1, <1>4 DEF ClientOwns, Typed
<1>10. FlagsTell'
  <2>1. \A d \in Download : d > new => d > opened /\ d # new
    BY <1>1 DEF Download
  <2> QED
    BY <1>1, <1>3, <1>4, <2>1, FreshStruct DEF FlagsTell, Typed
<1>11. DestroyedOnce'
  <2>1. \A d \in Download : d # new /\ ~InUse(d) => ~InUse(d)'
    BY DEF InUse, Typed
  <2> QED
    BY <1>1, <1>3, <2>1 DEF DestroyedOnce
<1> QED
  BY <1>6, <1>8, <1>9, <1>10, <1>11

LEMMA AbandonKeeps ==
  ASSUME OwnerInv, NEW c \in Client, OpenTimedOut(c)
  PROVE  OwnerInv'
<1> USE DEF OwnerInv
<1> DEFINE d == ch[c]
           h == [dl[d] EXCEPT !.result = "TIMEOUT", !.cancelled = TRUE, !.orphaned = TRUE]
<1>1. d \in 1 .. opened /\ d \in Download /\ dl[d] \in Struct
  BY HeldDownload DEF OpenTimedOut
<1>2. h \in Struct /\ h.finished = dl[d].finished /\ h.orphaned
  BY <1>1 DEF Struct, Result
<1>3. dl' = [dl EXCEPT ![d] = h]
  BY <1>1 DEF OpenTimedOut, Typed
<1> HIDE DEF h
<1>4. dl' \in [Download -> Struct] /\ dl'[d] = h /\ \A e \in Download \ {d} : dl'[e] = dl[e]
  BY <1>1, <1>2, <1>3 DEF Typed
<1>5. UNCHANGED <<opened, destroyed, active, pending, workerVars, want>>
  BY DEF OpenTimedOut
<1>6. cpc' = [cpc EXCEPT ![c] = "idle"] /\ ch' = [ch EXCEPT ![c] = 0]
  BY DEF OpenTimedOut, SetPc
<1> HIDE DEF d
<1> USE DEF workerVars
<1>7. Typed'
  BY <1>4, <1>5, <1>6, HttpAssumption DEF Typed, ClientPc
<1>8. WorkerOwns'
  <2>1. wpc = "destroy" => wh \in Download
    BY HttpAssumption DEF Typed, WorkerOwns, Download
  <2> QED
    BY <1>2, <1>4, <1>5, <2>1 DEF WorkerOwns, Busy
<1>9. ClientOwns'
  <2>1. \A e \in Client : cpc[e] # "idle" => ch[e] \in Download
    BY HttpAssumption DEF Typed, ClientOwns, Download
  <2> QED
    BY <1>2, <1>4, <1>6, <2>1 DEF ClientOwns, Typed
<1>10. FlagsTell'
  <2>1. \A e \in Download : e > opened => e # d
    BY <1>1 DEF Download, Typed
  <2>2. \A e \in Client : ch'[e] # d
    BY <1>1, <1>6 DEF ClientOwns, Typed, d
  <2>3. \A e \in Client : ch'[e] = ch[e] \/ ch'[e] = 0
    BY <1>6 DEF Typed
  <2>4. \A e \in Download : e # 0
    BY DEF Download
  <2> QED
    BY <1>2, <1>4, <1>5, <2>1, <2>2, <2>3, <2>4 DEF FlagsTell
<1>11. DestroyedOnce'
  <2>1. \A e \in Download : InUse(e)' => InUse(e)
    BY <1>5, <1>6 DEF InUse, Typed, Download
  <2> QED
    BY <1>5, <2>1 DEF DestroyedOnce
<1> QED
  BY <1>7, <1>8, <1>9, <1>10, <1>11

LEMMA CloseDestroyKeeps ==
  ASSUME OwnerInv, NEW c \in Client, CloseDestroy(c)
  PROVE  OwnerInv'
<1> USE DEF OwnerInv
<1>1. PICK d : d = ch[c]
  OBVIOUS
<1>2. d \in 1 .. opened /\ d \in Download
  BY <1>1, HeldDownload DEF CloseDestroy
<1>3. UNCHANGED <<opened, active, pending, wpc, wh, left, get, rc, want>> /\ destroy_download(d)
  BY <1>1 DEF CloseDestroy, workerVars
<1>4. cpc' = [cpc EXCEPT ![c] = "idle"] /\ ch' = [ch EXCEPT ![c] = 0]
  BY DEF CloseDestroy, SetPc
<1>5. dl[d].finished /\ ~dl[d].orphaned
  BY <1>1, <1>2 DEF ClientOwns, FlagsTell, CloseDestroy
<1>6. active # d /\ wh # d
  BY <1>1, <1>2, <1>5 DEF FlagsTell, WorkerOwns
<1>7. pending # d
  BY <1>2, <1>6 DEF WorkerOwns
<1>8. \A e \in Client : ch'[e] # d
  BY <1>1, <1>2, <1>4 DEF ClientOwns, Typed
<1>9. ~(d \in {active', pending', wh'} \/ \E e \in Client : ch'[e] = d)
  BY <1>3, <1>6, <1>7, <1>8
<1>10. InUse(d)
  BY <1>1 DEF InUse
<1>11. /\ cpc' \in [Client -> ClientPc] /\ ch' \in [Client -> 0 .. opened]
       /\ \A e \in Client : ch'[e] \in {ch[e], 0}
       /\ \A e \in Client : /\ (cpc'[e] = "idle") = (ch'[e] = 0)
                            /\ cpc'[e] = "destroy" => cpc[e] = "destroy" /\ ch'[e] = ch[e]
  BY <1>2, <1>4 DEF Typed, ClientOwns, ClientPc
<1>12. WorkerOwns'
  <2>1. wpc = "destroy" => wh \in Download
    BY HttpAssumption DEF Typed, WorkerOwns, Download
  <2>2. \A e \in Download \ {d} : dl'[e] = dl[e]
    BY <1>3 DEF destroy_download, Typed
  <2> QED
    BY <1>3, <1>6, <2>1, <2>2 DEF WorkerOwns, Busy
<1>13. wpc' \in WorkerPc
  BY <1>3 DEF Typed
<1> QED
  BY <1>2, <1>3, <1>9, <1>10, <1>11, <1>12, <1>13, DestroyKeeps DEF InUse

(***************************************************************************)
(* The invariant holds, and with it the properties.                        *)
(***************************************************************************)
LEMMA OwnerInit == Init => OwnerInv
<1> SUFFICES ASSUME Init PROVE OwnerInv
  OBVIOUS
<1>1. Typed
  BY HttpAssumption, FreshStruct DEF Init, Typed, WorkerPc, ClientPc, Getting, NoGet
<1>2. WorkerOwns /\ ClientOwns
  BY DEF Init, WorkerOwns, ClientOwns, Busy
<1>3. FlagsTell /\ DestroyedOnce
  BY FreshStruct DEF Init, FlagsTell, DestroyedOnce, InUse, Download
<1> QED
  BY <1>1, <1>2, <1>3 DEF OwnerInv

LEMMA OwnerNext == OwnerInv /\ [Next]_vars => OwnerInv'
<1> SUFFICES ASSUME OwnerInv, [Next]_vars PROVE OwnerInv'
  OBVIOUS
<1>1. CASE UNCHANGED vars
  <2>1. SameFlags
    BY <1>1, NoneChanges DEF vars, OwnerInv
  <2> QED
    BY <1>1, <2>1, QuietKeeps DEF vars, workerVars, clientVars, OwnerInv, Typed
<1>2. CASE WorkerStep \/ WorkerTimer \/ \E n \in 1 .. MaxChunk : WorkerChunk(n)
  BY <1>2, WorkerKeeps, TransferKeeps, ChunkKeeps
<1>3. CASE RequestAnswered \/ Polled
  BY <1>3, TransferKeeps
<1>4. ASSUME NEW c \in Client, http_downloader_open(c) \/ ClientTimer(c) \/ ClientStep(c)
      PROVE  OwnerInv'
  BY <1>4, OpenKeeps, WaitKeeps, ReadKeeps, FlagKeeps, AbandonKeeps, CloseDestroyKeeps
     DEF ClientStep
<1>5. ASSUME NEW c \in Client,
             \/ \E n \in 1 .. MaxChunk : ReadBegin(c, n)
             \/ \E t \in 0 .. RingSize : http_downloader_seek(c, t)
             \/ CloseBegin(c)
      PROVE  OwnerInv'
  BY <1>5, WaitKeeps, FlagKeeps
<1> QED
  BY <1>1, <1>2, <1>3, <1>4, <1>5, CancelKeeps DEF Next, Polled

THEOREM HttpOwnership == Spec => []OwnerInv
  BY OwnerInit, OwnerNext, PTL DEF Spec

\* A download is freed at most once, and no thread and neither register of the
\* worker still points to it then, whichever of the timeouts, cancellations and
\* answers comes first.
THEOREM HttpDestroyedOnce == Spec => []DestroyedOnce
<1>1. OwnerInv => DestroyedOnce
  BY DEF OwnerInv
<1> QED
  BY <1>1, HttpOwnership, PTL

(***************************************************************************)
(* The bytes of the body, and the wakeups.                                 *)
(***************************************************************************)
\* Where the oldest byte in the ring is: a retained body stays from index 0.
Start(h) == IF h.retain THEN 0 ELSE h.tail

\* The index in the ring k bytes after index s.
Place(s, k) == (s + k) % RingSize

\* The ring holds the last u of r bytes, in their order from index s.
Numbered(ring, s, u, r) ==
  \A k \in 0 .. u - 1 : ring[Place(s, k)] = r - u + k + 1

\* The last "used" bytes received are in the ring, and its cursors are around them.
Ordered(h) ==
  /\ Start(h) \in 0 .. RingSize - 1 /\ h.tail \in 0 .. RingSize
  /\ h.received \in 0 .. MaxBytes
  /\ h.used \in 0 .. RingSize /\ h.used <= h.received
  /\ h.head = Place(Start(h), h.used)
  /\ h.replayed \/ Numbered(h.ring, Start(h), h.used, h.received)
  /\ h.retain => h.used = h.received /\ h.tail <= h.used
  /\ ~h.seen => h.received = 0 /\ h.tail = 0
  /\ h.finished /\ h.result = "OK" =>
       h.received >= h.size /\ (h.retain /\ h.seen => h.received = h.size)

Full == {"full_test", "full_sleep", "full_late"}

\* What a chunk that did not fit still needs was within the bound.
LeftFits ==
  /\ left \in 0 .. MaxChunk
  /\ wpc \in Full => dl[wh].seen /\ dl[wh].received + left <= MaxBytes

\* Where httpc_get is in the body.  Between the chunks of a retained body it may be
\* behind: the next chunk is refused then.
Running == wpc \in {"request", "transfer", "backoff"} \cup Full

InPlace(h) == h.replayed \/ get.position = h.received \/ (h.retain /\ wpc \notin Full)

GetFits ==
  /\ ~Busy \/ wpc = "taken" => get = NoGet
  /\ Busy => get.position \in 0 .. dl[wh].received
  /\ pending # 0 => ~dl[pending].seen
  /\ wpc = "taken" => ~dl[wh].seen
  /\ Running => InPlace(dl[wh])
  /\ wpc \in {"transfer"} \cup Full => get.length >= dl[wh].size
  /\ rc = "OK" => wpc \in {"ended", "inactive"} /\ dl[wh].received >= dl[wh].size

AtEnd(h) ==
  /\ h.finished /\ Available(h) = 0 /\ h.received >= h.size
  /\ h.retain /\ h.seen => h.received = h.size

Reading == {"read_test", "read_sleep", "read_late"}

\* What the last read of a client returned, while it has not called again.
ReadOK(c) ==
  /\ \/ last[c] = NothingRead
     \/ /\ cpc[c] = "holding"
        /\ \/ dl[ch[c]].replayed
           \/ \A i \in DOMAIN last[c].bytes : last[c].bytes[i] = last[c].from + i
  /\ last[c].out = "eof" => cpc[c] = "holding" /\ AtEnd(dl[ch[c]])
  /\ cpc[c] \in Reading => want[c] > 0

BytesInv ==
  /\ \A d \in Download : Ordered(dl[d])
  /\ LeftFits
  /\ DOMAIN last = Client /\ \A c \in Client : ReadOK(c)

(***************************************************************************)
(* Arithmetic of the cursors: sums of two of them wrap at most once.       *)
(***************************************************************************)
LEMMA ModBelow ==
  ASSUME NEW n \in Nat \ {0}, NEW a \in 0 .. n - 1
  PROVE  a % n = a
  OBVIOUS

LEMMA ModAbove ==
  ASSUME NEW n \in Nat \ {0}, NEW a \in n .. 2 * n - 1
  PROVE  a % n = a - n
  BY SMTT(30)

LEMMA Wrapped ==
  ASSUME NEW a \in 0 .. 2 * RingSize - 1
  PROVE  /\ a < RingSize => a % RingSize = a
         /\ a >= RingSize => a % RingSize = a - RingSize
         /\ a % RingSize \in 0 .. RingSize - 1
<1>1. RingSize \in Nat \ {0}
  BY HttpAssumption
<1>2. CASE a < RingSize
  <2>1. a % RingSize = a
    BY <1>1, <1>2, ModBelow
  <2> QED
    BY <1>1, <1>2, <2>1
<1>3. CASE a >= RingSize
  <2>1. a % RingSize = a - RingSize
    BY <1>1, <1>3, ModAbove
  <2> QED
    BY <1>1, <1>3, <2>1
<1> QED
  BY <1>1, <1>2, <1>3

LEMMA PlaceType ==
  ASSUME NEW s \in 0 .. RingSize - 1, NEW k \in 0 .. RingSize
  PROVE  /\ s + k < RingSize => Place(s, k) = s + k
         /\ s + k >= RingSize => Place(s, k) = s + k - RingSize
         /\ Place(s, k) \in 0 .. RingSize - 1
<1>1. PICK a : a = s + k
  OBVIOUS
<1>2. a \in 0 .. 2 * RingSize - 1
  BY <1>1, HttpAssumption
<1>3. PICK p : p = a % RingSize
  OBVIOUS
<1>4. /\ a < RingSize => p = a
      /\ a >= RingSize => p = a - RingSize
      /\ p \in 0 .. RingSize - 1
  BY <1>2, <1>3, Wrapped
<1>5. Place(s, k) = p
  BY <1>1, <1>3 DEF Place
<1> QED
  BY <1>1, <1>2, <1>4, <1>5, HttpAssumption

LEMMA PlaceSum ==
  ASSUME NEW s \in 0 .. RingSize - 1, NEW u \in 0 .. RingSize, NEW t \in 0 .. RingSize - u
  PROVE  Place(Place(s, u), t) = Place(s, u + t)
<1>1. RingSize \in Nat \ {0} /\ s \in Int /\ u \in Int /\ t \in Int
      /\ u + t \in 0 .. RingSize /\ t \in 0 .. RingSize
  BY HttpAssumption
<1> DEFINE p == Place(s, u)
<1>2. /\ s + u < RingSize => p = s + u
      /\ s + u >= RingSize => p = s + u - RingSize
      /\ p \in 0 .. RingSize - 1
  BY PlaceType
<1>3. /\ s + (u + t) < RingSize => Place(s, u + t) = s + (u + t)
      /\ s + (u + t) >= RingSize => Place(s, u + t) = s + (u + t) - RingSize
  BY <1>1, PlaceType
<1> HIDE DEF p
<1>4. /\ p + t < RingSize => Place(p, t) = p + t
      /\ p + t >= RingSize => Place(p, t) = p + t - RingSize
  BY <1>1, <1>2, PlaceType
<1> QED
  BY <1>1, <1>2, <1>3, <1>4 DEF p

\* The place of the k-th byte, and how far it is from the head of the ring.
LEMMA Distance ==
  ASSUME NEW s \in 0 .. RingSize - 1, NEW u \in 0 .. RingSize, NEW t \in 0 .. RingSize - u,
         NEW k \in 0 .. u + t - 1
  PROVE  LET i == Place(s, k)
             j == (i + RingSize - Place(s, u)) % RingSize
         IN  /\ i \in 0 .. RingSize - 1 /\ j \in Int
             /\ k < u => j >= t
             /\ k >= u => j = k - u
<1>1. RingSize \in Nat \ {0} /\ s \in Int /\ u \in Int /\ t \in Int /\ k \in 0 .. RingSize
  BY HttpAssumption
<1> DEFINE i == Place(s, k)
           p == Place(s, u)
           a == i + RingSize - p
<1>2. /\ s + k < RingSize => i = s + k
      /\ s + k >= RingSize => i = s + k - RingSize
      /\ i \in 0 .. RingSize - 1
  BY <1>1, PlaceType
<1>3. /\ s + u < RingSize => p = s + u
      /\ s + u >= RingSize => p = s + u - RingSize
      /\ p \in 0 .. RingSize - 1
  BY <1>1, PlaceType
<1> HIDE DEF i, p
<1>4. a \in 0 .. 2 * RingSize - 1
  BY <1>1, <1>2, <1>3
<1>5. a = i + RingSize - p
  OBVIOUS
<1> HIDE DEF a
<1> DEFINE j == a % RingSize
<1>6. /\ a < RingSize => j = a
      /\ a >= RingSize => j = a - RingSize
      /\ j \in 0 .. RingSize - 1
  BY <1>4, Wrapped
<1> HIDE DEF j
<1>7. k < u => j >= t
  BY <1>1, <1>2, <1>3, <1>5, <1>6
<1>8. k >= u => j = k - u
  BY <1>1, <1>2, <1>3, <1>5, <1>6
<1>9. j \in Int
  BY <1>6, HttpAssumption
<1> QED
  BY <1>2, <1>7, <1>8, <1>9 DEF a, i, j, p

\* Bytes written at the head follow the ones that are there.
LEMMA FilledNumbered ==
  ASSUME NEW h \in Struct, NEW s \in 0 .. RingSize - 1, NEW u \in 0 .. RingSize,
         NEW t \in 0 .. RingSize - u, h.head = Place(s, u),
         NEW r \in Nat, Numbered(h.ring, s, u, r)
  PROVE  Numbered(Filled(h, r, t), s, u + t, r + t)
<1> SUFFICES ASSUME NEW k \in 0 .. u + t - 1
             PROVE  Filled(h, r, t)[Place(s, k)] = r + t - (u + t) + k + 1
  BY DEF Numbered
<1>1. RingSize \in Nat \ {0} /\ s \in Int /\ u \in Int /\ t \in Int /\ k \in Int
  BY HttpAssumption
<1>2. PICK i : i = Place(s, k)
  OBVIOUS
<1>3. PICK j : j = (i + RingSize - h.head) % RingSize
  OBVIOUS
<1>4. i \in 0 .. RingSize - 1 /\ j \in Int /\ (k < u => j >= t) /\ (k >= u => j = k - u)
  BY <1>2, <1>3, Distance
<1>5. Filled(h, r, t)[i] = IF j < t THEN r + j + 1 ELSE h.ring[i]
  <2>1. DOMAIN h.ring = 0 .. RingSize - 1
    BY DEF Struct
  <2> QED
    BY <1>3, <1>4, <2>1 DEF Filled
<1>6. CASE k < u
  <2>1. h.ring[i] = r - u + k + 1
    BY <1>1, <1>2, <1>6 DEF Numbered
  <2>2. ~(j < t)
    BY <1>1, <1>4, <1>6
  <2> QED
    BY <1>1, <1>2, <1>5, <2>1, <2>2
<1>7. CASE k >= u
  <2>1. j = k - u /\ j < t
    BY <1>1, <1>4, <1>7
  <2> QED
    BY <1>1, <1>2, <1>5, <2>1
<1> QED
  BY <1>1, <1>6, <1>7

\* Without the first n bytes the others keep their numbers.
LEMMA RestNumbered ==
  ASSUME NEW ring, NEW s \in 0 .. RingSize - 1, NEW u \in 0 .. RingSize,
         NEW n \in 0 .. u, NEW r \in Nat, Numbered(ring, s, u, r)
  PROVE  Numbered(ring, Place(s, n), u - n, r)
<1> SUFFICES ASSUME NEW k \in 0 .. u - n - 1
             PROVE  ring[Place(Place(s, n), k)] = r - (u - n) + k + 1
  BY DEF Numbered
<1>1. RingSize \in Nat \ {0} /\ s \in Int /\ u \in Int /\ n \in 0 .. RingSize
      /\ k \in 0 .. RingSize - n /\ n + k \in 0 .. u - 1
  BY HttpAssumption
<1>2. Place(Place(s, n), k) = Place(s, n + k)
  BY <1>1, PlaceSum
<1>3. ring[Place(s, n + k)] = r - u + (n + k) + 1
  BY <1>1 DEF Numbered
<1> QED
  BY <1>1, <1>2, <1>3

(***************************************************************************)
(* What the operators on one download do to the bytes in its ring.         *)
(***************************************************************************)
LEMMA EmptyOrdered ==
  ASSUME NEW h, h.received = 0, h.used = 0, h.tail = 0, h.head = 0,
         h.finished /\ h.result = "OK" => h.received >= h.size /\ (h.retain => ~h.seen)
  PROVE  Ordered(h)
<1>1. Place(0, 0) = 0 /\ 0 \in 0 .. RingSize - 1 /\ 0 \in 0 .. RingSize /\ 0 \in 0 .. MaxBytes
  BY HttpAssumption, PlaceType
<1>2. Start(h) = 0
  BY DEF Start
<1>3. Numbered(h.ring, 0, 0, 0)
  BY DEF Numbered
<1> QED
  BY <1>1, <1>2, <1>3 DEF Ordered

LEMMA UnseenEmpty ==
  ASSUME NEW h \in Struct, Ordered(h), ~h.seen
  PROVE  h.received = 0 /\ h.used = 0 /\ h.tail = 0 /\ h.head = 0
<1>1. h.received = 0 /\ h.used = 0 /\ h.tail = 0
  BY HttpAssumption DEF Ordered
<1>2. Start(h) = 0 /\ Place(0, 0) = 0
  BY <1>1, HttpAssumption, PlaceType DEF Start
<1> QED
  BY <1>1, <1>2 DEF Ordered

LEMMA FreshOrdered == Ordered(Fresh)
  BY EmptyOrdered DEF Fresh

LEMMA CopyOrdered ==
  ASSUME NEW h \in Struct, Ordered(h), ~h.finished, h.seen, NEW n \in Nat,
         h.received + n <= MaxBytes, NEW p, h.replayed \/ p = h.received
  PROVE  LET g == Copy(h, p, n)
         IN  /\ Ordered(g) /\ g.seen /\ g.replayed = h.replayed
             /\ g.received - h.received \in 0 .. n
             /\ g.received - h.received < n => g.used = RingSize
<1>1. PICK t : t = LesserOf(n, RingSize - h.used)
  OBVIOUS
<1>2. PICK s : s = Start(h)
  OBVIOUS
<1>3. PICK u : u = h.used
  OBVIOUS
<1>4. PICK r : r = h.received
  OBVIOUS
<1>5. /\ RingSize \in Nat \ {0} /\ MaxBytes \in Nat
      /\ s \in 0 .. RingSize - 1 /\ u \in 0 .. RingSize /\ r \in 0 .. MaxBytes /\ u <= r
      /\ r + n <= MaxBytes
      /\ h.head = Place(s, u) /\ (h.replayed \/ Numbered(h.ring, s, u, r))
      /\ h.retain => u = r /\ h.tail <= u
  BY <1>2, <1>3, <1>4, HttpAssumption DEF Ordered
<1>6. t \in 0 .. RingSize - u /\ t <= n /\ (t < n => t = RingSize - u)
  BY <1>1, <1>3, <1>5 DEF LesserOf
<1>7. PICK g : g = Copy(h, p, n)
  OBVIOUS
<1>8. /\ g.head = Place(h.head, t)
      /\ g.used = u + t
      /\ g.received = r + t
      /\ g.ring = Filled(h, p, t)
      /\ g.retain = h.retain /\ g.tail = h.tail /\ g.seen = h.seen /\ g.finished = h.finished
      /\ g.replayed = h.replayed
  BY <1>1, <1>3, <1>4, <1>7 DEF Copy, Struct, Place
<1>9. Start(g) = s
  BY <1>2, <1>8 DEF Start
<1>10. g.head = Place(s, u + t)
  BY <1>5, <1>6, <1>8, PlaceSum
<1>11. g.replayed \/ Numbered(g.ring, s, u + t, r + t)
  BY <1>4, <1>5, <1>6, <1>8, FilledNumbered
<1>12. u + t \in 0 .. RingSize /\ r + t \in 0 .. MaxBytes /\ u + t <= r + t
       /\ (h.retain => u + t = r + t /\ h.tail <= u + t)
  <2>1. h.tail \in Int
    BY DEF Struct
  <2> QED
    BY <1>5, <1>6, <2>1
<1>13. Ordered(g)
  BY <1>2, <1>8, <1>9, <1>10, <1>11, <1>12 DEF Ordered
<1>14. g.received - h.received = t /\ t \in 0 .. n /\ (t < n => g.used = RingSize)
  BY <1>4, <1>5, <1>6, <1>8
<1> QED
  BY <1>7, <1>8, <1>13, <1>14

LEMMA WithBodyOrdered ==
  ASSUME NEW h \in Struct, Ordered(h), ~h.finished
  PROVE  /\ Ordered(WithBody(h)) /\ WithBody(h).seen
         /\ WithBody(h).received = h.received /\ WithBody(h).used = h.used
         /\ WithBody(h).replayed = h.replayed /\ WithBody(h).size = h.size
<1>1. PICK g : g = WithBody(h)
  OBVIOUS
<1>2. /\ g.seen /\ g.received = h.received /\ g.used = h.used /\ g.tail = h.tail
      /\ g.head = h.head /\ g.ring = h.ring /\ g.finished = h.finished
      /\ g.replayed = h.replayed /\ g.size = h.size
      /\ h.seen => g.retain = h.retain
  BY <1>1 DEF WithBody, Struct
<1>3. CASE h.seen
  <2>1. g.retain = h.retain /\ Start(g) = Start(h)
    BY <1>2, <1>3 DEF Start
  <2> QED
    BY <1>1, <1>2, <1>3, <2>1 DEF Ordered
<1>4. CASE ~h.seen
  <2>1. Ordered(g)
    BY <1>2, <1>4, UnseenEmpty, EmptyOrdered
  <2> QED
    BY <1>1, <1>2, <2>1
<1> QED
  BY <1>3, <1>4

LEMMA FinishOrdered ==
  ASSUME NEW h \in Struct, Ordered(h), rc = "OK" => h.received >= h.size,
         rc \in {"OK", "ERROR"}
  PROVE  /\ Ordered(Finish(h)) /\ Available(Finish(h)) = Available(h)
         /\ Finish(h).replayed = h.replayed
<1>1. PICK g : g = Finish(h)
  OBVIOUS
<1>2. /\ g.seen = h.seen /\ g.received = h.received /\ g.used = h.used /\ g.tail = h.tail
      /\ g.head = h.head /\ g.ring = h.ring /\ g.size = h.size
      /\ g.result = FinalResult(h) /\ g.replayed = h.replayed
      /\ g.retain = (h.retain \/ (FinalResult(h) = "OK" /\ ~h.seen))
  BY <1>1 DEF Finish, Struct
<1>3. FinalResult(h) = "OK" => h.received >= h.size /\ (h.retain => h.used = h.size)
  BY DEF FinalResult
<1>4. CASE h.seen
  <2>1. g.retain = h.retain
    BY <1>2, <1>4 DEF Struct
  <2>2. Start(g) = Start(h)
    BY <1>2, <2>1 DEF Start
  <2>3. g.result = "OK" => g.received >= g.size /\ (g.retain => g.received = g.size)
    BY <1>2, <1>3, <2>1 DEF Ordered
  <2>4. Ordered(g)
    BY <1>2, <2>1, <2>2, <2>3 DEF Ordered
  <2> QED
    BY <1>1, <1>2, <2>1, <2>4 DEF Available
<1>5. CASE ~h.seen
  <2>1. g.received = 0 /\ g.used = 0 /\ g.tail = 0 /\ g.head = 0
    BY <1>2, <1>5, UnseenEmpty
  <2>2. Ordered(g)
    BY <1>2, <1>3, <1>5, <2>1, EmptyOrdered
  <2>3. Available(g) = 0 /\ Available(h) = 0
    BY <1>2, <2>1 DEF Available
  <2> QED
    BY <1>1, <1>2, <2>2, <2>3
<1> QED
  BY <1>4, <1>5

\* Bytes taken from the tail.
LEMMA DrainOrdered ==
  ASSUME NEW h \in Struct, Ordered(h), NEW n \in 0 .. Available(h)
  PROVE  Ordered(Drain(h, n))
<1>1. /\ RingSize \in Nat \ {0} /\ MaxBytes \in Nat
      /\ h.used \in 0 .. RingSize /\ h.received \in Nat /\ h.tail \in 0 .. RingSize
  BY HttpAssumption DEF Ordered
<1>2. PICK g : g = Drain(h, n)
  OBVIOUS
<1>3. /\ g.seen = h.seen /\ g.received = h.received
      /\ g.head = h.head /\ g.ring = h.ring /\ g.size = h.size /\ g.retain = h.retain
      /\ g.finished = h.finished /\ g.result = h.result /\ g.replayed = h.replayed
  BY <1>2 DEF Drain, Struct
<1>4. CASE h.retain
  <2>1. g.tail = h.tail + n /\ g.used = h.used
    BY <1>2, <1>4 DEF Drain, Struct
  <2>2. h.tail + n \in 0 .. h.used
    BY <1>1, <1>4 DEF Available, Ordered
  <2>3. ~h.seen => h.tail + n = 0
    BY <1>1, <2>2 DEF Ordered
  <2>4. Start(g) = Start(h)
    BY <1>3, <1>4 DEF Start
  <2>5. g.tail \in 0 .. RingSize /\ g.tail <= g.used
    BY <1>1, <2>1, <2>2
  <2> QED
    BY <1>1, <1>2, <1>3, <2>1, <2>3, <2>4, <2>5 DEF Ordered
<1>5. CASE ~h.retain
  <2>1. g.tail = Place(h.tail, n) /\ g.used = h.used - n
    BY <1>2, <1>5 DEF Drain, Struct, Place
  <2>2. /\ n \in 0 .. h.used /\ h.tail \in 0 .. RingSize - 1
        /\ h.head = Place(h.tail, h.used)
        /\ h.replayed \/ Numbered(h.ring, h.tail, h.used, h.received)
    BY <1>5 DEF Available, Ordered, Start
  <2>3. g.tail \in 0 .. RingSize - 1
    <3>1. n \in 0 .. RingSize
      BY <1>1, <2>2
    <3> QED
      BY <2>1, <2>2, <3>1, PlaceType
  <2>4. g.head = Place(g.tail, g.used)
    <3>1. h.used - n \in 0 .. RingSize - n /\ n \in 0 .. RingSize /\ n + (h.used - n) = h.used
      BY <1>1, <2>2
    <3> QED
      BY <1>3, <2>1, <2>2, <3>1, PlaceSum
  <2>5. g.replayed \/ Numbered(g.ring, g.tail, g.used, g.received)
    BY <1>1, <1>3, <2>1, <2>2, RestNumbered
  <2>6. Start(g) = g.tail
    BY <1>3, <1>5 DEF Start
  <2>7. ~h.seen => h.received = 0 /\ g.tail = 0
    <3>1. ~h.seen => h.received = 0 /\ h.tail = 0 /\ h.used = 0
      BY <1>1 DEF Ordered
    <3>2. ~h.seen => n = 0 /\ Place(0, 0) = 0
      BY <1>1, <2>2, <3>1, PlaceType
    <3> QED
      BY <2>1, <3>1, <3>2
  <2>8. g.used \in 0 .. RingSize /\ g.used <= g.received /\ g.tail \in 0 .. RingSize
    BY <1>1, <1>3, <2>1, <2>2, <2>3 DEF Ordered
  <2> QED
    BY <1>2, <1>3, <1>5, <2>3, <2>4, <2>5, <2>6, <2>7, <2>8 DEF Ordered
<1> QED
  BY <1>4, <1>5

\* The bytes a read copies out are the next ones of the body.
LEMMA TakenInOrder ==
  ASSUME NEW h \in Struct, Ordered(h), ~h.replayed,
         NEW n \in 0 .. Available(h), NEW i \in 1 .. n
  PROVE  h.ring[(h.tail + i - 1) % RingSize]
           = (IF h.retain THEN h.tail ELSE h.received - h.used) + i
<1>1. /\ RingSize \in Nat \ {0} /\ i \in Int
      /\ h.used \in 0 .. RingSize /\ h.received \in Nat /\ h.tail \in 0 .. RingSize
  BY HttpAssumption DEF Ordered
<1>2. CASE h.retain
  <2>1. PICK k : k = h.tail + i - 1
    OBVIOUS
  <2>2. h.used = h.received /\ k \in 0 .. h.used - 1
    BY <1>1, <1>2, <2>1 DEF Available, Ordered
  <2>3. h.ring[Place(0, k)] = h.received - h.used + k + 1
    BY <1>2, <2>2 DEF Ordered, Numbered, Start
  <2>4. 0 + k = k /\ h.received - h.used + k + 1 = h.tail + i
    BY <1>1, <2>1, <2>2
  <2> QED
    BY <1>2, <2>1, <2>3, <2>4 DEF Place
<1>3. CASE ~h.retain
  <2>1. PICK k : k = i - 1
    OBVIOUS
  <2>2. k \in 0 .. h.used - 1
    BY <1>1, <1>3, <2>1 DEF Available
  <2>3. h.ring[Place(h.tail, k)] = h.received - h.used + k + 1
    BY <1>3, <2>2 DEF Ordered, Numbered, Start
  <2>4. h.tail + k = h.tail + i - 1 /\ h.received - h.used + k + 1 = h.received - h.used + i
    BY <1>1, <2>1
  <2> QED
    BY <1>3, <2>3, <2>4 DEF Place
<1> QED
  BY <1>2, <1>3

(***************************************************************************)
(* Frames: what a step must respect so that the invariant survives.        *)
(***************************************************************************)
LEMMA LeftKept ==
  ASSUME LeftFits, left' \in {left, 0},
         wpc' \in Full => /\ wpc \in Full /\ wh' = wh /\ left' = left
                          /\ dl'[wh].received = dl[wh].received /\ dl'[wh].seen = dl[wh].seen
  PROVE  LeftFits'
<1>1. 0 \in 0 .. MaxChunk
  BY HttpAssumption
<1> QED
  BY <1>1 DEF LeftFits

\* A client whose last read stands.
Stands(e) ==
  /\ last'[e] = last[e] /\ want'[e] = want[e]
  /\ cpc[e] = "holding" =>
       cpc'[e] = "holding" /\ ch'[e] = ch[e] /\ (dl[ch[e]].replayed => dl'[ch[e]].replayed)
  /\ cpc'[e] \in Reading => cpc[e] \in Reading
  /\ last[e].out = "eof" => ch'[e] = ch[e] /\ dl'[ch[e]] = dl[ch[e]]

LEMMA StandsKept ==
  ASSUME NEW e \in Client, ReadOK(e), Stands(e)
  PROVE  ReadOK(e)'
  BY DEF ReadOK, Stands

\* A step by somebody else on a download whose end nobody has been told of.
LEMMA OtherSteps ==
  ASSUME BytesInv, NEW d, NEW h, Ordered(h), dl' = [dl EXCEPT ![d] = h],
         \/ ~dl[d].finished /\ (dl[d].replayed => h.replayed)
         \/ \A e \in Client : ch[e] # d,
         LeftFits', UNCHANGED <<last, want, ch>>,
         \A e \in Client : /\ cpc[e] = "holding" => cpc'[e] = "holding"
                           /\ cpc'[e] \in Reading => cpc[e] \in Reading,
         dl \in [Download -> Struct]
  PROVE  BytesInv'
<1>1. \A e \in Download : Ordered(dl'[e])
  BY DEF BytesInv
<1>2. ASSUME NEW e \in Client PROVE ReadOK(e)'
  <2>1. last[e].out = "eof" => ch[e] # d
    BY DEF BytesInv, ReadOK, AtEnd
  <2>2. ch[e] # d => dl'[ch[e]] = dl[ch[e]]
    OBVIOUS
  <2>3. dl[ch[e]].replayed => dl'[ch[e]].replayed
    BY <2>2
  <2> QED
    BY <2>1, <2>2, <2>3, StandsKept DEF Stands, BytesInv
<1> QED
  BY <1>1, <1>2 DEF BytesInv

\* A step of client c on the download it holds.
LEMMA OwnStep ==
  ASSUME OwnerInv, BytesInv, NEW c \in Client, cpc[c] # "idle",
         NEW h, Ordered(h), dl' = [dl EXCEPT ![ch[c]] = h],
         LeftFits', ReadOK(c)', DOMAIN last' = Client,
         \A e \in Client \ {c} : /\ last'[e] = last[e] /\ want'[e] = want[e]
                                 /\ cpc'[e] = cpc[e] /\ ch'[e] = ch[e]
  PROVE  BytesInv'
<1>1. dl \in [Download -> Struct] /\ ch[c] \in Download
  BY HeldDownload DEF OwnerInv, Typed
<1>2. \A e \in Download : Ordered(dl'[e])
  BY <1>1 DEF BytesInv
<1>3. ASSUME NEW e \in Client \ {c} PROVE ReadOK(e)'
  <2>1. ch[e] # ch[c]
    BY HttpAssumption, <1>1 DEF OwnerInv, ClientOwns, Download
  <2>2. dl'[ch[e]] = dl[ch[e]]
    BY <2>1
  <2> QED
    BY <2>2, StandsKept DEF Stands, BytesInv
<1> QED
  BY <1>2, <1>3 DEF BytesInv

\* A step that leaves the downloads alone.
LEMMA NoDownload ==
  ASSUME BytesInv, dl' = dl, LeftFits', DOMAIN last' = Client,
         \A e \in Client : ReadOK(e)' \/ Stands(e)
  PROVE  BytesInv'
<1>1. \A e \in Client : ReadOK(e)'
  BY StandsKept DEF BytesInv
<1> QED
  BY <1>1 DEF BytesInv

LEMMA WakeClientsReading ==
  ASSUME NEW pc \in [Client -> ClientPc], NEW d, NEW e \in Client
  PROVE  /\ pc[e] = "holding" => WakeClients(pc, d)[e] = "holding"
         /\ WakeClients(pc, d)[e] \in Reading => pc[e] \in Reading
  BY DEF WakeClients, Awake, ClientPc, Reading

(***************************************************************************)
(* The worker.                                                             *)
(***************************************************************************)
LEMMA MovesBytes ==
  ASSUME OwnerInv, BytesInv,
         \/ WorkerTake
         \/ WorkerTimer
         \/ WorkerInactive
         \/ Polled
  PROVE  BytesInv'
<1> USE DEF Polled, RequestFails, RequestRefused, Backoff, TransferEnds, TransferBreaks
<1>1. UNCHANGED <<dl, clientVars>>
  BY DEF WorkerTake, WorkerTimer, WorkerInactive
<1>2. LeftFits'
  <2>1. left' \in {left, 0} /\ (wpc' \in Full => wpc \in Full /\ wh' = wh /\ left' = left)
    BY DEF WorkerTake, WorkerTimer, WorkerInactive, Full
  <2> QED
    BY <1>1, <2>1, LeftKept DEF BytesInv
<1> QED
  BY <1>1, <1>2, NoDownload DEF Stands, clientVars, BytesInv

\* A step of the worker on its download that only changes flags.
LEMMA WorkerFlagBytes ==
  ASSUME OwnerInv, BytesInv, GetFits,
         WorkerStart \/ WorkerTimedOut \/ WorkerFinish
  PROVE  BytesInv'
<1>1. wpc \notin {"idle", "destroy"}
  BY DEF WorkerStart, WorkerTimedOut, WorkerFinish
<1>2. wh \in Download /\ ~dl[wh].finished /\ dl[wh] \in Struct /\ Ordered(dl[wh])
      /\ dl \in [Download -> Struct] /\ cpc \in [Client -> ClientPc]
  BY <1>1, HttpAssumption DEF OwnerInv, Typed, WorkerOwns, FlagsTell, BytesInv, Download
<1>3. /\ UNCHANGED <<last, want, ch>> /\ left' \in {left, 0} /\ wpc' \notin Full
      /\ cpc' = cpc \/ cpc' = WakeClients(cpc, wh)
  BY DEF WorkerStart, WorkerTimedOut, WorkerFinish, clientVars, Full
<1>4. LeftFits'
  BY <1>3, LeftKept DEF BytesInv
<1>5. \A e \in Client : /\ cpc[e] = "holding" => cpc'[e] = "holding"
                        /\ cpc'[e] \in Reading => cpc[e] \in Reading
  BY <1>2, <1>3, WakeClientsReading
<1>6. PICK h : /\ Ordered(h) /\ dl' = [dl EXCEPT ![wh] = h]
              /\ h.replayed = dl[wh].replayed
  <2>1. CASE WorkerStart
    <3>1. PICK n \in Sizes[wh] : dl' = [dl EXCEPT ![wh].size = n]
      BY <2>1 DEF WorkerStart
    <3>2. PICK h : h = [dl[wh] EXCEPT !.size = n]
      OBVIOUS
    <3>3. Ordered(h) /\ h.replayed = dl[wh].replayed
      <4>1. /\ h.received = dl[wh].received /\ h.used = dl[wh].used /\ h.tail = dl[wh].tail
            /\ h.head = dl[wh].head /\ h.ring = dl[wh].ring /\ h.retain = dl[wh].retain
            /\ h.seen = dl[wh].seen /\ h.finished = dl[wh].finished
            /\ h.replayed = dl[wh].replayed
        BY <1>2, <3>2 DEF Struct
      <4>2. Start(h) = Start(dl[wh])
        BY <4>1 DEF Start
      <4> QED
        BY <1>2, <4>1, <4>2 DEF Ordered
    <3> QED
      BY <3>1, <3>2, <3>3
  <2>2. CASE WorkerTimedOut
    <3>1. PICK h : h = [dl[wh] EXCEPT !.result = "TIMEOUT", !.cancelled = TRUE]
      OBVIOUS
    <3>2. Ordered(h) /\ h.replayed = dl[wh].replayed
      <4>1. /\ h.received = dl[wh].received /\ h.used = dl[wh].used /\ h.tail = dl[wh].tail
            /\ h.head = dl[wh].head /\ h.ring = dl[wh].ring /\ h.retain = dl[wh].retain
            /\ h.seen = dl[wh].seen /\ h.finished = dl[wh].finished
            /\ h.replayed = dl[wh].replayed
        BY <1>2, <3>1 DEF Struct
      <4>2. Start(h) = Start(dl[wh])
        BY <4>1 DEF Start
      <4> QED
        BY <1>2, <4>1, <4>2 DEF Ordered
    <3>3. dl' = [dl EXCEPT ![wh] = h]
      BY <1>2, <2>2, <3>1 DEF WorkerTimedOut
    <3> QED
      BY <3>2, <3>3
  <2>3. CASE WorkerFinish
    <3>1. (rc = "OK" => dl[wh].received >= dl[wh].size) /\ rc \in {"OK", "ERROR"}
      BY DEF GetFits, OwnerInv, Typed
    <3> QED
      BY <1>2, <2>3, <3>1, FinishOrdered DEF WorkerFinish
  <2> QED
    BY <2>1, <2>2, <2>3
<1>7. ~dl[wh].finished /\ (dl[wh].replayed => h.replayed)
  BY <1>2, <1>6
<1> QED
  BY <1>2, <1>3, <1>4, <1>5, <1>6, <1>7, OtherSteps

\* An answer to a request: of the download, only the history flag changes.
LEMMA AnsweredBytes ==
  ASSUME OwnerInv, BytesInv, RequestAnswered
  PROVE  BytesInv'
<1>1. PICK b \in BOOLEAN : LET h == [dl[wh] EXCEPT !.replayed = b]
                          IN  dl' = [dl EXCEPT ![wh] = h] /\ (dl[wh].replayed => b)
  BY AnsweredKeeps
<1>2. wh \in Download /\ ~dl[wh].finished /\ dl[wh] \in Struct /\ Ordered(dl[wh])
      /\ dl \in [Download -> Struct]
  BY BusyDownload DEF RequestAnswered, Busy, OwnerInv, Typed, FlagsTell, BytesInv
<1>3. PICK h : h = [dl[wh] EXCEPT !.replayed = b]
  OBVIOUS
<1>4. /\ h.received = dl[wh].received /\ h.used = dl[wh].used /\ h.tail = dl[wh].tail
      /\ h.head = dl[wh].head /\ h.ring = dl[wh].ring /\ h.retain = dl[wh].retain
      /\ h.seen = dl[wh].seen /\ h.finished = dl[wh].finished
      /\ dl[wh].replayed => h.replayed
  BY <1>1, <1>2, <1>3 DEF Struct
<1>5. Ordered(h)
  <2>1. Start(h) = Start(dl[wh])
    BY <1>4 DEF Start
  <2> QED
    BY <1>2, <1>4, <2>1 DEF Ordered
<1>6. LeftFits' /\ UNCHANGED <<last, want, ch, cpc>>
  <2>1. UNCHANGED <<left, clientVars>> /\ wpc' \notin Full
    BY DEF RequestAnswered, Full
  <2> QED
    BY <2>1, LeftKept DEF BytesInv, clientVars
<1> QED
  BY <1>1, <1>2, <1>3, <1>4, <1>5, <1>6, OtherSteps

LEMMA DestroyBytes ==
  ASSUME OwnerInv, BytesInv, WorkerDestroy
  PROVE  BytesInv'
<1>1. wh \in Download /\ dl[wh].orphaned /\ dl \in [Download -> Struct]
  BY HttpAssumption DEF OwnerInv, Typed, WorkerOwns, WorkerDestroy, Download
<1>2. \A e \in Client : ch[e] # wh
  BY <1>1 DEF OwnerInv, FlagsTell
<1>3. dl' = [dl EXCEPT ![wh] = Fresh] /\ UNCHANGED <<last, want, ch, cpc, left>> /\ wpc' = "idle"
  BY DEF WorkerDestroy, destroy_download, clientVars
<1>4. LeftFits'
  BY <1>3, LeftKept DEF BytesInv, Full
<1> QED
  BY <1>1, <1>2, <1>3, <1>4, FreshOrdered, OtherSteps

\* receive_chunk.
LEMMA ReceiveBytes ==
  ASSUME OwnerInv, BytesInv, Busy, NEW h \in Struct, Ordered(h), h.seen, ~h.finished,
         NEW n \in 0 .. MaxChunk, h.received + n <= MaxBytes,
         h.replayed \/ get.position = h.received, dl[wh].replayed => h.replayed,
         Receive(h, n), UNCHANGED <<wh, ch, want, last>>
  PROVE  BytesInv'
<1>1. wh \in Download /\ dl \in [Download -> Struct] /\ cpc \in [Client -> ClientPc]
      /\ ~dl[wh].finished
  BY BusyDownload DEF OwnerInv, Typed, FlagsTell, Busy
<1>2. n \in Nat /\ MaxChunk \in Nat /\ MaxBytes \in Nat /\ h.received \in Nat
  BY HttpAssumption DEF Ordered
<1>3. PICK g : g = Copy(h, get.position, n)
  OBVIOUS
<1>4. Ordered(g) /\ g.seen /\ g.received - h.received \in 0 .. n /\ g.received \in Nat
      /\ g.replayed = h.replayed
  BY <1>2, <1>3, CopyOrdered DEF Ordered
<1>5. \A e \in Client : /\ cpc[e] = "holding" => cpc'[e] = "holding"
                        /\ cpc'[e] \in Reading => cpc[e] \in Reading
  <2>1. cpc' = cpc \/ cpc' = WakeClients(cpc, wh)
    BY DEF Receive
  <2> QED
    BY <1>1, <2>1, WakeClientsReading
<1>6. CASE h.cancelled
  <2>1. dl' = [dl EXCEPT ![wh] = h] /\ wpc' = "ended" /\ left' = 0
    BY <1>6 DEF Receive
  <2>2. LeftFits'
    BY <2>1, LeftKept DEF BytesInv, Full
  <2> QED
    BY <1>1, <1>5, <2>1, <2>2, OtherSteps
<1>7. CASE ~h.cancelled
  <2>1. dl' = [dl EXCEPT ![wh] = g] /\ left' = n - (g.received - h.received)
    BY <1>3, <1>7 DEF Receive
  <2>2. dl'[wh] = g
    BY <1>1, <2>1
  <2>3. left' \in 0 .. MaxChunk /\ g.received + left' <= MaxBytes
    BY <1>2, <1>4, <2>1
  <2>4. LeftFits'
    BY <1>4, <2>2, <2>3 DEF LeftFits
  <2> QED
    BY <1>1, <1>4, <1>5, <2>1, <2>4, OtherSteps
<1> QED
  BY <1>6, <1>7

\* A chunk that is taken follows what was received before it, unless the body started
\* again.
LEMMA ChunkInPlace ==
  ASSUME OwnerInv, BytesInv, GetFits, wpc = "transfer", NEW h, h = WithBody(dl[wh]),
         NEW n, ~(h.retain /\ Misplaced(h, n))
  PROVE  h.replayed \/ get.position = h.received
<1>1. dl[wh] \in Struct /\ ~dl[wh].finished /\ Ordered(dl[wh])
  BY BusyDownload DEF OwnerInv, FlagsTell, Busy, BytesInv
<1>2. Ordered(h) /\ h.replayed = dl[wh].replayed /\ h.received = dl[wh].received
  BY <1>1, WithBodyOrdered
<1>3. InPlace(dl[wh]) /\ get.position \in 0 .. dl[wh].received
  BY DEF GetFits, Running, Busy
<1>4. CASE h.retain
  BY <1>2, <1>4 DEF Misplaced, Ordered
<1>5. CASE ~h.retain /\ dl[wh].seen
  BY <1>1, <1>2, <1>3, <1>5 DEF InPlace, WithBody, Struct
<1>6. CASE ~dl[wh].seen
  BY <1>1, <1>2, <1>3, <1>6, UnseenEmpty
<1> QED
  BY <1>4, <1>5, <1>6

LEMMA ChunkBytes ==
  ASSUME OwnerInv, BytesInv, GetFits,
         WorkerResume \/ \E n \in 1 .. MaxChunk : WorkerChunk(n)
  PROVE  BytesInv'
<1>1. Busy /\ UNCHANGED <<wh, ch, want, last>>
  BY DEF WorkerResume, WorkerChunk, Busy
<1>2. wh \in Download /\ dl[wh] \in Struct /\ ~dl[wh].finished /\ Ordered(dl[wh])
      /\ dl \in [Download -> Struct]
  BY <1>1, BusyDownload DEF OwnerInv, Typed, FlagsTell, Busy, BytesInv
<1>3. CASE WorkerResume
  <2>1. dl[wh].seen /\ left \in 0 .. MaxChunk /\ dl[wh].received + left <= MaxBytes
    BY <1>3 DEF WorkerResume, BytesInv, LeftFits, Full
  <2>2. Receive(dl[wh], left)
    BY <1>3 DEF WorkerResume
  <2>3. dl[wh].replayed \/ get.position = dl[wh].received
    BY <1>3 DEF WorkerResume, GetFits, Running, InPlace, Full
  <2> QED
    BY <1>1, <1>2, <2>1, <2>2, <2>3, ReceiveBytes
<1>4. ASSUME NEW n \in 1 .. MaxChunk, WorkerChunk(n) PROVE BytesInv'
  <2>1. PICK h : h = WithBody(dl[wh])
    OBVIOUS
  <2>2. h \in Struct /\ Ordered(h) /\ h.seen /\ ~h.finished /\ h.received + n <= MaxBytes
        /\ h.replayed = dl[wh].replayed
    BY <1>2, <1>4, <2>1, WithBodyOwner, WithBodyOrdered DEF SameOwner, WorkerChunk
  <2>3. CASE h.retain /\ Misplaced(h, n)
    <3>1. PICK g : g = [h EXCEPT !.result = "IO"]
      OBVIOUS
    <3>2. dl' = [dl EXCEPT ![wh] = g] /\ wpc' = "ended" /\ UNCHANGED <<left, cpc>>
      BY <1>4, <2>1, <2>3, <3>1 DEF WorkerChunk
    <3>3. Ordered(g) /\ g.replayed = h.replayed
      <4>1. /\ g.received = h.received /\ g.used = h.used /\ g.tail = h.tail
            /\ g.head = h.head /\ g.ring = h.ring /\ g.retain = h.retain
            /\ g.seen = h.seen /\ g.finished = h.finished /\ g.replayed = h.replayed
        BY <2>2, <3>1 DEF Struct
      <4>2. Start(g) = Start(h)
        BY <4>1 DEF Start
      <4> QED
        BY <2>2, <4>1, <4>2 DEF Ordered
    <3>4. LeftFits'
      BY <3>2, LeftKept DEF BytesInv, Full
    <3> QED
      BY <1>1, <1>2, <2>2, <3>2, <3>3, <3>4, OtherSteps
  <2>4. CASE ~(h.retain /\ Misplaced(h, n))
    <3>1. Receive(h, n)
      BY <1>4, <2>1, <2>4 DEF WorkerChunk
    <3>2. n \in 0 .. MaxChunk
      OBVIOUS
    <3>3. h.replayed \/ get.position = h.received
      BY <1>4, <2>1, <2>4, ChunkInPlace DEF WorkerChunk
    <3> QED
      BY <1>1, <2>2, <3>1, <3>2, <3>3, ReceiveBytes
  <2> QED
    BY <2>3, <2>4
<1> QED
  BY <1>3, <1>4

(***************************************************************************)
(* The clients.                                                            *)
(***************************************************************************)
\* A client moves, or calls again: what its last read returned is forgotten.
LEMMA MoveBytes ==
  ASSUME OwnerInv, BytesInv, NEW c \in Client,
         \/ OpenTest(c)
         \/ ClientTimer(c)
         \/ CloseTest(c)
         \/ CloseBegin(c)
         \/ \E n \in 1 .. MaxChunk : ReadBegin(c, n)
         \/ http_downloader_open(c)
  PROVE  BytesInv'
<1>1. UNCHANGED <<dl, workerVars>>
  BY DEF OpenTest, ClientTimer, CloseTest, CloseBegin, ReadBegin, http_downloader_open
<1>2. LeftFits'
  BY <1>1, LeftKept DEF BytesInv, workerVars
<1>3. DOMAIN last = Client /\ cpc \in [Client -> ClientPc] /\ want \in [Client -> Nat]
      /\ ch \in [Client -> 0 .. opened] /\ ReadOK(c)
  BY DEF BytesInv, OwnerInv, Typed
<1>4. CASE OpenTest(c) \/ CloseTest(c)
  <2>1. cpc[c] \in {"open_test", "close_test"} /\ UNCHANGED <<ch, want, last>>
        /\ \E pc \in {"open_sleep", "close", "holding", "destroy", "close_sleep"} : SetPc(c, pc)
    BY <1>4 DEF OpenTest, CloseTest
  <2>2. \A e \in Client : Stands(e)
    BY <1>1, <1>3, <2>1 DEF Stands, SetPc, Reading
  <2> QED
    BY <1>1, <1>2, <1>3, <2>1, <2>2, NoDownload
<1>5. CASE ClientTimer(c)
  <2>1. UNCHANGED <<ch, want, last>>
        /\ \/ cpc[c] = "open_sleep" /\ SetPc(c, "open_late")
           \/ cpc[c] = "read_sleep" /\ SetPc(c, "read_late")
    BY <1>5 DEF ClientTimer
  <2>2. \A e \in Client : Stands(e)
    BY <1>1, <1>3, <2>1 DEF Stands, SetPc, Reading
  <2> QED
    BY <1>1, <1>2, <1>3, <2>1, <2>2, NoDownload
<1>6. ASSUME NEW pc, NEW n \in Nat, pc \in Reading => n > 0, SetPc(c, pc),
             want' = [want EXCEPT ![c] = n], last' = [last EXCEPT ![c] = NothingRead],
             \A e \in Client \ {c} : ch'[e] = ch[e]
      PROVE  BytesInv'
  <2>1. ReadOK(c)'
    <3>1. last'[c] = NothingRead /\ want'[c] = n /\ cpc'[c] = pc
      BY <1>3, <1>6 DEF SetPc
    <3> QED
      BY <1>6, <3>1 DEF ReadOK, NothingRead
  <2>2. \A e \in Client \ {c} : Stands(e)
    BY <1>1, <1>3, <1>6 DEF Stands, SetPc
  <2> QED
    BY <1>1, <1>2, <1>3, <1>6, <2>1, <2>2, NoDownload
<1>7. CASE CloseBegin(c)
  <2>1. /\ SetPc(c, "close") /\ want' = [want EXCEPT ![c] = want[c]] /\ UNCHANGED ch
        /\ last' = [last EXCEPT ![c] = NothingRead]
    BY <1>3, <1>7 DEF CloseBegin
  <2>2. "close" \notin Reading /\ want[c] \in Nat
    BY <1>3 DEF Reading
  <2> QED
    BY <1>6, <2>1, <2>2
<1>8. CASE http_downloader_open(c)
  <2>1. /\ SetPc(c, "open_test") /\ want' = [want EXCEPT ![c] = want[c]]
        /\ last' = [last EXCEPT ![c] = NothingRead]
        /\ \A e \in Client \ {c} : ch'[e] = ch[e]
    BY <1>3, <1>8 DEF http_downloader_open
  <2>2. "open_test" \notin Reading /\ want[c] \in Nat
    BY <1>3 DEF Reading
  <2> QED
    BY <1>6, <2>1, <2>2
<1>9. ASSUME NEW n \in 1 .. MaxChunk, ReadBegin(c, n) PROVE BytesInv'
  <2>1. /\ SetPc(c, "read_test") /\ want' = [want EXCEPT ![c] = n] /\ UNCHANGED ch
        /\ last' = [last EXCEPT ![c] = NothingRead]
    BY <1>9 DEF ReadBegin
  <2>2. n \in Nat /\ n > 0
    BY HttpAssumption
  <2> QED
    BY <1>6, <2>1, <2>2
<1> QED
  BY <1>4, <1>5, <1>7, <1>8, <1>9

\* Client steps leave the worker's leftover as it is.
LEMMA LeftKeptByClient ==
  ASSUME OwnerInv, BytesInv, NEW d, NEW h, dl' = [dl EXCEPT ![d] = h],
         wh = d => h.received = dl[d].received /\ h.seen = dl[d].seen,
         UNCHANGED <<wh, left>>, wpc' = wpc \/ wpc' = WakeWorker(d)
  PROVE  LeftFits'
<1>1. wpc' \in Full => wpc \in Full
  BY WakeWorkerOwner DEF OwnerInv, Typed, Full
<1>2. wpc \in Full => wh \in Download
  BY BusyDownload DEF Busy, Full
<1>3. wpc \in Full => dl'[wh].received = dl[wh].received /\ dl'[wh].seen = dl[wh].seen
  BY <1>2 DEF OwnerInv, Typed
<1> QED
  BY <1>1, <1>3, LeftKept DEF BytesInv

\* A client's own step that changes flags of its download, or destroys it.
LEMMA FlagBytes ==
  ASSUME OwnerInv, BytesInv, NEW c \in Client,
         \/ OpenTimedOut(c)
         \/ http_downloader_close(c)
         \/ CloseDestroy(c)
         \/ \E t \in 0 .. RingSize : http_downloader_seek(c, t)
  PROVE  BytesInv'
<1>1. cpc[c] \in {"open_late", "close", "destroy", "holding"} /\ UNCHANGED <<wh, left, want>>
      /\ (wpc' = wpc \/ wpc' = WakeWorker(ch[c]))
  BY DEF OpenTimedOut, http_downloader_close, CloseDestroy, http_downloader_seek, workerVars
<1>2. ch[c] \in Download /\ dl[ch[c]] \in Struct /\ Ordered(dl[ch[c]])
  BY <1>1, HeldDownload DEF BytesInv
<1>3. /\ DOMAIN last = Client /\ cpc \in [Client -> ClientPc] /\ ch \in [Client -> 0 .. opened]
      /\ dl \in [Download -> Struct] /\ ReadOK(c)
  BY DEF BytesInv, OwnerInv, Typed
<1>4. ASSUME NEW h, Ordered(h), dl' = [dl EXCEPT ![ch[c]] = h],
             wh = ch[c] => h.received = dl[ch[c]].received /\ h.seen = dl[ch[c]].seen,
             NEW pc, pc \notin Reading, SetPc(c, pc),
             (last' = last /\ cpc[c] # "holding") \/ last' = [last EXCEPT ![c] = NothingRead],
             \A e \in Client \ {c} : ch'[e] = ch[e]
      PROVE  BytesInv'
  <2>1. LeftFits'
    BY <1>1, <1>4, LeftKeptByClient
  <2>2. ReadOK(c)'
    <3>1. last'[c].out # "eof" /\ cpc'[c] \notin Reading /\ last'[c] = NothingRead
      BY <1>3, <1>4 DEF SetPc, NothingRead, ReadOK
    <3> QED
      BY <3>1 DEF ReadOK
  <2>3. \A e \in Client \ {c} : last'[e] = last[e] /\ want'[e] = want[e] /\ cpc'[e] = cpc[e]
    BY <1>1, <1>3, <1>4 DEF SetPc
  <2>4. DOMAIN last' = Client
    BY <1>3, <1>4
  <2> QED
    BY <1>1, <1>4, <2>1, <2>2, <2>3, <2>4, OwnStep
<1>5. CASE OpenTimedOut(c)
  <2>1. PICK h : h = [dl[ch[c]] EXCEPT !.result = "TIMEOUT", !.cancelled = TRUE, !.orphaned = TRUE]
    OBVIOUS
  <2>2. dl' = [dl EXCEPT ![ch[c]] = h] /\ SetPc(c, "idle") /\ last' = last /\ cpc[c] # "holding"
        /\ \A e \in Client \ {c} : ch'[e] = ch[e]
    BY <1>2, <1>3, <1>5, <2>1 DEF OpenTimedOut
  <2>3. /\ h.received = dl[ch[c]].received /\ h.used = dl[ch[c]].used /\ h.tail = dl[ch[c]].tail
        /\ h.head = dl[ch[c]].head /\ h.ring = dl[ch[c]].ring /\ h.retain = dl[ch[c]].retain
        /\ h.seen = dl[ch[c]].seen /\ h.replayed = dl[ch[c]].replayed /\ h.result # "OK"
    BY <1>2, <2>1 DEF Struct
  <2>4. Ordered(h)
    <3>1. Start(h) = Start(dl[ch[c]])
      BY <2>3 DEF Start
    <3> QED
      BY <1>2, <2>3, <3>1 DEF Ordered
  <2> QED
    BY <1>4, <2>2, <2>3, <2>4 DEF Reading
<1>6. CASE http_downloader_close(c)
  <2>1. PICK h : h = [dl[ch[c]] EXCEPT !.cancelled = TRUE]
    OBVIOUS
  <2>2. dl' = [dl EXCEPT ![ch[c]] = h] /\ SetPc(c, "close_test") /\ last' = last
        /\ cpc[c] # "holding" /\ ch' = ch
    BY <1>2, <1>3, <1>6, <2>1 DEF http_downloader_close
  <2>3. /\ h.received = dl[ch[c]].received /\ h.used = dl[ch[c]].used /\ h.tail = dl[ch[c]].tail
        /\ h.head = dl[ch[c]].head /\ h.ring = dl[ch[c]].ring /\ h.retain = dl[ch[c]].retain
        /\ h.seen = dl[ch[c]].seen /\ h.result = dl[ch[c]].result
        /\ h.finished = dl[ch[c]].finished /\ h.size = dl[ch[c]].size
        /\ h.replayed = dl[ch[c]].replayed
    BY <1>2, <2>1 DEF Struct
  <2>4. Ordered(h)
    <3>1. Start(h) = Start(dl[ch[c]])
      BY <2>3 DEF Start
    <3> QED
      BY <1>2, <2>3, <3>1 DEF Ordered
  <2> QED
    BY <1>4, <2>2, <2>3, <2>4 DEF Reading
<1>7. CASE CloseDestroy(c)
  <2>1. dl' = [dl EXCEPT ![ch[c]] = Fresh] /\ SetPc(c, "idle") /\ last' = last
        /\ cpc[c] # "holding" /\ \A e \in Client \ {c} : ch'[e] = ch[e]
    BY <1>3, <1>7 DEF CloseDestroy, destroy_download
  <2>2. wh # ch[c]
    BY <1>2, <1>7 DEF CloseDestroy, OwnerInv, ClientOwns, FlagsTell, WorkerOwns
  <2> QED
    BY <1>4, <2>1, <2>2, FreshOrdered DEF Reading
<1>8. ASSUME NEW t \in 0 .. RingSize, http_downloader_seek(c, t) PROVE BytesInv'
  <2>1. PICK h : h = [dl[ch[c]] EXCEPT !.tail = LesserOf(t, dl[ch[c]].used)]
    OBVIOUS
  <2>2. dl' = [dl EXCEPT ![ch[c]] = h] /\ last' = [last EXCEPT ![c] = NothingRead]
        /\ UNCHANGED <<ch, cpc>> /\ dl[ch[c]].retain
    BY <1>2, <1>3, <1>8, <2>1 DEF http_downloader_seek
  <2>3. /\ h.received = dl[ch[c]].received /\ h.used = dl[ch[c]].used
        /\ h.tail = LesserOf(t, dl[ch[c]].used)
        /\ h.head = dl[ch[c]].head /\ h.ring = dl[ch[c]].ring /\ h.retain = dl[ch[c]].retain
        /\ h.seen = dl[ch[c]].seen /\ h.result = dl[ch[c]].result
        /\ h.finished = dl[ch[c]].finished /\ h.size = dl[ch[c]].size
        /\ h.replayed = dl[ch[c]].replayed
    BY <1>2, <2>1 DEF Struct
  <2>4. Ordered(h)
    <3>1. Start(h) = Start(dl[ch[c]])
      BY <2>2, <2>3 DEF Start
    <3>2. h.tail \in 0 .. RingSize /\ h.tail <= h.used /\ (h.used = 0 => h.tail = 0)
      <4>1. RingSize \in Nat /\ dl[ch[c]].used \in 0 .. RingSize
        BY <1>2, HttpAssumption DEF Ordered
      <4> QED
        BY <2>3, <4>1 DEF LesserOf
    <3>3. ~h.seen => h.received = 0 /\ h.used = 0
      BY <1>2, <2>3, UnseenEmpty
    <3> QED
      BY <1>2, <2>3, <3>1, <3>2, <3>3 DEF Ordered
  <2>5. SetPc(c, "holding")
    BY <1>3, <1>8, <2>2 DEF SetPc, http_downloader_seek
  <2> QED
    BY <1>4, <2>2, <2>3, <2>4, <2>5 DEF Reading
<1> QED
  BY <1>5, <1>6, <1>7, <1>8

\* http_downloader_cancel_all.
LEMMA CancelBytes ==
  ASSUME OwnerInv, BytesInv, http_downloader_cancel_all
  PROVE  BytesInv'
<1>1. active \in Download /\ ~dl[active].finished /\ dl[active] \in Struct
      /\ Ordered(dl[active]) /\ dl \in [Download -> Struct] /\ cpc \in [Client -> ClientPc]
  BY HttpAssumption DEF http_downloader_cancel_all, OwnerInv, Typed, FlagsTell, BytesInv, Download
<1>2. PICK h : h = [dl[active] EXCEPT !.cancelled = TRUE, !.result = "IO", !.ready = TRUE]
  OBVIOUS
<1>3. /\ dl' = [dl EXCEPT ![active] = h] /\ cpc' = WakeClients(cpc, active)
      /\ wpc' = WakeWorker(active) /\ UNCHANGED <<wh, left, ch, want, last>>
  BY <1>1, <1>2 DEF http_downloader_cancel_all
<1>4. /\ h.received = dl[active].received /\ h.used = dl[active].used
      /\ h.tail = dl[active].tail /\ h.head = dl[active].head /\ h.ring = dl[active].ring
      /\ h.retain = dl[active].retain /\ h.seen = dl[active].seen /\ h.result # "OK"
      /\ h.replayed = dl[active].replayed
  BY <1>1, <1>2 DEF Struct
<1>5. Ordered(h)
  <2>1. Start(h) = Start(dl[active])
    BY <1>4 DEF Start
  <2> QED
    BY <1>1, <1>4, <2>1 DEF Ordered
<1>6. LeftFits'
  BY <1>3, <1>4, LeftKeptByClient
<1>7. \A e \in Client : /\ cpc[e] = "holding" => cpc'[e] = "holding"
                        /\ cpc'[e] \in Reading => cpc[e] \in Reading
  BY <1>1, <1>3, WakeClientsReading
<1>8. ~dl[active].finished /\ (dl[active].replayed => h.replayed)
  BY <1>1, <1>4
<1> QED
  BY <1>1, <1>3, <1>5, <1>6, <1>7, <1>8, OtherSteps

\* The end of http_downloader_read.
LEMMA DeliverBytes ==
  ASSUME OwnerInv, BytesInv, NEW c \in Client, cpc[c] \in Reading,
         NEW h \in Struct, Ordered(h), Deliver(c, h), UNCHANGED <<wh, left, ch>>,
         h.received = dl[ch[c]].received, h.seen = dl[ch[c]].seen,
         h.result = "OK" /\ Available(h) = 0 => h.finished
  PROVE  BytesInv'
<1>1. cpc[c] # "idle" /\ want[c] > 0 /\ want[c] \in Nat /\ DOMAIN last = Client
      /\ cpc \in [Client -> ClientPc] /\ want \in [Client -> Nat]
      /\ dl \in [Download -> Struct]
  BY DEF BytesInv, ReadOK, Reading, OwnerInv, Typed
<1>2. ch[c] \in Download
  BY <1>1, HeldDownload
<1>3. PICK take : take = LesserOf(want[c], Available(h))
  OBVIOUS
<1>4. Available(h) \in Nat
  BY HttpAssumption DEF Ordered, Available
<1>5. take \in 0 .. Available(h) /\ (take = 0 => Available(h) = 0)
  BY <1>1, <1>3, <1>4 DEF LesserOf
<1>6. PICK g : g = Drain(h, take)
  OBVIOUS
<1>7. Ordered(g) /\ g.received = h.received /\ g.seen = h.seen /\ g.finished = h.finished
      /\ g.retain = h.retain /\ g.result = h.result /\ g.size = h.size
      /\ g.replayed = h.replayed
  BY <1>5, <1>6, DrainOrdered DEF Drain, Struct
<1>8. /\ dl' = [dl EXCEPT ![ch[c]] = g]
      /\ last' = [last EXCEPT ![c] =
           [out |-> IF take > 0 THEN "data" ELSE IF h.result = "OK" THEN "eof" ELSE "error",
            from |-> IF h.retain THEN h.tail ELSE h.received - h.used,
            bytes |-> [i \in 1 .. take |-> h.ring[(h.tail + i - 1) % RingSize]]]]
      /\ wpc' = wpc \/ wpc' = WakeWorker(ch[c])
      /\ want' = [want EXCEPT ![c] = 0]
      /\ SetPc(c, "holding")
  BY <1>3, <1>6 DEF Deliver
<1>9. LeftFits'
  BY <1>7, <1>8, LeftKeptByClient
<1>10. ReadOK(c)'
  <2>1. last'[c] =
           [out |-> IF take > 0 THEN "data" ELSE IF h.result = "OK" THEN "eof" ELSE "error",
            from |-> IF h.retain THEN h.tail ELSE h.received - h.used,
            bytes |-> [i \in 1 .. take |-> h.ring[(h.tail + i - 1) % RingSize]]]
    BY <1>1, <1>8
  <2>2. cpc'[c] = "holding" /\ dl'[ch'[c]] = g
    BY <1>1, <1>2, <1>8 DEF SetPc
  <2>3. h.replayed \/ \A i \in DOMAIN last'[c].bytes : last'[c].bytes[i] = last'[c].from + i
    BY <1>5, <2>1, TakenInOrder
  <2>4. last'[c].out = "eof" => AtEnd(g)
    <3> SUFFICES ASSUME last'[c].out = "eof" PROVE AtEnd(g)
      OBVIOUS
    <3>1. take = 0 /\ h.result = "OK"
      BY <1>4, <1>5, <2>1
    <3>2. Available(h) = 0 /\ g.finished
      BY <1>5, <1>7, <3>1
    <3>3. Available(g) = 0
      <4>1. g.used = h.used /\ (h.retain => g.tail = h.tail)
        <5>1. h.tail \in Int /\ h.used \in Int
          BY DEF Struct
        <5> QED
          BY <1>6, <3>1, <5>1 DEF Drain, Struct
      <4> QED
        BY <1>7, <3>2, <4>1 DEF Available
    <3>4. g.received >= g.size /\ (g.retain /\ g.seen => g.received = g.size)
      BY <1>7, <3>1, <3>2 DEF Ordered
    <3> QED
      BY <3>2, <3>3, <3>4 DEF AtEnd
  <2> QED
    BY <1>7, <2>2, <2>3, <2>4 DEF ReadOK, Reading
<1>11. \A e \in Client \ {c} : last'[e] = last[e] /\ want'[e] = want[e] /\ cpc'[e] = cpc[e]
                               /\ ch'[e] = ch[e]
  BY <1>1, <1>8 DEF SetPc
<1>12. DOMAIN last' = Client
  BY <1>1, <1>8
<1> QED
  BY <1>1, <1>7, <1>8, <1>9, <1>10, <1>11, <1>12, OwnStep

LEMMA ReadBytes ==
  ASSUME OwnerInv, BytesInv, NEW c \in Client, ReadTest(c) \/ ReadTimedOut(c)
  PROVE  BytesInv'
<1>1. cpc[c] \in Reading /\ cpc[c] # "idle" /\ UNCHANGED <<wh, left, ch>>
  BY DEF ReadTest, ReadTimedOut, Reading
<1>2. ch[c] \in Download /\ dl[ch[c]] \in Struct /\ Ordered(dl[ch[c]])
  BY <1>1, HeldDownload DEF BytesInv
<1>3. CASE ReadTimedOut(c)
  <2>1. PICK h : h = [dl[ch[c]] EXCEPT !.result = "TIMEOUT", !.cancelled = TRUE]
    OBVIOUS
  <2>2. /\ h \in Struct
        /\ h.received = dl[ch[c]].received /\ h.used = dl[ch[c]].used /\ h.tail = dl[ch[c]].tail
        /\ h.head = dl[ch[c]].head /\ h.ring = dl[ch[c]].ring /\ h.retain = dl[ch[c]].retain
        /\ h.seen = dl[ch[c]].seen /\ h.replayed = dl[ch[c]].replayed /\ h.result # "OK"
    BY <1>2, <2>1 DEF Struct, Result
  <2>3. Ordered(h)
    <3>1. Start(h) = Start(dl[ch[c]])
      BY <2>2 DEF Start
    <3> QED
      BY <1>2, <2>2, <3>1 DEF Ordered
  <2>4. Deliver(c, h)
    BY <1>3, <2>1 DEF ReadTimedOut
  <2> QED
    BY <1>1, <2>2, <2>3, <2>4, DeliverBytes
<1>4. CASE ReadTest(c) /\ MustWait(dl[ch[c]])
  <2>1. SetPc(c, "read_sleep") /\ UNCHANGED <<dl, wpc, want, last>>
    BY <1>4 DEF ReadTest
  <2>2. LeftFits'
    BY <1>1, <2>1, LeftKept DEF BytesInv
  <2>3. \A e \in Client : Stands(e)
    BY <1>1, <1>4, <2>1 DEF Stands, SetPc, Reading, ReadTest, OwnerInv, Typed
  <2> QED
    BY <2>1, <2>2, <2>3, NoDownload DEF BytesInv
<1>5. CASE ReadTest(c) /\ ~MustWait(dl[ch[c]])
  BY <1>1, <1>2, <1>5, DeliverBytes DEF ReadTest, MustWait
<1> QED
  BY <1>3, <1>4, <1>5

(***************************************************************************)
(* Where httpc_get is in the body, however often it repeats its request.   *)
(***************************************************************************)
SameBody(h, g) ==
  /\ h.received = g.received /\ h.seen = g.seen /\ h.size = g.size
  /\ h.retain = g.retain /\ h.replayed = g.replayed

\* A step that leaves the transfer alone.
LEMMA GetKept ==
  ASSUME OwnerInv, GetFits, NEW d \in Download, NEW h, dl' = [dl EXCEPT ![d] = h],
         SameBody(h, dl[d]) \/ (d # wh /\ d # pending),
         UNCHANGED <<wh, pending, get, rc>>,
         wpc' = wpc \/ (wpc \in Full /\ wpc' \in Full)
  PROVE  GetFits'
<1>1. dl \in [Download -> Struct]
  BY DEF OwnerInv, Typed
<1>2. /\ wh \in Download => SameBody(dl'[wh], dl[wh])
      /\ pending \in Download => SameBody(dl'[pending], dl[pending])
  BY <1>1 DEF SameBody
<1>3. (Busy => wh \in Download) /\ (pending # 0 => pending \in Download)
  BY BusyDownload, HttpAssumption DEF OwnerInv, Typed, Download
<1>4. Busy' = Busy /\ Running' = Running /\ (wpc' \in Full) = (wpc \in Full)
      /\ (wpc' = "taken" <=> wpc = "taken") /\ (wpc' = "transfer" <=> wpc = "transfer")
      /\ (wpc' \in {"ended", "inactive"}) = (wpc \in {"ended", "inactive"})
  BY DEF Busy, Running, Full
<1>5. Running => Busy
  BY DEF Running, Busy, Full
<1>6. CASE ~Busy
  <2>1. wpc' = wpc
    BY <1>6 DEF Busy, Full
  <2>2. rc = "OK" => wpc = "inactive" /\ wh \in Download
    BY <1>6, HttpAssumption DEF GetFits, Busy, OwnerInv, WorkerOwns, Typed, Download
  <2> QED
    BY <1>2, <1>3, <1>4, <1>5, <1>6, <2>1, <2>2 DEF GetFits, SameBody, Running, Full, Busy
<1>7. CASE Busy
  <2>1. SameBody(dl'[wh], dl[wh]) /\ (pending # 0 => dl'[pending].seen = dl[pending].seen)
    BY <1>2, <1>3, <1>7 DEF SameBody
  <2>2. Running => InPlace(dl[wh])'
    BY <1>4, <2>1 DEF GetFits, InPlace, SameBody
  <2> QED
    BY <1>4, <1>7, <2>1, <2>2 DEF GetFits, SameBody, Full
<1> QED
  BY <1>6, <1>7

\* A step of the worker that ends the transfer, or goes on without a byte.
LEMMA GetMoved ==
  ASSUME OwnerInv, BytesInv, GetFits, WorkerTake \/ WorkerInactive \/ WorkerDestroy \/ WorkerFinish
  PROVE  GetFits'
<1>1. CASE WorkerTake
  <2>1. pending \in Download /\ get = NoGet /\ ~dl[pending].seen /\ Ordered(dl[pending])
        /\ rc # "OK"
    BY <1>1, HttpAssumption
       DEF WorkerTake, OwnerInv, Typed, GetFits, Busy, BytesInv, Download
  <2>2. wh' = pending /\ wpc' = "taken" /\ pending' = 0 /\ UNCHANGED <<dl, get, rc>>
    BY <1>1 DEF WorkerTake
  <2>3. 0 \in 0 .. dl[pending].received
    BY <2>1, HttpAssumption DEF Ordered
  <2> QED
    BY <2>1, <2>2, <2>3 DEF GetFits, Busy, Running, Full, NoGet
<1>2. CASE WorkerInactive
  <2>1. pending' = 0 /\ wpc = "ended"
    BY <1>2 DEF WorkerInactive, OwnerInv, WorkerOwns, Busy
  <2> QED
    BY <1>2, <2>1 DEF WorkerInactive, GetFits, Busy, Running, Full
<1>3. CASE WorkerDestroy \/ WorkerFinish
  <2>1. /\ ~Busy /\ wh # 0 /\ pending # wh
        /\ pending # 0 => pending \in Download
    BY <1>3, HttpAssumption
       DEF WorkerDestroy, WorkerFinish, OwnerInv, Typed, WorkerOwns, Busy, Download
  <2>2. /\ wpc' \in {"idle", "destroy"} /\ rc' # "OK" /\ UNCHANGED <<pending, get>>
        /\ pending # 0 => dl'[pending] = dl[pending]
    BY <1>3, <2>1 DEF WorkerDestroy, WorkerFinish, destroy_download, GetFits, OwnerInv, Typed
  <2> QED
    BY <2>1, <2>2 DEF GetFits, Busy, Running, Full
<1> QED
  BY <1>1, <1>2, <1>3

\* The download and the worker once it was taken.
LEMMA BusyBody ==
  ASSUME OwnerInv, BytesInv, GetFits, Busy
  PROVE  /\ wh \in Download /\ dl[wh] \in Struct /\ Ordered(dl[wh]) /\ pending = 0
         /\ dl \in [Download -> Struct] /\ get \in Getting /\ ~dl[wh].finished
         /\ dl[wh].received \in Nat /\ dl[wh].size \in Nat
         /\ get.position \in 0 .. dl[wh].received /\ get.length \in Int
<1>1. wh \in Download /\ dl[wh] \in Struct /\ Ordered(dl[wh]) /\ pending = 0
      /\ dl \in [Download -> Struct] /\ get \in Getting /\ ~dl[wh].finished
  BY BusyDownload DEF OwnerInv, Typed, WorkerOwns, FlagsTell, BytesInv, Busy
<1>2. dl[wh].received \in Nat /\ dl[wh].size \in Nat
  BY <1>1, HttpAssumption DEF Ordered, Struct
<1> QED
  BY <1>1, <1>2 DEF GetFits, Getting

LEMMA StartGet ==
  ASSUME OwnerInv, BytesInv, GetFits, WorkerStart \/ WorkerTimedOut
  PROVE  GetFits'
<1>1. Busy
  BY DEF WorkerStart, WorkerTimedOut, Busy
<1>2. CASE WorkerStart
  <2>1. PICK n \in Sizes[wh] : dl' = [dl EXCEPT ![wh].size = n]
    BY <1>2 DEF WorkerStart
  <2>2. dl'[wh].received = dl[wh].received /\ dl'[wh].replayed = dl[wh].replayed
    BY <1>1, <2>1, BusyBody DEF Struct
  <2>3. dl[wh].received = 0 /\ get = NoGet /\ rc # "OK"
    BY <1>1, <1>2, BusyBody, UnseenEmpty DEF WorkerStart, GetFits
  <2>4. InPlace(dl[wh])'
    BY <1>2, <2>2, <2>3 DEF WorkerStart, InPlace, NoGet
  <2> QED
    BY <1>1, <1>2, <2>2, <2>3, <2>4, BusyBody DEF WorkerStart, GetFits, Busy, Running, Full, NoGet
<1>3. CASE WorkerTimedOut
  <2>1. dl'[wh].received = dl[wh].received /\ dl'[wh].size = dl[wh].size
    BY <1>1, <1>3, BusyBody DEF WorkerTimedOut, Struct
  <2> QED
    BY <1>1, <1>3, <2>1, BusyBody DEF WorkerTimedOut, GetFits, Busy, Running, Full
<1> QED
  BY <1>2, <1>3

\* An answer starts the body again, or goes on with it.
LEMMA AnsweredGet ==
  ASSUME OwnerInv, BytesInv, GetFits, RequestAnswered
  PROVE  GetFits'
<1>1. Busy /\ Running /\ wpc' = "transfer" /\ UNCHANGED <<wh, pending, rc>> /\ rc # "OK"
  BY DEF RequestAnswered, Busy, Running, GetFits
<1>2. InPlace(dl[wh])
  BY <1>1 DEF GetFits
<1>3. CASE dl' # dl
  <2>1. /\ get' = [get EXCEPT !.position = 0, !.length = dl[wh].size]
        /\ dl' = [dl EXCEPT ![wh].replayed = @ \/ (get.position > 0 /\ ~dl[wh].retain)]
    BY <1>3 DEF RequestAnswered
  <2>2. get'.position = 0 /\ get'.length = dl[wh].size
    BY <1>1, <2>1, BusyBody DEF Getting
  <2>3. /\ dl'[wh].received = dl[wh].received /\ dl'[wh].size = dl[wh].size
        /\ dl'[wh].retain = dl[wh].retain
        /\ dl[wh].replayed \/ (get.position > 0 /\ ~dl[wh].retain) => dl'[wh].replayed
    BY <1>1, <2>1, BusyBody DEF Struct
  <2>4. InPlace(dl[wh])'
    BY <1>1, <1>2, <2>2, <2>3, BusyBody DEF InPlace, Full
  <2> QED
    BY <1>1, <2>2, <2>3, <2>4, BusyBody DEF GetFits, Busy, Running, Full
<1>4. CASE dl' = dl /\ get'.position = 0
  <2>1. get'.length >= dl[wh].size
    <3>1. get'.length = dl[wh].size \/ get'.length \in ResumedLengths(dl[wh].size)
      BY <1>1, BusyBody DEF RequestAnswered, Getting
    <3> QED
      BY <1>1, <3>1, BusyBody DEF ResumedLengths
  <2>2. dl[wh].replayed \/ dl[wh].retain \/ dl[wh].received = 0
    <3>1. CASE get' = [get EXCEPT !.position = 0, !.length = dl[wh].size]
                /\ dl' = [dl EXCEPT ![wh].replayed = @ \/ (get.position > 0 /\ ~dl[wh].retain)]
      <4>1. dl[wh].replayed \/ ~(get.position > 0 /\ ~dl[wh].retain)
        BY <1>1, <1>4, <3>1, BusyBody DEF Struct
      <4> QED
        BY <1>1, <1>2, <4>1, BusyBody DEF InPlace
    <3>2. CASE ~<3>1!1
      <4>1. get.position > 0 /\ get'.position = get.position
        BY <1>1, <3>2, BusyBody DEF RequestAnswered, Getting
      <4> QED
        BY <1>1, <1>4, <4>1, BusyBody
    <3> QED
      BY <3>1, <3>2
  <2>3. InPlace(dl[wh])'
    BY <1>1, <1>4, <2>2 DEF InPlace, Full
  <2> QED
    BY <1>1, <1>4, <2>1, <2>3, BusyBody DEF GetFits, Busy, Running, Full
<1>5. CASE dl' = dl /\ get'.position # 0
  <2>1. PICK n \in ResumedLengths(dl[wh].size) : get' = [get EXCEPT !.length = n]
    BY <1>1, <1>5, BusyBody DEF RequestAnswered, Getting
  <2>2. get'.position = get.position /\ get'.length = n /\ n >= dl[wh].size
    BY <1>1, <2>1, BusyBody DEF Getting, ResumedLengths
  <2>3. InPlace(dl[wh])'
    BY <1>1, <1>2, <1>5, <2>2 DEF InPlace, Full
  <2> QED
    BY <1>1, <1>5, <2>2, <2>3, BusyBody DEF GetFits, Busy, Running, Full
<1> QED
  BY <1>3, <1>4, <1>5

LEMMA PolledGet ==
  ASSUME OwnerInv, BytesInv, GetFits, Polled
  PROVE  GetFits'
<1>1. Busy /\ dl' = dl /\ UNCHANGED <<wh, pending>> /\ wpc' \in {"backoff", "ended", "request"}
      /\ wpc \in {"request", "backoff", "transfer"}
  BY DEF Polled, RequestFails, RequestRefused, Backoff, TransferEnds, TransferBreaks, Busy
<1>2. InPlace(dl[wh])
  BY <1>1 DEF GetFits, Running
<1>3. get'.position = get.position
  BY <1>1, BusyBody DEF Polled, RequestFails, RequestRefused, Backoff, TransferEnds,
     TransferBreaks, Getting
<1>4. rc' = "OK" => wpc' = "ended" /\ dl[wh].received >= dl[wh].size
  <2>1. CASE TransferEnds
    <3>1. get.length >= dl[wh].size /\ (get.length > 0 => get.position >= get.length)
      BY <2>1 DEF TransferEnds, GetFits, Complete
    <3> QED
      BY <1>1, <2>1, <3>1, BusyBody DEF TransferEnds
  <2>2. CASE ~TransferEnds
    BY <1>1, <2>2 DEF Polled, RequestFails, RequestRefused, Backoff, TransferBreaks, GetFits
  <2> QED
    BY <2>1, <2>2
<1>5. InPlace(dl[wh])'
  BY <1>1, <1>2, <1>3 DEF InPlace, Full
<1> QED
  BY <1>1, <1>3, <1>4, <1>5, BusyBody DEF GetFits, Busy, Running, Full

\* receive_chunk: httpc's position and the bytes received advance together.
LEMMA ReceiveGet ==
  ASSUME OwnerInv, BytesInv, GetFits, wpc \in {"transfer", "full_test"},
         NEW h \in Struct, Ordered(h), h.seen, ~h.finished,
         h.received = dl[wh].received, h.size = dl[wh].size,
         NEW n \in 0 .. MaxChunk, h.received + n <= MaxBytes,
         h.replayed \/ get.position = h.received,
         Receive(h, n), UNCHANGED <<wh, pending, rc>>
  PROVE  GetFits'
<1>1. Busy /\ rc # "OK" /\ get.length >= h.size
  BY DEF Busy, GetFits, Full
<1>2. CASE h.cancelled
  <2>1. dl'[wh] = h /\ wpc' = "ended" /\ get' = get
    BY <1>1, <1>2, BusyBody DEF Receive
  <2> QED
    BY <1>1, <2>1, BusyBody DEF GetFits, Busy, Running, Full
<1>3. CASE ~h.cancelled
  <2>1. PICK g : g = Copy(h, get.position, n)
    OBVIOUS
  <2>2. PICK k : k = g.received - h.received
    OBVIOUS
  <2>3. n \in Nat /\ h.received \in Nat /\ get.position \in 0 .. h.received
    BY <1>1, BusyBody, HttpAssumption
  <2>4. g.replayed = h.replayed /\ k \in 0 .. n /\ g.received \in Nat
    <3>1. Ordered(g) /\ g.replayed = h.replayed /\ k \in 0 .. n
      BY <2>1, <2>2, <2>3, CopyOrdered
    <3>2. MaxBytes \in Nat
      BY HttpAssumption
    <3> QED
      BY <3>1, <3>2 DEF Ordered
  <2>5. g.size = h.size
    BY <2>1 DEF Copy, Struct
  <2>6. dl'[wh] = g /\ get' = [get EXCEPT !.position = @ + k, !.progress = TRUE]
        /\ wpc' \in {"full_sleep", "transfer"}
    BY <1>1, <1>3, <2>1, <2>2, BusyBody DEF Receive
  <2>7. get'.position = get.position + k /\ get'.length = get.length /\ g.received = h.received + k
    <3>1. get \in Getting
      BY <1>1, BusyBody
    <3> QED
      BY <2>2, <2>3, <2>4, <2>6, <3>1 DEF Getting
  <2>8. InPlace(dl[wh])'
    BY <2>3, <2>4, <2>6, <2>7 DEF InPlace
  <2>9. get'.position \in 0 .. g.received
    BY <2>3, <2>4, <2>7
  <2> QED
    BY <1>1, <2>5, <2>6, <2>7, <2>8, <2>9, BusyBody DEF GetFits, Busy, Running, Full
<1> QED
  BY <1>2, <1>3

LEMMA ChunkGet ==
  ASSUME OwnerInv, BytesInv, GetFits, WorkerResume \/ \E n \in 1 .. MaxChunk : WorkerChunk(n)
  PROVE  GetFits'
<1>1. Busy /\ UNCHANGED <<wh, pending, rc>>
  BY DEF WorkerResume, WorkerChunk, Busy
<1>2. CASE WorkerResume
  <2>1. dl[wh].seen /\ left \in 0 .. MaxChunk /\ dl[wh].received + left <= MaxBytes
    BY <1>2 DEF WorkerResume, BytesInv, LeftFits, Full
  <2>2. dl[wh].replayed \/ get.position = dl[wh].received
    BY <1>2 DEF WorkerResume, GetFits, Running, InPlace, Full
  <2> QED
    BY <1>1, <1>2, <2>1, <2>2, BusyBody, ReceiveGet DEF WorkerResume
<1>3. ASSUME NEW n \in 1 .. MaxChunk, WorkerChunk(n) PROVE GetFits'
  <2>1. PICK h : h = WithBody(dl[wh])
    OBVIOUS
  <2>2. /\ h \in Struct /\ Ordered(h) /\ h.seen /\ ~h.finished /\ h.received + n <= MaxBytes
        /\ h.received = dl[wh].received /\ h.size = dl[wh].size
    BY <1>1, <1>3, <2>1, BusyBody, WithBodyOwner, WithBodyOrdered DEF SameOwner, WorkerChunk
  <2>3. CASE h.retain /\ Misplaced(h, n)
    <3>1. /\ dl' = [dl EXCEPT ![wh] = [h EXCEPT !.result = "IO"]]
          /\ wpc' = "ended" /\ get' = get
      BY <1>3, <2>1, <2>3 DEF WorkerChunk
    <3>2. dl'[wh].received = dl[wh].received /\ rc # "OK"
      BY <1>1, <1>3, <2>2, <3>1, BusyBody DEF Struct, GetFits, WorkerChunk
    <3> QED
      BY <1>1, <3>1, <3>2, BusyBody DEF GetFits, Busy, Running, Full
  <2>4. CASE ~(h.retain /\ Misplaced(h, n))
    <3>1. Receive(h, n) /\ wpc = "transfer"
      BY <1>3, <2>1, <2>4 DEF WorkerChunk
    <3>2. h.replayed \/ get.position = h.received
      BY <2>1, <2>4, <3>1, ChunkInPlace
    <3> QED
      BY <1>1, <2>2, <3>1, <3>2, ReceiveGet
  <2> QED
    BY <2>3, <2>4
<1> QED
  BY <1>2, <1>3

\* A client never touches what the worker's transfer depends on.
LEMMA ClientGet ==
  ASSUME OwnerInv, BytesInv, GetFits, NEW c \in Client, ClientStep(c)
  PROVE  GetFits'
<1>1. cpc[c] # "idle" /\ UNCHANGED <<wh, pending, get, rc>>
      /\ (wpc' = wpc \/ wpc' = WakeWorker(ch[c]))
  BY DEF ClientStep, OpenTest, OpenTimedOut, ReadTest, ReadTimedOut, http_downloader_close,
     CloseTest, CloseDestroy, Deliver, workerVars
<1>2. ch[c] \in Download /\ dl[ch[c]] \in Struct /\ dl \in [Download -> Struct]
  BY <1>1, HeldDownload DEF OwnerInv, Typed
<1>3. wpc' = wpc \/ (wpc \in Full /\ wpc' \in Full)
  BY <1>1, WakeWorkerOwner DEF OwnerInv, Typed, Full
<1>4. PICK h : /\ dl' = [dl EXCEPT ![ch[c]] = h]
               /\ SameBody(h, dl[ch[c]]) \/ (ch[c] # wh /\ ch[c] # pending)
  <2>1. CASE OpenTest(c) \/ CloseTest(c) \/ (ReadTest(c) /\ dl' = dl)
    <3>1. dl' = [dl EXCEPT ![ch[c]] = dl[ch[c]]]
      BY <1>2, <2>1 DEF OpenTest, CloseTest
    <3> QED
      BY <3>1 DEF SameBody
  <2>2. CASE OpenTimedOut(c) \/ http_downloader_close(c)
    <3>1. CASE OpenTimedOut(c)
      <4>1. PICK h : h = [dl[ch[c]] EXCEPT !.result = "TIMEOUT", !.cancelled = TRUE, !.orphaned = TRUE]
        OBVIOUS
      <4>2. dl' = [dl EXCEPT ![ch[c]] = h] /\ SameBody(h, dl[ch[c]])
        BY <1>2, <3>1, <4>1 DEF OpenTimedOut, Struct, SameBody
      <4> QED
        BY <4>2
    <3>2. CASE http_downloader_close(c)
      <4>1. PICK h : h = [dl[ch[c]] EXCEPT !.cancelled = TRUE]
        OBVIOUS
      <4>2. dl' = [dl EXCEPT ![ch[c]] = h] /\ SameBody(h, dl[ch[c]])
        BY <1>2, <3>2, <4>1 DEF http_downloader_close, Struct, SameBody
      <4> QED
        BY <4>2
    <3> QED
      BY <2>2, <3>1, <3>2
  <2>3. CASE CloseDestroy(c)
    <3>1. dl' = [dl EXCEPT ![ch[c]] = Fresh]
      BY <2>3 DEF CloseDestroy, destroy_download
    <3>2. ch[c] # wh /\ ch[c] # pending
      BY <1>2, <2>3 DEF CloseDestroy, OwnerInv, ClientOwns, FlagsTell, WorkerOwns, Download
    <3> QED
      BY <3>1, <3>2
  <2>4. ASSUME NEW h \in Struct, SameBody(h, dl[ch[c]]), Deliver(c, h)
        PROVE  \E g : dl' = [dl EXCEPT ![ch[c]] = g] /\ SameBody(g, dl[ch[c]])
    <3>1. PICK g : g = Drain(h, LesserOf(want[c], Available(h)))
      OBVIOUS
    <3>2. SameBody(g, h)
      BY <3>1 DEF Drain, SameBody, Struct
    <3> QED
      BY <2>4, <3>1, <3>2 DEF Deliver, SameBody
  <2>5. CASE ReadTimedOut(c)
    <3>1. PICK h : h = [dl[ch[c]] EXCEPT !.result = "TIMEOUT", !.cancelled = TRUE]
      OBVIOUS
    <3>2. h \in Struct /\ SameBody(h, dl[ch[c]])
      BY <1>2, <3>1 DEF Struct, SameBody, Result
    <3>3. Deliver(c, h)
      BY <2>5, <3>1 DEF ReadTimedOut
    <3> QED
      BY <2>4, <3>2, <3>3
  <2>6. CASE ReadTest(c) /\ dl' # dl
    <3>1. Deliver(c, dl[ch[c]]) /\ SameBody(dl[ch[c]], dl[ch[c]])
      BY <2>6 DEF ReadTest, SameBody
    <3> QED
      BY <1>2, <2>4, <3>1
  <2> QED
    BY <2>1, <2>2, <2>3, <2>5, <2>6 DEF ClientStep
<1> QED
  BY <1>1, <1>2, <1>3, <1>4, GetKept

\* The other steps of the clients.
LEMMA CallGet ==
  ASSUME OwnerInv, BytesInv, GetFits,
         \/ WorkerTimer
         \/ http_downloader_cancel_all
         \/ \E c \in Client : \/ http_downloader_open(c) \/ ClientTimer(c) \/ CloseBegin(c)
                              \/ \E n \in 1 .. MaxChunk : ReadBegin(c, n)
                              \/ \E t \in 0 .. RingSize : http_downloader_seek(c, t)
  PROVE  GetFits'
<1>1. dl \in [Download -> Struct] /\ wpc \in WorkerPc
  BY DEF OwnerInv, Typed
<1>2. ASSUME dl' = dl, UNCHANGED <<wh, pending, get, rc>>,
             wpc' = wpc \/ (wpc \in Full /\ wpc' \in Full), Download # {}
      PROVE  GetFits'
  <2>1. PICK d \in Download : TRUE
    BY <1>2
  <2>2. dl' = [dl EXCEPT ![d] = dl[d]] /\ SameBody(dl[d], dl[d])
    BY <1>1, <1>2 DEF SameBody
  <2> QED
    BY <1>2, <2>2, GetKept
<1>3. CASE WorkerTimer
  <2>1. Download # {}
    BY <1>3, BusyDownload DEF WorkerTimer, Busy
  <2> QED
    BY <1>2, <1>3, <2>1 DEF WorkerTimer, Full
<1>4. CASE http_downloader_cancel_all
  <2>1. active \in Download /\ dl[active] \in Struct
    BY <1>1, <1>4, HttpAssumption DEF http_downloader_cancel_all, OwnerInv, Typed, Download
  <2>2. PICK h : h = [dl[active] EXCEPT !.cancelled = TRUE, !.result = "IO", !.ready = TRUE]
    OBVIOUS
  <2>3. SameBody(h, dl[active]) /\ dl' = [dl EXCEPT ![active] = h]
    BY <1>1, <1>4, <2>1, <2>2 DEF Struct, SameBody, http_downloader_cancel_all
  <2>4. UNCHANGED <<wh, pending, get, rc>> /\ (wpc' = wpc \/ (wpc \in Full /\ wpc' \in Full))
    BY <1>1, <1>4, WakeWorkerOwner DEF http_downloader_cancel_all, Full
  <2> QED
    BY <2>1, <2>3, <2>4, GetKept
<1>5. ASSUME NEW c \in Client, http_downloader_open(c) PROVE GetFits'
  <2>1. opened + 1 \in Download /\ opened + 1 > opened /\ opened + 1 # 0
    BY <1>5, HttpAssumption DEF http_downloader_open, OwnerInv, Typed, Download
  <2>2. dl[opened + 1] = Fresh
    BY <2>1 DEF OwnerInv, FlagsTell
  <2>3. pending' = opened + 1 /\ UNCHANGED <<dl, wpc, wh, get, rc>>
    BY <1>5 DEF http_downloader_open, workerVars
  <2>4. Busy' = Busy /\ Running' = Running
    BY <2>3 DEF Busy, Running
  <2> QED
    BY <2>2, <2>3, <2>4 DEF GetFits, Fresh, InPlace
<1>6. ASSUME NEW c \in Client, ClientTimer(c) \/ CloseBegin(c)
                               \/ \E n \in 1 .. MaxChunk : ReadBegin(c, n)
      PROVE  GetFits'
  <2>1. cpc[c] # "idle" /\ dl' = dl /\ UNCHANGED <<wh, pending, get, rc, wpc>>
    BY <1>6 DEF ClientTimer, CloseBegin, ReadBegin, workerVars
  <2>2. Download # {}
    BY <2>1, HeldDownload
  <2> QED
    BY <1>2, <2>1, <2>2
<1>7. ASSUME NEW c \in Client, NEW t \in 0 .. RingSize, http_downloader_seek(c, t)
      PROVE  GetFits'
  <2>1. ch[c] \in Download /\ dl[ch[c]] \in Struct
    BY <1>7, HeldDownload DEF http_downloader_seek
  <2>2. PICK h : h = [dl[ch[c]] EXCEPT !.tail = LesserOf(t, dl[ch[c]].used)]
    OBVIOUS
  <2>3. SameBody(h, dl[ch[c]]) /\ dl' = [dl EXCEPT ![ch[c]] = h]
    BY <1>1, <1>7, <2>1, <2>2 DEF Struct, SameBody, http_downloader_seek
  <2>4. UNCHANGED <<wh, pending, get, rc, wpc>>
    BY <1>7 DEF http_downloader_seek, workerVars
  <2> QED
    BY <2>1, <2>3, <2>4, GetKept
<1> QED
  BY <1>3, <1>4, <1>5, <1>6, <1>7

LEMMA GetInit == Init => GetFits
<1> SUFFICES ASSUME Init PROVE GetFits
  OBVIOUS
<1> QED
  BY DEF Init, GetFits, Busy, Running, Full

LEMMA GetNext == OwnerInv /\ BytesInv /\ GetFits /\ [Next]_vars => GetFits'
<1> SUFFICES ASSUME OwnerInv, BytesInv, GetFits, [Next]_vars PROVE GetFits'
  OBVIOUS
<1>1. CASE UNCHANGED vars
  BY <1>1 DEF vars, workerVars, GetFits, Busy, Running, InPlace
<1>2. CASE WorkerStep \/ \E n \in 1 .. MaxChunk : WorkerChunk(n)
  BY <1>2, GetMoved, StartGet, PolledGet, ChunkGet DEF WorkerStep, Polled
<1>3. CASE RequestAnswered \/ Polled \/ WorkerTimer
  BY <1>3, AnsweredGet, PolledGet, CallGet
<1>4. CASE \E c \in Client : ClientStep(c)
  BY <1>4, ClientGet
<1>5. CASE \/ http_downloader_cancel_all
           \/ \E c \in Client : \/ http_downloader_open(c) \/ ClientTimer(c) \/ CloseBegin(c)
                                \/ \E n \in 1 .. MaxChunk : ReadBegin(c, n)
                                \/ \E t \in 0 .. RingSize : http_downloader_seek(c, t)
  BY <1>5, CallGet
<1> QED
  BY <1>1, <1>2, <1>3, <1>4, <1>5 DEF Next, Polled

(***************************************************************************)
(* The invariant holds, and with it the order of the bytes.                *)
(***************************************************************************)
LEMMA BytesInit == Init => BytesInv
<1> SUFFICES ASSUME Init PROVE BytesInv
  OBVIOUS
<1>1. \A d \in Download : Ordered(dl[d])
  BY FreshOrdered DEF Init
<1>2. LeftFits
  BY HttpAssumption DEF Init, LeftFits, Full
<1>3. DOMAIN last = Client /\ \A c \in Client : ReadOK(c)
  BY DEF Init, ReadOK, NothingRead, Reading
<1> QED
  BY <1>1, <1>2, <1>3 DEF BytesInv

LEMMA BytesNext == OwnerInv /\ BytesInv /\ GetFits /\ [Next]_vars => BytesInv'
<1> SUFFICES ASSUME OwnerInv, BytesInv, GetFits, [Next]_vars PROVE BytesInv'
  OBVIOUS
<1>1. CASE UNCHANGED vars
  <2>1. LeftFits'
    BY <1>1, LeftKept DEF vars, workerVars, BytesInv
  <2> QED
    BY <1>1, <2>1, NoDownload DEF vars, clientVars, Stands, BytesInv
<1>2. CASE WorkerStep \/ WorkerTimer \/ \E n \in 1 .. MaxChunk : WorkerChunk(n)
  BY <1>2, MovesBytes, WorkerFlagBytes, DestroyBytes, ChunkBytes DEF WorkerStep, Polled
<1>3. CASE RequestAnswered \/ Polled
  BY <1>3, MovesBytes, AnsweredBytes
<1>4. ASSUME NEW c \in Client, http_downloader_open(c) \/ ClientTimer(c) \/ ClientStep(c)
      PROVE  BytesInv'
  BY <1>4, MoveBytes, ReadBytes, FlagBytes DEF ClientStep
<1>5. ASSUME NEW c \in Client,
             \/ \E n \in 1 .. MaxChunk : ReadBegin(c, n)
             \/ \E t \in 0 .. RingSize : http_downloader_seek(c, t)
             \/ CloseBegin(c)
      PROVE  BytesInv'
  BY <1>5, MoveBytes, FlagBytes
<1> QED
  BY <1>1, <1>2, <1>3, <1>4, <1>5, CancelBytes DEF Next, Polled

\* What the worker and the reader know about the ring between two locked sections holds
\* in every reachable state: the bytes kept are the next of the body, the count the
\* reader still has to copy is in the ring, and what it copied follows what it had.
THEOREM HttpBytes == Spec => [](OwnerInv /\ BytesInv /\ GetFits)
<1>1. Init => OwnerInv /\ BytesInv /\ GetFits
  BY OwnerInit, BytesInit, GetInit
<1>2. (OwnerInv /\ BytesInv /\ GetFits) /\ [Next]_vars => (OwnerInv /\ BytesInv /\ GetFits)'
  BY OwnerNext, BytesNext, GetNext
<1> QED
  BY <1>1, <1>2, PTL DEF Spec

\* http_downloader_read hands out the bytes of the body in order, without a gap, although
\* httpc_get repeats requests and resumes or restarts the body (a streamed body that was
\* started again is excepted), and tells the end of the file only when the worker has
\* finished and, retained or streamed, every announced byte came: for every ring, every
\* number of attempts and every schedule.
THEOREM HttpBodyInOrder == Spec => []BodyInOrder
<1>1. ASSUME OwnerInv, BytesInv, GetFits PROVE BodyInOrder
  <2>1. HttpTypeOK
    <3>1. \A d \in Download :
            /\ dl[d].result \in Result /\ dl[d].used \in 0 .. RingSize
            /\ dl[d].head \in 0 .. RingSize - 1 /\ dl[d].tail \in 0 .. RingSize
            /\ dl[d].received \in 0 .. MaxBytes
      <4> SUFFICES ASSUME NEW d \in Download
                   PROVE  /\ dl[d].result \in Result /\ dl[d].used \in 0 .. RingSize
                          /\ dl[d].head \in 0 .. RingSize - 1 /\ dl[d].tail \in 0 .. RingSize
                          /\ dl[d].received \in 0 .. MaxBytes
        OBVIOUS
      <4>1. Ordered(dl[d]) /\ dl[d] \in Struct
        BY <1>1 DEF BytesInv, OwnerInv, Typed
      <4>2. dl[d].head \in 0 .. RingSize - 1
        BY <4>1, PlaceType DEF Ordered
      <4> QED
        BY <4>1, <4>2 DEF Ordered, Struct
    <3>2. /\ opened \in 0 .. MaxDownloads /\ active \in 0 .. opened /\ wh \in 0 .. opened
          /\ wpc \in WorkerPc /\ rc \in {"OK", "ERROR"}
          /\ cpc \in [Client -> ClientPc] /\ ch \in [Client -> 0 .. opened]
      BY <1>1 DEF OwnerInv, Typed
    <3>3. pending \in {0, active}
      BY <1>1 DEF OwnerInv, WorkerOwns
    <3>4. left \in 0 .. MaxChunk
      BY <1>1 DEF BytesInv, LeftFits
    <3>5. get.position \in 0 .. MaxBytes /\ get.tries \in 0 .. MaxTries
      <4>1. get \in Getting
        BY <1>1 DEF OwnerInv, Typed
      <4>2. CASE Busy
        <5>1. get.position \in 0 .. dl[wh].received /\ wh \in Download
          BY <1>1, <4>2, BusyBody
        <5> QED
          BY <3>1, <4>1, <5>1, HttpAssumption DEF Getting
      <4>3. CASE ~Busy
        BY <1>1, <4>1, <4>3, HttpAssumption DEF GetFits, NoGet, Getting
      <4> QED
        BY <4>2, <4>3
    <3> QED
      BY <3>1, <3>2, <3>3, <3>4, <3>5 DEF HttpTypeOK
  <2>2. \A c \in Client :
          \A i \in DOMAIN last[c].bytes :
            dl[ch[c]].replayed \/ last[c].bytes[i] = last[c].from + i
    BY <1>1 DEF BytesInv, ReadOK, NothingRead
  <2>3. \A c \in Client : last[c].out = "eof" => AtEnd(dl[ch[c]])
    BY <1>1 DEF BytesInv, ReadOK
  <2> QED
    BY <2>1, <2>2, <2>3 DEF BodyInOrder, AtEnd
<1> QED
  BY <1>1, HttpBytes, PTL

(***************************************************************************)
(* No lost wakeup.  Who sleeps on the condition of a download still has a  *)
(* reason to, or the worker is past the transfer and about to broadcast.   *)
(***************************************************************************)
Over == {"ended", "inactive"}
Asleep == {"open_sleep", "read_sleep", "close_sleep"}

ClientSleeps(c) ==
  /\ cpc[c] = "open_sleep" => ~dl[ch[c]].ready
  /\ cpc[c] = "read_sleep" => MustWait(dl[ch[c]]) \/ (wh = ch[c] /\ wpc \in Over)
  /\ cpc[c] = "close_sleep" => ~dl[ch[c]].finished

WorkerSleeps ==
  wpc = "full_sleep" => dl[wh].used = RingSize /\ (dl[wh].cancelled => dl[wh].orphaned)

LEMMA SleepParts ==
  SleepersJustified <=> WorkerSleeps /\ \A c \in Client : ClientSleeps(c)
  BY DEF SleepersJustified, WorkerSleeps, ClientSleeps, Over

SleepInv == OwnerInv /\ BytesInv /\ GetFits /\ WorkerSleeps /\ \A c \in Client : ClientSleeps(c)

\* A client that is not asleep afterwards, one whose download did not change, and one
\* whose download changed in a way it does not wait for.
LEMMA AwakeKept ==
  ASSUME NEW e, cpc'[e] \notin Asleep
  PROVE  ClientSleeps(e)'
  BY DEF ClientSleeps, Asleep

LEMMA AsleepKept ==
  ASSUME NEW e, ClientSleeps(e), cpc'[e] = cpc[e], ch'[e] = ch[e], dl'[ch[e]] = dl[ch[e]],
         wh = ch[e] /\ wpc \in Over => wh' = wh /\ wpc' \in Over
  PROVE  ClientSleeps(e)'
  BY DEF ClientSleeps

LEMMA AsleepSame ==
  ASSUME NEW e, ClientSleeps(e), cpc'[e] = cpc[e], ch'[e] = ch[e],
         dl'[ch[e]].ready = dl[ch[e]].ready, dl'[ch[e]].finished = dl[ch[e]].finished,
         \/ wh' = ch[e] /\ wpc' \in Over
         \/ wpc \notin Over /\ (MustWait(dl[ch[e]]) => MustWait(dl'[ch[e]]))
  PROVE  ClientSleeps(e)'
  BY DEF ClientSleeps

\* The broadcast for download d.
LEMMA BroadcastWakes ==
  ASSUME NEW pc \in [Client -> ClientPc], NEW d, NEW e \in Client
  PROVE  /\ ch[e] = d => WakeClients(pc, d)[e] \notin Asleep
         /\ ch[e] # d => WakeClients(pc, d)[e] = pc[e]
  BY DEF WakeClients, Awake, Asleep, ClientPc

\* The worker is done, or takes its next download.
LEMMA MovesSleep ==
  ASSUME SleepInv,
         \/ WorkerTake
         \/ WorkerTimer
         \/ WorkerInactive
         \/ Polled
  PROVE  WorkerSleeps' /\ \A e \in Client : ClientSleeps(e)'
<1>1. /\ UNCHANGED <<dl, cpc, ch>> /\ wpc' # "full_sleep"
      /\ wpc \in Over => wh' = wh /\ wpc' \in Over
  BY DEF WorkerTake, WorkerTimer, WorkerInactive, Polled, RequestFails, RequestRefused,
     Backoff, TransferEnds, TransferBreaks, clientVars, Over
<1>2. \A e \in Client : ClientSleeps(e)'
  BY <1>1, AsleepKept DEF SleepInv
<1> QED
  BY <1>1, <1>2 DEF WorkerSleeps

\* A step of the worker on its download: the clients that hold another are not concerned.
LEMMA OthersAsleep ==
  ASSUME SleepInv, NEW h, dl' = [dl EXCEPT ![wh] = h], UNCHANGED ch,
         NEW e \in Client, ch[e] # wh, cpc'[e] = cpc[e]
  PROVE  ClientSleeps(e)'
<1>1. ClientSleeps(e) /\ dl'[ch[e]] = dl[ch[e]]
  BY DEF SleepInv
<1> QED
  BY <1>1, AsleepKept

\* The worker ends the transfer, for which its own readers wait.
LEMMA EndsSleep ==
  ASSUME SleepInv, wh \in Download, NEW h, dl' = [dl EXCEPT ![wh] = h], UNCHANGED <<ch, cpc, wh>>,
         h.ready = dl[wh].ready, h.finished = dl[wh].finished, wpc' \in Over
  PROVE  WorkerSleeps' /\ \A e \in Client : ClientSleeps(e)'
<1>1. ASSUME NEW e \in Client, ch[e] = wh PROVE ClientSleeps(e)'
  <2>1. dl'[wh] = h
    BY DEF SleepInv, OwnerInv, Typed
  <2> QED
    BY <1>1, <2>1, AsleepSame DEF SleepInv
<1> QED
  BY <1>1, OthersAsleep DEF WorkerSleeps, Over

LEMMA StartSleep ==
  ASSUME SleepInv, WorkerStart \/ WorkerTimedOut \/ RequestAnswered
  PROVE  WorkerSleeps' /\ \A e \in Client : ClientSleeps(e)'
<1>1. wh \in Download /\ dl[wh] \in Struct /\ dl \in [Download -> Struct]
  BY BusyDownload DEF SleepInv, OwnerInv, Typed, WorkerStart, WorkerTimedOut,
     RequestAnswered, Busy
<1>2. CASE WorkerStart
  <2>1. PICK n \in Sizes[wh] : dl' = [dl EXCEPT ![wh].size = n]
    BY <1>2 DEF WorkerStart
  <2>2. PICK h : h = [dl[wh] EXCEPT !.size = n]
    OBVIOUS
  <2>3. /\ dl' = [dl EXCEPT ![wh] = h] /\ dl'[wh] = h /\ UNCHANGED <<ch, cpc, wh>>
        /\ wpc = "taken" /\ wpc' # "full_sleep"
    BY <1>1, <1>2, <2>1, <2>2 DEF WorkerStart, clientVars
  <2>4. h.ready = dl[wh].ready /\ h.finished = dl[wh].finished
        /\ (MustWait(dl[wh]) => MustWait(h))
    BY <1>1, <2>2 DEF Struct, MustWait, Available
  <2>5. ASSUME NEW e \in Client, ch[e] = wh PROVE ClientSleeps(e)'
    BY <2>3, <2>4, <2>5, AsleepSame DEF SleepInv, Over
  <2> QED
    BY <2>3, <2>5, OthersAsleep DEF WorkerSleeps
<1>3. CASE WorkerTimedOut
  <2>1. PICK h : h = [dl[wh] EXCEPT !.result = "TIMEOUT", !.cancelled = TRUE]
    OBVIOUS
  <2>2. dl' = [dl EXCEPT ![wh] = h] /\ UNCHANGED <<ch, cpc, wh>> /\ wpc' \in Over
    BY <1>1, <1>3, <2>1 DEF WorkerTimedOut, clientVars, Over
  <2>3. h.ready = dl[wh].ready /\ h.finished = dl[wh].finished
    BY <1>1, <2>1 DEF Struct
  <2> QED
    BY <1>1, <2>2, <2>3, EndsSleep
<1>4. CASE RequestAnswered
  <2>1. PICK b \in BOOLEAN : LET h == [dl[wh] EXCEPT !.replayed = b]
                            IN  dl' = [dl EXCEPT ![wh] = h]
    BY <1>4, AnsweredKeeps DEF SleepInv
  <2>2. PICK h : h = [dl[wh] EXCEPT !.replayed = b]
    OBVIOUS
  <2>3. /\ dl' = [dl EXCEPT ![wh] = h] /\ dl'[wh] = h /\ UNCHANGED <<ch, cpc, wh>>
        /\ wpc = "request" /\ wpc' # "full_sleep"
    BY <1>1, <1>4, <2>1, <2>2 DEF RequestAnswered, clientVars
  <2>4. h.ready = dl[wh].ready /\ h.finished = dl[wh].finished
        /\ (MustWait(dl[wh]) => MustWait(h))
    BY <1>1, <2>2 DEF Struct, MustWait, Available
  <2>5. ASSUME NEW e \in Client, ch[e] = wh PROVE ClientSleeps(e)'
    BY <2>3, <2>4, <2>5, AsleepSame DEF SleepInv, Over
  <2> QED
    BY <2>3, <2>5, OthersAsleep DEF WorkerSleeps
<1> QED
  BY <1>2, <1>3, <1>4

LEMMA FinishSleep ==
  ASSUME SleepInv, WorkerFinish \/ WorkerDestroy
  PROVE  WorkerSleeps' /\ \A e \in Client : ClientSleeps(e)'
<1>1. cpc \in [Client -> ClientPc] /\ wpc' # "full_sleep" /\ UNCHANGED ch
  BY DEF SleepInv, OwnerInv, Typed, WorkerFinish, WorkerDestroy, clientVars
<1>2. CASE WorkerFinish
  <2>1. dl' = [dl EXCEPT ![wh] = Finish(dl[wh])] /\ cpc' = WakeClients(cpc, wh)
    BY <1>2 DEF WorkerFinish
  <2> QED
    BY <1>1, <2>1, BroadcastWakes, AwakeKept, OthersAsleep DEF WorkerSleeps
<1>3. CASE WorkerDestroy
  <2>1. \A e \in Client : ch[e] # wh
    BY <1>3, HttpAssumption
       DEF SleepInv, OwnerInv, Typed, WorkerOwns, FlagsTell, WorkerDestroy, Download
  <2>2. dl' = [dl EXCEPT ![wh] = Fresh] /\ UNCHANGED cpc
    BY <1>3 DEF WorkerDestroy, destroy_download, clientVars
  <2> QED
    BY <1>1, <2>1, <2>2, OthersAsleep DEF WorkerSleeps
<1> QED
  BY <1>2, <1>3

\* receive_chunk.  Without a broadcast the readers have nothing to fetch.
LEMMA ReceiveSleep ==
  ASSUME SleepInv, Busy, wpc \notin Over, NEW h \in Struct, Ordered(h), h.seen, ~h.finished,
         h.ready = dl[wh].ready, h.finished = dl[wh].finished,
         MustWait(dl[wh]) => MustWait(h), h.replayed \/ get.position = h.received,
         NEW n \in 0 .. MaxChunk, h.received + n <= MaxBytes,
         Receive(h, n), UNCHANGED <<wh, ch>>
  PROVE  WorkerSleeps' /\ \A e \in Client : ClientSleeps(e)'
<1>1. wh \in Download /\ dl \in [Download -> Struct] /\ cpc \in [Client -> ClientPc]
  BY BusyDownload DEF SleepInv, OwnerInv, Typed
<1>2. n \in Nat /\ h.received \in Nat
  BY HttpAssumption DEF Ordered
<1>3. PICK g : g = Copy(h, get.position, n)
  OBVIOUS
<1>4. /\ g.received - h.received \in 0 .. n /\ g.received \in Nat
      /\ g.received - h.received < n => g.used = RingSize
  BY <1>2, <1>3, CopyOrdered DEF Ordered
<1>5. CASE h.cancelled
  <2>1. dl' = [dl EXCEPT ![wh] = h] /\ wpc' \in Over /\ cpc' = cpc
    BY <1>5 DEF Receive, Over
  <2> QED
    BY <1>1, <2>1, EndsSleep
<1>6. CASE ~h.cancelled
  <2>1. /\ dl' = [dl EXCEPT ![wh] = g]
        /\ wpc' = IF n - (g.received - h.received) > 0 THEN "full_sleep" ELSE "transfer"
        /\ cpc' = IF g.received = h.received THEN cpc ELSE WakeClients(cpc, wh)
    BY <1>3, <1>6 DEF Receive
  <2>2. dl'[wh] = g
    BY <1>1, <2>1
  <2>3. ~g.cancelled
    BY <1>3, <1>6 DEF Copy, Struct
  <2>4. WorkerSleeps'
    BY <1>2, <1>4, <2>1, <2>2, <2>3 DEF WorkerSleeps
  <2>5. CASE g.received = h.received
    <3>1. /\ g.ready = h.ready /\ g.finished = h.finished /\ (MustWait(h) => MustWait(g))
      <4>1. PICK t : t = LesserOf(n, RingSize - h.used)
        OBVIOUS
      <4>2. h.used \in Int /\ t \in Int /\ h.received \in Int
        BY <1>2, <4>1, HttpAssumption DEF Struct, LesserOf
      <4>3. g.received = h.received + t /\ g.used = h.used + t /\ g.tail = h.tail
            /\ g.retain = h.retain /\ g.result = h.result /\ g.finished = h.finished
            /\ g.ready = (h.ready \/ (~h.retain /\ t > 0))
        BY <1>3, <4>1 DEF Copy, Struct
      <4>4. t = 0
        BY <2>5, <4>2, <4>3
      <4>5. g.used = h.used /\ g.ready = h.ready
        BY <4>2, <4>3, <4>4 DEF Struct
      <4> QED
        BY <4>3, <4>5 DEF MustWait, Available
    <3>2. ASSUME NEW e \in Client, ch[e] = wh PROVE ClientSleeps(e)'
      BY <2>1, <2>2, <2>5, <3>1, <3>2, AsleepSame DEF SleepInv
    <3> QED
      BY <2>1, <2>4, <2>5, <3>2, OthersAsleep
  <2>6. CASE g.received # h.received
    <3>1. cpc' = WakeClients(cpc, wh)
      BY <2>1, <2>6
    <3>2. ASSUME NEW e \in Client PROVE ClientSleeps(e)'
      <4>1. CASE ch[e] = wh
        BY <1>1, <3>1, <4>1, BroadcastWakes, AwakeKept
      <4>2. CASE ch[e] # wh
        <5>1. cpc'[e] = cpc[e]
          BY <1>1, <3>1, <4>2, BroadcastWakes
        <5> QED
          BY <2>1, <4>2, <5>1, OthersAsleep
      <4> QED
        BY <4>1, <4>2
    <3> QED
      BY <2>4, <3>2
  <2> QED
    BY <2>5, <2>6
<1> QED
  BY <1>5, <1>6

LEMMA ChunkSleep ==
  ASSUME SleepInv, WorkerResume \/ \E n \in 1 .. MaxChunk : WorkerChunk(n)
  PROVE  WorkerSleeps' /\ \A e \in Client : ClientSleeps(e)'
<1>1. Busy /\ wpc \notin Over /\ UNCHANGED <<wh, ch>>
  BY DEF WorkerResume, WorkerChunk, Busy, Over
<1>2. wh \in Download /\ dl[wh] \in Struct /\ ~dl[wh].finished /\ Ordered(dl[wh])
  BY <1>1, BusyDownload DEF SleepInv, OwnerInv, Typed, FlagsTell, Busy, BytesInv
<1>3. CASE WorkerResume
  <2>1. dl[wh].seen /\ left \in 0 .. MaxChunk /\ dl[wh].received + left <= MaxBytes
    BY <1>3 DEF WorkerResume, SleepInv, BytesInv, LeftFits, Full
  <2>2. Receive(dl[wh], left)
    BY <1>3 DEF WorkerResume
  <2>3. dl[wh].replayed \/ get.position = dl[wh].received
    BY <1>3 DEF WorkerResume, SleepInv, GetFits, Running, InPlace, Full
  <2> QED
    BY <1>1, <1>2, <2>1, <2>2, <2>3, ReceiveSleep
<1>4. ASSUME NEW n \in 1 .. MaxChunk, WorkerChunk(n)
      PROVE  WorkerSleeps' /\ \A e \in Client : ClientSleeps(e)'
  <2>1. PICK h : h = WithBody(dl[wh])
    OBVIOUS
  <2>2. h \in Struct /\ Ordered(h) /\ h.seen /\ ~h.finished /\ h.received + n <= MaxBytes
    BY <1>2, <1>4, <2>1, WithBodyOwner, WithBodyOrdered DEF SameOwner, WorkerChunk
  <2>3. h.ready = dl[wh].ready /\ h.finished = dl[wh].finished /\ h.result = dl[wh].result
        /\ h.used = dl[wh].used /\ h.tail = dl[wh].tail
        /\ (dl[wh].seen => h.retain = dl[wh].retain)
    BY <1>2, <2>1 DEF WithBody, Struct
  <2>4. MustWait(dl[wh]) => MustWait(h)
    <3>1. Available(h) = Available(dl[wh])
      <4>1. CASE dl[wh].seen
        BY <2>3, <4>1 DEF Available
      <4>2. CASE ~dl[wh].seen
        BY <1>2, <2>3, <4>2, UnseenEmpty DEF Available
      <4> QED
        BY <4>1, <4>2
    <3> QED
      BY <2>3, <3>1 DEF MustWait
  <2>5. CASE h.retain /\ Misplaced(h, n)
    <3>1. PICK g : g = [h EXCEPT !.result = "IO"]
      OBVIOUS
    <3>2. dl' = [dl EXCEPT ![wh] = g] /\ wpc' \in Over /\ UNCHANGED cpc
      BY <1>4, <2>1, <2>5, <3>1 DEF WorkerChunk, Over
    <3>3. g.ready = dl[wh].ready /\ g.finished = dl[wh].finished
      BY <2>2, <2>3, <3>1 DEF Struct
    <3> QED
      BY <1>1, <1>2, <3>2, <3>3, EndsSleep
  <2>6. CASE ~(h.retain /\ Misplaced(h, n))
    <3>1. Receive(h, n)
      BY <1>4, <2>1, <2>6 DEF WorkerChunk
    <3>2. n \in 0 .. MaxChunk
      OBVIOUS
    <3>3. h.replayed \/ get.position = h.received
      BY <1>4, <2>1, <2>6, ChunkInPlace DEF WorkerChunk, SleepInv
    <3> QED
      BY <1>1, <2>2, <2>3, <2>4, <3>1, <3>2, <3>3, ReceiveSleep
  <2> QED
    BY <2>5, <2>6
<1> QED
  BY <1>3, <1>4

\* A client's step on the download it holds, or on none: the other clients stay as they
\* are, and the worker is woken by every change it waits for.
LEMMA OwnSleep ==
  ASSUME SleepInv, NEW c \in Client, UNCHANGED wh, ClientSleeps(c)',
         \A e \in Client \ {c} : cpc'[e] = cpc[e] /\ ch'[e] = ch[e],
         \/ UNCHANGED dl
         \/ cpc[c] # "idle" /\ \E h : dl' = [dl EXCEPT ![ch[c]] = h],
         wpc' = wpc \/ wpc' = WakeWorker(ch[c]),
         wpc' = "full_sleep" /\ wh = ch[c] =>
           /\ dl'[wh].used = dl[wh].used
           /\ dl'[wh].cancelled => dl[wh].cancelled \/ dl'[wh].orphaned
           /\ dl[wh].orphaned => dl'[wh].orphaned
  PROVE  WorkerSleeps' /\ \A e \in Client : ClientSleeps(e)'
<1>0. \A d \in Download \ {ch[c]} : dl'[d] = dl[d]
  BY DEF SleepInv, OwnerInv, Typed
<1>1. wpc \in WorkerPc /\ (wpc' = wpc \/ (wpc = "full_sleep" /\ wpc' = "full_test"))
  BY WakeWorkerOwner DEF SleepInv, OwnerInv, Typed
<1>2. WorkerSleeps'
  <2> SUFFICES ASSUME wpc' = "full_sleep"
               PROVE  /\ dl'[wh].used = RingSize
                      /\ dl'[wh].cancelled => dl'[wh].orphaned
    BY DEF WorkerSleeps
  <2>1. wpc = "full_sleep" /\ dl[wh].used = RingSize /\ (dl[wh].cancelled => dl[wh].orphaned)
    BY <1>1 DEF SleepInv, WorkerSleeps
  <2>2. CASE wh = ch[c]
    BY <2>1, <2>2
  <2>3. CASE wh # ch[c]
    <3>1. wh \in Download
      BY <2>1, BusyDownload DEF SleepInv, Busy
    <3>2. dl'[wh] = dl[wh]
      BY <1>0, <2>3, <3>1
    <3> QED
      BY <2>1, <3>2
  <2> QED
    BY <2>2, <2>3
<1>3. ASSUME NEW e \in Client \ {c} PROVE ClientSleeps(e)'
  <2>1. CASE cpc[e] = "idle"
    BY <2>1, AwakeKept DEF Asleep
  <2>2. CASE cpc[e] # "idle"
    <3>1. dl'[ch[e]] = dl[ch[e]]
      <4>1. ch[e] # 0 /\ (ch[e] = ch[c] => c = e)
        BY <2>2 DEF SleepInv, OwnerInv, ClientOwns
      <4>2. ch[e] \in Download
        BY <2>2, HeldDownload DEF SleepInv
      <4> QED
        BY <1>0, <4>1, <4>2
    <3>2. wpc \in Over => wpc' \in Over
      BY <1>1 DEF Over
    <3> QED
      BY <3>1, <3>2, AsleepKept DEF SleepInv
  <2> QED
    BY <2>1, <2>2
<1> QED
  BY <1>2, <1>3

\* A client goes to sleep only for what has not happened yet.
LEMMA MoveSleep ==
  ASSUME SleepInv, NEW c \in Client,
         \/ OpenTest(c)
         \/ ClientTimer(c)
         \/ CloseTest(c)
         \/ CloseBegin(c)
         \/ \E n \in 1 .. MaxChunk : ReadBegin(c, n)
         \/ http_downloader_open(c)
         \/ ReadTest(c) /\ MustWait(dl[ch[c]])
  PROVE  WorkerSleeps' /\ \A e \in Client : ClientSleeps(e)'
<1>1. UNCHANGED <<dl, wh, wpc>>
  BY DEF OpenTest, ClientTimer, CloseTest, CloseBegin, ReadBegin, http_downloader_open, ReadTest,
         workerVars
<1>2. cpc \in [Client -> ClientPc] /\ ch \in [Client -> 0 .. opened]
  BY DEF SleepInv, OwnerInv, Typed
<1>3. \E pc : SetPc(c, pc)
  BY DEF OpenTest, ClientTimer, CloseTest, CloseBegin, ReadBegin, http_downloader_open, ReadTest
<1>4. \A e \in Client \ {c} : cpc'[e] = cpc[e] /\ ch'[e] = ch[e]
  BY <1>2, <1>3 DEF SetPc, OpenTest, ClientTimer, CloseTest, CloseBegin, ReadBegin,
                    http_downloader_open, ReadTest
<1>5. ClientSleeps(c)'
  <2>1. CASE OpenTest(c)
    BY <1>1, <1>2, <2>1 DEF OpenTest, SetPc, ClientSleeps
  <2>2. CASE CloseTest(c)
    BY <1>1, <1>2, <2>2 DEF CloseTest, SetPc, ClientSleeps
  <2>3. CASE ReadTest(c) /\ MustWait(dl[ch[c]])
    BY <1>1, <1>2, <2>3 DEF ReadTest, SetPc, ClientSleeps
  <2>4. CASE ClientTimer(c)
    BY <1>2, <2>4, AwakeKept DEF ClientTimer, SetPc, Asleep
  <2>5. CASE \/ CloseBegin(c)
             \/ \E n \in 1 .. MaxChunk : ReadBegin(c, n)
             \/ http_downloader_open(c)
    BY <1>2, <2>5, AwakeKept DEF CloseBegin, ReadBegin, http_downloader_open, SetPc, Asleep
  <2> QED
    BY <2>1, <2>2, <2>3, <2>4, <2>5
<1> QED
  BY <1>1, <1>4, <1>5, OwnSleep

LEMMA FlagSleep ==
  ASSUME SleepInv, NEW c \in Client,
         \/ OpenTimedOut(c)
         \/ http_downloader_close(c)
         \/ CloseDestroy(c)
         \/ \E t \in 0 .. RingSize : http_downloader_seek(c, t)
  PROVE  WorkerSleeps' /\ \A e \in Client : ClientSleeps(e)'
<1>1. cpc[c] # "idle" /\ UNCHANGED wh
  BY DEF OpenTimedOut, http_downloader_close, CloseDestroy, http_downloader_seek, workerVars
<1>2. ch[c] \in Download /\ dl[ch[c]] \in Struct /\ dl \in [Download -> Struct]
      /\ cpc \in [Client -> ClientPc] /\ ch \in [Client -> 0 .. opened] /\ wpc \in WorkerPc
  BY <1>1, HeldDownload DEF SleepInv, OwnerInv, Typed
<1>3. CASE OpenTimedOut(c)
  <2>1. PICK h : h = [dl[ch[c]] EXCEPT !.result = "TIMEOUT", !.cancelled = TRUE, !.orphaned = TRUE]
    OBVIOUS
  <2>2. dl' = [dl EXCEPT ![ch[c]] = h] /\ dl'[ch[c]] = h /\ wpc' = wpc
        /\ cpc'[c] \notin Asleep /\ \A e \in Client \ {c} : cpc'[e] = cpc[e] /\ ch'[e] = ch[e]
    BY <1>2, <1>3, <2>1 DEF OpenTimedOut, SetPc, Asleep, workerVars
  <2>3. h.used = dl[ch[c]].used /\ h.orphaned
    BY <1>2, <2>1 DEF Struct
  <2>4. wh = ch[c] => dl'[wh].used = dl[wh].used /\ dl'[wh].orphaned
    BY <2>2, <2>3
  <2>5. ClientSleeps(c)'
    BY <2>2, AwakeKept
  <2> QED
    BY <1>1, <2>2, <2>4, <2>5, OwnSleep
<1>4. CASE http_downloader_close(c)
  <2>1. PICK h : h = [dl[ch[c]] EXCEPT !.cancelled = TRUE]
    OBVIOUS
  <2>2. dl' = [dl EXCEPT ![ch[c]] = h] /\ wpc' = WakeWorker(ch[c])
        /\ cpc'[c] \notin Asleep /\ \A e \in Client \ {c} : cpc'[e] = cpc[e] /\ ch'[e] = ch[e]
    BY <1>2, <1>4, <2>1 DEF http_downloader_close, SetPc, Asleep
  <2>3. wh = ch[c] => wpc' # "full_sleep"
    BY <1>2, <2>2 DEF WakeWorker, Awake
  <2> QED
    BY <1>1, <2>2, <2>3, AwakeKept, OwnSleep
<1>5. CASE CloseDestroy(c)
  <2>1. dl' = [dl EXCEPT ![ch[c]] = Fresh] /\ wpc' = wpc
        /\ cpc'[c] \notin Asleep /\ \A e \in Client \ {c} : cpc'[e] = cpc[e] /\ ch'[e] = ch[e]
    BY <1>2, <1>5 DEF CloseDestroy, destroy_download, SetPc, Asleep, workerVars
  <2>2. wh # ch[c]
    BY <1>2, <1>5 DEF CloseDestroy, SleepInv, OwnerInv, ClientOwns, FlagsTell, WorkerOwns
  <2> QED
    BY <1>1, <2>1, <2>2, AwakeKept, OwnSleep
<1>6. ASSUME NEW t \in 0 .. RingSize, http_downloader_seek(c, t)
      PROVE  WorkerSleeps' /\ \A e \in Client : ClientSleeps(e)'
  <2>1. PICK h : h = [dl[ch[c]] EXCEPT !.tail = LesserOf(t, dl[ch[c]].used)]
    OBVIOUS
  <2>2. dl' = [dl EXCEPT ![ch[c]] = h] /\ dl'[ch[c]] = h /\ UNCHANGED <<wpc, cpc, ch>>
        /\ cpc[c] = "holding"
    BY <1>2, <1>6, <2>1 DEF http_downloader_seek, workerVars
  <2>3. h.used = dl[ch[c]].used /\ h.cancelled = dl[ch[c]].cancelled
        /\ h.orphaned = dl[ch[c]].orphaned
    BY <1>2, <2>1 DEF Struct
  <2>4. ClientSleeps(c)'
    BY <2>2, AwakeKept DEF Asleep
  <2> QED
    BY <1>1, <2>2, <2>3, <2>4, OwnSleep
<1> QED
  BY <1>3, <1>4, <1>5, <1>6

\* A read that takes nothing changes nothing the worker waits for.
LEMMA DeliverSleep ==
  ASSUME SleepInv, NEW c \in Client, cpc[c] \in Reading,
         NEW h \in Struct, Ordered(h), Deliver(c, h), UNCHANGED <<wh, ch>>,
         h.used = dl[ch[c]].used, h.orphaned = dl[ch[c]].orphaned
  PROVE  WorkerSleeps' /\ \A e \in Client : ClientSleeps(e)'
<1>1. cpc[c] # "idle" /\ want[c] \in Nat /\ cpc \in [Client -> ClientPc]
      /\ dl \in [Download -> Struct] /\ wpc \in WorkerPc
  BY DEF Reading, SleepInv, OwnerInv, Typed
<1>2. ch[c] \in Download
  BY <1>1, HeldDownload DEF SleepInv
<1>3. PICK take : take = LesserOf(want[c], Available(h))
  OBVIOUS
<1>4. take \in Nat
  <2>1. Available(h) \in Nat
    BY HttpAssumption DEF Ordered, Available
  <2> QED
    BY <1>1, <1>3, <2>1 DEF LesserOf
<1>5. PICK g : g = Drain(h, take)
  OBVIOUS
<1>6. /\ dl' = [dl EXCEPT ![ch[c]] = g]
      /\ wpc' = IF take > 0 \/ h.cancelled THEN WakeWorker(ch[c]) ELSE wpc
      /\ SetPc(c, "holding")
  BY <1>3, <1>5 DEF Deliver
<1>7. dl'[ch[c]] = g /\ cpc'[c] \notin Asleep
      /\ \A e \in Client \ {c} : cpc'[e] = cpc[e] /\ ch'[e] = ch[e]
  BY <1>1, <1>2, <1>6 DEF SetPc, Asleep
<1>8. ASSUME wpc' = "full_sleep", wh = ch[c]
      PROVE  g.used = h.used /\ ~g.cancelled /\ g.orphaned = h.orphaned
  <2>1. take = 0 /\ ~h.cancelled
    BY <1>1, <1>4, <1>6, <1>8 DEF WakeWorker, Awake
  <2>2. h.used \in Int
    BY DEF Struct
  <2> QED
    BY <1>5, <2>1, <2>2 DEF Drain, Struct
<1>9. wpc' = "full_sleep" /\ wh = ch[c] =>
        /\ dl'[wh].used = dl[wh].used /\ ~dl'[wh].cancelled
        /\ dl'[wh].orphaned = dl[wh].orphaned
  BY <1>7, <1>8
<1>10. ClientSleeps(c)'
  BY <1>7, AwakeKept
<1> QED
  BY <1>1, <1>6, <1>7, <1>9, <1>10, OwnSleep

LEMMA ReadSleep ==
  ASSUME SleepInv, NEW c \in Client, ReadTest(c) \/ ReadTimedOut(c)
  PROVE  WorkerSleeps' /\ \A e \in Client : ClientSleeps(e)'
<1>1. cpc[c] \in Reading /\ cpc[c] # "idle" /\ UNCHANGED <<wh, ch>>
  BY DEF ReadTest, ReadTimedOut, Reading
<1>2. ch[c] \in Download /\ dl[ch[c]] \in Struct /\ Ordered(dl[ch[c]])
  BY <1>1, HeldDownload DEF SleepInv, BytesInv
<1>3. CASE ReadTimedOut(c)
  <2>1. PICK h : h = [dl[ch[c]] EXCEPT !.result = "TIMEOUT", !.cancelled = TRUE]
    OBVIOUS
  <2>2. /\ h \in Struct
        /\ h.received = dl[ch[c]].received /\ h.used = dl[ch[c]].used /\ h.tail = dl[ch[c]].tail
        /\ h.head = dl[ch[c]].head /\ h.ring = dl[ch[c]].ring /\ h.retain = dl[ch[c]].retain
        /\ h.seen = dl[ch[c]].seen /\ h.result # "OK" /\ h.orphaned = dl[ch[c]].orphaned
        /\ h.replayed = dl[ch[c]].replayed
    BY <1>2, <2>1 DEF Struct, Result
  <2>3. Ordered(h)
    <3>1. Start(h) = Start(dl[ch[c]])
      BY <2>2 DEF Start
    <3> QED
      BY <1>2, <2>2, <3>1 DEF Ordered
  <2>4. Deliver(c, h)
    BY <1>3, <2>1 DEF ReadTimedOut
  <2> QED
    BY <1>1, <2>2, <2>3, <2>4, DeliverSleep
<1>4. CASE ReadTest(c) /\ MustWait(dl[ch[c]])
  BY <1>4, MoveSleep
<1>5. CASE ReadTest(c) /\ ~MustWait(dl[ch[c]])
  BY <1>1, <1>2, <1>5, DeliverSleep DEF ReadTest
<1> QED
  BY <1>3, <1>4, <1>5

LEMMA CancelSleep ==
  ASSUME SleepInv, http_downloader_cancel_all
  PROVE  WorkerSleeps' /\ \A e \in Client : ClientSleeps(e)'
<1>1. /\ dl \in [Download -> Struct] /\ cpc \in [Client -> ClientPc] /\ wpc \in WorkerPc
      /\ cpc' = WakeClients(cpc, active) /\ wpc' = WakeWorker(active) /\ UNCHANGED <<wh, ch>>
      /\ \A d \in Download \ {active} : dl'[d] = dl[d]
  BY DEF http_downloader_cancel_all, SleepInv, OwnerInv, Typed
<1>2. wpc' = wpc \/ (wpc = "full_sleep" /\ wpc' = "full_test")
  BY <1>1, WakeWorkerOwner
<1>3. ASSUME NEW e \in Client PROVE ClientSleeps(e)'
  <2>1. CASE ch[e] = active \/ cpc[e] = "idle"
    <3>1. cpc'[e] \notin Asleep
      BY <1>1, <2>1, BroadcastWakes DEF Asleep
    <3> QED
      BY <3>1, AwakeKept
  <2>2. CASE ch[e] # active /\ cpc[e] # "idle"
    <3>1. ch[e] \in Download
      BY <2>2, HeldDownload DEF SleepInv
    <3>2. dl'[ch[e]] = dl[ch[e]] /\ cpc'[e] = cpc[e]
      BY <1>1, <2>2, <3>1, BroadcastWakes
    <3>3. wpc \in Over => wpc' \in Over
      BY <1>2 DEF Over
    <3> QED
      BY <1>1, <3>2, <3>3, AsleepKept DEF SleepInv
  <2> QED
    BY <2>1, <2>2
<1>4. WorkerSleeps'
  <2> SUFFICES ASSUME wpc' = "full_sleep"
               PROVE  /\ dl'[wh].used = RingSize
                      /\ dl'[wh].cancelled => dl'[wh].orphaned
    BY <1>1 DEF WorkerSleeps
  <2>1. wpc = "full_sleep" /\ wh # active
    BY <1>1, <1>2 DEF WakeWorker, Awake
  <2>2. dl'[wh] = dl[wh]
    BY <1>1, <2>1, BusyDownload DEF SleepInv, Busy
  <2> QED
    BY <2>1, <2>2 DEF SleepInv, WorkerSleeps
<1> QED
  BY <1>3, <1>4

LEMMA SleepNext == SleepInv /\ [Next]_vars => SleepInv'
<1> SUFFICES ASSUME SleepInv, [Next]_vars
             PROVE  WorkerSleeps' /\ \A e \in Client : ClientSleeps(e)'
  BY OwnerNext, BytesNext, GetNext DEF SleepInv
<1>1. CASE UNCHANGED vars
  <2>1. \A e \in Client : ClientSleeps(e)'
    BY <1>1, AsleepKept DEF vars, workerVars, clientVars, SleepInv
  <2> QED
    BY <1>1, <2>1 DEF vars, workerVars, SleepInv, WorkerSleeps
<1>2. CASE WorkerStep \/ WorkerTimer \/ \E n \in 1 .. MaxChunk : WorkerChunk(n)
  BY <1>2, MovesSleep, StartSleep, FinishSleep, ChunkSleep DEF WorkerStep, Polled
<1>3. CASE RequestAnswered \/ Polled
  BY <1>3, MovesSleep, StartSleep
<1>4. ASSUME NEW c \in Client, http_downloader_open(c) \/ ClientTimer(c) \/ ClientStep(c)
      PROVE  WorkerSleeps' /\ \A e \in Client : ClientSleeps(e)'
  BY <1>4, MoveSleep, ReadSleep, FlagSleep DEF ClientStep
<1>5. ASSUME NEW c \in Client,
             \/ \E n \in 1 .. MaxChunk : ReadBegin(c, n)
             \/ \E t \in 0 .. RingSize : http_downloader_seek(c, t)
             \/ CloseBegin(c)
      PROVE  WorkerSleeps' /\ \A e \in Client : ClientSleeps(e)'
  BY <1>5, MoveSleep, FlagSleep
<1> QED
  BY <1>1, <1>2, <1>3, <1>4, <1>5, CancelSleep DEF Next, Polled

\* No wakeup is lost: an opener, a reader, a closer or a full worker that is asleep
\* waits for something that has not happened, or for the broadcast at the end of a
\* transfer that is over.
THEOREM HttpSleepersJustified == Spec => []SleepersJustified
<1>1. Init => SleepInv
  BY OwnerInit, BytesInit, GetInit DEF Init, SleepInv, WorkerSleeps, ClientSleeps
<1>2. SleepInv => SleepersJustified
  BY SleepParts DEF SleepInv
<1> QED
  BY <1>1, <1>2, SleepNext, PTL DEF Spec

(***************************************************************************)
(* No leak, when no timer fires just before the answer it waits for: an    *)
(* opener that gives up leaves a download the worker has not finished, and *)
(* the worker sees that it is an orphan.                                   *)
(***************************************************************************)
WithClient(d) == \E c \in Client : ch[c] = d
WithWorker(d) == d \in {wh, pending}

\* Until a download is destroyed a client has it, or the worker.
Kept ==
  \A d \in 1 .. opened : destroyed[d] = 0 =>
    /\ ~dl[d].orphaned => WithClient(d)
    /\ dl[d].orphaned \/ ~dl[d].finished => WithWorker(d)

LateBefore ==
  /\ \A c \in Client : cpc[c] = "open_late" => ~dl[ch[c]].finished
  /\ \A d \in Download : dl[d].finished => dl[d].ready

LeakInv == SleepInv /\ Kept /\ LateBefore

Steady(h, g) ==
  h.orphaned = g.orphaned /\ h.finished = g.finished /\ (g.ready => h.ready)

\* The steps that neither hand a download over nor finish it.
LEMMA SteadyKeeps ==
  ASSUME LeakInv, \A d \in Download : Steady(dl'[d], dl[d]),
         UNCHANGED <<destroyed, opened, pending, wh, ch>>,
         \A c \in Client : cpc'[c] = "open_late" => cpc[c] = "open_late"
  PROVE  Kept' /\ LateBefore'
<1>1. \A d \in 1 .. opened : d \in Download
  BY HttpAssumption DEF LeakInv, SleepInv, OwnerInv, Typed, Download
<1>2. Kept'
  BY <1>1 DEF LeakInv, Kept, WithClient, WithWorker, Steady
<1>3. ASSUME NEW c \in Client, cpc'[c] = "open_late" PROVE ~dl'[ch'[c]].finished
  <2>1. ch[c] \in Download
    BY <1>3, HeldDownload DEF LeakInv, SleepInv
  <2> QED
    BY <1>3, <2>1 DEF LeakInv, LateBefore, Steady
<1> QED
  BY <1>2, <1>3 DEF LeakInv, LateBefore, Steady

\* One download changes.
LEMMA OneSteady ==
  ASSUME LeakInv, NEW x, NEW h, dl' = [dl EXCEPT ![x] = h], x \in Download => Steady(h, dl[x]),
         UNCHANGED <<destroyed, opened, pending, wh, ch>>,
         \A c \in Client : cpc'[c] = "open_late" => cpc[c] = "open_late"
  PROVE  Kept' /\ LateBefore'
<1>1. dl \in [Download -> Struct]
  BY DEF LeakInv, SleepInv, OwnerInv, Typed
<1>2. \A d \in Download : dl'[d] = IF d = x THEN h ELSE dl[d]
  BY <1>1
<1>3. \A d \in Download : Steady(dl'[d], dl[d])
  BY <1>2 DEF Steady
<1> QED
  BY <1>3, SteadyKeeps

LEMMA NoneLate ==
  ASSUME NEW pc \in [Client -> ClientPc], NEW d, NEW c \in Client
  PROVE  WakeClients(pc, d)[c] = "open_late" => pc[c] = "open_late"
  BY DEF WakeClients, Awake, ClientPc

LEMMA CopySteady ==
  ASSUME NEW h \in Struct, NEW p, NEW n
  PROVE  Steady(Copy(h, p, n), h)
  BY DEF Copy, Struct, Steady

LEMMA ReceiveLeak ==
  ASSUME LeakInv, NEW h \in Struct, NEW n, wh \in Download => Steady(h, dl[wh]), Receive(h, n),
         UNCHANGED <<opened, destroyed, pending, wh, ch>>
  PROVE  Kept' /\ LateBefore'
<1>1. cpc \in [Client -> ClientPc]
  BY DEF LeakInv, SleepInv, OwnerInv, Typed
<1>2. \A c \in Client : cpc'[c] = "open_late" => cpc[c] = "open_late"
  BY <1>1, NoneLate DEF Receive
<1>3. CASE dl' = [dl EXCEPT ![wh] = h]
  BY <1>2, <1>3, OneSteady
<1>4. CASE dl' = [dl EXCEPT ![wh] = Copy(h, get.position, n)]
  <2> DEFINE g == Copy(h, get.position, n)
  <2>1. wh \in Download => Steady(g, dl[wh])
    BY CopySteady DEF Steady
  <2>2. dl' = [dl EXCEPT ![wh] = g]
    BY <1>4
  <2> HIDE DEF g
  <2> QED
    BY <1>2, <2>1, <2>2, OneSteady
<1> QED
  BY <1>3, <1>4 DEF Receive

LEMMA TransferLeak ==
  ASSUME LeakInv,
         \/ WorkerStart
         \/ WorkerTimer
         \/ WorkerTimedOut
         \/ WorkerInactive
         \/ WorkerResume
         \/ \E n \in 1 .. MaxChunk : WorkerChunk(n)
         \/ RequestAnswered
         \/ Polled
  PROVE  Kept' /\ LateBefore'
<1>1. dl \in [Download -> Struct] /\ \A d \in Download : dl[d] \in Struct /\ Steady(dl[d], dl[d])
  BY DEF LeakInv, SleepInv, OwnerInv, Typed, Steady
<1>2. CASE WorkerTimer \/ WorkerInactive \/ Polled
  <2>1. UNCHANGED <<dl, destroyed, opened, wh, clientVars>> /\ (WorkerInactive \/ pending' = pending)
    BY <1>2 DEF WorkerTimer, WorkerInactive, Polled, RequestFails, RequestRefused, Backoff,
       TransferEnds, TransferBreaks
  <2>2. pending' = pending
    BY <2>1 DEF WorkerInactive
  <2> QED
    BY <1>1, <2>1, <2>2, SteadyKeeps DEF clientVars
<1>3. CASE WorkerStart
  <2>1. PICK n \in Sizes[wh] : dl' = [dl EXCEPT ![wh].size = n]
    BY <1>3 DEF WorkerStart
  <2>2. PICK h : h = [dl[wh] EXCEPT !.size = n]
    OBVIOUS
  <2>3. dl' = [dl EXCEPT ![wh] = h]
    BY <2>1, <2>2
  <2>4. wh \in Download => Steady(h, dl[wh])
    BY <1>1, <2>2 DEF Struct, Steady
  <2> QED
    BY <1>3, <2>3, <2>4, OneSteady DEF WorkerStart, clientVars
<1>4. CASE WorkerTimedOut
  <2>1. PICK h : h = [dl[wh] EXCEPT !.result = "TIMEOUT", !.cancelled = TRUE]
    OBVIOUS
  <2>2. dl' = [dl EXCEPT ![wh] = h]
    BY <1>1, <1>4, <2>1 DEF WorkerTimedOut
  <2>3. wh \in Download => Steady(h, dl[wh])
    BY <1>1, <2>1 DEF Struct, Steady
  <2> QED
    BY <1>4, <2>2, <2>3, OneSteady DEF WorkerTimedOut, clientVars
<1>5. CASE WorkerResume
  <2>1. dl[wh] \in Struct
    BY <1>5, BusyDownload DEF WorkerResume, Busy, LeakInv, SleepInv
  <2> QED
    BY <1>1, <1>5, <2>1, ReceiveLeak DEF WorkerResume
<1>6. ASSUME NEW n \in 1 .. MaxChunk, WorkerChunk(n) PROVE Kept' /\ LateBefore'
  <2>1. PICK h : h = WithBody(dl[wh])
    OBVIOUS
  <2>2. h \in Struct /\ Steady(h, dl[wh])
    <3>1. dl[wh] \in Struct
      BY <1>6, BusyDownload DEF WorkerChunk, Busy, LeakInv, SleepInv
    <3> QED
      BY <2>1, <3>1 DEF WithBody, Struct, Steady
  <2>3. CASE Receive(h, n)
    BY <1>6, <2>2, <2>3, ReceiveLeak DEF WorkerChunk
  <2>4. CASE ~Receive(h, n)
    <3>1. PICK g : g = [h EXCEPT !.result = "IO"]
      OBVIOUS
    <3>2. dl' = [dl EXCEPT ![wh] = g] /\ UNCHANGED cpc
      BY <1>6, <2>1, <2>4, <3>1 DEF WorkerChunk
    <3>3. Steady(g, dl[wh])
      BY <2>2, <3>1 DEF Struct, Steady
    <3> QED
      BY <1>6, <3>2, <3>3, OneSteady DEF WorkerChunk
  <2> QED
    BY <2>3, <2>4
<1>7. CASE RequestAnswered
  <2>1. PICK b \in BOOLEAN : LET h == [dl[wh] EXCEPT !.replayed = b]
                            IN  dl' = [dl EXCEPT ![wh] = h]
    BY <1>7, AnsweredKeeps DEF LeakInv, SleepInv
  <2>2. PICK h : h = [dl[wh] EXCEPT !.replayed = b]
    OBVIOUS
  <2>3. dl' = [dl EXCEPT ![wh] = h] /\ (wh \in Download => Steady(h, dl[wh]))
    BY <1>1, <2>1, <2>2 DEF Struct, Steady
  <2> QED
    BY <1>7, <2>3, OneSteady DEF RequestAnswered, clientVars
<1> QED
  BY <1>2, <1>3, <1>4, <1>5, <1>6, <1>7

LEMMA TakeLeak ==
  ASSUME LeakInv, WorkerTake
  PROVE  Kept' /\ LateBefore'
<1>1. wh = 0 /\ pending' = 0 /\ wh' = pending /\ UNCHANGED <<dl, opened, destroyed, ch, cpc>>
  BY DEF WorkerTake, LeakInv, SleepInv, OwnerInv, WorkerOwns, clientVars
<1>2. \A d \in 1 .. opened : d # 0
  OBVIOUS
<1> QED
  BY <1>1, <1>2 DEF LeakInv, Kept, WithClient, WithWorker, LateBefore

\* The worker does not finish a download whose opener is giving it up.
LEMMA FinishLeak ==
  ASSUME LeakInv, WorkerFinish, ~Late(wh)
  PROVE  Kept' /\ LateBefore'
<1> DEFINE h == Finish(dl[wh])
<1>1. /\ wh \in 1 .. opened /\ wh \in Download /\ dl[wh] \in Struct
      /\ pending = active /\ active # wh /\ cpc \in [Client -> ClientPc]
      /\ dl \in [Download -> Struct]
  <2>1. wh # 0 /\ wh \in 0 .. opened /\ ~Busy /\ opened \in 0 .. MaxDownloads
    BY DEF WorkerFinish, LeakInv, SleepInv, OwnerInv, WorkerOwns, Typed, Busy
  <2>2. wh \in 1 .. opened /\ wh \in Download
    BY <2>1, HttpAssumption DEF Download
  <2> QED
    BY <2>1, <2>2 DEF LeakInv, SleepInv, OwnerInv, WorkerOwns, Typed
<1>2. h.finished /\ h.ready /\ h.orphaned = dl[wh].orphaned
  BY <1>1, FinishOwner DEF Finish, Struct
<1>3. dl' = [dl EXCEPT ![wh] = h] /\ cpc' = WakeClients(cpc, wh)
      /\ wh' = (IF dl[wh].orphaned THEN wh ELSE 0) /\ UNCHANGED <<destroyed, opened, pending, ch>>
  BY DEF WorkerFinish
<1> HIDE DEF h
<1>4. dl'[wh] = h /\ \A d \in Download : d # wh => dl'[d] = dl[d]
  BY <1>1, <1>3
<1>5. \A d \in 1 .. opened : d \in Download /\ d # 0
  BY HttpAssumption DEF LeakInv, SleepInv, OwnerInv, Typed, Download
<1>6. ASSUME NEW d \in 1 .. opened, destroyed[d] = 0
      PROVE  /\ ~dl'[d].orphaned => WithClient(d)'
             /\ dl'[d].orphaned \/ ~dl'[d].finished => WithWorker(d)'
  <2>1. CASE d = wh
    BY <1>2, <1>3, <1>4, <1>6, <2>1 DEF LeakInv, Kept, WithClient, WithWorker
  <2>2. CASE d # wh
    <3>1. dl'[d] = dl[d]
      BY <1>4, <1>5, <2>2
    <3> QED
      BY <1>3, <1>6, <2>2, <3>1 DEF LeakInv, Kept, WithClient, WithWorker
  <2> QED
    BY <2>1, <2>2
<1>7. LateBefore'
  <2>1. ASSUME NEW c \in Client, cpc'[c] = "open_late" PROVE ~dl'[ch'[c]].finished
    <3>1. cpc[c] = "open_late" /\ ch'[c] = ch[c]
      BY <1>1, <1>3, <2>1, NoneLate
    <3>2. ch[c] # wh /\ ch[c] \in Download
      BY <3>1, HeldDownload DEF Late, LeakInv, SleepInv
    <3> QED
      BY <1>4, <3>1, <3>2 DEF LeakInv, LateBefore
  <2>2. \A d \in Download : dl'[d].finished => dl'[d].ready
    BY <1>2, <1>4 DEF LeakInv, LateBefore
  <2> QED
    BY <2>1, <2>2 DEF LateBefore
<1> QED
  BY <1>3, <1>6, <1>7 DEF Kept

\* Whoever destroys a download had the last reference to it.
LEMMA DestroyLeak ==
  ASSUME LeakInv, NEW d \in 1 .. opened, destroy_download(d), UNCHANGED <<opened, pending>>,
         wh' \in {wh, 0}, wh' # wh => wh = d,
         \A c \in Client : ch'[c] = ch[c] \/ ch[c] = d,
         \A c \in Client : cpc'[c] = "open_late" => cpc[c] = "open_late" /\ ch'[c] = ch[c] /\ ch[c] # d
  PROVE  Kept' /\ LateBefore'
<1>1. /\ dl \in [Download -> Struct] /\ destroyed \in [Download -> Nat]
      /\ \A e \in 1 .. opened : e \in Download /\ e # 0
  BY HttpAssumption DEF LeakInv, SleepInv, OwnerInv, Typed, Download
<1>2. /\ destroyed'[d] # 0 /\ dl'[d] = Fresh
      /\ \A e \in Download : e # d => destroyed'[e] = destroyed[e] /\ dl'[e] = dl[e]
  BY <1>1 DEF destroy_download
<1>3. ASSUME NEW e \in 1 .. opened, destroyed'[e] = 0
      PROVE  /\ ~dl'[e].orphaned => WithClient(e)'
             /\ dl'[e].orphaned \/ ~dl'[e].finished => WithWorker(e)'
  <2>1. e # d /\ dl'[e] = dl[e] /\ destroyed[e] = 0
    BY <1>1, <1>2, <1>3
  <2> QED
    BY <1>3, <2>1 DEF LeakInv, Kept, WithClient, WithWorker
<1>4. LateBefore'
  <2>1. ASSUME NEW c \in Client, cpc'[c] = "open_late" PROVE ~dl'[ch'[c]].finished
    <3>1. cpc[c] = "open_late" /\ ch'[c] = ch[c] /\ ch[c] # d
      BY <2>1
    <3>2. ch[c] \in Download
      BY <3>1, HeldDownload DEF LeakInv, SleepInv
    <3> QED
      BY <1>2, <3>1, <3>2 DEF LeakInv, LateBefore
  <2>2. \A e \in Download : dl'[e].finished => dl'[e].ready
    BY <1>2, FreshStruct DEF LeakInv, LateBefore
  <2> QED
    BY <2>1, <2>2 DEF LateBefore
<1> QED
  BY <1>3, <1>4 DEF Kept

LEMMA WorkerDestroyLeak ==
  ASSUME LeakInv, WorkerDestroy
  PROVE  Kept' /\ LateBefore'
<1>1. /\ wh \in 1 .. opened /\ \A c \in Client : ch[c] # wh
      /\ destroy_download(wh) /\ wh' = 0 /\ UNCHANGED <<opened, pending, ch, cpc>>
  <2>1. wh # 0 /\ wh \in 0 .. opened /\ dl[wh].orphaned /\ opened \in 0 .. MaxDownloads
    BY DEF WorkerDestroy, LeakInv, SleepInv, OwnerInv, WorkerOwns, Typed
  <2>2. wh \in 1 .. opened /\ wh \in Download
    BY <2>1, HttpAssumption DEF Download
  <2>3. \A c \in Client : ch[c] # wh
    BY <2>1, <2>2 DEF LeakInv, SleepInv, OwnerInv, FlagsTell
  <2> QED
    BY <2>2, <2>3 DEF WorkerDestroy, clientVars
<1>2. PICK d \in 1 .. opened : d = wh
  BY <1>1
<1> QED
  BY <1>1, <1>2, DestroyLeak

LEMMA CloseDestroyLeak ==
  ASSUME LeakInv, NEW c \in Client, CloseDestroy(c)
  PROVE  Kept' /\ LateBefore'
<1>1. PICK d \in 1 .. opened : d = ch[c]
  BY HeldDownload DEF CloseDestroy, LeakInv, SleepInv
<1>2. /\ cpc \in [Client -> ClientPc] /\ ch \in [Client -> 0 .. opened]
      /\ \A a, b \in Client : ch[a] = ch[b] /\ ch[a] # 0 => a = b
  BY DEF LeakInv, SleepInv, OwnerInv, Typed, ClientOwns
<1>3. /\ destroy_download(d) /\ UNCHANGED <<opened, pending, wh>> /\ cpc[c] = "destroy"
      /\ \A e \in Client : e # c => ch'[e] = ch[e] /\ cpc'[e] = cpc[e]
      /\ cpc'[c] = "idle"
  BY <1>1, <1>2 DEF CloseDestroy, SetPc, workerVars
<1>4. \A e \in Client : ch'[e] = ch[e] \/ ch[e] = d
  BY <1>1, <1>3
<1>5. \A e \in Client : cpc'[e] = "open_late" => cpc[e] = "open_late" /\ ch'[e] = ch[e] /\ ch[e] # d
  BY <1>1, <1>2, <1>3
<1> QED
  BY <1>3, <1>4, <1>5, DestroyLeak

LEMMA OpenLeak ==
  ASSUME LeakInv, NEW c \in Client, http_downloader_open(c)
  PROVE  Kept' /\ LateBefore'
<1> DEFINE d == opened + 1
<1>1. /\ cpc \in [Client -> ClientPc] /\ ch \in [Client -> 0 .. opened] /\ opened \in Nat
      /\ pending = 0 /\ d \in Download /\ ch[c] = 0
  <2>1. active = 0 /\ cpc[c] = "idle" /\ opened < MaxDownloads
    BY DEF http_downloader_open
  <2>2. opened \in Nat
    BY HttpAssumption DEF LeakInv, SleepInv, OwnerInv, Typed
  <2> QED
    BY <2>1, <2>2, HttpAssumption DEF LeakInv, SleepInv, OwnerInv, Typed, WorkerOwns, ClientOwns, Busy, Download
<1>2. /\ opened' = d /\ pending' = d /\ UNCHANGED <<dl, destroyed, wh>>
      /\ ch' = [ch EXCEPT ![c] = d] /\ cpc' = [cpc EXCEPT ![c] = "open_test"]
  BY DEF http_downloader_open, SetPc, workerVars
<1>3. ch'[c] = d /\ \A e \in Client : e # c => ch'[e] = ch[e] /\ cpc'[e] = cpc[e]
  BY <1>1, <1>2
<1>4. ASSUME NEW e \in 1 .. d, destroyed[e] = 0
      PROVE  /\ ~dl[e].orphaned => WithClient(e)'
             /\ dl[e].orphaned \/ ~dl[e].finished => WithWorker(e)'
  <2>1. CASE e = d
    BY <1>2, <1>3, <2>1 DEF WithClient, WithWorker
  <2>2. CASE e # d
    <3>1. e \in 1 .. opened /\ e # 0
      BY <1>1, <2>2
    <3>2. ~dl[e].orphaned => \E b \in Client : ch[b] = e
      BY <1>4, <3>1 DEF LeakInv, Kept, WithClient
    <3>3. WithClient(e)' <=> \E b \in Client : ch'[b] = e
      BY DEF WithClient
    <3>4. ~dl[e].orphaned => WithClient(e)'
      BY <1>1, <1>3, <3>1, <3>2, <3>3
    <3>5. dl[e].orphaned \/ ~dl[e].finished => WithWorker(e)'
      BY <1>1, <1>2, <1>4, <3>1 DEF LeakInv, Kept, WithWorker
    <3> QED
      BY <3>4, <3>5
  <2> QED
    BY <2>1, <2>2
<1>5. LateBefore'
  BY <1>1, <1>2, <1>3 DEF LeakInv, LateBefore
<1> QED
  BY <1>2, <1>4, <1>5 DEF Kept

\* http_downloader_open gives up: the worker has the download, and will know.
LEMMA AbandonLeak ==
  ASSUME LeakInv, NEW c \in Client, OpenTimedOut(c)
  PROVE  Kept' /\ LateBefore'
<1>1. PICK d \in 1 .. opened : d = ch[c]
  BY HeldDownload DEF OpenTimedOut, LeakInv, SleepInv
<1>2. /\ cpc \in [Client -> ClientPc] /\ ch \in [Client -> 0 .. opened]
      /\ dl \in [Download -> Struct] /\ d \in Download /\ d # 0
      /\ \A e \in 1 .. opened : e \in Download
      /\ \A a, b \in Client : ch[a] = ch[b] /\ ch[a] # 0 => a = b
  BY <1>1, HttpAssumption DEF LeakInv, SleepInv, OwnerInv, Typed, ClientOwns, Download
<1>3. PICK h : h = [dl[d] EXCEPT !.result = "TIMEOUT", !.cancelled = TRUE, !.orphaned = TRUE]
  OBVIOUS
<1>4. h.orphaned /\ h.finished = dl[d].finished /\ h.ready = dl[d].ready
  BY <1>2, <1>3 DEF Struct
<1>5. /\ dl' = [dl EXCEPT ![d] = h] /\ ch' = [ch EXCEPT ![c] = 0]
      /\ cpc' = [cpc EXCEPT ![c] = "idle"] /\ cpc[c] = "open_late"
      /\ UNCHANGED <<opened, destroyed, pending, wh>>
  BY <1>1, <1>2, <1>3 DEF OpenTimedOut, SetPc, workerVars
<1>6. /\ dl'[d] = h /\ \A e \in Download : e # d => dl'[e] = dl[e]
      /\ \A b \in Client : b # c => ch'[b] = ch[b] /\ cpc'[b] = cpc[b]
      /\ cpc'[c] = "idle"
  BY <1>2, <1>5
<1>7. ~dl[d].finished
  BY <1>1, <1>5 DEF LeakInv, LateBefore
<1>8. ASSUME NEW e \in 1 .. opened, destroyed[e] = 0
      PROVE  /\ ~dl'[e].orphaned => WithClient(e)'
             /\ dl'[e].orphaned \/ ~dl'[e].finished => WithWorker(e)'
  <2>1. CASE e = d
    BY <1>4, <1>5, <1>6, <1>7, <1>8, <2>1 DEF LeakInv, Kept, WithWorker
  <2>2. CASE e # d
    <3>1. dl'[e] = dl[e]
      BY <1>2, <1>6, <2>2
    <3>2. ~dl[e].orphaned => \E b \in Client : ch[b] = e
      BY <1>8 DEF LeakInv, Kept, WithClient
    <3>3. ~dl[e].orphaned => \E b \in Client : ch'[b] = e
      BY <1>1, <1>6, <2>2, <3>2
    <3>4. dl[e].orphaned \/ ~dl[e].finished => WithWorker(e)'
      BY <1>5, <1>8 DEF LeakInv, Kept, WithWorker
    <3> QED
      BY <3>1, <3>3, <3>4 DEF WithClient
  <2> QED
    BY <2>1, <2>2
<1>9. LateBefore'
  <2>1. ASSUME NEW b \in Client, cpc'[b] = "open_late" PROVE ~dl'[ch'[b]].finished
    <3>1. b # c /\ ch'[b] = ch[b] /\ cpc[b] = "open_late"
      BY <1>6, <2>1
    <3>2. ch[b] \in Download /\ ch[b] # d
      BY <1>1, <1>2, <3>1, HeldDownload DEF LeakInv, SleepInv
    <3> QED
      BY <1>6, <3>1, <3>2 DEF LeakInv, LateBefore
  <2>2. \A e \in Download : dl'[e].finished => dl'[e].ready
    BY <1>4, <1>6 DEF LeakInv, LateBefore
  <2> QED
    BY <2>1, <2>2 DEF LateBefore
<1> QED
  BY <1>5, <1>8, <1>9 DEF Kept

\* The opener's timer fires while it sleeps, before the download is ready.
LEMMA TimerLeak ==
  ASSUME LeakInv, NEW c \in Client, ClientTimer(c)
  PROVE  Kept' /\ LateBefore'
<1>1. UNCHANGED <<dl, opened, destroyed, pending, wh, ch>>
  BY DEF ClientTimer, workerVars
<1>2. Kept'
  BY <1>1 DEF LeakInv, Kept, WithClient, WithWorker
<1>3. ASSUME NEW b \in Client, cpc'[b] = "open_late" PROVE ~dl[ch[b]].finished
  <2>1. CASE cpc[b] = "open_late"
    BY <2>1 DEF LeakInv, LateBefore
  <2>2. CASE cpc[b] # "open_late"
    <3>1. b = c /\ cpc[c] = "open_sleep"
      BY <1>3, <2>2 DEF ClientTimer, SetPc, LeakInv, SleepInv, OwnerInv, Typed
    <3>2. ~dl[ch[b]].ready /\ ch[b] \in Download
      BY <3>1, HeldDownload DEF LeakInv, SleepInv, ClientSleeps
    <3> QED
      BY <3>2 DEF LeakInv, LateBefore
  <2> QED
    BY <2>1, <2>2
<1> QED
  BY <1>1, <1>2, <1>3 DEF LeakInv, LateBefore

LEMMA ClientLeak ==
  ASSUME LeakInv, NEW c \in Client,
         \/ OpenTest(c)
         \/ ReadTest(c)
         \/ ReadTimedOut(c)
         \/ http_downloader_close(c)
         \/ CloseTest(c)
         \/ CloseBegin(c)
         \/ \E n \in 1 .. MaxChunk : ReadBegin(c, n)
         \/ \E t \in 0 .. RingSize : http_downloader_seek(c, t)
  PROVE  Kept' /\ LateBefore'
<1>1. /\ dl \in [Download -> Struct] /\ \A d \in Download : dl[d] \in Struct /\ Steady(dl[d], dl[d])
      /\ cpc \in [Client -> ClientPc]
  BY DEF LeakInv, SleepInv, OwnerInv, Typed, Steady
<1>2. \A b \in Client : cpc'[b] = "open_late" => cpc[b] = "open_late"
  BY <1>1 DEF OpenTest, ReadTest, Deliver, ReadTimedOut, http_downloader_close, CloseTest, CloseBegin,
              ReadBegin, http_downloader_seek, SetPc
<1>3. UNCHANGED <<destroyed, opened, pending, wh, ch>>
  BY DEF OpenTest, ReadTest, ReadTimedOut, http_downloader_close, CloseTest, CloseBegin,
         ReadBegin, http_downloader_seek, workerVars
<1>4. CASE UNCHANGED dl
  BY <1>1, <1>2, <1>3, <1>4, SteadyKeeps
<1>5. ASSUME NEW h \in Struct, NEW n, Steady(h, dl[ch[c]]), dl' = [dl EXCEPT ![ch[c]] = Drain(h, n)]
      PROVE  Kept' /\ LateBefore'
  <2>1. PICK g : g = Drain(h, n)
    OBVIOUS
  <2>2. Steady(g, dl[ch[c]])
    BY <1>5, <2>1 DEF Drain, Struct, Steady
  <2>3. dl' = [dl EXCEPT ![ch[c]] = g]
    BY <1>5, <2>1
  <2> QED
    BY <1>2, <1>3, <2>2, <2>3, OneSteady
<1>6. CASE ReadTest(c)
  <2>1. ch[c] \in Download
    BY <1>6, HeldDownload DEF ReadTest, LeakInv, SleepInv
  <2> QED
    BY <1>1, <1>4, <1>5, <1>6, <2>1 DEF ReadTest, Deliver
<1>7. CASE ReadTimedOut(c)
  <2>1. ch[c] \in Download
    BY <1>7, HeldDownload DEF ReadTimedOut, LeakInv, SleepInv
  <2>2. PICK h : h = [dl[ch[c]] EXCEPT !.result = "TIMEOUT", !.cancelled = TRUE]
    OBVIOUS
  <2>3. h \in Struct /\ Steady(h, dl[ch[c]])
    <3>0. dl[ch[c]] \in Struct
      BY <1>1, <2>1
    <3>1. h \in Struct
      BY <3>0, <2>2 DEF Struct, Result
    <3>2. Steady(h, dl[ch[c]])
      BY <3>0, <2>2 DEF Struct, Steady
    <3> QED
      BY <3>1, <3>2
  <2>4. Deliver(c, h)
    BY <1>7, <2>2 DEF ReadTimedOut
  <2> QED
    BY <1>5, <2>3, <2>4 DEF Deliver
<1>8. CASE http_downloader_close(c)
  <2>1. PICK h : h = [dl[ch[c]] EXCEPT !.cancelled = TRUE]
    OBVIOUS
  <2>2. dl' = [dl EXCEPT ![ch[c]] = h]
    BY <1>8, <2>1 DEF http_downloader_close
  <2>3. ch[c] \in Download => Steady(h, dl[ch[c]])
    BY <1>1, <2>1 DEF Struct, Steady
  <2> QED
    BY <1>2, <1>3, <2>2, <2>3, OneSteady
<1>9. ASSUME NEW t \in 0 .. RingSize, http_downloader_seek(c, t) PROVE Kept' /\ LateBefore'
  <2>1. PICK h : h = [dl[ch[c]] EXCEPT !.tail = LesserOf(t, dl[ch[c]].used)]
    OBVIOUS
  <2>2. dl' = [dl EXCEPT ![ch[c]] = h]
    BY <1>9, <2>1 DEF http_downloader_seek
  <2>3. ch[c] \in Download => Steady(h, dl[ch[c]])
    BY <1>1, <2>1 DEF Struct, Steady
  <2> QED
    BY <1>2, <1>3, <2>2, <2>3, OneSteady
<1>10. CASE OpenTest(c) \/ CloseTest(c) \/ CloseBegin(c) \/ \E n \in 1 .. MaxChunk : ReadBegin(c, n)
  BY <1>4, <1>10 DEF OpenTest, CloseTest, CloseBegin, ReadBegin
<1> QED
  BY <1>6, <1>7, <1>8, <1>9, <1>10

LEMMA CancelLeak ==
  ASSUME LeakInv, http_downloader_cancel_all
  PROVE  Kept' /\ LateBefore'
<1>1. dl \in [Download -> Struct] /\ cpc \in [Client -> ClientPc]
  BY DEF LeakInv, SleepInv, OwnerInv, Typed
<1>2. \A b \in Client : cpc'[b] = "open_late" => cpc[b] = "open_late"
  BY <1>1, NoneLate DEF http_downloader_cancel_all
<1>3. PICK h : h = [dl[active] EXCEPT !.cancelled = TRUE, !.result = "IO", !.ready = TRUE]
  OBVIOUS
<1>4. dl' = [dl EXCEPT ![active] = h]
  BY <1>1, <1>3 DEF http_downloader_cancel_all
<1>5. active \in Download => Steady(h, dl[active])
  BY <1>1, <1>3 DEF Struct, Steady
<1> QED
  BY <1>2, <1>4, <1>5, OneSteady DEF http_downloader_cancel_all

LEMMA LeakInit == Init => LeakInv
<1> SUFFICES ASSUME Init PROVE LeakInv
  OBVIOUS
<1>1. SleepInv
  BY OwnerInit, BytesInit, GetInit DEF Init, SleepInv, WorkerSleeps, ClientSleeps
<1>2. Kept /\ LateBefore
  BY FreshStruct DEF Init, Kept, LateBefore
<1> QED
  BY <1>1, <1>2 DEF LeakInv

LEMMA LeakNext == ASSUME LateTimeouts = FALSE PROVE LeakInv /\ [Next]_vars => LeakInv'
<1> SUFFICES ASSUME LeakInv, [Next]_vars PROVE Kept' /\ LateBefore'
  BY SleepNext DEF LeakInv
<1>1. CASE UNCHANGED vars
  BY <1>1 DEF vars, workerVars, clientVars, LeakInv, Kept, WithClient, WithWorker, LateBefore
<1>2. CASE WorkerStep /\ ~Late(wh)
  BY <1>2, TakeLeak, TransferLeak, FinishLeak, WorkerDestroyLeak
     DEF WorkerStep, Polled
<1>3. CASE WorkerTimer \/ (\E n \in 1 .. MaxChunk : WorkerChunk(n))
           \/ RequestAnswered \/ Polled
  BY <1>3, TransferLeak
<1>4. ASSUME NEW c \in Client, http_downloader_open(c) \/ ClientTimer(c) \/ ClientStep(c)
      PROVE  Kept' /\ LateBefore'
  BY <1>4, OpenLeak, TimerLeak, ClientLeak, AbandonLeak, CloseDestroyLeak DEF ClientStep
<1>5. ASSUME NEW c \in Client,
             \/ \E n \in 1 .. MaxChunk : ReadBegin(c, n)
             \/ \E t \in 0 .. RingSize : http_downloader_seek(c, t)
             \/ CloseBegin(c)
      PROVE  Kept' /\ LateBefore'
  BY <1>5, ClientLeak
<1> QED
  BY <1>1, <1>2, <1>3, <1>4, <1>5, CancelLeak DEF Next, Polled

\* Every download is freed: whichever of its clients gives up, and whatever is
\* cancelled, it is destroyed once nobody refers to it.  (Provided that an opener's
\* timer does not fire between the answer and its wakeup: then the worker may be gone.)
THEOREM HttpNoLeak == ASSUME LateTimeouts = FALSE PROVE Spec => []NoLeak
<1>1. LeakInv => NoLeak
  <2> SUFFICES ASSUME LeakInv, NEW d \in 1 .. opened, ~InUse(d) PROVE destroyed[d] = 1
    BY DEF NoLeak
  <2>1. destroyed[d] # 0
    BY DEF LeakInv, Kept, WithClient, WithWorker, InUse
  <2>2. d \in Download /\ destroyed[d] \in Nat /\ destroyed[d] <= 1
    BY HttpAssumption DEF LeakInv, SleepInv, OwnerInv, Typed, DestroyedOnce, Download
  <2> QED
    BY <2>1, <2>2
<1>2. LeakInv /\ [Next]_vars => LeakInv'
  BY LeakNext
<1> QED
  BY <1>1, <1>2, LeakInit, PTL DEF Spec

================================================================================
