--------------------------- MODULE ActivityManager ---------------------------
(***************************************************************************)
(* The record path of the library: csrc/activity/activity_manager.cpp.     *)
(*                                                                         *)
(* Threads that produce records call Record; threads of the application    *)
(* call FlushAll, FlushPeriod and RegisterCallbacks; one consumer thread   *)
(* executes Run and spawns a worker thread for every full buffer.  Two     *)
(* mutexes order them, buf_mtx_ (cur_buf_) and cv_mtx_ (everything the     *)
(* consumer looks at), and buf_mtx_ is taken before cv_mtx_.               *)
(*                                                                         *)
(* A step of this module is what a thread does between two points where    *)
(* another thread can observe or block it.  A critical section that takes  *)
(* and releases its mutex without waiting for anything is one step.        *)
(*                                                                         *)
(* Buffers are numbered in the order in which Record creates them, records *)
(* in the order in which they are accepted.  A buffer is a size, a valid   *)
(* size and the set of its records; the bytes are left out.  A request     *)
(* callback that fails hands back the null buffer, which is a buffer of    *)
(* size 0.                                                                 *)
(***************************************************************************)
EXTENDS Naturals, FiniteSets

CONSTANTS
  Producers,    (* threads that call Record                                *)
  Flushers,     (* threads that call FlushAll                              *)
  NoOne,        (* owner of a free mutex                                   *)
  BufSizes,     (* sizes the request callback may hand back                *)
  RecSizes,     (* sizes of an activity record                             *)
  MaxBufs,      (* bound: buffers created in a behaviour                   *)
  MaxCalls,     (* bound: calls of Record with an enabled kind             *)
  MaxFlushes    (* bound: calls of FlushAll                                *)

ASSUME ConstantsAssumption ==
  /\ Producers \intersect Flushers = {}
  /\ NoOne \notin Producers \union Flushers
  /\ BufSizes \subseteq Nat
  /\ RecSizes \subseteq Nat \ {0}
  /\ MaxBufs \in Nat
  /\ MaxCalls \in Nat
  /\ MaxFlushes \in Nat

VARIABLES
  \* --- members of ActivityManager
  enabled,      (* activity_switch_ of the kind being recorded             *)
  registered,   (* bufferRequested_handle_ and bufferCompleted_handle_ set *)
  threadRun,    (* thread_run_                                             *)
  bufFull,      (* buf_full_                                               *)
  flushPeriod,  (* flush_period_                                           *)
  cur,          (* cur_buf_: number of the buffer, or NoBuf                *)
  co,           (* co_activity_buffers_                                    *)
  work,         (* work_thread_: the buffer of each thread not yet joined  *)
  nrec,         (* total_record_num_                                       *)
  ndrop,        (* total_drop_num_                                         *)
  bufMtx,       (* owner of buf_mtx_                                       *)
  cvMtx,        (* owner of cv_mtx_                                        *)
  \* --- the buffers
  nbuf,         (* buffers created                                         *)
  size, valid,  (* buf_size_ and valid_size_                               *)
  recs,         (* the records copied into a buffer                        *)
  cb,           (* UnInit of a buffer: none, running or over               *)
  \* --- the threads
  pc,           (* where a producer or a flusher is                        *)
  deque,        (* the buffers a flusher moved into its local deque        *)
  consumer,     (* where Run is: off, loop, waiting, exiting, dead         *)
  serve,        (* serveForWaitFor of the wait in progress                 *)
  signalled,    (* cv_ was notified since the consumer began to wait       *)
  main,         (* RegisterCallbacks and the destructor                    *)
  calls,        (* calls of Record begun                                   *)
  flushes,      (* calls of FlushAll begun                                 *)
  \* --- history, read by properties only
  drops,        (* <<record size, buffer size>> of the dropped records     *)
  due,          (* the buffers with records when a FlushAll began          *)
  raced         (* those that others took out of that FlushAll's reach     *)

bufVars   == <<cur, nbuf, size, valid, recs, nrec, ndrop, drops>>
lockVars  == <<bufMtx, cvMtx>>
condVars  == <<consumer, serve, signalled>>
apiVars   == <<enabled, registered, threadRun, flushPeriod, main>>
flushVars == <<deque, due, raced, flushes>>
vars == <<bufVars, lockVars, condVars, apiVars, flushVars,
          bufFull, co, work, cb, pc, calls>>

NoBuf     == 0
Buffers   == 1..MaxBufs
ApiUp     == main \in {"unregistered", "starting", "registered"}
Flushing(f) == pc[f] \in {"uninit", "join", "last", "curcb"}

Init ==
  /\ enabled = FALSE /\ registered = FALSE /\ threadRun = FALSE
  /\ bufFull = FALSE /\ flushPeriod = FALSE
  /\ cur = NoBuf /\ co = {} /\ work = {}
  /\ nrec = 0 /\ ndrop = 0 /\ drops = {} /\ nbuf = 0
  /\ bufMtx = NoOne /\ cvMtx = NoOne
  /\ size = [b \in Buffers |-> 0] /\ valid = [b \in Buffers |-> 0]
  /\ recs = [b \in Buffers |-> {}]
  /\ cb = [b \in Buffers |-> "none"]
  /\ pc = [t \in Producers \union Flushers |-> "idle"]
  /\ deque = [f \in Flushers |-> {}]
  /\ consumer = "off" /\ serve = TRUE /\ signalled = FALSE
  /\ main = "unregistered"
  /\ calls = 0 /\ flushes = 0
  /\ due = [f \in Flushers |-> {}] /\ raced = [f \in Flushers |-> {}]

-----------------------------------------------------------------------------
(* The activity switch: msptiActivityEnable and msptiActivityDisable.  What  *)
(* they start and stop on the devices is in DevTask.tla.                     *)
Register ==
  /\ ApiUp /\ ~enabled
  /\ enabled' = TRUE
  /\ UNCHANGED <<bufVars, lockVars, condVars, flushVars, registered, threadRun,
                 flushPeriod, main, bufFull, co, work, cb, pc, calls>>

UnRegister ==
  /\ ApiUp /\ enabled
  /\ enabled' = FALSE
  /\ UNCHANGED <<bufVars, lockVars, condVars, flushVars, registered, threadRun,
                 flushPeriod, main, bufFull, co, work, cb, pc, calls>>

-----------------------------------------------------------------------------
(* Record.  buf_mtx_ guards cur_buf_; the whole call is one step unless the  *)
(* current buffer is full, when cv_mtx_ is taken inside buf_mtx_.            *)

(* ACTIVITY_BUFFER_THRESHOLD: at least 80% of the buffer is filled.  It is   *)
(* true of the null buffer.                                                  *)
Full(sz, v) == 5 * v >= 4 * sz

(* ActivityBuffer::Record has room for a record of r bytes.  *)
Fits(sz, v, r) == r <= sz - v

(* The kind is enabled; the call goes on even if it is disabled meanwhile.   *)
RecordEnter(p) ==
  /\ ApiUp /\ enabled
  /\ pc[p] = "idle"
  /\ calls < MaxCalls
  /\ calls' = calls + 1
  /\ pc' = [pc EXCEPT ![p] = "record"]
  /\ UNCHANGED <<bufVars, lockVars, condVars, apiVars, flushVars,
                 bufFull, co, work, cb>>

(* cur_buf_ = a new buffer, Init with the request callback, and the record   *)
(* copied into it or dropped.  Without a callback the buffer stays null.     *)
RecordInNewBuffer ==
  \E s \in (IF registered THEN BufSizes ELSE {0}), r \in RecSizes :
    /\ nbuf < MaxBufs
    /\ nbuf' = nbuf + 1
    /\ cur' = nbuf + 1
    /\ size' = [size EXCEPT ![nbuf + 1] = s]
    /\ \/ /\ Fits(s, 0, r)
          /\ valid' = [valid EXCEPT ![nbuf + 1] = r]
          /\ recs' = [recs EXCEPT ![nbuf + 1] = {nrec + 1}]
          /\ nrec' = nrec + 1
          /\ UNCHANGED <<ndrop, drops>>
       \/ /\ ~Fits(s, 0, r)
          /\ ndrop' = ndrop + 1
          /\ drops' = drops \union {<<r, s>>}
          /\ UNCHANGED <<valid, recs, nrec>>

(* There is no current buffer; a new one is made, or its allocation fails.   *)
RecordFirst(p) ==
  /\ pc[p] = "record" /\ bufMtx = NoOne /\ cur = NoBuf
  /\ RecordInNewBuffer \/ UNCHANGED bufVars
  /\ pc' = [pc EXCEPT ![p] = "idle"]
  /\ UNCHANGED <<lockVars, condVars, apiVars, flushVars, bufFull, co, work, cb, calls>>

(* The current buffer is below the threshold. *)
RecordAppend(p) ==
  /\ pc[p] = "record" /\ bufMtx = NoOne /\ cur # NoBuf
  /\ ~Full(size[cur], valid[cur])
  /\ \E r \in RecSizes :
       \/ /\ Fits(size[cur], valid[cur], r)
          /\ valid' = [valid EXCEPT ![cur] = @ + r]
          /\ recs' = [recs EXCEPT ![cur] = @ \union {nrec + 1}]
          /\ nrec' = nrec + 1
          /\ UNCHANGED <<ndrop, drops>>
       \/ /\ ~Fits(size[cur], valid[cur], r)
          /\ ndrop' = ndrop + 1
          /\ drops' = drops \union {<<r, size[cur]>>}
          /\ UNCHANGED <<valid, recs, nrec>>
  /\ pc' = [pc EXCEPT ![p] = "idle"]
  /\ UNCHANGED <<cur, nbuf, size, lockVars, condVars, apiVars, flushVars,
                 bufFull, co, work, cb, calls>>

(* Bug: the wrong mutex is taken first. *)
BugRecordFull(p) ==
  /\ pc[p] = "record" /\ bufMtx = NoOne /\ cur # NoBuf
  /\ Full(size[cur], valid[cur])
  /\ cvMtx' = p
  /\ pc' = [pc EXCEPT ![p] = "rotate"]
  /\ UNCHANGED <<bufVars, bufMtx, condVars, apiVars, flushVars,
                 bufFull, co, work, cb, calls>>

(* The current buffer is full: the producer keeps buf_mtx_ and waits for     *)
(* cv_mtx_.                                                                  *)
RecordFull(p) ==
  /\ pc[p] = "record" /\ bufMtx = NoOne /\ cur # NoBuf
  /\ Full(size[cur], valid[cur])
  /\ bufMtx' = p
  /\ pc' = [pc EXCEPT ![p] = "rotate"]
  /\ UNCHANGED <<bufVars, cvMtx, condVars, apiVars, flushVars,
                 bufFull, co, work, cb, calls>>

(* Bug: the consumer is not notified. *)
BugNoNotify == UNCHANGED signalled

(* cv_.notify_one; it is lost unless the consumer waits. *)
Notify == signalled' = (signalled \/ consumer = "waiting")

(* The full buffer is queued and the consumer notified. *)
Enqueue ==
  /\ bufFull' = TRUE
  /\ co' = co \union {cur}
  /\ Notify

(* The record that found the buffer full goes to a new one.  If that cannot  *)
(* be allocated there is no current buffer.                                  *)
RecordRotate(p) ==
  /\ pc[p] = "rotate" /\ cvMtx = NoOne
  /\ Enqueue
  /\ \/ RecordInNewBuffer
     \/ cur' = NoBuf /\ UNCHANGED <<nbuf, size, valid, recs, nrec, ndrop, drops>>
  /\ bufMtx' = NoOne
  /\ pc' = [pc EXCEPT ![p] = "idle"]
  /\ raced' = [f \in Flushers |->
                 IF Flushing(f) THEN raced[f] \union {cur} ELSE raced[f]]
  /\ UNCHANGED <<cvMtx, consumer, serve, apiVars, deque, due, flushes,
                 work, cb, calls>>

-----------------------------------------------------------------------------
(* FlushAll, on the calling thread. *)

(* Bug: the queue is copied. *)
BugTakeQueue(f) ==
  /\ deque' = [deque EXCEPT ![f] = co]
  /\ UNCHANGED co

TakeQueue(f) ==
  /\ deque' = [deque EXCEPT ![f] = co]
  /\ co' = {}

(* The queued buffers move to a local deque. *)
FlushStart(f) ==
  /\ ApiUp
  /\ pc[f] = "idle" /\ cvMtx = NoOne
  /\ flushes < MaxFlushes
  /\ flushes' = flushes + 1
  /\ TakeQueue(f)
  /\ pc' = [pc EXCEPT ![f] = "uninit"]
  /\ due' = [due EXCEPT ![f] =
               {b \in Buffers : recs[b] # {} /\ cb[b] # "over"}]
  /\ raced' = [raced EXCEPT ![f] =
               UNION {deque[g] : g \in {h \in Flushers : pc[h] = "uninit"}}]
  /\ UNCHANGED <<bufVars, lockVars, condVars, apiVars, bufFull, work, cb, calls>>

(* UnInit calls the completion callback on each of them in turn. *)
FlushUnInit(f) ==
  /\ pc[f] = "uninit"
  /\ \A b \in deque[f] : cb[b] # "running"
  /\ \E b \in deque[f] : cb' = [cb EXCEPT ![b] = "running"]
  /\ UNCHANGED <<bufVars, lockVars, condVars, apiVars, flushVars,
                 bufFull, co, work, pc, calls>>

FlushUnInitEnd(f) ==
  /\ pc[f] = "uninit"
  /\ \E b \in deque[f] :
       /\ cb[b] = "running"
       /\ cb' = [cb EXCEPT ![b] = "over"]
       /\ deque' = [deque EXCEPT ![f] = @ \ {b}]
  /\ UNCHANGED <<bufVars, lockVars, condVars, apiVars, due, raced, flushes,
                 bufFull, co, work, pc, calls>>

(* JoinWorkThreads is called with cv_mtx_ held ... *)
FlushLockCv(f) ==
  /\ pc[f] = "uninit" /\ deque[f] = {} /\ cvMtx = NoOne
  /\ cvMtx' = f
  /\ pc' = [pc EXCEPT ![f] = "join"]
  /\ UNCHANGED <<bufVars, bufMtx, condVars, apiVars, flushVars,
                 bufFull, co, work, cb, calls>>

(* Bug: the worker threads are detached. *)
BugNoJoin == TRUE

(* JoinWorkThreads can return. *)
AllOver == \A b \in work : cb[b] = "over"

(* Bug: cv_mtx_ is kept until buf_mtx_ is taken. *)
BugFlushJoin(f) ==
  /\ pc[f] = "join" /\ AllOver /\ bufMtx = NoOne
  /\ work' = {}
  /\ cvMtx' = NoOne
  /\ pc' = [pc EXCEPT ![f] = "last"]
  /\ UNCHANGED <<bufVars, bufMtx, condVars, apiVars, flushVars,
                 bufFull, co, cb, calls>>

(* ... and returns when every worker has. *)
FlushJoin(f) ==
  /\ pc[f] = "join" /\ AllOver
  /\ work' = {}
  /\ cvMtx' = NoOne
  /\ pc' = [pc EXCEPT ![f] = "last"]
  /\ UNCHANGED <<bufVars, bufMtx, condVars, apiVars, flushVars,
                 bufFull, co, cb, calls>>

(* The current buffer is completed with buf_mtx_ held. *)
FlushCur(f) ==
  /\ pc[f] = "last" /\ bufMtx = NoOne /\ cur # NoBuf
  /\ bufMtx' = f
  /\ cb' = [cb EXCEPT ![cur] = "running"]
  /\ deque' = [deque EXCEPT ![f] = {cur}]
  /\ cur' = NoBuf
  /\ pc' = [pc EXCEPT ![f] = "curcb"]
  /\ UNCHANGED <<nbuf, size, valid, recs, nrec, ndrop, drops, cvMtx, condVars, apiVars,
                 due, raced, flushes, bufFull, co, work, calls>>

FlushCurEnd(f) ==
  /\ pc[f] = "curcb"
  /\ cb' = [b \in Buffers |-> IF b \in deque[f] THEN "over" ELSE cb[b]]
  /\ deque' = [deque EXCEPT ![f] = {}]
  /\ bufMtx' = NoOne
  /\ pc' = [pc EXCEPT ![f] = "done"]
  /\ UNCHANGED <<bufVars, cvMtx, condVars, apiVars, due, raced, flushes,
                 bufFull, co, work, calls>>

FlushNoCur(f) ==
  /\ pc[f] = "last" /\ bufMtx = NoOne /\ cur = NoBuf
  /\ pc' = [pc EXCEPT ![f] = "done"]
  /\ UNCHANGED <<bufVars, lockVars, condVars, apiVars, flushVars,
                 bufFull, co, work, cb, calls>>

FlushReturn(f) ==
  /\ pc[f] = "done"
  /\ pc' = [pc EXCEPT ![f] = "idle"]
  /\ due' = [due EXCEPT ![f] = {}] /\ raced' = [raced EXCEPT ![f] = {}]
  /\ UNCHANGED <<bufVars, lockVars, condVars, apiVars, deque, flushes,
                 bufFull, co, work, cb, calls>>

(* FlushPeriod: on is time # 0.  The length of the period only decides when  *)
(* a wait times out, which is left open here.                                *)
FlushPeriod(on) ==
  /\ ApiUp /\ cvMtx = NoOne
  /\ flushPeriod' = on
  /\ IF on THEN Notify ELSE UNCHANGED signalled
  /\ UNCHANGED <<bufVars, lockVars, consumer, serve, flushVars, enabled, registered,
                 threadRun, main, bufFull, co, work, cb, pc, calls>>

-----------------------------------------------------------------------------
(* Run, on the consumer thread. *)

(* Bug: the queue keeps the buffers that the workers got. *)
BugConsumerServe ==
  /\ IF threadRun
     THEN /\ work' = work \union co
          /\ bufFull' = FALSE
          /\ consumer' = "loop"
          /\ UNCHANGED co
     ELSE /\ consumer' = "exiting"
          /\ UNCHANGED <<work, co, bufFull>>
  /\ serve' = TRUE

(* After the wait: stop, or spawn a worker for every queued buffer. *)
ConsumerServe ==
  /\ IF threadRun
     THEN /\ work' = work \union co
          /\ co' = {}
          /\ bufFull' = FALSE
          /\ consumer' = "loop"
     ELSE /\ consumer' = "exiting"
          /\ UNCHANGED <<work, co, bufFull>>
  /\ serve' = TRUE

(* The thread sleeps, having evaluated the predicate of the wait. *)
ConsumerSleep(s) ==
  /\ consumer' = "waiting"
  /\ serve' = s
  /\ UNCHANGED <<work, co, bufFull>>

Wanted(s) == (s /\ flushPeriod) \/ bufFull \/ ~threadRun

(* A wait begins.  Every evaluation of the predicate flips serveForWaitFor,  *)
(* and the first one comes before the thread sleeps.                         *)
ConsumerEnter ==
  /\ consumer = "loop" /\ cvMtx = NoOne
  /\ IF Wanted(FALSE) THEN ConsumerServe ELSE ConsumerSleep(FALSE)
  /\ signalled' = FALSE
  /\ UNCHANGED <<bufVars, lockVars, apiVars, flushVars, cb, pc, calls>>

(* A wake-up, by a notification or a spurious one. *)
ConsumerWake ==
  /\ consumer = "waiting" /\ cvMtx = NoOne
  /\ IF Wanted(~serve) THEN ConsumerServe ELSE ConsumerSleep(~serve)
  /\ signalled' = FALSE
  /\ UNCHANGED <<bufVars, lockVars, apiVars, flushVars, cb, pc, calls>>

(* The period is over.  The result of wait_for is not looked at. *)
ConsumerTimeout ==
  /\ consumer = "waiting" /\ cvMtx = NoOne
  /\ ConsumerServe
  /\ signalled' = FALSE
  /\ UNCHANGED <<bufVars, lockVars, apiVars, flushVars, cb, pc, calls>>

(* JoinWorkThreads, without cv_mtx_. *)
ConsumerExit ==
  /\ consumer = "exiting" /\ AllOver
  /\ work' = {}
  /\ consumer' = "dead"
  /\ UNCHANGED <<bufVars, lockVars, serve, signalled, apiVars, flushVars,
                 bufFull, co, cb, pc, calls>>

(* A worker thread calls UnInit on its buffer. *)
WorkerUnInit(b) ==
  /\ b \in work /\ cb[b] = "none"
  /\ cb' = [cb EXCEPT ![b] = "running"]
  /\ UNCHANGED <<bufVars, lockVars, condVars, apiVars, flushVars,
                 bufFull, co, work, pc, calls>>

WorkerEnd(b) ==
  /\ b \in work /\ cb[b] = "running"
  /\ cb' = [cb EXCEPT ![b] = "over"]
  /\ UNCHANGED <<bufVars, lockVars, condVars, apiVars, flushVars,
                 bufFull, co, work, pc, calls>>

-----------------------------------------------------------------------------
(* RegisterCallbacks stores the callbacks and starts the consumer thread,    *)
(* and only then says that the thread runs.                                  *)
RegisterCallbacks ==
  /\ main = "unregistered"
  /\ registered' = TRUE
  /\ consumer' = "loop"
  /\ main' = "starting"
  /\ UNCHANGED <<bufVars, lockVars, serve, signalled, flushVars, enabled, threadRun,
                 flushPeriod, bufFull, co, work, cb, pc, calls>>

RegisterCallbacksEnd ==
  /\ main = "starting"
  /\ threadRun' = TRUE
  /\ main' = "registered"
  /\ UNCHANGED <<bufVars, lockVars, condVars, flushVars, enabled, registered,
                 flushPeriod, bufFull, co, work, cb, pc, calls>>

(* The destructor, at the end of the process: no call is in progress and     *)
(* none begins.                                                              *)
Destroy ==
  /\ main \in {"unregistered", "registered"}
  /\ \A t \in Producers \union Flushers : pc[t] = "idle"
  /\ threadRun' = FALSE
  /\ main' = IF consumer = "off" THEN "joinwork" ELSE "notify"
  /\ UNCHANGED <<bufVars, lockVars, condVars, flushVars, enabled, registered,
                 flushPeriod, bufFull, co, work, cb, pc, calls>>

DestroyNotify ==
  /\ main = "notify" /\ cvMtx = NoOne
  /\ Notify
  /\ main' = "join"
  /\ UNCHANGED <<bufVars, lockVars, consumer, serve, flushVars, enabled, registered,
                 threadRun, flushPeriod, bufFull, co, work, cb, pc, calls>>

DestroyJoin ==
  /\ main = "join" /\ consumer = "dead"
  /\ main' = "joinwork"
  /\ UNCHANGED <<bufVars, lockVars, condVars, flushVars, enabled, registered,
                 threadRun, flushPeriod, bufFull, co, work, cb, pc, calls>>

DestroyEnd ==
  /\ main = "joinwork" /\ AllOver
  /\ work' = {}
  /\ main' = "destroyed"
  /\ enabled' = FALSE
  /\ UNCHANGED <<bufVars, lockVars, condVars, flushVars, registered, threadRun,
                 flushPeriod, bufFull, co, cb, pc, calls>>

(* The process is gone. *)
Terminated == main = "destroyed" /\ UNCHANGED vars

-----------------------------------------------------------------------------
Record(p) == RecordFirst(p) \/ RecordAppend(p) \/ RecordFull(p) \/ RecordRotate(p)

FlushAll(f) ==
  \/ FlushUnInit(f) \/ FlushUnInitEnd(f) \/ FlushLockCv(f) \/ FlushJoin(f)
  \/ FlushCur(f) \/ FlushCurEnd(f) \/ FlushNoCur(f) \/ FlushReturn(f)

Worker(b) == WorkerUnInit(b) \/ WorkerEnd(b)

Run == ConsumerEnter \/ ConsumerWake \/ ConsumerTimeout \/ ConsumerExit

Main ==
  \/ RegisterCallbacks \/ RegisterCallbacksEnd
  \/ Destroy \/ DestroyNotify \/ DestroyJoin \/ DestroyEnd

Next ==
  \/ Register \/ UnRegister
  \/ \E p \in Producers : RecordEnter(p) \/ Record(p)
  \/ \E f \in Flushers : FlushStart(f) \/ FlushAll(f)
  \/ \E on \in BOOLEAN : FlushPeriod(on)
  \/ \E b \in Buffers : Worker(b)
  \/ Run
  \/ Main
  \/ Terminated

Spec == Init /\ [][Next]_vars

(* A call that has begun goes on, and so do the threads; the application is  *)
(* not obliged to call anything, and no wait is obliged to time out: the     *)
(* consumer must be woken by a notification.                                 *)
Fairness ==
  /\ \A p \in Producers : WF_vars(Record(p))
  /\ \A f \in Flushers : WF_vars(FlushAll(f))
  /\ \A b \in Buffers : WF_vars(Worker(b))
  /\ WF_vars(ConsumerEnter) /\ WF_vars(signalled /\ ConsumerWake)
  /\ WF_vars(ConsumerExit)
  /\ WF_vars(RegisterCallbacksEnd)
  /\ WF_vars(DestroyNotify \/ DestroyJoin \/ DestroyEnd)

FairSpec == Spec /\ Fairness
-----------------------------------------------------------------------------
(* Properties. *)

Threads == Producers \union Flushers

PcType ==
  pc \in [Threads -> {"idle", "record", "rotate", "uninit", "join", "last", "curcb", "done"}]

CbType == cb \in [Buffers -> {"none", "running", "over"}]

ApiType ==
  /\ enabled \in BOOLEAN /\ registered \in BOOLEAN /\ threadRun \in BOOLEAN
  /\ flushPeriod \in BOOLEAN
  /\ main \in {"unregistered", "starting", "registered", "notify", "join", "joinwork",
               "destroyed"}

BufType ==
  /\ nbuf \in 0..MaxBufs /\ cur \in Buffers \union {NoBuf}
  /\ nrec \in Nat /\ ndrop \in Nat /\ drops \subseteq Nat \X Nat
  /\ size \in [Buffers -> Nat] /\ valid \in [Buffers -> Nat]
  /\ recs \in [Buffers -> SUBSET Nat]

LockType == bufMtx \in Threads \union {NoOne} /\ cvMtx \in Flushers \union {NoOne}

CondType ==
  /\ consumer \in {"off", "loop", "waiting", "exiting", "dead"}
  /\ serve \in BOOLEAN /\ signalled \in BOOLEAN

FlushType ==
  /\ deque \in [Flushers -> SUBSET Buffers] /\ due \in [Flushers -> SUBSET Buffers]
  /\ raced \in [Flushers -> SUBSET Buffers] /\ flushes \in Nat

QueueType == bufFull \in BOOLEAN /\ co \subseteq Buffers /\ work \subseteq Buffers

(* Every variable has its type: in particular cv_mtx_ is never kept by a     *)
(* producer from one step to the next.                                       *)
TypeOK ==
  /\ ApiType /\ BufType /\ LockType /\ CondType /\ FlushType
  /\ QueueType /\ CbType /\ PcType /\ calls \in Nat

(* Who has a buffer that is not completed yet. *)
HeldByFlush(b)  == \E f \in Flushers : b \in deque[f]
HeldByWorker(b) == b \in work /\ cb[b] # "over"

HeldOnce(b) ==
  /\ b <= nbuf /\ cb[b] # "over" =>
       b = cur \/ b \in co \/ HeldByWorker(b) \/ HeldByFlush(b)
  /\ cb[b] = "over" => b # cur /\ b \notin co /\ ~HeldByFlush(b)
  /\ b = cur => b \notin co /\ ~HeldByWorker(b) /\ ~HeldByFlush(b)
  /\ b \in co => ~HeldByWorker(b) /\ ~HeldByFlush(b)
  /\ HeldByWorker(b) => ~HeldByFlush(b)

DequesApart == \A f, g \in Flushers : f # g => deque[f] \intersect deque[g] = {}

(* No buffer is lost and none is shared: until its completion callback has   *)
(* returned, a buffer is the current one, or queued, or in the hands of one  *)
(* worker, or in the deque of one FlushAll; afterwards nobody has it.  This  *)
(* is about the moves of unique_ptrs between Record, FlushAll and Run.       *)
OneHolder == DequesApart /\ \A b \in Buffers : HeldOnce(b)

(* The wake-up flag is never behind the queue: with a buffer queued,         *)
(* buf_full_ is up, so that the consumer cannot go to sleep over it.  As a   *)
(* consequence the periodic flush never finds anything to do.                *)
QueuedIsFlagged == co # {} => bufFull

(* The 80% threshold of Record exists so that a record never meets a buffer  *)
(* without room for it: the only records dropped are larger than a fifth of  *)
(* the buffer (a null buffer included).                                      *)
DropsAreBig == \A d \in drops : 5 * d[1] > d[2]

(* When FlushAll returns, every buffer that held a record when it began has  *)
(* been consumed, except the ones another thread took: rotated into the      *)
(* queue by a Record call meanwhile, or already in the deque of another      *)
(* FlushAll.                                                                 *)
FlushDelivers ==
  \A f \in Flushers : pc[f] = "done" =>
    \A b \in due[f] \ raced[f] : cb[b] = "over"

(* The destructor returns only when no callback can run any more: the        *)
(* consumer is gone and every worker is over.                                *)
QuietAfterDestroy ==
  main = "destroyed" =>
    /\ consumer \in {"off", "dead"}
    /\ \A b \in Buffers : cb[b] # "running"

(* The life of a buffer as its subscriber sees it. *)
PhaseOf(b) ==
  IF b > nbuf THEN "unborn"
  ELSE IF b = cur THEN "open"
  ELSE IF cb[b] = "none" THEN "sealed" ELSE cb[b]

Delivery == INSTANCE RecordDelivery WITH
  MaxBatches <- MaxBufs,
  opened <- nbuf,
  phase <- [b \in Buffers |-> PhaseOf(b)],
  content <- recs,
  accepted <- nrec

(* The record path implements RecordDelivery: the current buffer is the open *)
(* batch, one that nobody completed yet is sealed.                           *)
DeliveryImplemented == Delivery!Spec

-----------------------------------------------------------------------------
(* The inductive invariant behind OneHolder, FlushDelivers and the           *)
(* refinement; ActivityManager_proof.tla proves it.                          *)

(* A producer waits inside Record only with buf_mtx_, for a full buffer. *)
ProducerControl(p) ==
  /\ pc[p] \in {"idle", "record", "rotate"}
  /\ pc[p] = "rotate" => bufMtx = p /\ cur # NoBuf

(* A FlushAll has the mutex that its place requires, and its deque is filled *)
(* only where it works on it.                                                *)
FlusherControl(f) ==
  /\ pc[f] \in {"idle", "uninit", "join", "last", "curcb", "done"}
  /\ pc[f] = "join" => cvMtx = f
  /\ pc[f] = "curcb" =>
       bufMtx = f /\ \E b \in Buffers : deque[f] = {b} /\ cb[b] = "running"
  /\ pc[f] \notin {"uninit", "curcb"} => deque[f] = {}

ControlInv ==
  /\ \A p \in Producers : ProducerControl(p)
  /\ \A f \in Flushers : FlusherControl(f)

(* UnInit has not begun on a buffer that Record can still reach, and a buffer *)
(* that does not exist yet is nowhere.                                       *)
CallbackInv ==
  \A b \in Buffers :
    /\ b = cur \/ b \in co => cb[b] = "none"
    /\ b > nbuf => /\ cb[b] = "none" /\ recs[b] = {}
                   /\ b # cur /\ b \notin co /\ b \notin work /\ ~HeldByFlush(b)

(* Where a buffer is that a FlushAll in progress still has to deliver. *)
InReach(f, b) ==
  \/ cb[b] = "over"
  \/ b \in deque[f]
  \/ b \in work /\ pc[f] \in {"uninit", "join"}
  \/ b = cur /\ pc[f] \in {"uninit", "join", "last"}
  \/ /\ pc[f] \in {"uninit", "join", "last"}
     /\ \E g \in Flushers : pc[g] = "curcb" /\ b \in deque[g]

FlushInv ==
  \A f \in Flushers : pc[f] # "idle" => \A b \in due[f] \ raced[f] : InReach(f, b)

(* When the destructor has begun no call is in progress, and once it waits   *)
(* for the workers the consumer is gone.                                     *)
EndInv ==
  /\ ~ApiUp => \A t \in Threads : pc[t] = "idle"
  /\ main \in {"joinwork", "destroyed"} => consumer \in {"off", "dead"}
  /\ main = "destroyed" => work = {}

IndInv == TypeOK /\ ControlInv /\ CallbackInv /\ OneHolder /\ FlushInv /\ EndInv

-----------------------------------------------------------------------------
(* Liveness. *)

Alive == consumer \in {"loop", "waiting"} /\ threadRun

(* A full buffer is consumed without any flush and without any time-out, as  *)
(* long as the consumer thread runs.                                         *)
FullBufferServed ==
  \A b \in Buffers : (b \in co /\ Alive) ~> (cb[b] = "over" \/ ~threadRun)

(* What the API document says of msptiActivityRegisterCallbacks: the         *)
(* completion callback is called when a buffer is full.                      *)
RegisteredIsServed ==
  \A b \in Buffers : (b \in co /\ registered) ~> (cb[b] = "over" \/ ~ApiUp)

(* No call hangs: buf_mtx_ is taken before cv_mtx_, and FlushAll keeps       *)
(* cv_mtx_ while it joins workers that need neither.                         *)
RecordReturns == \A p \in Producers : (pc[p] = "record") ~> (pc[p] = "idle")
FlushReturns == \A f \in Flushers : (pc[f] = "uninit") ~> (pc[f] = "idle")

(* The destructor ends: its notification cannot be missed by the consumer.   *)
DestroyReturns == (main = "notify") ~> (main = "destroyed")

(* Record, FlushAll and the destructor return, whichever of them meet.       *)
CallsReturn == RecordReturns /\ FlushReturns /\ DestroyReturns
=============================================================================
