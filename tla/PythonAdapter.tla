---------------------------- MODULE PythonAdapter ----------------------------
(***************************************************************************)
(* The Python monitors and the adapter under them:                         *)
(*   mspti/monitor/*.py, mspti/csrc/init.cpp,                              *)
(*   mspti/csrc/{mspti_adapter,activity_buffer_pool}.cpp                   *)
(*                                                                         *)
(* A monitor's start counts a user of the adapter, the first of which      *)
(* subscribes, and registers the monitor's callback; stop counts it off,   *)
(* flushes and unregisters.  Records reach Python in buffers of a pool: a  *)
(* worker thread of the library, or the thread that flushes, takes the     *)
(* interpreter's lock (GIL) and calls the callbacks record by record.      *)
(* start, stop and flush_all let go of the GIL, the other functions keep   *)
(* it while they wait for the adapter's mutex.                             *)
(*                                                                         *)
(* Here one step is one access to shared state or one critical section;    *)
(* what runs under the GIL without waiting is one step.  ActivityManager   *)
(* has the buffers' way through the library in detail; here it is a        *)
(* current buffer, a queue, and one worker.  A monitor is stopped only     *)
(* once after a start that succeeded, callbacks do not call the monitors,  *)
(* and the interpreter is not finalized.                                   *)
(***************************************************************************)
EXTENDS Naturals, Sequences, FiniteSets, SequencesExt

CONSTANTS
  Threads,       (* Python threads                                         *)
  Worker,        (* the library's thread that completes full buffers       *)
  NoOne,         (* no thread, no buffer, no callback                      *)
  Monitors,      (* the kinds with a monitor                               *)
  Bufs,          (* addresses that the allocator may return                *)
  BufferSizes,   (* what set_buffer_size is called with                    *)
  DefaultBufferSize, MaxBufferSize,  (* DEFAULT_ and MAX_BUFFER_SIZE       *)
  MaxCalls,      (* bounds: calls of the monitors,                         *)
  MaxRecords,    (*   records,                                             *)
  MaxFaults      (*   failing subscriptions                                *)

ASSUME PythonAdapterAssumption ==
  /\ Worker \notin Threads /\ NoOne \notin Threads \cup {Worker} \cup Bufs \cup Nat
  /\ Monitors \subseteq {"KERNEL", "MARKER", "HCCL", "COMMUNICATION"}
  /\ BufferSizes \subseteq Nat \ {0}
  /\ DefaultBufferSize \in 1 .. MaxBufferSize
  /\ {MaxBufferSize, MaxCalls, MaxRecords, MaxFaults} \subseteq Nat

VARIABLES
  gil, mtx,             (* who holds the GIL, and mtx_                     *)
  refCnt,               (* refCnt_                                         *)
  subscribed,           (* there is a subscriber of the library            *)
  handles,              (* the adapter's functions are registered          *)
  bufferSize,           (* bufferSize of the adapter                       *)
  pool,                 (* bufferSize_, poolSize_, freeBuffers_ and        *)
                        (*   allocedBuffers_: address -> size              *)
  enabled,              (* kinds that are enabled                          *)
  callback,             (* kind -> the callback object, NoOne              *)
  refs,                 (* references to callback objects, in order of     *)
                        (*   their making                                  *)
  cur, queue,           (* buffers of ActivityManager                      *)
  pos,                  (* thread -> the position of GetNextRecord         *)
  todo,                 (* thread -> functions its call still makes        *)
  pc,                   (* where a thread is in the first of them          *)
  job,                  (* thread -> the buffer it completes               *)
  flushing,             (* thread -> buffers FlushAll has still to complete *)
  calls, recorded, faults,
  \* --- history, read by properties and inputs only
  started,              (* monitors of which start succeeded               *)
  unlucky,              (* a start failed, or a user came between the last *)
                        (*   one's look at the count and its unsubscribing *)
  lost                  (* addresses freed while a buffer there was in use *)

Agents == Threads \cup {Worker}

lockVars == <<gil, mtx>>
userVars == <<refCnt, subscribed, handles, started, unlucky, faults>>
poolVars == <<bufferSize, pool, lost>>
cbVars   == <<enabled, callback, refs>>
amVars   == <<cur, queue, recorded>>
walkVars == <<pos, job>>
callVars == <<todo, pc, calls, flushing>>
vars == <<lockVars, userVars, poolVars, cbVars, amVars, walkVars, callVars>>

NoJob  == <<>>
NoBuf  == [buf |-> NoOne, size |-> 0, kinds |-> <<>>]   \* cur_buf_ is null

Init ==
  /\ gil = NoOne /\ mtx = NoOne
  /\ refCnt = 0 /\ subscribed = FALSE /\ handles = FALSE
  /\ bufferSize = DefaultBufferSize
  /\ pool = [bufferSize |-> 0, poolSize |-> 0, alloced |-> <<>>, free |-> {}]
  /\ enabled = {} /\ callback = [k \in Monitors |-> NoOne] /\ refs = <<>>
  /\ cur = NoBuf /\ queue = <<>>
  /\ pos = [x \in Agents |-> 0] /\ job = [x \in Agents |-> NoJob]
  /\ todo = [t \in Threads |-> <<>>] /\ pc = [t \in Threads |-> "idle"]
  /\ flushing = [t \in Threads |-> <<>>]
  /\ calls = 0 /\ recorded = 0 /\ faults = 0
  /\ started = {} /\ unlucky = FALSE /\ lost = {}

-----------------------------------------------------------------------------
(* ActivityBufferPool: each operation is one section under mutex_.         *)

(* Where ActivityManager or a completion has buffers: the current one, the *)
(* queue, what a flush took from it, what is being completed.              *)
Uses(b) ==
  (IF cur.buf = b THEN {<<NoOne, 0>>} ELSE {})
    \cup {<<Worker, i>> : i \in {i \in DOMAIN queue : queue[i].buf = b}}
    \cup (UNION {{<<t, i>> : i \in {i \in DOMAIN flushing[t] : flushing[t][i].buf = b}} : t \in Threads})
    \cup {<<x, 0>> : x \in {x \in Agents : job[x] # NoJob /\ job[x].buf.buf = b}}

Held == {b \in Bufs : Uses(b) # {}}

ClearPool ==
  /\ pool' = [bufferSize |-> 0, poolSize |-> 0, alloced |-> <<>>, free |-> {}]
  /\ lost' = lost \cup Held

CanAlloc == pool.free # {} \/ Cardinality(DOMAIN pool.alloced) < pool.poolSize

(* A free buffer, or memory that is new to the pool.                       *)
GetBuffer(b) ==
  IF pool.free # {}
  THEN b \in pool.free /\ pool' = [pool EXCEPT !.free = @ \ {b}]
  ELSE /\ b \in Bufs \ DOMAIN pool.alloced
       /\ pool' = [pool EXCEPT !.alloced = [a \in DOMAIN @ \cup {b} |->
                                  IF a = b THEN pool.bufferSize ELSE @[a]]]

Recycle(b) == IF b \in DOMAIN pool.alloced THEN [pool EXCEPT !.free = @ \cup {b}] ELSE pool

-----------------------------------------------------------------------------
(* ActivityManager asks for a buffer and hands over full ones under        *)
(* buf_mtx_, which FlushAll holds while it completes the current one.      *)

BufMtxFree == \A t \in Threads : job[t] # NoJob => ~job[t].last

(* UserBufferRequest: the buffer, or none, and the size to write to.       *)
Request(k) ==
  \/ \E b \in Bufs :
       /\ handles /\ CanAlloc /\ pool.bufferSize # 0 /\ pool.poolSize # 0
       /\ GetBuffer(b)
       /\ cur' = [buf |-> b, size |-> bufferSize, kinds |-> <<k>>]
  \/ /\ ~(handles /\ CanAlloc /\ pool.bufferSize # 0 /\ pool.poolSize # 0)
     /\ cur' = NoBuf /\ UNCHANGED pool

(* A record takes a unit of the buffer; a buffer without memory, which the  *)
(* library completes without effect, is replaced by the next record.       *)
Record ==
  /\ BufMtxFree
  /\ recorded < MaxRecords /\ recorded' = recorded + 1
  /\ \E k \in enabled :
       \/ cur.buf = NoOne /\ Request(k) /\ UNCHANGED queue
       \/ /\ cur.buf # NoOne /\ Len(cur.kinds) < cur.size
          /\ cur' = [cur EXCEPT !.kinds = Append(@, k)]
          /\ UNCHANGED <<pool, queue>>
       \/ /\ cur.buf # NoOne /\ Len(cur.kinds) >= cur.size
          /\ queue' = Append(queue, cur)
          /\ Request(k)
  /\ UNCHANGED <<lockVars, userVars, bufferSize, lost, cbVars, walkVars, callVars>>

NewJob(b, last) == [buf |-> b, last |-> last, stage |-> "wait", obj |-> NoOne]

(* The library gives the oldest full buffer to a worker.                   *)
TakeFull ==
  /\ job[Worker] = NoJob /\ queue # <<>>
  /\ job' = [job EXCEPT ![Worker] = NewJob(Head(queue), FALSE)]
  /\ queue' = Tail(queue)
  /\ UNCHANGED <<lockVars, userVars, poolVars, cbVars, cur, recorded, pos, callVars>>

-----------------------------------------------------------------------------
(* UserBufferComplete.                                                     *)

AcquireGil(x) ==
  /\ job[x] # NoJob /\ job[x].stage \in {"wait", "out"} /\ gil = NoOne
  /\ gil' = x
  /\ job' = [job EXCEPT ![x].stage = IF @ = "wait" THEN "walk" ELSE "in"]
  /\ UNCHANGED <<mtx, userVars, poolVars, cbVars, amVars, pos, callVars>>

(* Bug: the callback is called with the adapter's reference only.          *)
BugCallRef(obj) == refs

CallRef(obj) == [refs EXCEPT ![obj] = @ + 1]

(* The next record, or that there is none (MSPTI_ERROR_MAX_LIMIT_REACHED),  *)
(* when the thread's position starts again.  Bug: it stays.                *)
MoreRecords(x) == pos[x] < Len(job[x].buf.kinds)
BugGetNextRecord(x) == pos' = IF MoreRecords(x) THEN [pos EXCEPT ![x] = @ + 1] ELSE pos

GetNextRecord(x) == pos' = [pos EXCEPT ![x] = IF MoreRecords(x) THEN @ + 1 ELSE 0]

(* UserBufferConsume calls the callback of the record's kind, if there is   *)
(* one.                                                                    *)
Consume(x) ==
  LET obj == callback[job[x].buf.kinds[pos[x] + 1]] IN
  /\ job[x] # NoJob /\ job[x].stage = "walk" /\ MoreRecords(x)
  /\ GetNextRecord(x)
  /\ IF obj = NoOne THEN UNCHANGED <<refs, job>>
     ELSE /\ refs' = CallRef(obj)
          /\ job' = [job EXCEPT ![x].stage = "in", ![x].obj = obj]
  /\ UNCHANGED <<lockVars, userVars, poolVars, enabled, callback, amVars, callVars>>

(* Inside the callback the interpreter lets other threads run.             *)
SwitchThread(x) ==
  /\ job[x] # NoJob /\ job[x].stage = "in"
  /\ gil' = NoOne /\ job' = [job EXCEPT ![x].stage = "out"]
  /\ UNCHANGED <<mtx, userVars, poolVars, cbVars, amVars, pos, callVars>>

CallbackReturns(x) ==
  /\ job[x] # NoJob /\ job[x].stage = "in"
  /\ refs' = [refs EXCEPT ![job[x].obj] = IF @ = 0 THEN 0 ELSE @ - 1]
  /\ job' = [job EXCEPT ![x].stage = "walk", ![x].obj = NoOne]
  /\ UNCHANGED <<lockVars, userVars, poolVars, enabled, callback, amVars, pos, callVars>>

(* After the last record the buffer goes back to the pool.                  *)
Completed(x) ==
  /\ job[x] # NoJob /\ job[x].stage = "walk" /\ ~MoreRecords(x)
  /\ GetNextRecord(x)
  /\ pool' = Recycle(job[x].buf.buf)
  /\ gil' = NoOne /\ job' = [job EXCEPT ![x] = NoJob]
  /\ UNCHANGED <<mtx, userVars, bufferSize, lost, cbVars, amVars, callVars>>

-----------------------------------------------------------------------------
(* The monitors' functions, as the functions of the adapter they call.     *)

(* Bug: flush_all keeps the GIL.                                           *)
BugKeepsGil(f) == f.fn \in {"register", "unregister", "set_buffer_size", "flush_all"}

KeepsGil(f) == f.fn \in {"register", "unregister", "set_buffer_size"}

Fn(fn, arg) == [fn |-> fn, arg |-> arg]

Call(t) ==
  /\ pc[t] = "idle" /\ todo[t] = <<>> /\ calls < MaxCalls /\ calls' = calls + 1
  /\ \/ \E k \in Monitors \ started :        \* start
          /\ \A u \in Threads : Fn("register", k) \notin ToSet(todo[u])
          /\ \A u \in Threads : Fn("unregister", k) \notin ToSet(todo[u])
          /\ todo' = [todo EXCEPT ![t] = <<Fn("start", k), Fn("register", k)>>]
          /\ UNCHANGED started
     \/ \E k \in started :                   \* stop
          /\ callback[k] # NoOne
          /\ todo' = [todo EXCEPT ![t] = <<Fn("stop", k), Fn("flush_all", k), Fn("unregister", k)>>]
          /\ started' = started \ {k}
     \/ todo' = [todo EXCEPT ![t] = <<Fn("flush_all", NoOne)>>] /\ UNCHANGED started
     \/ \E n \in BufferSizes :
          todo' = [todo EXCEPT ![t] = <<Fn("set_buffer_size", n)>>] /\ UNCHANGED started
  /\ UNCHANGED <<lockVars, refCnt, subscribed, handles, unlucky, faults, poolVars, cbVars,
                 amVars, walkVars, pc, flushing>>

Goto(t, l) == pc' = [pc EXCEPT ![t] = l] /\ UNCHANGED <<todo, calls>>
Return(t)  == /\ pc' = [pc EXCEPT ![t] = "idle"]
              /\ todo' = [todo EXCEPT ![t] = Tail(@)] /\ UNCHANGED calls
Fail(t)    == /\ pc' = [pc EXCEPT ![t] = "idle"]
              /\ todo' = [todo EXCEPT ![t] = <<>>] /\ UNCHANGED calls

(* A thread begins the next function of its call.                          *)
Begin(t) ==
  /\ pc[t] = "idle" /\ todo[t] # <<>>
  /\ IF KeepsGil(Head(todo[t])) THEN gil = NoOne /\ gil' = t ELSE UNCHANGED gil
  /\ Goto(t, Head(todo[t]).fn)
  /\ UNCHANGED <<mtx, userVars, poolVars, cbVars, amVars, walkVars, flushing>>

(* Start.                                                                  *)
CountUser(t) ==
  /\ pc[t] = "start"
  /\ refCnt' = refCnt + 1
  /\ IF refCnt = 0 THEN Goto(t, "subscribe") /\ UNCHANGED started
     ELSE Return(t) /\ started' = started \cup {Head(todo[t]).arg}
  /\ unlucky' = (unlucky \/ \E u \in Threads : pc[u] = "unsubscribe")
  /\ UNCHANGED <<lockVars, subscribed, handles, faults, poolVars, cbVars, amVars,
                 walkVars, flushing>>

(* msptiSubscribe fails if there is a subscriber, or for reasons of its own. *)
Subscribe(t) ==
  /\ pc[t] = "subscribe"
  /\ \/ ~subscribed /\ subscribed' = TRUE /\ Goto(t, "clear") /\ UNCHANGED <<unlucky, faults>>
     \/ /\ IF subscribed THEN UNCHANGED faults ELSE faults < MaxFaults /\ faults' = faults + 1
        /\ unlucky' = TRUE /\ Fail(t) /\ UNCHANGED subscribed
  /\ UNCHANGED <<lockVars, refCnt, handles, started, poolVars, cbVars, amVars, walkVars, flushing>>

StartClears(t) ==
  /\ pc[t] = "clear"
  /\ ClearPool
  /\ Goto(t, "size")
  /\ UNCHANGED <<lockVars, userVars, bufferSize, cbVars, amVars, walkVars, flushing>>

StartSetsSize(t) ==
  /\ pc[t] = "size"
  /\ pool' = [pool EXCEPT !.bufferSize = bufferSize]
  /\ Goto(t, "poolSize")
  /\ UNCHANGED <<lockVars, userVars, bufferSize, lost, cbVars, amVars, walkVars, flushing>>

StartSetsPool(t) ==
  /\ pc[t] = "poolSize"
  /\ pool' = [pool EXCEPT !.poolSize = MaxBufferSize \div bufferSize]
  /\ Goto(t, "handles")
  /\ UNCHANGED <<lockVars, userVars, bufferSize, lost, cbVars, amVars, walkVars, flushing>>

StartRegisters(t) ==
  /\ pc[t] = "handles"
  /\ handles' = TRUE /\ started' = started \cup {Head(todo[t]).arg}
  /\ Return(t)
  /\ UNCHANGED <<lockVars, refCnt, subscribed, unlucky, faults, poolVars, cbVars, amVars,
                 walkVars, flushing>>

(* Stop.                                                                   *)
CountOff(t) ==
  /\ pc[t] = "stop"
  /\ refCnt' = IF refCnt >= 1 THEN refCnt - 1 ELSE refCnt
  /\ Goto(t, "last")
  /\ UNCHANGED <<lockVars, subscribed, handles, started, unlucky, faults, poolVars, cbVars,
                 amVars, walkVars, flushing>>

(* Bug: also with one user left.                                           *)
BugIsLast == refCnt <= 1

IsLast == refCnt = 0

StopLooks(t) ==
  /\ pc[t] = "last"
  /\ IF IsLast THEN Goto(t, "unsubscribe") ELSE Return(t)
  /\ UNCHANGED <<lockVars, userVars, poolVars, cbVars, amVars, walkVars, flushing>>

(* msptiUnsubscribe fails if there is no subscriber any more; the monitor   *)
(* then keeps its callback.                                                *)
Unsubscribe(t) ==
  /\ pc[t] = "unsubscribe"
  /\ subscribed' = FALSE
  /\ IF subscribed THEN Return(t) ELSE Fail(t)
  /\ UNCHANGED <<lockVars, refCnt, handles, started, unlucky, faults, poolVars, cbVars, amVars,
                 walkVars, flushing>>

-----------------------------------------------------------------------------
(* FlushAll, with mtx_ from the first step to the last.                    *)

FlushLocks(t) ==
  /\ pc[t] = "flush_all" /\ mtx = NoOne
  /\ mtx' = t
  /\ flushing' = [flushing EXCEPT ![t] = queue] /\ queue' = <<>>
  /\ Goto(t, "full")
  /\ UNCHANGED <<gil, userVars, poolVars, cbVars, cur, recorded, walkVars>>

FlushCompletes(t) ==
  /\ pc[t] = "full" /\ job[t] = NoJob
  /\ IF flushing[t] # <<>>
     THEN /\ job' = [job EXCEPT ![t] = NewJob(Head(flushing[t]), FALSE)]
          /\ flushing' = [flushing EXCEPT ![t] = Tail(@)]
          /\ UNCHANGED <<pc, todo, calls>>
     ELSE Goto(t, "join") /\ UNCHANGED <<job, flushing>>
  /\ UNCHANGED <<lockVars, userVars, poolVars, cbVars, amVars, pos>>

FlushJoins(t) ==
  /\ pc[t] = "join" /\ job[Worker] = NoJob /\ BufMtxFree
  /\ IF cur = NoBuf THEN UNCHANGED <<job, cur>>
     ELSE /\ job' = [job EXCEPT ![t] = NewJob(cur, TRUE)]
          /\ cur' = NoBuf
  /\ Goto(t, "flushed")
  /\ UNCHANGED <<lockVars, userVars, poolVars, cbVars, queue, recorded, pos, flushing>>

FlushClears(t) ==
  /\ pc[t] = "flushed" /\ job[t] = NoJob
  /\ IF refCnt = 0 THEN ClearPool ELSE UNCHANGED <<pool, lost>>
  /\ mtx' = NoOne
  /\ Return(t)
  /\ UNCHANGED <<gil, userVars, bufferSize, cbVars, amVars, walkVars, flushing>>

-----------------------------------------------------------------------------
(* Under mtx_ with the GIL, which goes when the call returns.              *)

SetBufferSize(t) ==
  /\ pc[t] = "set_buffer_size" /\ mtx = NoOne
  /\ LET n == Head(todo[t]).arg IN
       bufferSize' = IF n > MaxBufferSize THEN bufferSize ELSE n
  /\ gil' = NoOne
  /\ Return(t)
  /\ UNCHANGED <<mtx, userVars, pool, lost, cbVars, amVars, walkVars, flushing>>

RegisterCallback(t) ==
  /\ pc[t] = "register" /\ mtx = NoOne
  /\ LET k == Head(todo[t]).arg IN
       /\ refs' = Append(refs, 1)
       /\ callback' = [callback EXCEPT ![k] = Len(refs) + 1]
       /\ enabled' = enabled \cup {k}
  /\ gil' = NoOne
  /\ Return(t)
  /\ UNCHANGED <<mtx, userVars, poolVars, amVars, walkVars, flushing>>

(* The kinds of HCCL and COMMUNICATION stay enabled.                       *)
UnregisterCallback(t) ==
  /\ pc[t] = "unregister" /\ mtx = NoOne
  /\ LET k == Head(todo[t]).arg  obj == callback[k] IN
       /\ refs' = IF obj = NoOne THEN refs ELSE [refs EXCEPT ![obj] = @ - 1]
       /\ callback' = [callback EXCEPT ![k] = NoOne]
       /\ enabled' = enabled \ ({k} \cap {"KERNEL", "MARKER"})
  /\ gil' = NoOne
  /\ Return(t)
  /\ UNCHANGED <<mtx, userVars, poolVars, amVars, walkVars, flushing>>

-----------------------------------------------------------------------------
Complete(x) ==
  \/ AcquireGil(x) \/ Consume(x) \/ SwitchThread(x) \/ CallbackReturns(x) \/ Completed(x)

Step(t) ==
  \/ Begin(t) \/ CountUser(t) \/ Subscribe(t)
  \/ StartClears(t) \/ StartSetsSize(t) \/ StartSetsPool(t) \/ StartRegisters(t)
  \/ CountOff(t) \/ StopLooks(t) \/ Unsubscribe(t)
  \/ FlushLocks(t) \/ FlushCompletes(t) \/ FlushJoins(t) \/ FlushClears(t)
  \/ SetBufferSize(t) \/ RegisterCallback(t) \/ UnregisterCallback(t)

Next ==
  \/ Record \/ TakeFull
  \/ \E x \in Agents : Complete(x)
  \/ \E t \in Threads : Call(t) \/ Step(t)

Spec == Init /\ [][Next]_vars

-----------------------------------------------------------------------------
(* Every variable has its type: free buffers are buffers of the pool, which *)
(* has not more than its size; a walk over a buffer starts at its first     *)
(* record, wherever the thread's last walk was (GetNextRecord keeps one     *)
(* position per thread for all buffers).                                   *)
TypeOK ==
  /\ gil \in Agents \cup {NoOne} /\ mtx \in Threads \cup {NoOne}
  /\ refCnt \in 0 .. MaxCalls
  /\ bufferSize \in 1 .. MaxBufferSize
  /\ DOMAIN pool.alloced \subseteq Bufs
  /\ pool.free \subseteq DOMAIN pool.alloced
  /\ pool.poolSize # 0 => Cardinality(DOMAIN pool.alloced) <= pool.poolSize
  /\ enabled \subseteq Monitors
  /\ \A k \in Monitors : callback[k] \in DOMAIN refs \cup {NoOne}
  /\ \A x \in Agents : job[x] = NoJob \/ job[x].stage = "wait" => pos[x] = 0

(* A callback that runs has its object, whatever is unregistered meanwhile;  *)
(* and a buffer that the library writes to or Python reads is memory of the *)
(* pool, is not lent a second time, and is in one place only.  Excepted are *)
(* addresses that Clear freed while they were in use: the pool does not     *)
(* know which of its buffers are lent.                                      *)
InUseIsAlive ==
  /\ \A x \in Agents : job[x] # NoJob /\ job[x].obj # NoOne => refs[job[x].obj] > 0
  /\ \A b \in Held \ lost :
       /\ b \in DOMAIN pool.alloced \ pool.free
       /\ Cardinality(Uses(b)) = 1

(* Between the calls, as long as a monitor is started the library has its   *)
(* subscriber and the adapter's functions: the count of users neither       *)
(* unsubscribes under one nor lets one in for whom nobody subscribes.        *)
(* Excepted are the runs in which a start failed, which leaves its user      *)
(* counted, or a user came while the last one was about to unsubscribe.     *)
UsersAreServed ==
  (/\ ~unlucky /\ started # {}
   /\ \A t \in Threads : pc[t] = "idle" /\ (todo[t] = <<>> \/ Head(todo[t]).fn \notin {"start", "stop"}))
    => subscribed /\ handles /\ refCnt >= Cardinality(started)

AgentStep == (\E x \in Agents : Complete(x)) \/ (\E t \in Threads : Step(t))

WaitsForGil(x) == job[x] # NoJob /\ job[x].stage \in {"wait", "out"}

(* There is one way to wait for ever: a thread keeps the GIL and waits for   *)
(* mtx_, which a flush has that waits for the GIL, or for a worker that      *)
(* waits for it.  It is real: register, unregister and set_buffer_size do    *)
(* not let go of the GIL.                                                   *)
StuckOnlyOnGil ==
  LET busy == {t \in Threads : todo[t] # <<>>} \cup {x \in Agents : job[x] # NoJob} IN
  busy # {} /\ ~ENABLED AgentStep =>
    /\ gil \in Threads /\ pc[gil] \in {"register", "unregister", "set_buffer_size"}
    /\ mtx \in Threads \ {gil}
    /\ WaitsForGil(mtx) \/ (pc[mtx] = "join" /\ WaitsForGil(Worker))

(* "Change buffer size when mspti is running, will not take effect until     *)
(* next start": ActivityManager is not told that a buffer is larger than the *)
(* memory that was allocated for it.                                        *)
SizeIsAllocated ==
  cur.buf \in DOMAIN pool.alloced \ lost => cur.size <= pool.alloced[cur.buf]

=============================================================================
