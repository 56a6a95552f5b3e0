----------------------------- MODULE ChannelPool -----------------------------
(***************************************************************************)
(* How the data of the driver's channels reach the parsers:                *)
(*   csrc/activity/ascend/channel/channel_pool.cpp    poller, readers      *)
(*   csrc/activity/ascend/channel/channel_reader.cpp  Execute              *)
(*   csrc/common/thread_pool.{h,cpp}, bound_queue.h   worker threads       *)
(*                                                                         *)
(* The poller asks the driver which channels have data and dispatches each *)
(* one's reader to the worker its hash selects, at most once until that    *)
(* worker begins to execute it.  A reader reads until the driver has no    *)
(* more; a read is cut at the end of the 2 MB buffer, inside a record, for *)
(* the 40 bytes of a step trace do not divide it: the tail is carried over *)
(* to the next read of the same Execute.                                   *)
(*                                                                         *)
(* The bytes of a channel are numbered from 0 and record n is the bytes    *)
(* n*RecLen .. (n+1)*RecLen-1, so that a record that was put together from *)
(* the wrong bytes is seen.  Readers are numbered as AddReader makes them. *)
(* A channel's job runs from AddReader to RemoveReader (see DevTask).      *)
(***************************************************************************)
EXTENDS Naturals, Sequences, FiniteSets, SequencesExt

CONSTANTS
  Chans,       (* channels of all devices                                  *)
  PoolSize,    (* pool_size_: threads of the pool                          *)
  Capacity,    (* of a worker's queue                                      *)
  RecLen,      (* logStructSize                                            *)
  BufLen,      (* MAX_BUFFER_SIZE                                          *)
  MaxRecords,  (* bound: records the driver writes to the channels         *)
  MaxReaders,  (* bound: readers made                                      *)
  MaxFaults    (* bound: errors of ProfChannelPoll and ProfChannelRead     *)

ASSUME ChannelPoolAssumption ==
  /\ IsFiniteSet(Chans) /\ PoolSize \in Nat \ {0}
  /\ Capacity \in Nat \ {0} /\ RecLen \in Nat \ {0}
  /\ BufLen \in Nat /\ BufLen >= RecLen
  /\ MaxRecords \in Nat /\ MaxReaders \in Nat /\ MaxFaults \in Nat

VARIABLES
  \* --- ChannelPool
  stage,       (* of the owner: "new", "up", "joinpoll", worker to join    *)
  started,     (* isStarted_                                               *)
  mtx,         (* mtx_ is held by the poller, which waits in Push          *)
  map,         (* readers_map_: the reader of a channel, or NoReader       *)
  poller, due, (* Run: where it is, and the channels still to dispatch     *)
  \* --- the readers
  chan, home, live, sched,
               (* by number: channelId_, the worker hashId_ selects,       *)
               (* isInited_ and not isChannelStopped_, isScheduling_       *)
  \* --- the workers
  queue,       (* queue_                                                   *)
  open,        (* started_ and not quit_                                   *)
  at, task,    (* where Thread::Run and Execute are, and on which reader   *)
  buf,         (* buf of Execute: the numbers of the bytes in it           *)
  \* --- the driver
  wr, rd,      (* bytes written to and read from a channel                 *)
  written,     (* records written so far                                   *)
  faults,      (* errors so far                                            *)
  \* --- history, read by properties only
  next,        (* the record a channel's parser should get next            *)
  broken,      (* channels of which it got another one                     *)
  lossy        (* channels with a failed read, or a removed reader's read  *)

poolVars   == <<stage, started>>
readerVars == <<chan, home, live>>
workVars   == <<at, task, buf>>
driverVars == <<wr, rd, written>>
histVars   == <<next, broken, lossy>>
vars == <<poolVars, mtx, map, poller, due, readerVars, sched, queue, open,
          workVars, driverVars, faults, histVars>>

Workers  == 1..PoolSize
NoReader == 0
Readers  == DOMAIN chan

Init ==
  /\ stage = "new" /\ started = FALSE /\ mtx = FALSE
  /\ map = [c \in Chans |-> NoReader]
  /\ poller = "off" /\ due = <<>>
  /\ chan = <<>> /\ home = <<>> /\ live = <<>> /\ sched = <<>>
  /\ queue = [w \in Workers |-> <<>>] /\ open = [w \in Workers |-> FALSE]
  /\ at = [w \in Workers |-> "off"] /\ task = [w \in Workers |-> NoReader]
  /\ buf = [w \in Workers |-> <<>>]
  /\ wr = [c \in Chans |-> 0] /\ rd = [c \in Chans |-> 0] /\ written = 0 /\ faults = 0
  /\ next = [c \in Chans |-> 0] /\ broken = {} /\ lossy = {}

-----------------------------------------------------------------------------
(* The owner: ChannelPoolManager, under channelPollMutex_.                   *)
Start ==
  /\ stage = "new"
  /\ stage' = "up" /\ started' = TRUE /\ poller' = "poll"
  /\ open' = [w \in Workers |-> TRUE] /\ at' = [w \in Workers |-> "pop"]
  /\ UNCHANGED <<mtx, map, due, readerVars, sched, queue, task, buf, driverVars,
                 faults, histVars>>

(* The hash of a reader includes the time, so a channel that is added again  *)
(* may get another worker; the driver's job starts with nothing to read.     *)
AddReader(c, w) ==
  /\ stage = "up" /\ ~mtx /\ map[c] = NoReader /\ Len(chan) < MaxReaders
  /\ chan' = Append(chan, c) /\ home' = Append(home, w)
  /\ live' = Append(live, TRUE) /\ sched' = Append(sched, FALSE)
  /\ map' = [map EXCEPT ![c] = Len(chan')]
  /\ rd' = [rd EXCEPT ![c] = wr[c]]
  /\ next' = [next EXCEPT ![c] = wr[c] \div RecLen]
  /\ broken' = broken \ {c} /\ lossy' = lossy \ {c}
  /\ UNCHANGED <<poolVars, mtx, poller, due, queue, open, workVars, wr, written, faults>>

(* A worker that executes the reader finds out at its next turn.             *)
RemoveReader(c) ==
  /\ stage = "up" /\ ~mtx /\ map[c] # NoReader
  /\ live' = [live EXCEPT ![map[c]] = FALSE]
  /\ map' = [map EXCEPT ![c] = NoReader]
  /\ UNCHANGED <<poolVars, mtx, poller, due, chan, home, sched, queue, open,
                 workVars, driverVars, faults, histVars>>

(* Stop: the poller is joined while the workers still serve the queues, then *)
(* each worker drains its queue.                                             *)
Stop ==
  /\ stage = "up"
  /\ started' = FALSE /\ stage' = "joinpoll"
  /\ UNCHANGED <<mtx, map, poller, due, readerVars, sched, queue, open, workVars,
                 driverVars, faults, histVars>>

StopNext(s, w) ==
  /\ stage' = s
  /\ open' = [open EXCEPT ![w] = FALSE]
  /\ UNCHANGED <<started, mtx, map, poller, due, readerVars, sched, queue, workVars,
                 driverVars, faults, histVars>>

StopFirst ==
  /\ stage = "joinpoll" /\ poller = "done"
  /\ StopNext("joining", 1)

Joining(w) == stage = "joining" /\ ~open[w] /\ \A v \in Workers : v > w => open[v]

StopWorker(w) ==
  /\ Joining(w) /\ at[w] = "done" /\ w + 1 \in Workers
  /\ StopNext("joining", w + 1)

StopLast(w) ==
  /\ Joining(w) /\ at[w] = "done" /\ w + 1 \notin Workers
  /\ StopNext("stopped", w)

-----------------------------------------------------------------------------
(* The poller.  The driver reports some of the channels that have data.      *)
HasData(c) == map[c] # NoReader /\ rd[c] < wr[c]

BugRunning == TRUE
Running    == started

Poll ==
  /\ poller = "poll" /\ Running
  /\ \E C \in SUBSET {c \in Chans : HasData(c)} : \E s \in SetToSeqs(C) :
       /\ due' = s
       /\ poller' = IF s = <<>> THEN "poll" ELSE "dispatch"
  /\ UNCHANGED <<poolVars, mtx, map, readerVars, sched, queue, open, workVars,
                 driverVars, faults, histVars>>

PollEnds ==
  /\ poller = "poll" /\ ~Running
  /\ poller' = "done"
  /\ UNCHANGED <<poolVars, mtx, map, due, readerVars, sched, queue, open, workVars,
                 driverVars, faults, histVars>>

(* CHANNEL_PROF_ERROR or a count out of range: Run returns, isStarted_ stays. *)
PollFails ==
  /\ poller = "poll" /\ Running /\ faults < MaxFaults
  /\ poller' = "done" /\ faults' = faults + 1
  /\ UNCHANGED <<poolVars, mtx, map, due, readerVars, sched, queue, open, workVars,
                 driverVars, histVars>>

(* DispatchChannel, under mtx_.  Push waits for room with mtx_ still held.   *)
Dispatched ==
  /\ due' = Tail(due)
  /\ poller' = IF Tail(due) = <<>> THEN "poll" ELSE "dispatch"

BugScheduling(r)       == FALSE
GetSchedulingStatus(r) == sched[r]

DispatchSkip ==
  /\ poller = "dispatch"
  /\ map[Head(due)] # NoReader => GetSchedulingStatus(map[Head(due)])
  /\ Dispatched
  /\ UNCHANGED <<poolVars, mtx, map, readerVars, sched, queue, open, workVars,
                 driverVars, faults, histVars>>

BugFull(w) == Len(queue[w]) > Capacity
Full(w)    == Len(queue[w]) = Capacity

(* The worker of a reader: HashId modulo the number of threads.              *)
Index(r)    == home[r]

Dispatch ==
  LET r == map[Head(due)]
  IN /\ poller = "dispatch" /\ r # NoReader /\ ~GetSchedulingStatus(r)
     /\ sched' = [sched EXCEPT ![r] = TRUE]
     /\ IF Full(Index(r))
        THEN mtx' = TRUE /\ poller' = "push" /\ UNCHANGED <<queue, due>>
        ELSE /\ queue' = [queue EXCEPT ![Index(r)] = Append(@, r)]
             /\ Dispatched
             /\ UNCHANGED mtx
     /\ UNCHANGED <<poolVars, map, readerVars, open, workVars, driverVars, faults,
                    histVars>>

PushWaits ==
  LET r == map[Head(due)]
  IN /\ poller = "push" /\ ~Full(Index(r))
     /\ queue' = [queue EXCEPT ![Index(r)] = Append(@, r)]
     /\ mtx' = FALSE
     /\ Dispatched
     /\ UNCHANGED <<poolVars, map, readerVars, sched, open, workVars, driverVars,
                    faults, histVars>>

-----------------------------------------------------------------------------
(* The workers.  TryPop and Pop take what there is; a worker that is told to *)
(* stop leaves when its queue is empty.                                      *)
WorkerPop(w) ==
  /\ at[w] = "pop" /\ queue[w] # <<>>
  /\ task' = [task EXCEPT ![w] = Head(queue[w])]
  /\ queue' = [queue EXCEPT ![w] = Tail(@)]
  /\ at' = [at EXCEPT ![w] = "begin"]
  /\ UNCHANGED <<poolVars, mtx, map, poller, due, readerVars, sched, open, buf,
                 driverVars, faults, histVars>>

WorkerExit(w) ==
  /\ at[w] = "pop" /\ queue[w] = <<>> /\ ~open[w]
  /\ at' = [at EXCEPT ![w] = "done"]
  /\ UNCHANGED <<poolVars, mtx, map, poller, due, readerVars, sched, queue, open,
                 task, buf, driverVars, faults, histVars>>

(* Execute: the flag is cleared before the first read, so that data written  *)
(* after the last one is dispatched again.                                   *)
BugBegun(r) == sched
Begun(r)    == [sched EXCEPT ![r] = FALSE]

ExecuteBegin(w) ==
  /\ at[w] = "begin"
  /\ sched' = Begun(task[w])
  /\ at' = [at EXCEPT ![w] = "loop"]
  /\ UNCHANGED <<poolVars, mtx, map, poller, due, readerVars, queue, open, task, buf,
                 driverVars, faults, histVars>>

ExecuteEnd(w) ==
  /\ at' = [at EXCEPT ![w] = "pop"]
  /\ task' = [task EXCEPT ![w] = NoReader]
  /\ buf' = [buf EXCEPT ![w] = <<>>]
  /\ UNCHANGED <<poolVars, mtx, map, poller, due, readerVars, sched, queue, open,
                 driverVars, next, broken>>

ExecuteLoop(w) ==
  /\ at[w] = "loop" /\ live[task[w]]
  /\ at' = [at EXCEPT ![w] = "read"]
  /\ UNCHANGED <<poolVars, mtx, map, poller, due, readerVars, sched, queue, open,
                 task, buf, driverVars, faults, histVars>>

ExecuteStopped(w) ==
  /\ at[w] = "loop" /\ ~live[task[w]]
  /\ ExecuteEnd(w)
  /\ UNCHANGED <<faults, lossy>>

Chan(w) == chan[task[w]]

(* ProfChannelRead fills what is left of the buffer, as far as there is data. *)
Room(w)   == BufLen - Len(buf[w])
Length(w) == Min({Room(w), wr[Chan(w)] - rd[Chan(w)]})

Read(w) ==
  LET c == Chan(w)
      n == Length(w)
  IN /\ at[w] = "read" /\ n > 0
     /\ buf' = [buf EXCEPT ![w] = @ \o [i \in 1..n |-> rd[c] + i - 1]]
     /\ rd' = [rd EXCEPT ![c] = @ + n]
     /\ at' = [at EXCEPT ![w] = "parse"]
     /\ lossy' = IF map[c] = task[w] THEN lossy ELSE lossy \union {c}
     /\ UNCHANGED <<poolVars, mtx, map, poller, due, readerVars, sched, queue, open,
                    task, wr, written, faults, next, broken>>

ReadNothing(w) ==
  /\ at[w] = "read" /\ Length(w) = 0
  /\ ExecuteEnd(w)
  /\ UNCHANGED <<faults, lossy>>

(* After an error the tail in the buffer is gone.                            *)
ReadFails(w) ==
  /\ at[w] = "read" /\ faults < MaxFaults
  /\ ExecuteEnd(w)
  /\ faults' = faults + 1
  /\ lossy' = IF buf[w] = <<>> THEN lossy ELSE lossy \union {Chan(w)}

(* TransDataToActivityBuffer: the whole records in the buffer are parsed,    *)
(* the bytes that remain are moved to its front.                             *)
Whole(b)       == Len(b) \div RecLen
InBuffer(b, i) == SubSeq(b, (i - 1) * RecLen + 1, i * RecLen)
RecordBytes(n) == [i \in 1..RecLen |-> n * RecLen + i - 1]
BugCarried(b)  == <<>>
Carried(b)     == SubSeq(b, Whole(b) * RecLen + 1, Len(b))

Parse(w) ==
  LET c == Chan(w)
      current == map[c] = task[w]
      asWritten == \A i \in 1..Whole(buf[w]) :
                     InBuffer(buf[w], i) = RecordBytes(next[c] + i - 1)
  IN /\ at[w] = "parse"
     /\ buf' = [buf EXCEPT ![w] = Carried(@)]
     /\ at' = [at EXCEPT ![w] = "loop"]
     /\ next' = IF current THEN [next EXCEPT ![c] = @ + Whole(buf[w])] ELSE next
     /\ broken' = IF current /\ ~asWritten THEN broken \union {c} ELSE broken
     /\ UNCHANGED <<poolVars, mtx, map, poller, due, readerVars, sched, queue, open,
                    task, driverVars, faults, lossy>>

-----------------------------------------------------------------------------
(* The device writes whole records while the job of the channel runs.        *)
Produce(c) ==
  /\ map[c] # NoReader /\ written < MaxRecords
  /\ written' = written + 1 /\ wr' = [wr EXCEPT ![c] = @ + RecLen]
  /\ UNCHANGED <<poolVars, mtx, map, poller, due, readerVars, sched, queue, open,
                 workVars, rd, faults, histVars>>

Stopped == stage = "stopped" /\ UNCHANGED vars

PollerStep == Poll \/ PollEnds \/ PollFails \/ DispatchSkip \/ Dispatch \/ PushWaits

Worker(w) ==
  \/ WorkerPop(w) \/ WorkerExit(w)
  \/ ExecuteBegin(w) \/ ExecuteLoop(w) \/ ExecuteStopped(w)
  \/ Read(w) \/ ReadNothing(w) \/ ReadFails(w) \/ Parse(w)

Owner ==
  \/ Start \/ Stop \/ StopFirst
  \/ \E w \in Workers : StopWorker(w) \/ StopLast(w)
  \/ \E c \in Chans : RemoveReader(c) \/ \E w \in Workers : AddReader(c, w)

Next ==
  \/ Owner \/ PollerStep \/ Stopped
  \/ \E w \in Workers : Worker(w)
  \/ \E c \in Chans : Produce(c)

Spec == Init /\ [][Next]_vars

(* The scheduler runs every thread; Stop, once begun, goes on; and a channel *)
(* that keeps having data is reported some time.                             *)
Reported(c) == Poll /\ c \in Range(due')

Fairness ==
  /\ WF_vars(StopFirst) /\ \A w \in Workers : WF_vars(StopWorker(w) \/ StopLast(w))
  /\ WF_vars(PollEnds) /\ WF_vars(DispatchSkip \/ Dispatch \/ PushWaits)
  /\ \A c \in Chans : SF_vars(Reported(c))
  /\ \A w \in Workers : WF_vars(Worker(w))

FairSpec == Spec /\ Fairness

-----------------------------------------------------------------------------
(* Types, and what a place of the poller or a worker says of its data: no    *)
(* queue outgrows its capacity, no read its buffer (thread_pool.h:51-92,     *)
(* bound_queue.h:78-143, channel_reader.cpp:78-108).                         *)
TypeOK ==
  /\ stage \in {"new", "up", "joinpoll", "joining", "stopped"}
  /\ {started, mtx} \subseteq BOOLEAN
  /\ map \in [Chans -> Readers \union {NoReader}] /\ Len(chan) <= MaxReaders
  /\ poller \in {"off", "poll", "dispatch", "push", "done"}
  /\ due \in Seq(Chans) /\ (due = <<>> <=> poller \notin {"dispatch", "push"})
  /\ chan \in Seq(Chans) /\ home \in [Readers -> Workers]
  /\ live \in [Readers -> BOOLEAN] /\ sched \in [Readers -> BOOLEAN]
  /\ open \in [Workers -> BOOLEAN] /\ task \in [Workers -> Readers \union {NoReader}]
  /\ \A w \in Workers : /\ Range(queue[w]) \subseteq Readers
                        /\ Len(queue[w]) <= Capacity
                        /\ Len(buf[w]) <= BufLen
  /\ at \in [Workers -> {"off", "pop", "begin", "loop", "read", "parse", "done"}]
  /\ \A c \in Chans : /\ wr[c] \in 0..MaxRecords * RecLen /\ rd[c] \in 0..wr[c]
                      /\ next[c] \in 0..MaxRecords
  /\ written \in 0..MaxRecords /\ faults \in 0..MaxFaults /\ broken \union lossy \subseteq Chans

(* A reader waits in the poller's hands, at a place of a worker's queue, or  *)
(* with the worker that took it and has not begun to execute it.             *)
PollerPlace == <<0, 0>>
Places      == {PollerPlace} \union (Workers \X (0..Capacity))

Waits(r, p) ==
  LET w == p[1]
      i == p[2]
  IN \/ p = PollerPlace /\ poller = "push" /\ map[Head(due)] = r
     \/ p # PollerPlace /\ i = 0 /\ at[w] = "begin" /\ task[w] = r
     \/ p # PollerPlace /\ i \in DOMAIN queue[w] /\ queue[w][i] = r

(* isScheduling_ is true exactly while the reader waits to be executed, and  *)
(* then it waits at one place only.                                          *)
ScheduledOnce ==
  \A r \in Readers :
    LET here == {p \in Places : Waits(r, p)}
    IN /\ sched[r] <=> here # {}
       /\ \A p, q \in here : p = q

(* Execute of one reader never overlaps itself, although the flag is cleared *)
(* while it runs.                                                            *)
NotReentered ==
  \A v, w \in Workers : v # w /\ task[v] = task[w] => task[v] = NoReader

(* Clearing isScheduling_ early, so that data that come during Execute are   *)
(* not missed, gives a reader no second executor and no second place.        *)
OneExecutor == ScheduledOnce /\ NotReentered

(* The parser of a channel gets the records the device wrote, in order, none *)
(* torn, lost or twice, however the reads cut them, and no byte is in the    *)
(* air between two executions; unless a read failed, or a removed reader     *)
(* that had not finished took some of the bytes.                             *)
RecordsIntact ==
  /\ broken \subseteq lossy
  /\ \A c \in Chans \ lossy :
       (map[c] # NoReader /\ \A w \in Workers : task[w] # map[c])
         => next[c] * RecLen = rd[c]

(* No record stays behind in the driver or in the buffer: the backlog of a   *)
(* channel is worked off once the device is silent.                          *)
AllParsed ==
  \A c \in Chans :
    (map[c] # NoReader /\ wr[c] > next[c] * RecLen)
      ~> \/ wr[c] = next[c] * RecLen
         \/ map[c] = NoReader \/ ~started \/ poller = "done" \/ c \in lossy

(* Stop returns: the poller leaves even when it is blocked on a full queue,  *)
(* and every worker ends.                                                    *)
StopReturns == (stage = "joinpoll") ~> (stage = "stopped")

=============================================================================
