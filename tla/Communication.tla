----------------------------- MODULE Communication -----------------------------
(***************************************************************************)
(* How a record of a communication operator comes to be:                   *)
(*   csrc/common/inject/profapi_inject.cpp (dispatch of CANN's reports)    *)
(*   csrc/activity/ascend/parser/cann_track_cache.cpp                      *)
(*   csrc/activity/ascend/parser/communication_calculator.cpp              *)
(*   csrc/activity/ascend/parser/device_task_calculator.cpp                *)
(*   csrc/activity/ascend/channel/{channel_reader,soclog_convert}.cpp      *)
(*                                                                         *)
(* A host thread runs an operator: it launches one or more device tasks,   *)
(* each reported (AppendTsTrack) and closed by an HCCL api report          *)
(* (AppendCommunication); the operator's description (AppendCompactInfo)   *)
(* and at last its own api (AppendNodeLunch) follow.  The reader of the    *)
(* STARS channel assembles each task from its logs and gives it to the     *)
(* calculator, which records the operator when its last task has ended.    *)
(*                                                                         *)
(* Time stamps of the host tell the operators of a thread apart, and its   *)
(* tasks, so an operator and a launch stand for their time windows.  The   *)
(* device is seen through its logs only: one stream, whose n-th log is     *)
(* written at time n and is read some time later, so that a launch puts    *)
(* all logs of the task into the channel.  An operator captured in a       *)
(* graph is reported once, with agingFlag 0, and runs at every replay.     *)
(* Allocation does not fail and correlation ids are left to KernelRecords. *)
(***************************************************************************)
EXTENDS Naturals, Sequences, FiniteSets, SequencesExt

CONSTANTS
  Threads,       (* host threads                                           *)
  NumIds,        (* aging tasks use the ids 0 .. NumIds-1 in turn          *)
  GraphKeys,     (* keys <<device, stream, task>> of captured tasks        *)
  Shapes,        (* operators there are: <<NoKey or graph key, FFTS tasks>> *)
  MaxOps,        (* bounds: operators,                                     *)
  MaxWork,       (*   launches, replays, switches and bad logs in all,     *)
  MaxFaults      (*   switches and bad logs                                *)

ASSUME CommunicationAssumption ==
  /\ NumIds \in Nat \ {0}
  /\ GraphKeys \cap 0 .. NumIds = {}
  /\ Shapes \subseteq (GraphKeys \cup {NumIds}) \X BOOLEAN
  /\ {MaxOps, MaxWork, MaxFaults} \subseteq Nat

VARIABLES
  enabled,       (* IsActivityKindEnable(MSPTI_ACTIVITY_KIND_COMMUNICATION) *)
  lastTask, lastCommunication,   (* of the thread_local cache: launches    *)
  nodeLaunchId,                  (*   and the number in its event ids      *)
  taskQueue,     (* assembleTaskQueue_                                     *)
  tasks,         (* assembleTasks_ with completeFunc_: key -> task         *)
  subTasks,      (* assembleSubTasks_: key -> start                        *)
  task2Op,       (* communicationTask2Op_: key -> [event, last]            *)
  event2Op,      (* eventId2Communication_: event -> [op, start]           *)
  opInfos,       (* communicationOpInfoQueue_: thread -> operators         *)
  graphInfo,     (* taskId2AdditionInfo: key -> operator                   *)
  records,       (* what was given to ActivityManager::Record              *)
  pc,            (* of a thread                                            *)
  ops, launches, (* operators begun, tasks launched                        *)
  channel,       (* logs not yet read                                      *)
  log, logData,  (* of the reader: the log in work, and the last one       *)
  clock, replays, faults,
  \* --- history, read by properties only
  spans,         (* <<operator, run>> -> its true start and end            *)
  registered,    (* launches whose RegisterCallBack has returned           *)
  informed,      (* operators whose description has been reported          *)
  missedEvents, missedKeys       (* where a report or a log was missed     *)

cacheVars   == <<lastTask, lastCommunication, nodeLaunchId>>
assembleVars == <<tasks, subTasks>>
calcVars    == <<task2Op, event2Op, opInfos, graphInfo, records>>
hostVars    == <<pc, ops, launches>>
readerVars  == <<log, logData>>
deviceVars  == <<channel, clock, replays, spans>>
ghostVars   == <<registered, informed, missedEvents, missedKeys>>
vars == <<enabled, cacheVars, taskQueue, assembleVars, calcVars, hostVars,
          readerVars, deviceVars, faults, ghostVars>>

NoKey  == NumIds
None   == 0                                  \* no launch, operator, time
Null   == <<>>                               \* no log, entry of a map
Keys   == 0 .. NumIds - 1 \cup GraphKeys
Epoch  == 1000                               \* far apart from device times
UINT64_MAX == 1000000
MIN(a, b) == IF a < b THEN a ELSE b

(* GetRealTimeFromSysCnt: to apply it twice is not the same as once.        *)
RealTime(c) == c + Epoch

(* The operator a thread is in, and its last launch.                        *)
Op(t)       == CHOOSE o \in DOMAIN ops :
                 /\ ops[o].thread = t
                 /\ \A p \in DOMAIN ops : ops[p].thread = t => p <= o
LaunchesOf(o) == {n \in DOMAIN launches : launches[n].op = o}
LastLaunch(t) == CHOOSE n \in LaunchesOf(Op(t)) : \A m \in LaunchesOf(Op(t)) : m <= n
Closed(o)   == pc[ops[o].thread] = "idle" \/ Op(ops[o].thread) # o

GetNodeLaunchId(t) == <<t, nodeLaunchId[t]>>

(* Bug: the id after the increment, which the tasks were not filed under.   *)
BugUpdateAndGetNodeLaunchId(t) == <<t, nodeLaunchId[t] + 1>>

UpdateAndGetNodeLaunchId(t) == <<t, nodeLaunchId[t]>>

Missed(t) == missedEvents' = missedEvents \cup {GetNodeLaunchId(t)}

Init ==
  /\ enabled = TRUE
  /\ lastTask = [t \in Threads |-> None]
  /\ lastCommunication = [t \in Threads |-> None]
  /\ nodeLaunchId = [t \in Threads |-> 0]
  /\ taskQueue = <<>>
  /\ tasks = [k \in Keys |-> Null] /\ subTasks = [k \in Keys |-> None]
  /\ task2Op = [k \in Keys |-> Null] /\ event2Op = <<>>
  /\ opInfos = [t \in Threads |-> {}] /\ graphInfo = [k \in Keys |-> None]
  /\ records = <<>>
  /\ pc = [t \in Threads |-> "idle"] /\ ops = <<>> /\ launches = <<>>
  /\ channel = <<>> /\ log = Null /\ logData = Null
  /\ clock = 0 /\ replays = 0 /\ faults = 0
  /\ spans = <<>> /\ registered = {} /\ informed = {}
  /\ missedEvents = {} /\ missedKeys = {}

Work   == Len(launches) + replays + faults < MaxWork
Faulty == Work /\ faults < MaxFaults /\ faults' = faults + 1

-----------------------------------------------------------------------------
(* The device's logs.                                                       *)

(* An execution of a task: a task of the FFTS kind has one subtask.         *)
LogTypes(ffts) == IF ffts THEN <<"begin", "subStart", "subEnd", "end">>
                          ELSE <<"begin", "end">>

(* The times the operator's record should show: where the first of its      *)
(* tasks begins and where the last one ends, or their subtasks.             *)
Span(o, run, first, last) ==
  LET old == IF <<o, run>> \in DOMAIN spans THEN spans[<<o, run>>].start ELSE first
  IN  [x \in DOMAIN spans \cup {<<o, run>>} |->
         IF x = <<o, run>> THEN [start |-> old, end |-> last] ELSE spans[x]]

Execute(o, n, run) ==
  LET types == LogTypes(ops'[o].ffts)
      inner == IF ops'[o].ffts THEN 1 ELSE 0
  IN  /\ channel' = channel \o [i \in DOMAIN types |->
                      [launch |-> n, run |-> run, key |-> launches'[n].key,
                       type |-> types[i], time |-> clock + i]]
      /\ clock' = clock + Len(types)
      /\ spans' = Span(o, run, clock + 1 + inner, clock + Len(types) - inner)

(* A graph runs again once its capture is complete.                         *)
Replay(o) ==
  /\ ops[o].key # NoKey /\ Closed(o)
  /\ \A p \in DOMAIN ops : ops[p].key = ops[o].key => p <= o
  /\ Work
  /\ replays' = replays + 1
  /\ UNCHANGED hostVars
  /\ \E n \in LaunchesOf(o) : Execute(o, n, replays + 1)
  /\ UNCHANGED <<enabled, cacheVars, taskQueue, assembleVars, calcVars,
                 readerVars, faults, ghostVars>>

Switch ==
  /\ Faulty
  /\ enabled' = ~enabled
  /\ UNCHANGED <<cacheVars, taskQueue, assembleVars, calcVars, hostVars,
                 readerVars, deviceVars, ghostVars>>

-----------------------------------------------------------------------------
(* Host threads.                                                            *)

AgingLaunches == {n \in DOMAIN launches : launches[n].key \notin GraphKeys}

AppendTsTrack(t, n) ==
  IF enabled
  THEN lastTask' = [lastTask EXCEPT ![t] = n] /\ UNCHANGED missedEvents
  ELSE UNCHANGED lastTask /\ Missed(t)

(* The runtime launches a task of operator o and reports it.                *)
Launch(t, o) ==
  LET k == IF ops'[o].key = NoKey THEN Cardinality(AgingLaunches) % NumIds
                                  ELSE ops'[o].key
      n == Len(launches) + 1
  IN  /\ Work
      /\ launches' = Append(launches, [op |-> o, key |-> k])
      /\ IF k \in GraphKeys THEN UNCHANGED <<channel, clock, spans>>
                            ELSE Execute(o, n, 0)
      /\ AppendTsTrack(t, n)
      /\ pc' = [pc EXCEPT ![t] = "tracked"]
      /\ UNCHANGED <<enabled, lastCommunication, nodeLaunchId, taskQueue, assembleVars,
                     calcVars, readerVars, replays, faults, registered, informed>>

(* An operator begins, on the stream or into a graph.  A key is captured    *)
(* again when its graph is gone and its executions are over.                *)
FirstLaunch(t, k, ffts) ==
  /\ pc[t] = "idle" /\ Len(ops) < MaxOps
  /\ \A i \in DOMAIN channel : channel[i].key # k
  /\ \A o \in DOMAIN ops : ops[o].key = k /\ k # NoKey => Closed(o)
  /\ ops' = Append(ops, [thread |-> t, key |-> k, ffts |-> ffts,
                         event |-> GetNodeLaunchId(t)])
  /\ missedKeys' = missedKeys \cup (GraphKeys \cap {k} \cap {ops[o].key : o \in DOMAIN ops})
  /\ Launch(t, Len(ops) + 1)

NextLaunch(t) ==
  /\ pc[t] = "op"
  /\ Op(t) \notin informed /\ ops[Op(t)].key = NoKey
  /\ UNCHANGED <<ops, missedKeys>>
  /\ Launch(t, Op(t))

(* AppendCommunication up to DeviceTaskCalculator::RegisterCallBack: the api *)
(* must enclose the time of the thread's last task.  The key is missed when  *)
(* its former task has logs left to read or an operator still to report.     *)
RegisterCallBack(t) ==
  LET n == LastLaunch(t)
      k == launches[n].key
      former == {m \in DOMAIN launches \ {n} : launches[m].key = k}
      unread(m) == m \in {channel[i].launch : i \in DOMAIN channel}
                   \/ (log # Null /\ log.launch = m)
  IN  /\ pc[t] = "tracked"
      /\ IF enabled /\ lastTask[t] = n
         THEN /\ taskQueue' = Append(taskQueue, [key |-> k, aging |-> k \notin GraphKeys])
              /\ registered' = registered \cup {n}
              /\ missedKeys' = missedKeys \cup
                   {j \in {k} : \E m \in former :
                      unread(m) \/ (launches[m].op # Op(t) /\ ~Closed(launches[m].op))}
              /\ pc' = [pc EXCEPT ![t] = "registered"]
              /\ UNCHANGED missedEvents
         ELSE /\ pc' = [pc EXCEPT ![t] = "op"]
              /\ Missed(t)
              /\ UNCHANGED <<taskQueue, registered, missedKeys>>
      /\ UNCHANGED <<enabled, cacheVars, assembleVars, calcVars, ops, launches,
                     readerVars, deviceVars, faults, informed>>

(* The rest of AppendCommunication, under hcclTaskMutex_.                    *)
AppendCommunication(t) ==
  LET n == LastLaunch(t)
  IN  /\ pc[t] = "registered"
      /\ task2Op' = [task2Op EXCEPT ![launches[n].key] =
                       [event |-> GetNodeLaunchId(t), last |-> FALSE]]
      /\ lastCommunication' = [lastCommunication EXCEPT ![t] = n]
      /\ pc' = [pc EXCEPT ![t] = "op"]
      /\ UNCHANGED <<enabled, lastTask, nodeLaunchId, taskQueue, assembleVars, event2Op,
                     opInfos, graphInfo, records, ops, launches, readerVars, deviceVars,
                     faults, ghostVars>>

(* The description is reported before or after the node launch: the           *)
(* repository does not say which.  It is not read before the node launch, so   *)
(* that its place among the launches makes no difference: it follows them.     *)
AppendCompactInfo(t) ==
  /\ pc[t] \in {"op", "launched"}
  /\ Op(t) \notin informed
  /\ IF enabled
     THEN opInfos' = [opInfos EXCEPT ![t] = @ \cup {Op(t)}] /\ UNCHANGED missedEvents
     ELSE UNCHANGED opInfos /\ missedEvents' = missedEvents \cup {ops[Op(t)].event}
  /\ informed' = informed \cup {Op(t)}
  /\ pc' = [pc EXCEPT ![t] = IF @ = "launched" THEN "idle" ELSE @]
  /\ UNCHANGED <<enabled, cacheVars, taskQueue, assembleVars, task2Op, event2Op,
                 graphInfo, records, ops, launches, readerVars, deviceVars, faults,
                 registered, missedKeys>>

(* AppendApi2TaskInfo: the last task's entry is marked, whoever's it is now  *)
(* (operator[] makes one for event 0 if there is none), and the operator is  *)
(* filed under its event.                                                    *)
NoEvent == <<>>
AppendApi2TaskInfo(event, o, k) ==
  /\ task2Op' = [task2Op EXCEPT ![k] =
       IF @ = Null THEN [event |-> NoEvent, last |-> TRUE] ELSE [@ EXCEPT !.last = TRUE]]
  /\ event2Op' = [e \in DOMAIN event2Op \cup {event} |->
       IF e = event THEN [op |-> o, start |-> UINT64_MAX] ELSE event2Op[e]]

AppendNodeLunch(t) ==
  LET n == lastCommunication[t]
  IN  /\ pc[t] = "op"
      /\ IF enabled /\ n \in LaunchesOf(Op(t))
         THEN /\ AppendApi2TaskInfo(UpdateAndGetNodeLaunchId(t), Op(t), launches[n].key)
              /\ nodeLaunchId' = [nodeLaunchId EXCEPT ![t] = @ + 1]
              /\ UNCHANGED missedEvents
         ELSE Missed(t) /\ UNCHANGED <<task2Op, event2Op, nodeLaunchId>>
      /\ pc' = [pc EXCEPT ![t] = IF Op(t) \in informed THEN "idle" ELSE "launched"]
      /\ UNCHANGED <<enabled, lastTask, lastCommunication, taskQueue, assembleVars,
                     opInfos, graphInfo, records, ops, launches, readerVars, deviceVars,
                     faults, registered, informed, missedKeys>>

-----------------------------------------------------------------------------
(* The reader of the STARS channel.                                         *)

(* DealCacheDeviceTask: std::map::emplace leaves an entry that exists alone. *)
DealCacheDeviceTask ==
  /\ tasks' = FoldLeft(LAMBDA ts, q : IF ts[q.key] # Null THEN ts ELSE
                  [ts EXCEPT ![q.key] = [aging |-> q.aging, start |-> 0,
                                         ffts |-> FALSE, subs |-> {}]],
                tasks, taskQueue)
  /\ taskQueue' = <<>>

(* The host had reported what this log needs before the reader took it up.  *)
Timely(l) ==
  /\ l.launch \in registered
  /\ l.type = "end" => Closed(launches[l.launch].op)

(* TransStarsLog ignores that a log is of an unknown type: the log before it *)
(* is handled again, or an invalid one if it is the first of the buffer.     *)
TransStarsLog(l) ==
  /\ log = Null
  /\ IF enabled /\ l # Null
     THEN log' = l /\ DealCacheDeviceTask
     ELSE UNCHANGED <<log, tasks, taskQueue>>
  /\ logData' = l

ReportStarsSocLog ==
  /\ channel # <<>>
  /\ LET l == Head(channel)
         o == launches[l.launch].op
     IN  /\ TransStarsLog(l)
         /\ missedEvents' = IF enabled /\ Timely(l) THEN missedEvents
                            ELSE missedEvents \cup {ops[o].event}
         /\ missedKeys' = IF enabled /\ (Timely(l) \/ l.type = "begin") THEN missedKeys
                          ELSE missedKeys \cup {l.key}
  /\ channel' = Tail(channel)
  /\ UNCHANGED <<enabled, cacheVars, subTasks, calcVars, hostVars, clock, replays,
                 spans, faults, registered, informed>>

BadLog ==
  /\ Faulty
  /\ \/ \E l \in {logData, Null} :           \* an unknown type
          /\ TransStarsLog(l)
          /\ missedKeys' = IF l = Null THEN missedKeys ELSE missedKeys \cup {l.key}
          /\ UNCHANGED channel
     \/ /\ channel # <<>>                     \* the driver drops a log
        /\ channel' = Tail(channel)
        /\ missedKeys' = missedKeys \cup {Head(channel).key}
        /\ UNCHANGED <<log, logData, tasks, taskQueue>>
  /\ UNCHANGED <<enabled, cacheVars, subTasks, calcVars, hostVars, clock, replays,
                 spans, registered, informed, missedEvents>>

(* ReportCommunication, under communicationOpInfoMutex_.                    *)
ReportCommunication(k, task, o, start, end) ==
  LET t == ops[o].thread
      r(info) == [op |-> o, info |-> info, start |-> start, end |-> end]
  IN  IF ~task.aging /\ graphInfo[k] # None
      THEN records' = Append(records, r(graphInfo[k])) /\ UNCHANGED <<opInfos, graphInfo>>
      ELSE IF o \notin opInfos[t]
      THEN UNCHANGED <<records, opInfos, graphInfo>>
      ELSE /\ records' = Append(records, r(o))
           /\ opInfos' = [opInfos EXCEPT ![t] = @ \ {o}]
           /\ graphInfo' = IF task.aging THEN graphInfo ELSE [graphInfo EXCEPT ![k] = o]

(* A recorded operator of a graph starts anew, another one is erased.  Bugs: *)
(* the start of the last replay stays; so does the operator.                 *)
BugRestart(event, start) ==
  /\ event2Op' = [event2Op EXCEPT ![event].start = start]
  /\ UNCHANGED task2Op

Restart(event, start) ==
  /\ event2Op' = [event2Op EXCEPT ![event].start = UINT64_MAX]
  /\ UNCHANGED task2Op

BugForget(k, event) ==
  /\ UNCHANGED event2Op
  /\ task2Op' = [task2Op EXCEPT ![k] = Null]

Forget(k, event) ==
  /\ event2Op' = [e \in DOMAIN event2Op \ {event} |-> event2Op[e]]
  /\ task2Op' = [task2Op EXCEPT ![k] = Null]

Starts(task)  == {s.start : s \in task.subs}
Ends(task)    == {s.end : s \in task.subs}

(* CommunicationCalculator::Record, under hcclTaskMutex_.                   *)
Record(k, task) ==
  LET event == task2Op[k].event
      start == IF task.ffts THEN Min(Starts(task)) ELSE task.start
      end   == IF task.ffts THEN Max(Ends(task)) ELSE task.end
      first == MIN(event2Op[event].start, start)
  IN  IF task2Op[k] = Null \/ event \notin DOMAIN event2Op
      THEN UNCHANGED calcVars
      ELSE IF ~task2Op[k].last
      THEN /\ event2Op' = [event2Op EXCEPT ![event].start = first]
           /\ UNCHANGED <<task2Op, opInfos, graphInfo, records>>
      ELSE /\ ReportCommunication(k, task, event2Op[event].op, first, end)
           /\ IF task.aging THEN Forget(k, event) ELSE Restart(event, first)

(* AssembleTasksTimeWithSocLog and AssembleSubTasksTimeWithFftsLog.         *)
AssembleNothing == tasks[log.key] = Null /\ UNCHANGED <<assembleVars, calcVars>>
AssembleBegin ==
  /\ log.type = "begin"
  /\ tasks' = [tasks EXCEPT ![log.key].start = log.time]
  /\ UNCHANGED <<subTasks, calcVars>>
AssembleEnd ==
  LET task == tasks[log.key]
      done == [aging |-> task.aging, start |-> RealTime(task.start), end |-> RealTime(log.time),
               ffts |-> task.ffts, subs |-> task.subs]
  IN  /\ log.type = "end"
      /\ Record(log.key, done)
      /\ tasks' = [tasks EXCEPT ![log.key] = IF task.aging THEN Null ELSE [@ EXCEPT !.start = done.start]]
      /\ UNCHANGED subTasks
AssembleSubStart ==
  /\ log.type = "subStart"
  /\ subTasks' = [subTasks EXCEPT ![log.key] = log.time]
  /\ UNCHANGED <<tasks, calcVars>>
AssembleSubEnd ==
  /\ log.type = "subEnd"
  /\ tasks' = [tasks EXCEPT ![log.key].ffts = TRUE, ![log.key].subs = @ \cup
       {[start |-> RealTime(subTasks[log.key]), end |-> RealTime(log.time)]}]
  /\ subTasks' = [subTasks EXCEPT ![log.key] = None]
  /\ UNCHANGED calcVars
AssembleTasksTime ==
  /\ log # Null
  /\ \/ AssembleNothing
     \/ /\ tasks[log.key] # Null
        /\ AssembleBegin \/ AssembleEnd \/ AssembleSubStart \/ AssembleSubEnd
  /\ log' = Null
  /\ UNCHANGED <<enabled, cacheVars, taskQueue, hostVars, logData, deviceVars, faults,
                 ghostVars>>

HostNext(t) ==
  \/ \E s \in Shapes : FirstLaunch(t, s[1], s[2])
  \/ NextLaunch(t) \/ RegisterCallBack(t) \/ AppendCommunication(t)
  \/ AppendCompactInfo(t) \/ AppendNodeLunch(t)

Next ==
  \/ \E t \in Threads : HostNext(t)
  \/ \E o \in DOMAIN ops : Replay(o)
  \/ Switch \/ BadLog \/ ReportStarsSocLog \/ AssembleTasksTime

Spec == Init /\ [][Next]_vars

-----------------------------------------------------------------------------
Logs == [launch : DOMAIN launches, run : 0 .. MaxWork, key : Keys,
         type : {"begin", "subStart", "subEnd", "end"}, time : 1 .. clock]
Events == Threads \X (0 .. MaxOps) \cup {NoEvent}

(* The types of the parsers' state: an entry of the calculator's maps names *)
(* an event and an operator that exist, an operator under its own event.    *)
TypeOK ==
  /\ \A t \in Threads : {lastTask[t], lastCommunication[t]} \subseteq {None} \cup DOMAIN launches
  /\ \A k \in Keys : tasks[k] # Null => tasks[k].aging = (k \notin GraphKeys)
  /\ \A k \in Keys : task2Op[k] # Null => task2Op[k].event \in Events
  /\ \A e \in DOMAIN event2Op : e = ops[event2Op[e].op].event
  /\ \A t \in Threads : opInfos[t] \subseteq {o \in informed : ops[o].thread = t}
  /\ {log, logData} \subseteq Logs \cup {Null} /\ ToSet(channel) \subseteq Logs

(* The operators none of whose reports and logs was skipped, lost or came   *)
(* in late: each log met what the host had to report before it, and no task *)
(* id was used again before its logs were read.                             *)
Clean(o) ==
  /\ ops[o].event \notin missedEvents
  /\ \A n \in LaunchesOf(o) : launches[n].key \notin missedKeys

(* The runs of an operator that have ended and whose logs have all been     *)
(* handled.                                                                 *)
Read(o) == {x \in DOMAIN spans : x[1] = o /\ Closed(o)
              /\ \A l \in ToSet(channel) \cup ({log} \ {Null}) :
                   <<launches[l.launch].op, l.run>> # x}

TrueRecords(o, runs) ==
  {[op |-> o, info |-> o, start |-> RealTime(spans[x].start), end |-> RealTime(spans[x].end)] : x \in runs}
RecordsOf(o) == SelectSeq(records, LAMBDA r : r.op = o)

(* A clean operator is recorded exactly once for every run, with its own     *)
(* description, from the begin of its first task to the end of its last one, *)
(* however the reports of other threads and operators interleave.  Graphs of *)
(* FFTS tasks are left out: their subtasks keep the start of the first run.  *)
CommunicationExact ==
  \A o \in DOMAIN ops :
    Clean(o) /\ Closed(o) /\ ~(ops[o].ffts /\ ops[o].key # NoKey) =>
      /\ ToSet(RecordsOf(o)) = TrueRecords(o, Read(o))
      /\ Len(RecordsOf(o)) = Cardinality(Read(o))

(* Of a clean operator nothing stays in the maps once it has been recorded:  *)
(* neither its event, nor its description, nor a task that its next user     *)
(* would find.                                                               *)
CleanLeavesNothing ==
  \A o \in DOMAIN ops : Clean(o) /\ ops[o].key = NoKey /\ Read(o) # {} =>
    /\ \A e \in DOMAIN event2Op : event2Op[e].op # o
    /\ o \notin opInfos[ops[o].thread]
    /\ \A n \in LaunchesOf(o) :
         tasks[launches[n].key] # Null => \E m \in registered : m > n /\ launches[m].key = launches[n].key

=============================================================================
