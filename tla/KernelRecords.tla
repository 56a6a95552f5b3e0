----------------------------- MODULE KernelRecords -----------------------------
(***************************************************************************)
(* How a kernel record comes to be:                                        *)
(*   csrc/activity/ascend/parser/kernel_parser.cpp                         *)
(*   csrc/activity/ascend/parser/cann_api_parser.cpp                       *)
(*   csrc/common/context_manager.cpp (correlation ids, time conversion)    *)
(*                                                                         *)
(* A host thread launches a kernel, reports its task (ReportRtTaskTrack)   *)
(* and, when the call returns, the API (ReportRtApi).  The device runs the *)
(* tasks of a stream in order and writes a log when one begins and when it *)
(* ends; the one reader of the STARS channel (ReportSocLog) matches the    *)
(* two halves by stream and task id.  Task ids are used again and again.   *)
(*                                                                         *)
(* An ordinary ("aging") launch runs once.  A launch with agingFlag 0 is   *)
(* captured in a graph, reported once, and then runs at every replay.      *)
(*                                                                         *)
(* hostTasks_ is guarded by a mutex; everything else of the parser belongs *)
(* to the reader, so that handling one log is one step.  The API kinds are *)
(* taken as enabled.  Runtime, device and driver are external.             *)
(***************************************************************************)
EXTENDS Naturals, Sequences, FiniteSets, TaskIds

CONSTANTS
  Threads,       (* host threads                                           *)
  NumIds,        (* aging tasks use the ids 0 .. NumIds-1 in turn          *)
  GraphKeys,     (* keys <<device, stream, task>> of captured tasks        *)
  MaxCalls,      (* bounds: calls of the runtime,                          *)
  MaxReplays,    (*   replays of graphs,                                   *)
  MaxFaults      (*   enable and disable calls, and logs that are lost     *)

ASSUME KernelRecordsAssumption ==
  /\ NumIds \in Nat \ {0}
  /\ GraphKeys \cap 0 .. NumIds = {}
  /\ {MaxCalls, MaxReplays, MaxFaults} \subseteq Nat

VARIABLES
  enabled,       (* IsActivityKindEnable(MSPTI_ACTIVITY_KIND_KERNEL)       *)
  correlationId, (* correlationId_                                         *)
  threadCorrelationIdInfo,
  hostTasks,     (* hostTasks_, key -> its tasks: the reader takes all of  *)
                 (*   them and serves each key apart                       *)
  kernelMap,     (* kernel_map_: key -> queue; empty stands for no entry   *)
  unagingMap,    (* unaging_kernel_map_: key -> at most one kernel         *)
  deviceMap,     (* device_kernel_map_: key -> at most one start           *)
  kernels, apis, (* what was given to ActivityManager::Record              *)
  pc, call,      (* of a thread: where it is, and the number of its call   *)
  calls,         (* the key each call launched on                          *)
  toRun, begun,  (* of a stream: its executions, and if the first runs     *)
  channel,       (* logs on their way to the reader                        *)
  replays, faults,
  \* --- history, read by properties only
  reported,      (* launches whose report is in hostTasks_ or beyond       *)
  done,          (* end of every finished execution                        *)
  exact          (* keys on which nothing was missed or late               *)

hostVars   == <<correlationId, threadCorrelationIdInfo, pc, call, calls>>
parserVars == <<kernelMap, unagingMap, deviceMap, kernels>>
deviceVars == <<toRun, begun>>
vars == <<hostVars, parserVars, deviceVars, enabled, hostTasks, apis, channel,
          replays, faults, reported, done, exact>>

NoKey   == NumIds
Keys    == 0 .. NumIds - 1 \cup GraphKeys
Streams == {NoKey} \cup GraphKeys                 \* NoKey: the aging stream

(* A reading of the device counter, and GetRealTimeFromSysCnt of it. *)
SysCnt(l, run, at) == [launch |-> l, run |-> run, at |-> at]
RealTime(c)        == [ns |-> c]

(* std::unordered_map::emplace leaves an entry that exists alone. *)
Emplaced(s) == IF s = <<>> THEN s ELSE <<Head(s)>>

(* The kind may have been enabled before the first launch. *)
Init ==
  /\ enabled \in BOOLEAN
  /\ correlationId = 1
  /\ threadCorrelationIdInfo = [t \in Threads |-> 0]
  /\ hostTasks = [k \in Keys |-> <<>>]
  /\ kernelMap = [k \in Keys |-> <<>>]
  /\ unagingMap = [k \in Keys |-> <<>>]
  /\ deviceMap = [k \in Keys |-> <<>>]
  /\ kernels = <<>> /\ apis = {}
  /\ pc = [t \in Threads |-> "idle"] /\ call = [t \in Threads |-> 0]
  /\ calls = <<>>
  /\ toRun = [s \in Streams |-> <<>>] /\ begun = [s \in Streams |-> FALSE]
  /\ channel = <<>>
  /\ replays = 0 /\ faults = 0
  /\ reported = {} /\ done = {} /\ exact = Keys

-----------------------------------------------------------------------------
(* The activity switch.  Which channels it starts and stops is in DevTask.  *)
Switch ==
  /\ faults < MaxFaults
  /\ faults' = faults + 1
  /\ enabled' = ~enabled
  /\ UNCHANGED <<hostVars, parserVars, deviceVars, hostTasks, apis, channel,
                 replays, reported, done, exact>>

-----------------------------------------------------------------------------
(* Host threads.                                                            *)

UpdateAndReportCorrelationId(t) ==
  /\ correlationId' = correlationId + 1
  /\ threadCorrelationIdInfo' = [threadCorrelationIdInfo EXCEPT ![t] = correlationId]

(* Bug: the id that was given last, whoever got it. *)
BugGetCorrelationId(t) == correlationId - 1

GetCorrelationId(t) == threadCorrelationIdInfo[t]

LaunchesOn(k) == {n \in DOMAIN calls : calls[n] = k}
AgingLaunches == {n \in DOMAIN calls : calls[n] \in 0 .. NumIds - 1}

(* A launch: the hook of aclrtLaunchKernel takes a correlation id and calls *)
(* the runtime, which gives the task its key.                               *)
Call(t, k) ==
  /\ pc[t] = "idle" /\ Len(calls) < MaxCalls
  /\ calls' = Append(calls, k)
  /\ call' = [call EXCEPT ![t] = Len(calls) + 1]
  /\ pc' = [pc EXCEPT ![t] = "launched"]
  /\ UpdateAndReportCorrelationId(t)

(* Task ids come round; the task may begin at once.                         *)
Launch(t) ==
  LET k == Cardinality(AgingLaunches) % NumIds
  IN  /\ Call(t, k)
      /\ toRun' = [toRun EXCEPT ![NoKey] = Append(@, SysCnt(Len(calls) + 1, 1, "end"))]
      /\ UNCHANGED <<parserVars, enabled, hostTasks, apis, begun, channel, replays,
                     faults, reported, done, exact>>

(* A task that is captured runs at replays only.  The same key is captured  *)
(* again when its graph has been destroyed and another one is built.        *)
Capture(t, k) ==
  /\ Call(t, k)
  /\ toRun[k] = <<>> /\ \A u \in Threads : pc[u] # "idle" => calls[call[u]] # k
  /\ exact' = IF LaunchesOn(k) = {} THEN exact ELSE exact \ {k}
  /\ UNCHANGED <<parserVars, enabled, hostTasks, apis, toRun, begun, channel, replays,
                 faults, reported, done>>

(* ReportRtTaskTrack up to the mutex ... *)
ReportRtTaskTrack(t) ==
  /\ pc[t] = "launched"
  /\ IF enabled
     THEN /\ UpdateAndReportCorrelationId(t)
          /\ pc' = [pc EXCEPT ![t] = "reporting"]
          /\ UNCHANGED exact
     ELSE /\ pc' = [pc EXCEPT ![t] = "returning"]
          /\ exact' = exact \ {calls[call[t]]}
          /\ UNCHANGED <<correlationId, threadCorrelationIdInfo>>
  /\ UNCHANGED <<parserVars, deviceVars, enabled, hostTasks, apis, call, calls,
                 channel, replays, faults, reported, done>>

(* agingFlag of the tasks of a key. *)
Aging(k) == k \notin GraphKeys

(* ... and under it. *)
PushHostTask(t) ==
  LET n == call[t]  k == calls[n]
  IN  /\ pc[t] = "reporting"
      /\ hostTasks' = [hostTasks EXCEPT ![k] = Append(@,
                         [launch |-> n, key |-> k, correlationId |-> GetCorrelationId(t)])]
      /\ reported' = reported \cup {n}
      /\ exact' = IF \E m \in LaunchesOn(k) : m < n /\ m \notin reported
                  THEN exact \ {k} ELSE exact
      /\ pc' = [pc EXCEPT ![t] = "returning"]
      /\ UNCHANGED <<correlationId, threadCorrelationIdInfo, parserVars, deviceVars,
                     enabled, apis, call, calls, channel, replays, faults, done>>

ReportRtApi(t) ==
  /\ pc[t] = "returning"
  /\ apis' = apis \cup {[call |-> call[t], correlationId |-> GetCorrelationId(t)]}
  /\ pc' = [pc EXCEPT ![t] = "idle"]
  /\ UNCHANGED <<correlationId, threadCorrelationIdInfo, parserVars, deviceVars,
                 enabled, hostTasks, call, calls, channel, replays, faults,
                 reported, done, exact>>

-----------------------------------------------------------------------------
(* Runtime, device and driver.                                              *)

(* A captured graph runs once more. *)
Replay(k) ==
  /\ replays < MaxReplays
  /\ \E n \in LaunchesOn(k) :
       /\ \A m \in LaunchesOn(k) : m <= n
       /\ \A t \in Threads : call[t] = n => pc[t] = "idle"
       /\ toRun' = [toRun EXCEPT ![k] = Append(@, SysCnt(n, replays + 1, "end"))]
  /\ replays' = replays + 1
  /\ UNCHANGED <<hostVars, parserVars, begun, enabled, hostTasks, apis, channel,
                 faults, reported, done, exact>>

Log(c) == [key |-> calls[c.launch], time |-> c]

BeginTask(s) ==
  /\ toRun[s] # <<>> /\ ~begun[s]
  /\ begun' = [begun EXCEPT ![s] = TRUE]
  /\ channel' = Append(channel, Log([Head(toRun[s]) EXCEPT !.at = "begin"]))
  /\ UNCHANGED <<hostVars, parserVars, toRun, enabled, hostTasks, apis, replays,
                 faults, reported, done, exact>>

EndTask(s) ==
  /\ begun[s]
  /\ begun' = [begun EXCEPT ![s] = FALSE]
  /\ channel' = Append(channel, Log(Head(toRun[s])))
  /\ done' = done \cup {Head(toRun[s])}
  /\ toRun' = [toRun EXCEPT ![s] = Tail(@)]
  /\ UNCHANGED <<hostVars, parserVars, enabled, hostTasks, apis, replays, faults, reported, exact>>

(* The channel is closed or its buffer is full. *)
LoseLog ==
  /\ channel # <<>> /\ faults < MaxFaults
  /\ faults' = faults + 1
  /\ exact' = exact \ {Head(channel).key}
  /\ channel' = Tail(channel)
  /\ UNCHANGED <<hostVars, parserVars, deviceVars, enabled, hostTasks, apis, replays,
                 reported, done>>

-----------------------------------------------------------------------------
(* The reader: ReportSocLog.  It first moves the reported tasks to the two   *)
(* maps, whatever the log; Cached and CachedGraph are the maps then.  Logs   *)
(* of other kinds (FFTS) do no more than that and are left out.              *)

TasksOf(k, aging) == IF Aging(k) = aging THEN hostTasks[k] ELSE <<>>

(* Bug: one kernel to a key, a second one is dropped. *)
BugCached(k) == Emplaced(kernelMap[k] \o TasksOf(k, TRUE))

Cached(k)      == kernelMap[k] \o TasksOf(k, TRUE)
CachedGraph(k) == Emplaced(unagingMap[k] \o TasksOf(k, FALSE))

DealCacheHostTask == hostTasks' = [k \in Keys |-> <<>>]

(* DealAgingRtTaskTrack: the entry is erased when its queue is empty. *)
Popped(q) == Tail(q)

(* Bug: the start is still a device counter. *)
BugKernelRecord(h, start, end) ==
  [launch |-> h.launch, key |-> h.key, correlationId |-> h.correlationId,
   start |-> start, end |-> RealTime(end)]

KernelRecord(h, start, end) ==
  [launch |-> h.launch, key |-> h.key, correlationId |-> h.correlationId,
   start |-> RealTime(start), end |-> RealTime(end)]

Tasks(k) == Cached(k) # <<>> \/ CachedGraph(k) # <<>>
IsGraphTask(k) == CachedGraph(k) # <<>>

(* The maps after the log, when nothing is recorded. *)
Kept ==
  /\ kernelMap' = [k \in Keys |-> Cached(k)]
  /\ unagingMap' = [k \in Keys |-> CachedGraph(k)]
  /\ UNCHANGED kernels

(* STARS_FUNC_TYPE_BEGIN: an older start of the key stays. *)
ParseBegin(k, c) ==
  /\ Tasks(k) /\ c.at = "begin"
  /\ deviceMap' = [deviceMap EXCEPT ![k] = Emplaced(Append(@, c))]
  /\ Kept

(* A log of a task that is not known, or an end without a start. *)
ParseNothing(k, c) ==
  /\ ~Tasks(k) \/ (c.at = "end" /\ deviceMap[k] = <<>>)
  /\ UNCHANGED deviceMap
  /\ Kept

(* STARS_FUNC_TYPE_END: the start is taken and the kernel recorded; a graph  *)
(* keeps its kernel, which also wins over an ordinary one of the same key.   *)
ParseEnd(k, c) ==
  /\ Tasks(k) /\ c.at = "end" /\ deviceMap[k] # <<>>
  /\ deviceMap' = [deviceMap EXCEPT ![k] = <<>>]
  /\ unagingMap' = [j \in Keys |-> CachedGraph(j)]
  /\ kernels' = Append(kernels,
                  KernelRecord(Head(IF IsGraphTask(k) THEN CachedGraph(k) ELSE Cached(k)),
                               Head(deviceMap[k]), c))
  /\ kernelMap' = [j \in Keys |-> IF j = k /\ ~IsGraphTask(k) THEN Popped(Cached(j))
                                                              ELSE Cached(j)]

ReportSocLog ==
  /\ channel # <<>> /\ enabled
  /\ DealCacheHostTask
  /\ LET log == Head(channel)
     IN  /\ \/ ParseBegin(log.key, log.time)
            \/ ParseNothing(log.key, log.time)
            \/ ParseEnd(log.key, log.time)
         /\ exact' = IF log.time.launch \in reported THEN exact ELSE exact \ {log.key}
  /\ channel' = Tail(channel)
  /\ UNCHANGED <<hostVars, deviceVars, enabled, apis, replays, faults, reported, done>>

IgnoreSocLog ==
  /\ channel # <<>> /\ ~enabled
  /\ exact' = exact \ {Head(channel).key}
  /\ channel' = Tail(channel)
  /\ UNCHANGED <<hostVars, parserVars, deviceVars, enabled, hostTasks, apis, replays,
                 faults, reported, done>>

-----------------------------------------------------------------------------
Host(t) ==
  \/ Launch(t) \/ \E k \in GraphKeys : Capture(t, k)
  \/ ReportRtTaskTrack(t) \/ PushHostTask(t) \/ ReportRtApi(t)

Next ==
  \/ \E t \in Threads : Host(t)
  \/ \E k \in GraphKeys : Replay(k)
  \/ \E s \in Streams : BeginTask(s) \/ EndTask(s)
  \/ Switch \/ LoseLog \/ ReportSocLog \/ IgnoreSocLog

Spec == Init /\ [][Next]_vars

-----------------------------------------------------------------------------
Launched == 1 .. MaxCalls
Counters == [launch : Launched, run : 1 .. MaxReplays + 1, at : {"begin", "end"}]
HostTask == [launch : Launched, key : Keys, correlationId : 1 .. 2 * MaxCalls]

(* The types; above all, no record holds a raw device counter, and a key has *)
(* at most one start and one graph kernel.                                   *)
TypeOK ==
  /\ enabled \in BOOLEAN /\ exact \subseteq Keys
  /\ correlationId \in 1 .. 2 * MaxCalls + 1
  /\ threadCorrelationIdInfo \in [Threads -> 0 .. 2 * MaxCalls]
  /\ \A k \in Keys :
       /\ \A i \in DOMAIN hostTasks[k] : hostTasks[k][i] \in HostTask
       /\ \A i \in DOMAIN kernelMap[k] : kernelMap[k][i] \in HostTask
       /\ Len(unagingMap[k]) <= 1 /\ \A i \in DOMAIN unagingMap[k] : unagingMap[k][i] \in HostTask
       /\ Len(deviceMap[k]) <= 1 /\ \A i \in DOMAIN deviceMap[k] : deviceMap[k][i] \in Counters
  /\ \A i \in DOMAIN kernels :
       /\ kernels[i].correlationId \in 1 .. 2 * MaxCalls
       /\ {kernels[i].start, kernels[i].end} \subseteq [ns : Counters]
  /\ apis \subseteq [call : Launched, correlationId : 0 .. 2 * MaxCalls]
  /\ pc \in [Threads -> {"idle", "launched", "reporting", "returning"}]

(* On a key whose logs all arrived after the report of their launch, with    *)
(* the kind enabled, every execution whose end was read has exactly one      *)
(* record, and the record has the name and correlation id of the launch and  *)
(* the times of that execution, however often the task id was used again and *)
(* however many launches waited under it.                                    *)
KernelsExact ==
  \A k \in exact :
    LET mine == {i \in DOMAIN kernels : kernels[i].key = k}
        read == {c \in done : calls[c.launch] = k} \ {channel[i].time : i \in DOMAIN channel}
    IN  /\ {kernels[i].end.ns : i \in mine} = read
        /\ \A i, j \in mine : kernels[i].end = kernels[j].end => i = j
        /\ \A i \in mine :
             /\ kernels[i].launch = kernels[i].end.ns.launch
             /\ kernels[i].start.ns = [kernels[i].end.ns EXCEPT !.at = "begin"]

(* Whatever is lost, late or switched off: an ordinary launch never has two  *)
(* records.                                                                  *)
RecordedOnce ==
  \A i, j \in DOMAIN kernels :
    kernels[i].launch = kernels[j].launch /\ kernels[i].key \notin GraphKeys => i = j

(* Exact where nothing was missed, and never twice anywhere.                 *)
RecordsOfKernels == KernelsExact /\ RecordedOnce

(* The record of the API that launched a kernel has the correlation id of    *)
(* the kernel's record, whichever is delivered first and whatever other      *)
(* threads report in between.                                                *)
ApiOfItsKernel ==
  \A i \in DOMAIN kernels, a \in apis :
    a.call = kernels[i].launch => a.correlationId = kernels[i].correlationId

(* No two tasks share an id, and the reports of a launched task meet its     *)
(* logs under one key (stars_common.cpp), however stream and task are packed *)
(* into the words of report and log.                                         *)
TaskIdsAgree == calls # <<>> => PackedIdsAgree
=============================================================================
