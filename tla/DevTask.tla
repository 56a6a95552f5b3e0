------------------------------- MODULE DevTask -------------------------------
(***************************************************************************)
(* Which profiling jobs run on which device:                               *)
(*   csrc/activity/activity_manager.cpp   Register, UnRegister, SetDevice, *)
(*                                        ResetAllDevice                   *)
(*   csrc/activity/ascend/dev_task_manager.cpp  Start/StopDevProfTask      *)
(*   csrc/activity/ascend/dev_prof_task.cpp     reference counts           *)
(*   csrc/activity/ascend/channel/channel_pool_manager.cpp                 *)
(*                                                                         *)
(* A kind that is enabled and a device that is set must meet, whichever of *)
(* msptiActivityEnable and the device-state callback comes first and       *)
(* however they interleave.  Two kinds may need the same driver channel:   *)
(* each channel has a reference count, started by the first, stopped by    *)
(* the last.  devices_mtx_ guards devices_, task_map_mtx_ the tasks; the   *)
(* loop over the kinds is under task_map_mtx_, and its steps are separate  *)
(* here because SetDevice and ResetAllDevice pass arrays of atomics that   *)
(* others write meanwhile.                                                 *)
(***************************************************************************)
EXTENDS Naturals, FiniteSets, Sequences, SequencesExt

CONSTANTS
  Threads,     (* of the application, and of CANN (device-state callback)  *)
  NoThread,    (* owner of a free mutex                                    *)
  Devices,
  Kinds,       (* the activity kinds that are used                         *)
  Channels,    (* driver channels                                          *)
  ChannelsOf,  (* kindToChannel_map_ of the platform                       *)
  CannKinds,   (* keys of datatype_config_map_                             *)
  Online,      (* device_set_                                              *)
  DevChannels, (* what ProfDrvGetChannels lists for a device               *)
  MaxCalls     (* bound: calls in a behaviour                              *)

ASSUME DevTaskAssumption ==
  /\ NoThread \notin Threads
  /\ Kinds \subseteq Nat /\ Kinds # {} /\ IsFiniteSet(Kinds)
  /\ ChannelsOf \in [Kinds -> SUBSET Channels]
  /\ CannKinds \subseteq Kinds
  /\ Online \subseteq Devices
  /\ DevChannels \in [Devices -> SUBSET Channels]
  /\ MaxCalls \in Nat

VARIABLES
  \* --- ActivityManager
  switch,      (* activity_switch_                                         *)
  append,      (* append_only_activity_switch_                             *)
  devices,     (* devices_                                                 *)
  devMtx,      (* owner of devices_mtx_                                    *)
  \* --- DevTaskManager, DevProfTask
  tasks,       (* keys of task_map_                                        *)
  taskMtx,     (* owner of task_map_mtx_                                   *)
  profSwitch,  (* profSwitch_ is not zero                                  *)
  ref,         (* ref_cnts_ of a device and channel                        *)
  \* --- CallbackManager, ChannelPoolManager
  subscribed,  (* the device-state callback is registered with CANN        *)
  pool,        (* drvChannelPoll_ exists                                   *)
  readers,     (* the channels it polls                                    *)
  \* --- the driver and CANN
  running,     (* channels between ProfDrvStart and ProfStop               *)
  cann,        (* devices between the START and the STOP command           *)
  \* --- the threads
  pc, op,
  want,        (* curOpenSwitch of a Register                              *)
  todo,        (* devices left of the loop, the one in hand first          *)
  left,        (* kinds left of the loop in hand                           *)
  calls,       (* calls begun                                              *)
  \* --- history, read by properties only
  excused,     (* pairs whose start failed, or that a reset stopped        *)
  notStarted,  (* channels whose first start the driver did not do         *)
  notStopped,  (* channels that ProfStop failed to stop                    *)
  cannLeft,    (* devices at which the STOP command failed                 *)
  unread,      (* channels that were running when the pool was created, or *)
               (* were started while there was none                        *)
  alone        (* no start overlaps the ResetAllDevice in progress         *)

amVars    == <<switch, append, devices, devMtx>>
taskVars  == <<tasks, taskMtx, ref>>
cannVars  == <<profSwitch, cann>>
subVars   == <<subscribed, pool>>
chanVars  == <<readers, running, notStarted, notStopped, unread>>
callVars  == <<pc, op, want, todo, left>>
histVars  == <<excused, cannLeft, alone>>
vars == <<amVars, taskVars, cannVars, subVars, chanVars, callVars, histVars,
          calls>>

Init ==
  /\ switch = {} /\ append = {} /\ devices = {} /\ devMtx = NoThread
  /\ tasks = {} /\ taskMtx = NoThread /\ profSwitch = FALSE
  /\ ref = [x \in Devices \X Channels |-> 0]
  /\ subscribed = FALSE /\ pool = FALSE /\ readers = {}
  /\ running = {} /\ cann = {}
  /\ pc = [t \in Threads |-> "idle"] /\ op = [t \in Threads |-> "none"]
  /\ want = [t \in Threads |-> {}]
  /\ todo = [t \in Threads |-> <<>>] /\ left = [t \in Threads |-> {}]
  /\ calls = 0 /\ excused = {} /\ notStarted = {} /\ notStopped = {} /\ cannLeft = {}
  /\ unread = {} /\ alone = FALSE

(* What ResetAllDevice passes down: every kind that was ever enabled, for a *)
(* task outlives the switch of its kind.                                     *)
BugEverEnabled == switch
EverEnabled == append

(* The array of kinds the operation of t passes down: Register passes one of *)
(* its own, the others a reference to a live one.                            *)
KindsOf(t) == CASE op[t] = "Register"  -> want[t]
                [] op[t] = "SetDevice" -> switch
                [] OTHER               -> EverEnabled

(* Thread t goes on with its loop over the devices in s, or leaves it.       *)
DevLoop(t, s) ==
  LET over == s = <<>> /\ op[t] # "Reset"
  IN /\ todo' = [todo EXCEPT ![t] = s]
     /\ pc' = [pc EXCEPT ![t] = CASE over                        -> "idle"
                                  [] s = <<>> /\ ~over            -> "reset"
                                  [] s # <<>> /\ op[t] = "Reset"  -> "stop"
                                  [] s # <<>> /\ op[t] # "Reset"  -> "start"]
     /\ op' = [op EXCEPT ![t] = IF over THEN "none" ELSE @]
     /\ want' = [want EXCEPT ![t] = IF over THEN {} ELSE @]

Call(t) ==
  /\ pc[t] = "idle" /\ calls < MaxCalls
  /\ calls' = calls + 1

(* One device done, whether it worked or not, the loop goes on.              *)
BugNextDevices(t) == <<>>
NextDevices(t)    == Tail(todo[t])

Begin(t, o, at) ==
  /\ Call(t)
  /\ pc' = [pc EXCEPT ![t] = at]
  /\ op' = [op EXCEPT ![t] = o]

-----------------------------------------------------------------------------
(* msptiActivityEnable: the switch is set before the devices are copied.     *)
RegisterSwitch(t, k) ==
  /\ Begin(t, "Register", "append")
  /\ switch' = switch \union {k}
  /\ want' = [want EXCEPT ![t] = {k}]
  /\ alone' = FALSE
  /\ UNCHANGED <<append, devices, devMtx, taskVars, cannVars, subVars, chanVars,
                 todo, left, excused, cannLeft>>

RegisterAppend(t) ==
  /\ pc[t] = "append"
  /\ append' = append \union want[t]
  /\ pc' = [pc EXCEPT ![t] = "copy"]
  /\ UNCHANGED <<switch, devices, devMtx, taskVars, cannVars, subVars, chanVars,
                 op, want, todo, left, histVars, calls>>

RegisterCopy(t) ==
  /\ pc[t] = "copy" /\ devMtx = NoThread
  /\ \E s \in SetToSeqs(devices) : DevLoop(t, s)
  /\ UNCHANGED <<amVars, taskVars, cannVars, subVars, chanVars, left,
                 histVars, calls>>

(* msptiActivityDisable leaves the tasks of the device as they are.          *)
UnRegister(t, k) ==
  /\ Call(t) /\ k \in switch
  /\ switch' = switch \ {k}
  /\ UNCHANGED <<append, devices, devMtx, taskVars, cannVars, subVars, chanVars,
                 callVars, histVars>>

(* SetDevice, called back by CANN while the callback is registered.          *)
SetDeviceInsert(t, d) ==
  /\ subscribed /\ devMtx = NoThread
  /\ d \notin devices
  /\ Begin(t, "SetDevice", "check")
  /\ devices' = devices \union {d}
  /\ todo' = [todo EXCEPT ![t] = <<d>>]
  /\ alone' = FALSE
  /\ UNCHANGED <<switch, append, devMtx, taskVars, cannVars, subVars, chanVars,
                 want, left, excused, cannLeft>>

SetDeviceCheck(t) ==
  /\ pc[t] = "check"
  /\ DevLoop(t, IF switch = {} THEN <<>> ELSE todo[t])
  /\ UNCHANGED <<amVars, taskVars, cannVars, subVars, chanVars, left,
                 histVars, calls>>

-----------------------------------------------------------------------------
(* StartDevProfTask of the device in hand: first the CANN command, which     *)
(* carries every kind configured so far, then the loop over the kinds.       *)
Device(t)     == Head(todo[t])
Reachable(d)  == d \in Online /\ DevChannels[d] # {}
Configured(t) == profSwitch \/ KindsOf(t) \intersect CannKinds # {}

StartCann(t) ==
  /\ pc[t] = "start" /\ Reachable(Device(t))
  /\ profSwitch' = Configured(t)
  /\ cann' = IF Configured(t) THEN cann \union {Device(t)} ELSE cann
  /\ pc' = [pc EXCEPT ![t] = "tasks"]
  /\ UNCHANGED <<amVars, taskVars, subVars, chanVars, op, want, todo, left,
                 histVars, calls>>

GiveUp(t) ==
  /\ excused' = excused \union ({Device(t)} \X KindsOf(t))
  /\ DevLoop(t, NextDevices(t))
  /\ UNCHANGED <<amVars, taskVars, subVars, chanVars, cann, left,
                 cannLeft, alone, calls>>

StartUnreachable(t) ==
  /\ pc[t] = "start" /\ ~Reachable(Device(t))
  /\ GiveUp(t)
  /\ UNCHANGED profSwitch

StartCannFails(t) ==
  /\ pc[t] = "start" /\ Reachable(Device(t)) /\ Configured(t)
  /\ profSwitch' = TRUE
  /\ GiveUp(t)

LockTasks(t) ==
  /\ pc[t] = "tasks" /\ taskMtx = NoThread
  /\ taskMtx' = t
  /\ left' = [left EXCEPT ![t] = Kinds]
  /\ pc' = [pc EXCEPT ![t] = "kinds"]
  /\ UNCHANGED <<amVars, tasks, ref, cannVars, subVars, chanVars, op, want,
                 todo, histVars, calls>>

(* The next kind is dealt with; after the last one the lock is released.     *)
NextKind(t) ==
  /\ left' = [left EXCEPT ![t] = @ \ {Min(@)}]
  /\ IF left'[t] = {}
     THEN taskMtx' = NoThread /\ DevLoop(t, NextDevices(t))
     ELSE UNCHANGED <<taskMtx, pc, op, want, todo>>

(* The channels of C that n tasks of device d use.                           *)
Used(d, C, n) == {<<d, c>> : c \in {b \in C : ref[<<d, b>>] = n}}

(* StartTask of the channels in C: only the first user starts the driver's   *)
(* job, and the reader is added before that is known to work.                *)
StartTasks(d, C) ==
  LET first == Used(d, C, 0)
      tried == {x \in first : x[2] \in DevChannels[d]}
  IN /\ ref' = [x \in DOMAIN ref |-> IF x \in {d} \X C THEN ref[x] + 1 ELSE ref[x]]
     /\ readers' = IF pool THEN readers \union tried ELSE readers
     /\ \E ok \in SUBSET tried :
          /\ running' = running \union ok
          /\ notStarted' = notStarted \union (first \ ok)
          /\ notStopped' = notStopped \ ok
     /\ unread' = IF pool THEN unread \ tried ELSE unread \union tried

BugRestart(d, k)  == FALSE
BugStopAny(d, k)  == TRUE
Runs(d, k)        == <<d, k>> \in tasks

StartKind(t) ==
  LET k == Min(left[t])
      d == Device(t)
  IN /\ pc[t] = "kinds" /\ op[t] # "Reset"
     /\ k \in KindsOf(t) /\ ~Runs(d, k)
     /\ tasks' = tasks \union {<<d, k>>}
     /\ StartTasks(d, ChannelsOf[k])
     /\ excused' = excused \ {<<d, k>>}
     /\ NextKind(t)
     /\ UNCHANGED <<amVars, cannVars, subVars, cannLeft, alone, calls>>

SkipKind(t) ==
  LET k == Min(left[t])
  IN /\ pc[t] = "kinds"
     /\ \/ k \notin KindsOf(t)
        \/ Runs(Device(t), k) <=> op[t] # "Reset"
     /\ NextKind(t)
     /\ UNCHANGED <<amVars, tasks, ref, cannVars, subVars, chanVars, histVars,
                    calls>>

-----------------------------------------------------------------------------
(* msptiUnsubscribe: ResetAllDevice, under devices_mtx_, stops every kind    *)
(* that was ever enabled; then the callback and the pool go.                 *)
ResetBegin(t) ==
  /\ Call(t) /\ devMtx = NoThread
  /\ devMtx' = t
  /\ op' = [op EXCEPT ![t] = "Reset"]
  /\ \E s \in SetToSeqs(devices) :
       /\ todo' = [todo EXCEPT ![t] = s]
       /\ pc' = [pc EXCEPT ![t] = IF s = <<>> THEN "reset" ELSE "stop"]
  /\ alone' = \A u \in Threads : op[u] \notin {"Register", "SetDevice"}
  /\ UNCHANGED <<switch, append, devices, taskVars, cannVars, subVars, chanVars,
                 want, left, excused, cannLeft>>

StopCann(t) ==
  /\ pc[t] = "stop" /\ Device(t) \in Online
  /\ cann' = IF profSwitch THEN cann \ {Device(t)} ELSE cann
  /\ cannLeft' = cannLeft \ {Device(t)}
  /\ pc' = [pc EXCEPT ![t] = "tasks"]
  /\ UNCHANGED <<amVars, taskVars, profSwitch, subVars, chanVars, op, want,
                 todo, left,
                 excused, alone, calls>>

StopGivesUp(t) ==
  /\ pc[t] = "stop"
  /\ \/ Device(t) \notin Online /\ UNCHANGED cannLeft
     \/ Device(t) \in Online /\ profSwitch /\ cannLeft' = cannLeft \union {Device(t)}
  /\ DevLoop(t, NextDevices(t))
  /\ UNCHANGED <<amVars, taskVars, cannVars, subVars, chanVars, left,
                 excused, alone, calls>>

(* StopTask of the channels in C: only the last user stops the driver's job, *)
(* and the reader stays with a job that could not be stopped.                *)
BugLastUsed(d, C) == {d} \X C
LastUsed(d, C)    == Used(d, C, 1)

StopTasks(d, C) ==
  LET last == LastUsed(d, C)
  IN /\ ref' = [x \in DOMAIN ref |-> IF x \in {d} \X C THEN ref[x] - 1 ELSE ref[x]]
     /\ notStarted' = notStarted \ last
     /\ \E ok \in SUBSET last :
          /\ running' = running \ ok
          /\ readers' = readers \ ok
          /\ unread' = unread \ ok
          /\ notStopped' = (notStopped \ ok) \union (last \ ok)

StopKind(t) ==
  LET k == Min(left[t])
      d == Device(t)
  IN /\ pc[t] = "kinds" /\ op[t] = "Reset"
     /\ k \in KindsOf(t) /\ Runs(d, k)
     /\ tasks' = tasks \ {<<d, k>>}
     /\ StopTasks(d, ChannelsOf[k])
     /\ excused' = excused \union {<<d, k>>}
     /\ NextKind(t)
     /\ UNCHANGED <<amVars, cannVars, subVars, cannLeft, alone, calls>>

ResetEnd(t) ==
  /\ pc[t] = "reset"
  /\ devMtx' = NoThread
  /\ op' = [op EXCEPT ![t] = "none"]
  /\ pc' = [pc EXCEPT ![t] = IF subscribed THEN "uninit" ELSE "idle"]
  /\ UNCHANGED <<switch, append, devices, taskVars, cannVars, subVars, chanVars,
                 want, todo, left, histVars, calls>>

UnsubscribeCallbacks(t) ==
  /\ pc[t] = "uninit"
  /\ subscribed' = FALSE
  /\ pc' = [pc EXCEPT ![t] = "poolgone"]
  /\ UNCHANGED <<amVars, taskVars, cannVars, pool, chanVars, op, want, todo,
                 left, histVars, calls>>

UnsubscribePool(t) ==
  /\ pc[t] = "poolgone"
  /\ pool' = FALSE /\ readers' = {}
  /\ pc' = [pc EXCEPT ![t] = "idle"]
  /\ UNCHANGED <<amVars, taskVars, cannVars, subscribed, running, notStarted,
                 notStopped,
                 unread, op, want, todo, left, histVars, calls>>

(* msptiSubscribe: the device-state callback first, the pool after it; that  *)
(* the pool could not be created is not noticed.                             *)
Subscribe(t) ==
  /\ Call(t) /\ ~subscribed
  /\ pc' = [pc EXCEPT ![t] = "pool"]
  /\ subscribed' = TRUE
  /\ UNCHANGED <<amVars, taskVars, cannVars, pool, chanVars, op, want, todo,
                 left, histVars>>

SubscribePool(t) ==
  /\ pc[t] = "pool"
  /\ pool' \in {pool, TRUE}
  /\ unread' = IF pool THEN unread ELSE unread \union running
  /\ pc' = [pc EXCEPT ![t] = "idle"]
  /\ UNCHANGED <<amVars, taskVars, cannVars, subscribed, readers, running,
                 notStarted,
                 notStopped, op, want, todo, left, histVars, calls>>

Step == \E t \in Threads :
  \/ \E k \in Kinds : RegisterSwitch(t, k) \/ UnRegister(t, k)
  \/ RegisterAppend(t) \/ RegisterCopy(t)
  \/ \E d \in Devices : SetDeviceInsert(t, d)
  \/ SetDeviceCheck(t)
  \/ StartCann(t) \/ StartUnreachable(t) \/ StartCannFails(t)
  \/ LockTasks(t) \/ StartKind(t) \/ SkipKind(t)
  \/ ResetBegin(t) \/ StopCann(t) \/ StopGivesUp(t) \/ StopKind(t) \/ ResetEnd(t)
  \/ UnsubscribeCallbacks(t) \/ UnsubscribePool(t)
  \/ Subscribe(t) \/ SubscribePool(t)

(* The bound on the calls is the only reason to stop: a state in which a     *)
(* call cannot go on is a deadlock.                                          *)
Quiescent == \A t \in Threads : pc[t] = "idle"
AllDone   == Quiescent /\ calls = MaxCalls /\ UNCHANGED vars

Next == Step \/ AllDone

Spec == Init /\ [][Next]_vars

-----------------------------------------------------------------------------
(* Types; and the tasks, the counts and the driver's jobs stay among the     *)
(* devices and channels that exist (dev_task_manager.h:66-68,                *)
(* dev_prof_task.cpp:131-283).                                               *)
TypeOK ==
  /\ switch \subseteq Kinds /\ append \subseteq Kinds /\ devices \subseteq Devices
  /\ devMtx \in Threads \union {NoThread} /\ taskMtx \in Threads \union {NoThread}
  /\ tasks \subseteq Devices \X Kinds /\ excused \subseteq Devices \X Kinds
  /\ ref \in [Devices \X Channels -> 0..Cardinality(Kinds)]
  /\ {profSwitch, subscribed, pool, alone} \subseteq BOOLEAN
  /\ readers \union running \union notStarted \union notStopped \union unread
       \subseteq Devices \X Channels
  /\ cann \union cannLeft \subseteq Devices /\ calls \in 0..MaxCalls
  /\ pc \in [Threads -> {"idle", "append", "copy", "check", "start", "tasks", "kinds",
                         "stop", "reset", "uninit", "poolgone", "pool"}]
  /\ op \in [Threads -> {"none", "Register", "SetDevice", "Reset"}]
  /\ \A t \in Threads : /\ want[t] \subseteq Kinds /\ left[t] \subseteq Kinds
                        /\ Range(todo[t]) \subseteq Devices

(* The reference count of a channel is the number of kinds whose task uses   *)
(* it, although a kind may be enabled again while its task is running.       *)
RefCountsMatchTasks ==
  \A d \in Devices, c \in Channels :
    ref[<<d, c>>] = Cardinality({k \in Kinds : <<d, k>> \in tasks /\ c \in ChannelsOf[k]})

(* "Start with the first enable, stop with the last" (dev_prof_task.cpp:129, *)
(* 208): the driver's job of a channel runs exactly while some task needs    *)
(* it, unless the driver itself refused to start or to stop it.              *)
ChannelRunsWhileNeeded ==
  \A x \in Devices \X Channels :
    /\ ref[x] > 0 => x \in running \union notStarted
    /\ ref[x] = 0 => x \notin running \/ x \in notStopped

(* A channel that runs is drained by a reader, also after a failed ProfStop, *)
(* unless it was running when the pool was created; and no reader is left    *)
(* behind for a channel that nobody uses.                                    *)
RunningIsDrained ==
  /\ pool => running \subseteq readers \union unread
  /\ \A x \in readers : ref[x] > 0 \/ x \in notStopped

(* Job, reference count and reader of a channel belong together.             *)
ChannelServed == ChannelRunsWhileNeeded /\ RunningIsDrained

(* Enable and set-device may come in any order and overlap (Register sets    *)
(* the switch, then copies devices_; SetDevice inserts, then looks at the    *)
(* switch): when every call has returned, an enabled kind has its task on    *)
(* every device, or a start was given up, or a reset stopped it.             *)
EnabledIsStarted ==
  Quiescent =>
    \A d \in devices, k \in switch : <<d, k>> \in tasks \union excused

(* ResetAllDevice that no start overlaps stops the tasks of every kind that  *)
(* was ever enabled, disabled ones too, on all devices, but for the failures *)
(* of the driver and of CANN.                                                *)
UnsubscribeStopsAll ==
  \A t \in Threads : (pc[t] = "reset" /\ alone) =>
    /\ \A x \in tasks : x[1] \in cannLeft
    /\ \A x \in running : x[1] \in cannLeft \/ x \in notStopped
    /\ cann \subseteq cannLeft
=============================================================================
