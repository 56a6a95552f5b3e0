----------------------------- MODULE HostRecords -----------------------------
(***************************************************************************)
(* What mspti records of the application's calls of the ACL runtime:       *)
(*   csrc/common/inject/{acl_mem_inject,acl_inject}.cpp                    *)
(*   csrc/activity/ascend/reporter/{memory_reporter,                       *)
(*                                  external_correlation_reporter}.cpp     *)
(*   csrc/common/context_manager.cpp (correlation ids)                     *)
(*                                                                         *)
(* Each traced function takes a correlation id, reports the external ids   *)
(* that are pushed, runs the user's callback, the runtime's function, and  *)
(* then, in the destructor of a local variable, records what was done.     *)
(* The record comes after the memory has changed hands: another thread may *)
(* be faster.                                                              *)
(*                                                                         *)
(* One step is one critical section, or the accesses to what belongs to    *)
(* the thread alone.  The start and end of a record are times of HostTime; *)
(* Markers has the synchronisation that may come in between.  The buffers  *)
(* that take the records are in ActivityManager.                           *)
(***************************************************************************)
EXTENDS Naturals, Sequences, FiniteSets, Functions, SequencesExt, HostTime

CONSTANTS
  Threads,       (* of the application                                     *)
  Addrs,         (* addresses of device memory                             *)
  Sizes,         (* bytes that are asked for                               *)
  Fns,           (* the traced functions that are called                   *)
  CopyKinds,     (* aclrtMemcpyKind of the copies                          *)
  ExtKinds,      (* msptiExternalCorrelationKind                           *)
  ExtIds,        (* ids that are pushed                                    *)
  MaxCalls,      (* bounds: traced calls,                                  *)
  MaxPushes,     (*   pushes and pops,                                     *)
  MaxFaults,     (*   failing functions, switches of kinds, nested calls,  *)
  MaxWork        (*   all of these together                                *)

Null     == 0                    \* the null pointer
NoCall   == <<>>
NoStream == FALSE                \* MSPTI_INVALID_STREAM_ID
Stream   == TRUE                 \* the stream of the call
Kinds    == {"MEMORY", "MEMCPY", "MEMSET", "EXTERNAL_CORRELATION"}
Allocs   == {"aclrtMalloc", "aclrtMallocWithCfg", "aclrtMallocForTaskScheduler",
             "aclrtMallocCached", "aclrtReserveMemAddress"}
Releases == {"aclrtFree", "aclrtReleaseMemAddress"}
SyncCopies  == {"aclrtMemcpy", "aclrtMemcpy2d"}
AsyncCopies == {"aclrtMemcpyAsync", "aclrtMemcpy2dAsync"}
Memsets  == {"aclrtMemset", "aclrtMemsetAsync"}
HostCalls == {"aclrtMallocHost", "aclrtFreeHost", "aclrtMemFlush", "aclrtMemInvalidate",
              "aclrtGetMemInfo"}
PhysicalCalls == {"aclrtMallocPhysical", "aclrtFreePhysical", "aclrtMemExportToShareableHandle",
                  "aclrtMemImportFromShareableHandle", "aclrtMemSetPidToShareableHandle"}
Launches == {"aclrtLaunchKernel", "aclrtLaunchKernelV2", "aclrtLaunchKernelWithConfig",
             "aclrtLaunchKernelWithHostArgs"}
AllFns   == Allocs \cup Releases \cup SyncCopies \cup AsyncCopies \cup Memsets
              \cup HostCalls \cup PhysicalCalls \cup Launches
Async    == AsyncCopies \cup {"aclrtMemsetAsync"}

ASSUME HostRecordsAssumption ==
  /\ Addrs \subseteq Nat \ {Null} /\ Sizes \subseteq Nat \ {0}
  /\ Fns \subseteq AllFns
  /\ {MaxCalls, MaxPushes, MaxFaults, MaxWork} \subseteq Nat

VARIABLES
  enabled,                  (* kinds that are enabled                      *)
  correlationId,            (* correlationId_                              *)
  threadCorrelationIdInfo,  (* threadCorrelationIdInfo_                    *)
  externalCorrelationMap,   (* kind -> stack of ids; never an empty stack  *)
  addrBytesInfo,            (* addrBytesInfo_: address -> bytes            *)
  heap,                     (* of the device: address -> its block         *)
  records,                  (* what was given to ActivityManager::Record   *)
  pc, call,                 (* of a thread                                 *)
  calls, pushes, faults,
  \* --- history, read by properties only
  own,                      (* thread, kind -> the stack it would have,    *)
                            (*   were stacks kept for each thread          *)
  users,                    (* kind -> threads that pushed or popped it    *)
  blurred                   (* addresses whose entry may be of another     *)
                            (*   block, for the reasons Blur names         *)

idVars   == <<correlationId, threadCorrelationIdInfo>>
extVars  == <<externalCorrelationMap, own, users, pushes>>
memVars  == <<addrBytesInfo, blurred>>
callVars == <<pc, call>>
vars == <<enabled, idVars, extVars, memVars, heap, records, callVars, calls, faults>>

Put(f, x, y) == [z \in DOMAIN f \cup {x} |-> IF z = x THEN y ELSE f[z]]
Without(f, x) == [z \in DOMAIN f \ {x} |-> f[z]]

Init ==
  /\ enabled = Kinds
  /\ correlationId = 1 /\ threadCorrelationIdInfo = <<>>
  /\ externalCorrelationMap = <<>>
  /\ addrBytesInfo = <<>>
  /\ heap = <<>>
  /\ records = {}
  /\ pc = [t \in Threads |-> "idle"] /\ call = [t \in Threads |-> NoCall]
  /\ calls = 0 /\ pushes = 0 /\ faults = 0
  /\ own = [t \in Threads |-> [k \in ExtKinds |-> <<>>]]
  /\ users = [k \in ExtKinds |-> {}]
  /\ blurred = {}

Work  == calls + pushes + faults < MaxWork
Fault == Work /\ faults < MaxFaults /\ faults' = faults + 1

(* A kind is enabled or disabled.                                          *)
Switch ==
  /\ Fault
  /\ \E k \in Kinds : enabled' = SymDiff(enabled, {k})
  /\ UNCHANGED <<idVars, extVars, memVars, heap, records, callVars, calls>>

-----------------------------------------------------------------------------
(* ExternalCorrelationReporter: the stacks belong to all threads.          *)

PushExternalCorrelationId(t) ==
  /\ Work /\ pushes < MaxPushes /\ pushes' = pushes + 1
  /\ pc[t] = "idle"
  /\ \E k \in ExtKinds, i \in ExtIds :
       /\ externalCorrelationMap' =
            Put(externalCorrelationMap, k,
                IF k \in DOMAIN externalCorrelationMap
                THEN Append(externalCorrelationMap[k], i) ELSE <<i>>)
       /\ own' = [own EXCEPT ![t][k] = Append(@, i)]
       /\ users' = [users EXCEPT ![k] = @ \cup {t}]
  /\ UNCHANGED <<enabled, idVars, memVars, heap, records, callVars, calls, faults>>

(* Bugs: the kind stays with an empty stack, of which there is no top; the  *)
(* kind goes with ids left.                                                 *)
BugKeepEmpty(map, k) == Put(map, k, Front(map[k]))
BugDropKind(map, k) == Without(map, k)

PopStack(map, k) ==
  IF Len(map[k]) = 1 THEN Without(map, k) ELSE Put(map, k, Front(map[k]))

(* A call without a place for the id, or with nothing to pop, fails.       *)
PopExternalCorrelationId(t) ==
  /\ Work /\ pushes < MaxPushes /\ pushes' = pushes + 1
  /\ pc[t] = "idle"
  /\ \E k \in DOMAIN externalCorrelationMap :
       /\ externalCorrelationMap' = PopStack(externalCorrelationMap, k)
       /\ own' = [own EXCEPT ![t][k] = IF @ = <<>> THEN @ ELSE Front(@)]
       /\ users' = [users EXCEPT ![k] = @ \cup {t}]
  /\ UNCHANGED <<enabled, idVars, memVars, heap, records, callVars, calls, faults>>

ExternalRecords(id) ==
  IF "EXTERNAL_CORRELATION" \notin enabled THEN {}
  ELSE {[kind |-> "EXTERNAL_CORRELATION", correlationId |-> id,
         externalKind |-> k, externalId |-> Last(externalCorrelationMap[k])]
          : k \in DOMAIN externalCorrelationMap}

-----------------------------------------------------------------------------
(* A traced call.                                                          *)

(* Its arguments: a pointer that is released is one that a call returned,   *)
(* and is released once.                                                    *)
Args ==
  LET arg(f, a, n, c) == [fn |-> f, addr |-> a, bytes |-> n, copyKind |-> c] IN
  {arg(f, Null, n, "NONE") : f \in Fns \cap (Allocs \cup Memsets), n \in Sizes}
  \cup {arg(f, Null, n, c) : f \in Fns \cap (SyncCopies \cup AsyncCopies), n \in Sizes, c \in CopyKinds}
  \cup {arg(f, a, 0, "NONE") : f \in Fns \cap Releases, a \in {a \in DOMAIN heap : heap[a].returned}}
  \cup {arg(f, Null, 0, "NONE") : f \in Fns \cap (HostCalls \cup PhysicalCalls \cup Launches)}

(* UpdateAndReportCorrelationId takes the id ...                           *)
Enter(t) ==
  /\ Work /\ calls < MaxCalls /\ calls' = calls + 1
  /\ pc[t] = "idle"
  /\ \E arg \in Args :
       /\ call' = [call EXCEPT ![t] = [arg |-> arg, id |-> correlationId, addr |-> arg.addr,
                                    bytes |-> arg.bytes, ok |-> TRUE, nested |-> FALSE,
                                    external |-> {}, alone |-> {}]]
       /\ heap' = IF arg.fn \in Releases THEN [heap EXCEPT ![arg.addr].returned = FALSE] ELSE heap
  /\ correlationId' = correlationId + 1
  /\ pc' = [pc EXCEPT ![t] = "entered"]
  /\ UNCHANGED <<enabled, threadCorrelationIdInfo, extVars, memVars, records, faults>>

(* ... reports the external ids in one section, and only then files the     *)
(* call's id for the thread, of which no other thread reads it.  What the   *)
(* thread has pushed itself, for kinds no other thread uses, is noted.      *)
ReportExternalCorrelationId(t) ==
  LET alone == {k \in ExtKinds : users[k] \subseteq {t}} IN
  /\ pc[t] = "entered"
  /\ records' = records \cup ExternalRecords(call[t].id)
  /\ threadCorrelationIdInfo' = Put(threadCorrelationIdInfo, t, call[t].id)
  /\ call' = [call EXCEPT ![t].alone = alone,
                          ![t].external =
                            IF "EXTERNAL_CORRELATION" \notin enabled THEN {}
                            ELSE {<<k, Last(own[t][k])>> : k \in {k \in alone : own[t][k] # <<>>}}]
  /\ pc' = [pc EXCEPT ![t] = "called"]
  /\ UNCHANGED <<enabled, correlationId, extVars, memVars, heap, calls, faults>>

(* The user's callback, or the runtime itself, calls a traced function of   *)
(* the kind that leaves no record of its own.                               *)
NestedCall(t) ==
  /\ Fault
  /\ pc[t] = "called"
  /\ records' = records \cup ExternalRecords(correlationId)
  /\ threadCorrelationIdInfo' = Put(threadCorrelationIdInfo, t, correlationId)
  /\ correlationId' = correlationId + 1
  /\ call' = [call EXCEPT ![t].nested = TRUE]
  /\ UNCHANGED <<enabled, extVars, memVars, heap, pc, calls>>

(* The runtime's function.  An allocation that fails leaves what was in the *)
(* caller's pointer before.                                                 *)
Allocate(t) ==
  /\ pc[t] = "called" /\ call[t].arg.fn \in Allocs
  /\ \/ \E a \in Addrs \ DOMAIN heap :
          /\ heap' = Put(heap, a, [bytes |-> call[t].bytes, returned |-> FALSE])
          /\ call' = [call EXCEPT ![t].addr = a]
          /\ UNCHANGED faults
     \/ /\ Fault
        /\ \E a \in Addrs \cup {Null} : call' = [call EXCEPT ![t].addr = a, ![t].ok = FALSE]
        /\ UNCHANGED heap
  /\ pc' = [pc EXCEPT ![t] = "done"]
  /\ UNCHANGED <<enabled, idVars, extVars, memVars, records, calls>>

Release(t) ==
  LET a == call[t].addr IN
  /\ pc[t] = "called" /\ call[t].arg.fn \in Releases
  /\ \/ /\ heap' = Without(heap, a)
        /\ UNCHANGED faults
     \/ Fault /\ UNCHANGED heap
  /\ call' = [call EXCEPT ![t].bytes = heap[a].bytes, ![t].ok = heap' # heap]
  /\ pc' = [pc EXCEPT ![t] = "done"]
  /\ UNCHANGED <<enabled, idVars, extVars, memVars, records, calls>>

(* A copy, a memset and the others change nothing here.                    *)
Perform(t) ==
  /\ pc[t] = "called" /\ call[t].arg.fn \notin Allocs \cup Releases
  /\ pc' = [pc EXCEPT ![t] = "done"]
  /\ UNCHANGED <<enabled, idVars, extVars, memVars, heap, records, call, calls, faults>>

-----------------------------------------------------------------------------
(* The destructors of MemoryRecord, MemcpyRecord and MemsetRecord.         *)

GetCorrelationId(t) ==
  IF t \in DOMAIN threadCorrelationIdInfo THEN threadCorrelationIdInfo[t] ELSE 0

GetMsptiMemcpyKind(kind) ==
  CASE kind = "HOST_TO_HOST" -> "HTOH"
    [] kind \in {"HOST_TO_DEVICE", "HOST_TO_BUF_TO_DEVICE"} -> "HTOD"
    [] kind = "DEVICE_TO_HOST" -> "DTOH"
    [] kind = "DEVICE_TO_DEVICE" -> "DTOD"
    [] kind = "DEFAULT" -> "DEFAULT"
    [] OTHER -> "UNKNOWN"

(* Bug: an address that is known keeps its bytes when it is allocated again. *)
BugTrack(a, bytes) == IF a \in DOMAIN addrBytesInfo THEN addrBytesInfo ELSE Put(addrBytesInfo, a, bytes)

Track(a, bytes) == Put(addrBytesInfo, a, bytes)

MemoryRecord(t, size, sure) ==
  [kind |-> "MEMORY", correlationId |-> GetCorrelationId(t),
   memoryOperationType |-> IF call[t].arg.fn \in Allocs THEN "ALLOCATION" ELSE "RELEASE",
   address |-> call[t].addr, bytes |-> size, of |-> call[t], sure |-> sure]

(* The entry of an address is of another block, or of none, when a release  *)
(* is still to be reported while the address is given out again, when a     *)
(* call that failed is reported like one that did not, and when an          *)
(* allocation is not reported because the kind is disabled.                 *)
ReleasedUnreported(a, t) ==
  \E u \in Threads \ {t} :
    /\ pc[u] = "done" /\ call[u].ok
    /\ call[u].arg.fn \in Releases /\ call[u].addr = a

Blur(t) ==
  LET a == call[t].addr  alloc == call[t].arg.fn \in Allocs IN
  IF "MEMORY" \notin enabled
  THEN IF alloc /\ call[t].ok THEN blurred \cup {a} ELSE blurred
  ELSE IF ~call[t].ok \/ (alloc /\ ReleasedUnreported(a, t)) THEN blurred \cup {a}
  ELSE IF alloc THEN blurred \ {a} ELSE blurred

(* A block that was allocated, or not released, is the caller's from now.  *)
ReportMemoryActivity(t) ==
  LET a == call[t].addr
      known == a \in DOMAIN addrBytesInfo
      alloc == call[t].arg.fn \in Allocs
  IN
  /\ pc[t] = "done" /\ call[t].arg.fn \in Allocs \cup Releases
  /\ IF "MEMORY" \notin enabled THEN UNCHANGED <<addrBytesInfo, records>>
     ELSE /\ addrBytesInfo' = IF alloc THEN Track(a, call[t].bytes) ELSE Without(addrBytesInfo, a)
          /\ records' = records \cup
               {MemoryRecord(t, IF alloc THEN call[t].bytes
                                ELSE IF known THEN addrBytesInfo[a] ELSE 0,
                             call[t].ok /\ (alloc \/ a \notin blurred))}
  /\ blurred' = Blur(t)
  /\ heap' = IF alloc = call[t].ok THEN [heap EXCEPT ![a].returned = TRUE] ELSE heap
  /\ pc' = [pc EXCEPT ![t] = "idle"] /\ call' = [call EXCEPT ![t] = NoCall]
  /\ UNCHANGED <<enabled, idVars, extVars, calls, faults>>

ReportMemcpyActivity(t) ==
  [kind |-> "MEMCPY", copyKind |-> GetMsptiMemcpyKind(call[t].arg.copyKind),
   bytes |-> call[t].bytes, correlationId |-> GetCorrelationId(t),
   streamId |-> IF call[t].arg.fn \in Async THEN Stream ELSE NoStream,
   of |-> call[t], sure |-> TRUE]

ReportMemsetActivity(t) ==
  [kind |-> "MEMSET", bytes |-> call[t].bytes, correlationId |-> GetCorrelationId(t),
   streamId |-> IF call[t].arg.fn \in Async THEN Stream ELSE NoStream,
   of |-> call[t], sure |-> TRUE]

Leave(t) ==
  LET fn == call[t].arg.fn IN
  /\ pc[t] = "done" /\ fn \notin Allocs \cup Releases
  /\ records' = records \cup
       (CASE fn \in SyncCopies \cup AsyncCopies /\ "MEMCPY" \in enabled -> {ReportMemcpyActivity(t)}
          [] fn \in Memsets /\ "MEMSET" \in enabled -> {ReportMemsetActivity(t)}
          [] OTHER -> {})
  /\ pc' = [pc EXCEPT ![t] = "idle"] /\ call' = [call EXCEPT ![t] = NoCall]
  /\ UNCHANGED <<enabled, idVars, extVars, memVars, heap, calls, faults>>

-----------------------------------------------------------------------------
Next ==
  \/ Switch
  \/ \E t \in Threads :
       \/ PushExternalCorrelationId(t) \/ PopExternalCorrelationId(t)
       \/ Enter(t) \/ ReportExternalCorrelationId(t) \/ NestedCall(t)
       \/ Allocate(t) \/ Release(t) \/ Perform(t)
       \/ ReportMemoryActivity(t) \/ Leave(t)

Spec == Init /\ [][Next]_vars

-----------------------------------------------------------------------------
(* Every variable has its type; a kind in the map has an id on its stack,   *)
(* of which ReportExternalCorrelationId takes the top without looking.      *)
TypeOK ==
  /\ enabled \subseteq Kinds
  /\ correlationId \in Nat \ {0}
  /\ DOMAIN threadCorrelationIdInfo \subseteq Threads
  /\ \A t \in DOMAIN threadCorrelationIdInfo :
       threadCorrelationIdInfo[t] \in 1 .. correlationId - 1
  /\ DOMAIN externalCorrelationMap \subseteq ExtKinds
  /\ \A k \in DOMAIN externalCorrelationMap :
       externalCorrelationMap[k] \in Seq(ExtIds) \ {<<>>}
  /\ DOMAIN addrBytesInfo \subseteq Addrs \cup {Null}
  /\ DOMAIN heap \subseteq Addrs
  /\ \A r \in records : r.kind \in Kinds /\ r.correlationId \in 1 .. correlationId - 1
  /\ \A t \in Threads : /\ pc[t] \in {"idle", "entered", "called", "done"}
                        /\ (pc[t] = "idle") = (call[t] = NoCall)

(* A record of a memory call has the correlation id of its call unless a    *)
(* traced call was made within it, the address and the bytes of the call,   *)
(* and a release the bytes of the block it released, which it has from the  *)
(* table that reports fill later than the memory changes hands: wrong only  *)
(* in the cases that Blur names.                                            *)
MemoryExact ==
  \A r \in {r \in records : r.kind # "EXTERNAL_CORRELATION"} :
    /\ r.of.nested \/ r.correlationId = r.of.id
    /\ r.sure => /\ r.bytes = r.of.bytes
                 /\ r.kind = "MEMORY" => r.address = r.of.addr
    /\ r.kind \in {"MEMCPY", "MEMSET"} => (r.streamId = NoStream) = (r.of.arg.fn \notin Async)

(* When a call is under way, the external records with its correlation id   *)
(* name, for each kind that no other thread uses, the id that its thread    *)
(* pushed last and has not popped, and there is none for a kind of which it *)
(* has popped all: so the record of the call, which comes later, is         *)
(* preceded by the external ids of the thread.  With the same kind in use   *)
(* by two threads the ids of one are given to the calls of the other.       *)
ExternalIds ==
  \A t \in Threads : pc[t] \in {"called", "done"} =>
    {<<r.externalKind, r.externalId>> :
       r \in {r \in records : /\ r.kind = "EXTERNAL_CORRELATION"
                              /\ r.correlationId = call[t].id
                              /\ r.externalKind \in call[t].alone}} = call[t].external

(* The times of a call's records are the exact times of its counters        *)
(* (context_manager.cpp), whenever these fit the words they are computed in; *)
(* all counters are tried at the first call, for nothing they depend on     *)
(* changes afterwards.                                                      *)
TimesExact ==
  [][calls' > calls /\ calls + pushes + faults = 0 => ConversionExact]_vars
=============================================================================
