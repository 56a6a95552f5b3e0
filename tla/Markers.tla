------------------------------- MODULE Markers -------------------------------
(***************************************************************************)
(* Markers of the user, and the markers mspti puts around HCCL operators:  *)
(*   csrc/common/inject/mstx_inject.cpp (domains, mstx functions)          *)
(*   csrc/common/inject/{hccl_inject,hccl_range_mark}.cpp                  *)
(*   csrc/activity/ascend/parser/{mstx_parser,hccl_reporter,               *)
(*                                hccl_calculator,parser_manager}.cpp      *)
(*   csrc/activity/ascend/channel/tsfw_convert.cpp                         *)
(*                                                                         *)
(* A marker on a stream is written twice: by the host, and by the device   *)
(* when the stream gets there; the reader of the ts-fw channel reads the   *)
(* device's mark some time later.  Host and device counters are converted  *)
(* with the time information of the last synchronisation, which may come   *)
(* between the two ends of a range (the host has a counter of known        *)
(* frequency; HostRecords has the arithmetic).                             *)
(*                                                                         *)
(* One step is one critical section or access to shared state.  A call     *)
(* that returns before it changes anything is not a step.  One device      *)
(* with one stream; allocation does not fail, and the limit of 2^32        *)
(* messages and domains is not reached.                                    *)
(***************************************************************************)
EXTENDS Naturals, Sequences, FiniteSets, Bags, MstxMonitor

CONSTANTS
  Threads,       (* of the application                                     *)
  Default,       (* the name "default"                                     *)
  Names,         (* names of other domains                                 *)
  StartsWith,    (* <<name, prefix>>                                       *)
  Ops,           (* the HCCL functions that are called                     *)
  MaxCalls,      (* bounds: calls of mstx and HCCL functions,              *)
  MaxDomains,    (*   calls that change domains,                           *)
  MaxSyncs,      (*   synchronisations,                                    *)
  MaxFaults,     (*   failures of the driver and switches of a kind,       *)
  MaxWork        (*   all of these together                                *)

ASSUME MarkersAssumption ==
  /\ Default \notin Names
  /\ StartsWith \subseteq Names \X Names
  /\ \A n \in Names : <<n, n>> \in StartsWith
  /\ {MaxCalls, MaxDomains, MaxSyncs, MaxFaults, MaxWork} \subseteq Nat

VARIABLES
  marker, hccl,       (* whether kinds MARKER and HCCL are enabled         *)
  domains,            (* domainHandleMap_: handle -> name and flags        *)
  disableDomains,     (* disableDomains_                                   *)
  gMarkId,            (* gMarkId_                                          *)
  markId2Context,     (* open ranges: id -> stream and host time           *)
  deviceMarkId2Context,  (* id -> device time of the range's start         *)
  innerMarkIds,       (* id -> whether it has a stream                     *)
  markId2HcclOp,      (* operators under way: id -> what is known of it    *)
  hostTime, devTime,  (* number of the last synchronisation, 0 before it   *)
  channel,            (* marks of the device not read yet                  *)
  reader,             (* the mark the reader works on                      *)
  clock,              (* the device's counter                              *)
  records,            (* what was given to ActivityManager::Record         *)
  pc, call,           (* of a thread; call.quiet is history: the domains   *)
                      (*   that are disabled since the call began          *)
  calls, domainCalls, syncs, faults,
  \* --- history, read by properties and inputs only
  given,              (* ids the user has got for a range                  *)
  truth,              (* id -> what it is, and its times on the device     *)
  missed,             (* ids for which something failed or came too early  *)
  leaked              (* domains recorded nevertheless                     *)

kindVars   == <<marker, hccl>>
domainVars == <<domains, disableDomains>>
hostVars   == <<markId2Context, innerMarkIds>>
readerVars == <<deviceMarkId2Context, reader>>
timeVars   == <<hostTime, devTime, syncs>>
callVars   == <<pc, call>>
vars == <<kindVars, domainVars, gMarkId, hostVars, markId2HcclOp, readerVars,
          timeVars, channel, clock, records, callVars, calls, domainCalls, faults,
          given, truth, missed, leaked>>

NoStream == FALSE
NoMark   == <<>>
NoCall   == <<>>
None     == 0                      \* no time of a synchronisation, no time
ByName   == 0                      \* instead of a handle: the default domain
Ids      == 1 .. MaxCalls
Calls    == {"mark", "range"}
P2p      == {"HcclSend", "HcclRecv", "HcclAllReduce", "HcclBroadcast", "HcclReduce"}
Ranked   == {"HcclAllGather", "HcclReduceScatter", "HcclAlltoAll"}
AllOps   == P2p \cup Ranked \cup {"HcclScatter", "HcclAlltoAllV", "HcclBatchSendRecv"}

ASSUME OpsAssumption == Ops \subseteq AllOps

(* CalculateRealTime: each synchronisation has its own offset, beyond what  *)
(* the counter reaches, as a call leaves at most two marks; without time    *)
(* information the counter stays as it is.                                  *)
Offset == 2 * MaxCalls + 1
RealTime(count, time) == count + time * Offset

(* Times are synchronised when the first device task is made, which may or  *)
(* may not have happened yet.                                               *)
Init ==
  /\ marker = TRUE /\ hccl = TRUE
  /\ domains = <<[name |-> Default, isEnabled |-> TRUE, isDestroyed |-> FALSE]>>
  /\ disableDomains = {}
  /\ gMarkId = 0
  /\ markId2Context = <<>> /\ innerMarkIds = <<>>
  /\ deviceMarkId2Context = <<>> /\ reader = NoMark
  /\ markId2HcclOp = <<>>
  /\ hostTime \in {None, 1} /\ devTime \in {None, 1} /\ syncs = 0
  /\ channel = <<>> /\ clock = 0
  /\ records = EmptyBag
  /\ pc = [t \in Threads |-> "idle"] /\ call = [t \in Threads |-> NoCall]
  /\ calls = 0 /\ domainCalls = 0 /\ faults = 0
  /\ given = {} /\ truth = <<>> /\ missed = {}
  /\ leaked = {}

Work  == calls + domainCalls + syncs + faults < MaxWork
Fault == Work /\ faults < MaxFaults /\ faults' = faults + 1

-----------------------------------------------------------------------------
(* MstxDomainMgr: each call is one section under domainMutex_.              *)

(* Bug: a domain disabled before it was created is not found disabled.      *)
BugNewDomain(name) == [name |-> name, isEnabled |-> TRUE, isDestroyed |-> FALSE]

NewDomain(name) ==
  [name |-> name, isEnabled |-> name \notin disableDomains, isDestroyed |-> FALSE]

(* The first entry in the order of the hash table whose name the new name   *)
(* begins with is given again.                                              *)
CreateDomainHandle(name) ==
  LET known == {d \in 2 .. Len(domains) : <<name, domains[d].name>> \in StartsWith}
  IN  /\ IF known = {}
         THEN domains' = Append(domains, NewDomain(name))
         ELSE \E d \in known : domains' = [domains EXCEPT ![d].isDestroyed = FALSE]
      /\ UNCHANGED <<disableDomains, call>>

DestroyDomainHandle(d) ==
  /\ ~domains[d].isDestroyed
  /\ domains' = [domains EXCEPT ![d].isDestroyed = TRUE]
  /\ UNCHANGED <<disableDomains, call>>

SetMstxDomainEnableStatus(name, flag) ==
  /\ disableDomains' = IF flag THEN disableDomains \ {name} ELSE disableDomains \cup {name}
  /\ domains' = [d \in DOMAIN domains |->
       IF domains[d].name = name THEN [domains[d] EXCEPT !.isEnabled = flag] ELSE domains[d]]
  /\ call' = [t \in Threads |-> IF call[t] = NoCall \/ ~flag THEN call[t]
                                 ELSE [call[t] EXCEPT !.quiet = @ \ {name}]]

DomainCall ==
  /\ Work /\ domainCalls < MaxDomains
  /\ domainCalls' = domainCalls + 1
  /\ \/ \E name \in Names : CreateDomainHandle(name)
     \/ \E d \in 2 .. Len(domains) : DestroyDomainHandle(d)
     \/ \E name \in Names \cup {Default}, flag \in BOOLEAN :
          SetMstxDomainEnableStatus(name, flag)
  /\ UNCHANGED <<kindVars, gMarkId, hostVars, markId2HcclOp, readerVars, timeVars,
                 channel, clock, records, pc, calls, faults, given, truth, missed,
                 leaked>>

(* The kind of markers or of HCCL operators is switched.                    *)
Switch ==
  /\ Fault
  /\ \/ marker' = ~marker /\ UNCHANGED hccl
     \/ hccl' = ~hccl /\ UNCHANGED marker
  /\ UNCHANGED <<domainVars, gMarkId, hostVars, markId2HcclOp, readerVars, timeVars,
                 channel, clock, records, callVars, calls, domainCalls, given, truth,
                 missed, leaked>>

(* ContextManager::Run: the devices' times and then the host's.             *)
Synchronise ==
  /\ Work /\ syncs < MaxSyncs
  /\ syncs' = syncs + 1
  /\ \/ devTime' = devTime + 1 /\ UNCHANGED hostTime
     \/ hostTime' = hostTime + 1 /\ UNCHANGED devTime
  /\ UNCHANGED <<kindVars, domainVars, gMarkId, hostVars, markId2HcclOp, readerVars,
                 channel, clock, records, callVars, calls, domainCalls, faults, given,
                 truth, missed, leaked>>

-----------------------------------------------------------------------------
(* Markers of the user.                                                     *)

Goto(t, place) == pc' = [pc EXCEPT ![t] = place]

(* ActivityManager::Record drops records of disabled kinds.                 *)
Record(kind, r) == records' = IF kind THEN records (+) SetToBag({r}) ELSE records

(* What a mark on the stream leaves for the reader.                         *)
StepTrace(id, flag, count) == [id |-> id, flag |-> flag, count |-> count]

(* ProfTrace: the stream writes the mark later; the counter moves on.       *)
NotTraced == [what |-> "", start |-> None, end |-> None, mark |-> None]
ProfTrace(id, what, flag) ==
  LET old == IF id \in DOMAIN truth THEN truth[id] ELSE [NotTraced EXCEPT !.what = what]
  IN  /\ channel' = Append(channel, StepTrace(id, flag, clock + 1))
      /\ clock' = clock + 1
      /\ truth' = Put(truth, id, [old EXCEPT ![flag] = clock + 1])

NoTrace == UNCHANGED <<channel, clock, truth>>

Call(kind, via, stream, id) ==
  [kind |-> kind, via |-> via, stream |-> stream, id |-> id, name |-> Default,
   time |-> None, quiet |-> disableDomains]

(* A call of one of the mstx functions finds the kind enabled.              *)
Enter(t) ==
  /\ pc[t] = "idle" /\ marker
  /\ Work /\ calls < MaxCalls
  /\ calls' = calls + 1
  /\ \E via \in {ByName} \cup 2 .. Len(domains) :
       \/ \E kind \in Calls, stream \in BOOLEAN :
            call' = [call EXCEPT ![t] = Call(kind, via, stream, None)]
       \/ \E id \in given :
            call' = [call EXCEPT ![t] = Call("end", via, NoStream, id)]
  /\ Goto(t, "domain")
  /\ UNCHANGED <<kindVars, domainVars, gMarkId, hostVars, markId2HcclOp, readerVars,
                 timeVars, channel, clock, records, domainCalls, faults, given,
                 truth, missed, leaked>>

Leave(t) == Goto(t, "idle") /\ call' = [call EXCEPT ![t] = NoCall]

isDomainEnable(via) ==
  IF via = ByName THEN Default \notin disableDomains ELSE domains[via].isEnabled

CheckDomain(t) ==
  /\ pc[t] = "domain"
  /\ IF ~isDomainEnable(call[t].via)
     THEN Leave(t)
     ELSE Goto(t, IF call[t].via = ByName THEN call[t].kind ELSE "name") /\ UNCHANGED call
  /\ UNCHANGED <<kindVars, domainVars, gMarkId, hostVars, markId2HcclOp, readerVars,
                 timeVars, channel, clock, records, calls, domainCalls, faults, given,
                 truth, missed, leaked>>

GetDomainNameByHandle(t) ==
  LET d == domains[call[t].via]
  IN  /\ pc[t] = "name"
      /\ IF d.isDestroyed
         THEN Leave(t)
         ELSE Goto(t, call[t].kind) /\ call' = [call EXCEPT ![t].name = d.name, ![t].via = ByName]
      /\ UNCHANGED <<kindVars, domainVars, gMarkId, hostVars, markId2HcclOp, readerVars,
                     timeVars, channel, clock, records, calls, domainCalls, faults, given,
                     truth, missed, leaked>>

(* ++gMarkId_.  Bug: the first id is the invalid one, 0.                     *)
BugNewMarkId == gMarkId
NewMarkId == gMarkId + 1

(* ReportMark and ReportRangeStartA: the host's time, which a range keeps    *)
(* for its end; the new id; the mark on the stream if there is one.  Nothing *)
(* the last two do depends on the first.                                    *)
StartTrace(t) ==
  LET id == NewMarkId
      c  == call[t]
  IN  /\ pc[t] \in Calls
      /\ gMarkId' = gMarkId + 1
      /\ \/ /\ IF c.stream
               THEN ProfTrace(id, c.kind, IF c.kind = "range" THEN "start" ELSE "mark")
               ELSE NoTrace
            /\ call' = [call EXCEPT ![t].id = id, ![t].time = hostTime]
            /\ Goto(t, "record")
            /\ UNCHANGED faults
         \/ /\ c.stream /\ Fault
            /\ Leave(t)
            /\ NoTrace
      /\ UNCHANGED <<kindVars, domainVars, hostVars, markId2HcclOp, readerVars, timeVars,
                     records, calls, domainCalls, given, missed, leaked>>

(* ReportRangeEnd under rangeInfoMtx_: the time, the mark and the erasure.  *)
(* Bug: the range stays, and is ended again by another call.                *)
BugCloseRange(id) == UNCHANGED markId2Context

CloseRange(id) == markId2Context' = Without(markId2Context, id)

EndTrace(t) ==
  LET id == call[t].id
  IN  /\ pc[t] = "end"
      /\ \/ /\ id \notin DOMAIN markId2Context
            /\ Leave(t)
            /\ NoTrace /\ UNCHANGED <<markId2Context, faults>>
         \/ /\ id \in DOMAIN markId2Context
            /\ IF markId2Context[id].stream THEN ProfTrace(id, "range", "end") ELSE NoTrace
            /\ CloseRange(id)
            /\ call' = [call EXCEPT ![t].time = markId2Context[id].time]
            /\ Goto(t, "record")
            /\ UNCHANGED faults
         \/ /\ id \in DOMAIN markId2Context /\ markId2Context[id].stream
            /\ Fault
            /\ Leave(t)
            /\ NoTrace /\ UNCHANGED markId2Context
      /\ UNCHANGED <<kindVars, domainVars, gMarkId, innerMarkIds, markId2HcclOp, readerVars,
                     timeVars, records, calls, domainCalls, given, missed, leaked>>

HostFlag(kind) == CASE kind = "mark" -> "mark" [] kind = "range" -> "start" [] OTHER -> "end"

(* The host's record; a range is filed after it, and the user gets its id.  *)
RecordMark(t) ==
  LET c == call[t]
  IN  /\ pc[t] = "record"
      /\ Record(marker, [id |-> c.id, source |-> "host", flag |-> HostFlag(c.kind),
                         time |-> RealTime(0, c.time)])
      /\ leaked' = IF marker /\ c.kind \in Calls THEN leaked \cup (c.quiet \cap {c.name})
                                                 ELSE leaked
      /\ IF c.kind = "range"
         THEN /\ markId2Context' = Put(markId2Context, c.id, [stream |-> c.stream, time |-> c.time])
              /\ given' = given \cup {c.id}
         ELSE UNCHANGED <<markId2Context, given>>
      /\ Leave(t)
      /\ UNCHANGED <<kindVars, domainVars, gMarkId, innerMarkIds, markId2HcclOp, readerVars,
                     timeVars, channel, clock, calls, domainCalls, faults, truth, missed>>

-----------------------------------------------------------------------------
(* HCCL operators: HcclMarkFactory puts a range around the call.            *)

(* How the functions describe their operator.  HcclScatter does not ask for *)
(* the size of the communicator.                                            *)
Ranks  == 4
Size   == 2
Count  == 3
Counts == [send |-> <<1, 2, 3, 1>>, recv |-> <<2, 2, 3, 1>>]
Items  == <<5, 2>>
Desc(op) == [opName |-> op, start |-> None, end |-> None, onDevice |-> FALSE,
             rankSize |-> IF op \in Ranked \cup {"HcclAlltoAllV"} THEN Ranks ELSE 0]

Sum(seq) == LET sum[n \in 0 .. Len(seq)] == IF n = 0 THEN 0 ELSE sum[n - 1] + seq[n]
            IN  sum[Len(seq)]

(* calculateFunc: the bytes of each class of operators.                     *)
P2pBytes(d)         == Size * Count
CollectiveBytes(d)  == Size * Count * d.rankSize
All2AllVBytes(d)    == LET bytes(c) == Size * Sum(SubSeq(c, 1, d.rankSize))
                       IN  IF bytes(Counts.send) > bytes(Counts.recv)
                           THEN bytes(Counts.send) ELSE bytes(Counts.recv)
BatchBytes(d)       == Sum([i \in DOMAIN Items |-> Size * Items[i]])
Bytes(d) ==
  CASE d.opName \in P2p                     -> P2pBytes(d)
    [] d.opName \in Ranked \cup {"HcclScatter"} -> CollectiveBytes(d)
    [] d.opName = "HcclAlltoAllV"           -> All2AllVBytes(d)
    [] d.opName = "HcclBatchSendRecv"       -> BatchBytes(d)

(* CalculateBandWidth: bytes and nanoseconds, nothing if there are none.    *)
BandWidth(d) == IF d.end <= d.start THEN <<>> ELSE <<Bytes(d), d.end - d.start>>

(* InnerDeviceStartA: the new id and the mark of the start; with a failure  *)
(* the id is not filed as an inner one.                                     *)
InnerStart(t) ==
  LET id == NewMarkId
  IN  /\ pc[t] = "idle" /\ hccl
      /\ Work /\ calls < MaxCalls
      /\ calls' = calls + 1
      /\ gMarkId' = gMarkId + 1
      /\ \E op \in Ops, stream \in BOOLEAN :
           /\ call' = [call EXCEPT ![t] = Call(op, ByName, stream, id)]
           /\ \/ /\ IF stream THEN ProfTrace(id, op, "start") ELSE NoTrace
                 /\ Goto(t, "inner")
                 /\ UNCHANGED <<faults, missed>>
              \/ /\ stream /\ Fault
                 /\ missed' = missed \cup {id}
                 /\ Goto(t, "op")
                 /\ NoTrace
      /\ UNCHANGED <<kindVars, domainVars, hostVars, markId2HcclOp, readerVars, timeVars,
                     records, domainCalls, given, leaked>>

InnerFile(t) ==
  /\ pc[t] = "inner"
  /\ innerMarkIds' = Put(innerMarkIds, call[t].id, call[t].stream)
  /\ Goto(t, "op")
  /\ UNCHANGED <<kindVars, domainVars, gMarkId, markId2Context, markId2HcclOp, readerVars,
                 timeVars, channel, clock, records, call, calls, domainCalls, faults, given,
                 truth, missed, leaked>>

RecordHcclOp(t) ==
  /\ pc[t] = "op"
  /\ markId2HcclOp' = Put(markId2HcclOp, call[t].id, Desc(call[t].kind))
  /\ Goto(t, "run")
  /\ UNCHANGED <<kindVars, domainVars, gMarkId, hostVars, readerVars, timeVars, channel,
                 clock, records, call, calls, domainCalls, faults, given, truth, missed,
                 leaked>>

(* The function returns: InnerDeviceEndA.                                   *)
InnerEnd(t) ==
  LET id == call[t].id
  IN  /\ pc[t] = "run"
      /\ \/ /\ IF id \in DOMAIN innerMarkIds /\ innerMarkIds[id]
               THEN ProfTrace(id, call[t].kind, "end") ELSE NoTrace
            /\ UNCHANGED <<faults, missed>>
         \/ /\ id \in DOMAIN innerMarkIds /\ innerMarkIds[id]
            /\ Fault
            /\ missed' = missed \cup {id}
            /\ NoTrace
      /\ Leave(t)
      /\ UNCHANGED <<kindVars, domainVars, gMarkId, hostVars, markId2HcclOp, readerVars,
                     timeVars, records, calls, domainCalls, given, leaked>>

-----------------------------------------------------------------------------
(* The reader of the ts-fw channel: ReportStepTrace for a mark.             *)

(* Under deviceRangeInfoMtx_: the end of a range is converted with the time *)
(* its start was.                                                           *)
TimeOf(id) == IF id \in DOMAIN deviceMarkId2Context THEN deviceMarkId2Context[id] ELSE devTime

ReportMarkData ==
  /\ reader = NoMark /\ channel # <<>>
  /\ LET m == Head(channel)
     IN  /\ reader' = [id |-> m.id, flag |-> m.flag, time |-> RealTime(m.count, TimeOf(m.id)),
                       inner |-> FALSE]
         /\ deviceMarkId2Context' =
              IF m.id \in DOMAIN deviceMarkId2Context THEN Without(deviceMarkId2Context, m.id)
              ELSE IF devTime # None /\ m.flag # "mark" THEN Put(deviceMarkId2Context, m.id, devTime)
              ELSE deviceMarkId2Context
  /\ channel' = Tail(channel)
  /\ UNCHANGED <<kindVars, domainVars, gMarkId, hostVars, markId2HcclOp, timeVars, clock,
                 records, callVars, calls, domainCalls, faults, given, truth, missed, leaked>>

(* IsInnerMarker: an inner mark read before it is filed goes to the user.   *)
RecordDeviceMark ==
  /\ reader # NoMark /\ ~reader.inner
  /\ IF reader.id \in DOMAIN innerMarkIds
     THEN reader' = [reader EXCEPT !.inner = TRUE] /\ UNCHANGED <<records, missed>>
     ELSE /\ Record(marker, [id |-> reader.id, source |-> "device", flag |-> reader.flag,
                             time |-> reader.time])
          /\ missed' = missed \cup ({reader.id} \cap {i \in DOMAIN truth : truth[i].what \in Ops})
          /\ reader' = NoMark
  /\ UNCHANGED <<kindVars, domainVars, gMarkId, hostVars, markId2HcclOp, deviceMarkId2Context,
                 timeVars, channel, clock, callVars, calls, domainCalls, faults, given, truth,
                 leaked>>

(* RecordStartMarker and ReportHcclData, under markMutex_.  Bug: what is     *)
(* known of a reported operator is kept.                                    *)
BugForgetOp(id) == markId2HcclOp' = [markId2HcclOp EXCEPT ![id].end = reader.time]

ForgetOp(id) == markId2HcclOp' = Without(markId2HcclOp, id)

RecordHcclMarker ==
  LET id == reader.id
      op == [markId2HcclOp[id] EXCEPT !.end = reader.time]
  IN  /\ reader # NoMark /\ reader.inner
      /\ \/ /\ id \notin DOMAIN markId2HcclOp
            /\ missed' = missed \cup {id}
            /\ UNCHANGED <<markId2HcclOp, records>>
         \/ /\ id \in DOMAIN markId2HcclOp /\ reader.flag = "start"
            /\ markId2HcclOp' = [markId2HcclOp EXCEPT ![id].start = reader.time,
                                                     ![id].onDevice = TRUE]
            /\ UNCHANGED <<records, missed>>
         \/ /\ id \in DOMAIN markId2HcclOp /\ reader.flag = "end"
            /\ Record(hccl, [id |-> id, source |-> "hccl", op |-> op, bandWidth |-> BandWidth(op)])
            /\ ForgetOp(id)
            /\ missed' = IF hccl THEN missed ELSE missed \cup {id}
      /\ reader' = NoMark
      /\ UNCHANGED <<kindVars, domainVars, gMarkId, hostVars, deviceMarkId2Context, timeVars,
                     channel, clock, callVars, calls, domainCalls, faults, given, truth, leaked>>

Next ==
  \/ DomainCall \/ Switch \/ Synchronise
  \/ \E t \in Threads :
       \/ Enter(t) \/ CheckDomain(t) \/ GetDomainNameByHandle(t)
       \/ StartTrace(t) \/ EndTrace(t) \/ RecordMark(t)
       \/ InnerStart(t) \/ InnerFile(t) \/ RecordHcclOp(t) \/ InnerEnd(t)
  \/ ReportMarkData \/ RecordDeviceMark \/ RecordHcclMarker

Spec == Init /\ [][Next]_vars

-----------------------------------------------------------------------------
(* Properties.                                                              *)

(* Every variable holds what its declaration in the source allows.          *)
TypeOK ==
  /\ {marker, hccl} \subseteq BOOLEAN
  /\ \A d \in DOMAIN domains : domains[d].name \in Names \cup {Default}
  /\ disableDomains \subseteq Names \cup {Default}
  /\ gMarkId \in 0 .. MaxCalls
  /\ DOMAIN markId2Context \subseteq Ids /\ DOMAIN deviceMarkId2Context \subseteq Ids
  /\ DOMAIN innerMarkIds \subseteq Ids /\ DOMAIN markId2HcclOp \subseteq Ids
  /\ DOMAIN innerMarkIds \cap DOMAIN markId2Context = {}
  /\ hostTime \in 0 .. MaxSyncs + 1 /\ devTime \in 0 .. MaxSyncs + 1
  /\ \A i \in DOMAIN channel : channel[i].id \in Ids /\ channel[i].count \in 1 .. clock
  /\ IsABag(records)

Of(source, id) == {r \in DOMAIN records : r.source = source /\ r.id = id}
Flagged(source, id, flag) == {r \in Of(source, id) : r.flag = flag}

(* Whoever ends a range, however often, and however the clocks are          *)
(* synchronised meanwhile: host and device record its start and its end at  *)
(* most once each, and both with one time information, so that their        *)
(* distance is the true one (ReportRangeStartA/End,                         *)
(* ReportMarkDataToActivity).  A host range begun before there is any       *)
(* information, and a device range read while there was none, are excused.  *)
RangesTimed ==
  \A id \in Ids :
    /\ \A r \in Of("host", id) \cup Of("device", id) : records[r] = 1
    /\ \A flag \in {"start", "end", "mark"}, source \in {"host", "device"} :
         Cardinality(Flagged(source, id, flag)) <= 1
    /\ \A s \in Flagged("host", id, "start"), e \in Flagged("host", id, "end") :
         s.time = e.time
    /\ \A s \in Flagged("device", id, "start"), e \in Flagged("device", id, "end") :
         s.time > Offset => e.time - s.time = truth[id].end - truth[id].start

(* So the Python monitor, to which the buffers bring the records in another *)
(* order, gives its user each range once, with both ends of it, and each    *)
(* mark, and keeps only what still lacks an end.  It is enough to look when *)
(* nothing is under way: what is recorded then includes all that was before.*)
Quiet == (\A t \in Threads : pc[t] = "idle") /\ channel = <<>> /\ reader = NoMark

RangeExact ==
  /\ RangesTimed
  /\ Quiet => PairedInAnyOrder({r \in DOMAIN records : r.source # "hccl"})

(* What an operator moves, in the terms of HCCL.                            *)
TrueBytes(op) ==
  CASE op \in P2p -> Size * Count
    [] op \in Ranked -> Size * Count * Ranks
    [] op = "HcclAlltoAllV" -> Size * 8
    [] op = "HcclBatchSendRecv" -> Size * 7

BytesExact == \A op \in AllOps \ {"HcclScatter"} : Bytes(Desc(op)) = TrueBytes(op)

(* An operator whose marks were read after it was filed is recorded at most *)
(* once, with its own bytes, true duration and place, and when its end has  *)
(* been read it is recorded and nothing is kept of it (hccl_range_mark.cpp, *)
(* hccl_reporter.cpp, hccl_calculator.cpp).  Excused: a mark that fails,    *)
(* one read too early, the kind disabled at the record, no time information *)
(* at the start, and the bytes of HcclScatter, computed without its ranks.  *)
HcclExact ==
  /\ BytesExact
  /\ \A id \in DOMAIN truth : truth[id].what \in Ops /\ id \notin missed =>
       /\ Cardinality(Of("hccl", id)) <= 1
       /\ \A r \in Of("hccl", id) :
            /\ records[r] = 1 /\ r.op.onDevice
            /\ r.op.start > Offset =>
                 /\ r.bandWidth = <<Bytes(Desc(truth[id].what)), truth[id].end - truth[id].start>>
                 /\ id \notin DOMAIN deviceMarkId2Context
       /\ (/\ truth[id].end # None
           /\ \A i \in DOMAIN channel : channel[i].id # id
           /\ reader = NoMark \/ reader.id # id) =>
            Of("hccl", id) # {} /\ id \notin DOMAIN markId2HcclOp

(* A marker is not recorded for a domain that msptiActivityDisableMarkerDomain *)
(* disabled before the call began and that stayed disabled, whether it was  *)
(* disabled before or after it was created, destroyed or created again.     *)
DisabledIsSilent == leaked = {}
=============================================================================
