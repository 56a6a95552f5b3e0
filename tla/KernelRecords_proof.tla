------------------------- MODULE KernelRecords_proof -------------------------
(***************************************************************************)
(* Proofs about KernelRecords for every number of threads, task ids,       *)
(* captured tasks, calls, replays and faults: kernel records are of their  *)
(* execution and their launch, once, with the id of the call.              *)
(***************************************************************************)
EXTENDS KernelRecords, FiniteSetTheorems, SequenceTheorems, TLAPS

Places  == {"idle", "launched", "reporting", "returning"}
LogSet  == [key : Keys, time : Counters]
Records == [launch : Launched, key : Keys, correlationId : 1 .. 2 * MaxCalls,
            start : [ns : Counters], end : [ns : Counters]]
ApiSet  == [call : Launched, correlationId : 0 .. 2 * MaxCalls]

(* The types of all variables.                                               *)
Types ==
  /\ enabled \in BOOLEAN /\ exact \subseteq Keys
  /\ correlationId \in 1 .. 2 * MaxCalls + 1
  /\ threadCorrelationIdInfo \in [Threads -> 0 .. 2 * MaxCalls]
  /\ hostTasks \in [Keys -> Seq(HostTask)]
  /\ kernelMap \in [Keys -> Seq(HostTask)] /\ unagingMap \in [Keys -> Seq(HostTask)]
  /\ deviceMap \in [Keys -> Seq(Counters)]
  /\ kernels \in Seq(Records) /\ apis \subseteq ApiSet
  /\ pc \in [Threads -> Places] /\ call \in [Threads -> Nat]
  /\ calls \in Seq(Keys) /\ Len(calls) <= MaxCalls
  /\ toRun \in [Streams -> Seq(Counters)] /\ begun \in [Streams -> BOOLEAN]
  /\ channel \in Seq(LogSet)
  /\ replays \in 0 .. MaxReplays
  /\ reported \subseteq Launched /\ done \subseteq Counters

(* A key has one start and one graph kernel at most.                         *)
Single == \A k \in Keys : Len(unagingMap[k]) <= 1 /\ Len(deviceMap[k]) <= 1

(* A call under way is one thread's, and has no API record yet.              *)
Busy(t) == pc[t] # "idle"
Ours ==
  /\ \A t \in Threads : Busy(t) =>
       /\ call[t] \in DOMAIN calls /\ threadCorrelationIdInfo[t] # 0
       /\ \A a \in apis : a.call # call[t]
       /\ \A u \in Threads : Busy(u) /\ call[u] = call[t] => u = t
  /\ \A a \in apis : a.call \in DOMAIN calls

(* Ids are taken by the launches, and once more by those that are reported.  *)
Unasked == {call[t] : t \in {u \in Threads : pc[u] = "launched"}}
Counted == correlationId + Cardinality(Unasked) <= 2 * Len(calls) + 1

(* The tasks that wait under a key are launches on it that were reported, a  *)
(* launch once; a record is of a launch that does not wait any more.         *)
Waits(k, n) == \E i \in DOMAIN Cached(k) : Cached(k)[i].launch = n
WaitsOn(k) ==
  /\ \A i \in DOMAIN Cached(k) :
       Cached(k)[i].key = k /\ Cached(k)[i].launch \in LaunchesOn(k) \cap reported
  /\ \A i \in DOMAIN CachedGraph(k) :
       CachedGraph(k)[i].key = k /\ CachedGraph(k)[i].launch \in LaunchesOn(k) \cap reported
  /\ \A i, j \in DOMAIN Cached(k) : Cached(k)[i].launch = Cached(k)[j].launch => i = j
Recorded(i, k, n) ==
  /\ n \in LaunchesOn(k) \cap reported
  /\ Aging(k) => ~Waits(k, n) /\ \A j \in DOMAIN kernels : kernels[j].launch = n => i = j
Waiting ==
  /\ reported \subseteq DOMAIN calls
  /\ \A t \in Threads : pc[t] \in {"launched", "reporting"} => call[t] \notin reported
  /\ \A k \in Keys : IF Aging(k) THEN unagingMap[k] = <<>> ELSE kernelMap[k] = <<>>
  /\ \A k \in Keys : WaitsOn(k)
  /\ \A i \in DOMAIN kernels : Recorded(i, kernels[i].key, kernels[i].launch)

(* An id is the launch's: its thread still has it, its API record has it.    *)
Fits(n, id) ==
  /\ \A t \in Threads : Busy(t) /\ call[t] = n =>
       pc[t] = "returning" /\ threadCorrelationIdInfo[t] = id
  /\ \A a \in apis : a.call = n => a.correlationId = id
CorrelatedOn(k) ==
  /\ \A i \in DOMAIN Cached(k) : Fits(Cached(k)[i].launch, Cached(k)[i].correlationId)
  /\ \A i \in DOMAIN CachedGraph(k) : Fits(CachedGraph(k)[i].launch, CachedGraph(k)[i].correlationId)
Correlated ==
  /\ \A k \in Keys : CorrelatedOn(k)
  /\ \A i \in DOMAIN kernels : Fits(kernels[i].launch, kernels[i].correlationId)

(* Logs in the order of their stream.                                        *)
End(c)       == [c EXCEPT !.at = "end"]
Before(c, d) == c.launch < d.launch \/ (c.launch = d.launch /\ c.run < d.run)
Precedes(c, d) ==
  \/ Before(c, d)
  \/ c.launch = d.launch /\ c.run = d.run /\ c.at = "begin" /\ d.at = "end"

(* Streams run executions of their keys, one after another.                  *)
OnStream(c, s) == IF s = NoKey THEN calls[c.launch] \notin GraphKeys ELSE calls[c.launch] = s
WellMade(c) ==
  /\ c.at = "end" /\ c.launch \in DOMAIN calls
  /\ IF calls[c.launch] \in GraphKeys THEN c.run <= replays ELSE c.run = 1
InStream(c, s) == \E i \in DOMAIN toRun[s] : toRun[s][i] = c
Orderly(s) ==
  /\ \A c \in Counters : InStream(c, s) => WellMade(c) /\ OnStream(c, s)
  /\ \A i, j \in DOMAIN toRun[s] : i < j => Before(toRun[s][i], toRun[s][j])
  /\ begun[s] => toRun[s] # <<>>
  /\ \A c \in Counters, d \in done : InStream(c, s) /\ OnStream(d, s) => Before(d, c)
Device ==
  /\ \A s \in Streams : Orderly(s)
  /\ \A c \in done : WellMade(c)
  /\ \A n \in AgingLaunches : SysCnt(n, 1, "end") \in done \/ InStream(SysCnt(n, 1, "end"), NoKey)

(* The channel has, of each key, the logs after some point, in order.        *)
Running(c)   == \E s \in Streams : begun[s] /\ c = Head(toRun[s])
Issued(c)    == c \in done \/ (c.at = "begin" /\ (End(c) \in done \/ Running(End(c))))
InChannel(c) == \E i \in DOMAIN channel : channel[i].time = c
Read(c)      == c \in done /\ ~InChannel(c)
SameKey(c, d) == calls[c.launch] = calls[d.launch]
Ordered ==
  /\ \A i \in DOMAIN channel, c \in Counters :
       channel[i].time = c => channel[i].key = calls[c.launch] /\ Issued(c)
  /\ \A i, j \in DOMAIN channel, c, d \in Counters :
       i < j /\ channel[i].time = c /\ channel[j].time = d /\ SameKey(c, d) => Precedes(c, d)
  /\ \A c, d \in Counters :
       InChannel(c) /\ Issued(d) /\ SameKey(c, d) /\ Precedes(c, d) => InChannel(d)

(* What holds of a key on which nothing was missed or late.  Launches are    *)
(* reported in order, and before their logs are read.                        *)
Did(k, c) == Read(c) /\ calls[c.launch] = k
Prefix(k) == \A m, n \in LaunchesOn(k) : n \in reported /\ m < n => m \in reported
Punctual(k) == \A c \in Counters : Did(k, c) => c.launch \in reported
(* The queue of an ordinary key has the launches without a record, in order. *)
Queued(k) ==
  /\ \A i, j \in DOMAIN Cached(k) : i < j => Cached(k)[i].launch < Cached(k)[j].launch
  /\ \A n \in LaunchesOn(k) :
       Waits(k, n) <=> (n \in reported /\ ~Did(k, SysCnt(n, 1, "end")))
(* A captured key has one launch.                                            *)
Captured(k) ==
  /\ \A m, n \in LaunchesOn(k) : m = n
  /\ \A n \in LaunchesOn(k) : n \in reported => CachedGraph(k) # <<>>
(* The start is of the execution whose begin was read and whose end was not. *)
Started(k, c) ==
  /\ c.at = "begin" /\ Issued(c) /\ calls[c.launch] = k
  /\ ~InChannel(c) /\ ~Read(End(c))
Starts(k) == \A c \in Counters : (deviceMap[k] = <<c>>) <=> Started(k, c)
(* The records are of the executions whose end was read.                     *)
HasRecord(k, c) == \E i \in DOMAIN kernels : kernels[i].key = k /\ kernels[i].end.ns = c
RecordsOf(k) ==
  /\ \A c \in Counters : Did(k, c) <=> HasRecord(k, c)
  /\ \A i, j \in DOMAIN kernels :
       kernels[i].key = k /\ kernels[j].key = k /\ kernels[i].end = kernels[j].end => i = j
  /\ \A i \in DOMAIN kernels : kernels[i].key = k =>
       /\ kernels[i].launch = kernels[i].end.ns.launch
       /\ kernels[i].start.ns = [kernels[i].end.ns EXCEPT !.at = "begin"]
ExactOn(k) ==
  /\ Prefix(k) /\ Punctual(k)
  /\ Aging(k) => Queued(k)
  /\ ~Aging(k) => Captured(k)
  /\ Starts(k) /\ RecordsOf(k)
Exact == \A k \in exact : ExactOn(k)

IndInv == Types /\ Single /\ Ours /\ Counted /\ Waiting /\ Correlated /\ Device /\ Ordered /\ Exact

-----------------------------------------------------------------------------
(* Sequences: one more at the end, one less at the head.                     *)
LEMMA Appended ==
  ASSUME NEW S, NEW s \in Seq(S), NEW e \in S
  PROVE  /\ Append(s, e) \in Seq(S) /\ Append(s, e) # <<>>
         /\ Len(Append(s, e)) = Len(s) + 1
         /\ Len(s) + 1 \in Nat /\ Len(s) + 1 \notin DOMAIN s
         /\ DOMAIN Append(s, e) = DOMAIN s \cup {Len(s) + 1}
         /\ \A i \in DOMAIN s : i \in Nat /\ i < Len(s) + 1 /\ Append(s, e)[i] = s[i]
         /\ Append(s, e)[Len(s) + 1] = e
         /\ Head(Append(s, e)) = IF s = <<>> THEN e ELSE Head(s)
<1>1. Len(s) \in Nat /\ DOMAIN s = 1 .. Len(s)
  BY LenProperties
<1>2. /\ Append(s, e) \in Seq(S) /\ Append(s, e) # <<>> /\ Len(Append(s, e)) = Len(s) + 1
      /\ \A i \in 1 .. Len(s) : Append(s, e)[i] = s[i]
      /\ Append(s, e)[Len(s) + 1] = e
  BY AppendProperties
<1>3. DOMAIN Append(s, e) = 1 .. Len(s) + 1
  BY <1>2, LenProperties
<1>4. Head(Append(s, e)) = IF s = <<>> THEN e ELSE Head(s)
  <2>1. Head(Append(s, e)) = Append(s, e)[1]
    BY <1>2
  <2>2. CASE s = <<>>
    BY <1>2, <2>1, <2>2, EmptySeq
  <2>3. CASE s # <<>>
    <3>1. 1 \in 1 .. Len(s) /\ Head(s) = s[1]
      BY <1>1, <2>3, EmptySeq
    <3>2. QED
      BY <1>2, <2>1, <2>3, <3>1
  <2>4. QED
    BY <2>2, <2>3
<1>5. QED
  BY <1>1, <1>2, <1>3, <1>4

(* A sequence without its head: the same elements, one place earlier.        *)
LEMMA Shortened ==
  ASSUME NEW S, NEW s \in Seq(S), s # <<>>
  PROVE  /\ Head(s) \in S /\ Tail(s) \in Seq(S) /\ 1 \in DOMAIN s /\ s[1] = Head(s)
         /\ Len(Tail(s)) = Len(s) - 1
         /\ \A i \in DOMAIN Tail(s) : /\ i \in Nat /\ i + 1 \in DOMAIN s /\ i + 1 > 1
                                      /\ Tail(s)[i] = s[i + 1]
         /\ \A i \in DOMAIN s : /\ i \in Nat
                                /\ i = 1 \/ (i > 1 /\ i - 1 \in DOMAIN Tail(s) /\ Tail(s)[i - 1] = s[i])
<1>1. Len(s) \in Nat /\ Len(s) # 0 /\ DOMAIN s = 1 .. Len(s)
  BY EmptySeq, LenProperties
<1>2. /\ Head(s) \in S /\ Tail(s) \in Seq(S) /\ Len(Tail(s)) = Len(s) - 1
      /\ \A i \in 1 .. Len(Tail(s)) : Tail(s)[i] = s[i + 1]
  BY HeadTailProperties
<1>3. DOMAIN Tail(s) = 1 .. Len(s) - 1
  BY <1>2, LenProperties
<1>4. QED
  BY <1>1, <1>2, <1>3

(* Appending to the second part of a sequence appends to the whole.          *)
LEMMA AppendConcat ==
  ASSUME NEW S, NEW s \in Seq(S), NEW u \in Seq(S), NEW e \in S
  PROVE  s \o Append(u, e) = Append(s \o u, e)
<1>1. PICK v : v = s \o u
  OBVIOUS
<1>2. PICK w : w = <<e>>
  OBVIOUS
<1>3. v \in Seq(S) /\ w \in Seq(S)
  BY <1>1, <1>2, ConcatProperties
<1>4. Append(u, e) = u \o w /\ Append(v, e) = v \o w
  BY <1>2, <1>3, AppendIsConcat
<1>5. v \o w = s \o (u \o w)
  BY <1>1, <1>3, ConcatAssociative
<1>6. QED
  BY <1>1, <1>4, <1>5

(* Logs are told apart by their fields.                                      *)
LEMMA LogFacts ==
  ASSUME NEW c \in Counters
  PROVE  /\ c.launch \in Nat /\ c.run \in Nat /\ c.at \in {"begin", "end"}
         /\ End(c) \in Counters /\ End(c).launch = c.launch /\ End(c).run = c.run /\ End(c).at = "end"
         /\ \A d \in Counters : c.launch = d.launch /\ c.run = d.run /\ c.at = d.at => c = d
         /\ c.at = "end" => End(c) = c
<1>1. c.launch \in Nat /\ c.run \in Nat /\ c.at \in {"begin", "end"}
  BY KernelRecordsAssumption DEF Counters, Launched
<1>2. /\ End(c) \in Counters /\ End(c).launch = c.launch /\ End(c).run = c.run /\ End(c).at = "end"
  BY DEF Counters, End
<1>3. \A d \in Counters : c.launch = d.launch /\ c.run = d.run /\ c.at = d.at => c = d
  BY DEF Counters
<1>4. QED
  BY <1>1, <1>2, <1>3

(* Logs are in one order.                                                    *)
LEMMA OneOrder ==
  ASSUME NEW c \in Counters, NEW d \in Counters
  PROVE  /\ Precedes(c, d) => ~Precedes(d, c) /\ c # d
         /\ Precedes(c, d) \/ Precedes(d, c) \/ c = d
         /\ Before(c, d) => ~Before(d, c) /\ c # d /\ End(c) # End(d)
         /\ \A e \in Counters : Before(c, d) /\ Before(d, e) => Before(c, e)
<1>1. /\ c.launch \in Nat /\ c.run \in Nat /\ d.launch \in Nat /\ d.run \in Nat
      /\ c.at \in {"begin", "end"} /\ d.at \in {"begin", "end"}
  BY LogFacts
<1>2. c.launch = d.launch /\ c.run = d.run /\ c.at = d.at => c = d
  BY LogFacts
<1>3. \A e \in Counters : e.launch \in Nat /\ e.run \in Nat
  BY LogFacts
<1>4. End(c) = End(d) => c.launch = d.launch /\ c.run = d.run
  BY LogFacts
<1>5. QED
  BY <1>1, <1>2, <1>3, <1>4 DEF Precedes, Before

(* The calls, and one more.                                                  *)
LEMMA CallsKnown ==
  ASSUME Types
  PROVE  /\ Len(calls) \in Nat /\ DOMAIN calls = 1 .. Len(calls) /\ DOMAIN calls \subseteq Launched
         /\ \A n \in DOMAIN calls : n \in Nat /\ calls[n] \in Keys
<1>1. Len(calls) \in Nat /\ DOMAIN calls = 1 .. Len(calls) /\ Len(calls) <= MaxCalls
  BY LenProperties DEF Types
<1>2. \A n \in DOMAIN calls : calls[n] \in Keys
  BY <1>1, ElementOfSeq DEF Types
<1>3. QED
  BY <1>1, <1>2, KernelRecordsAssumption DEF Launched

(* A call has the next number, and takes an id.                              *)
LEMMA CallFacts ==
  ASSUME Types, NEW t \in Threads, NEW k \in Keys, Call(t, k)
  PROVE  \E n \in Nat :
           /\ n = Len(calls) + 1 /\ n <= MaxCalls /\ n \notin DOMAIN calls
           /\ calls' \in Seq(Keys) /\ Len(calls') = n
           /\ DOMAIN calls' = DOMAIN calls \cup {n}
           /\ calls'[n] = k /\ \A m \in DOMAIN calls : m < n /\ calls'[m] = calls[m]
           /\ call' = [call EXCEPT ![t] = n] /\ pc' = [pc EXCEPT ![t] = "launched"]
           /\ pc[t] = "idle" /\ UpdateAndReportCorrelationId(t)
<1>1. calls' = Append(calls, k) /\ calls \in Seq(Keys) /\ Len(calls) < MaxCalls
  BY DEF Call, Types
<1>2. Len(calls) \in Nat /\ MaxCalls \in Nat
  BY CallsKnown, KernelRecordsAssumption
<1>3. PICK n \in Nat : n = Len(calls) + 1
  BY <1>2
<1>4. /\ calls' \in Seq(Keys) /\ Len(calls') = n /\ n \notin DOMAIN calls
      /\ DOMAIN calls' = DOMAIN calls \cup {n}
      /\ calls'[n] = k /\ \A m \in DOMAIN calls : m < n /\ calls'[m] = calls[m]
  BY <1>1, <1>3, Appended
<1>5. call' = [call EXCEPT ![t] = n] /\ pc' = [pc EXCEPT ![t] = "launched"] /\ pc[t] = "idle"
      /\ UpdateAndReportCorrelationId(t) /\ n <= MaxCalls
  BY <1>1, <1>2, <1>3 DEF Call
<1>6. QED
  BY <1>3, <1>4, <1>5

(* The keys of graphs are streams, and those of launches are not.            *)
LEMMA AgingKey ==
  ASSUME NEW k \in Keys
  PROVE  /\ NoKey \notin GraphKeys /\ NoKey \in Streams /\ k # NoKey
         /\ k \in GraphKeys <=> k \notin 0 .. NumIds - 1
         /\ k \in GraphKeys => k \in Streams
<1>1. NumIds \in Nat /\ NumIds # 0 /\ GraphKeys \cap 0 .. NumIds = {}
  BY KernelRecordsAssumption
<1>2. QED
  BY <1>1 DEF Keys, NoKey, Streams

-----------------------------------------------------------------------------
(* What waits under the keys.                                                *)
LEMMA EmplacedFacts ==
  ASSUME NEW S, NEW s \in Seq(S)
  PROVE  /\ Emplaced(s) \in Seq(S) /\ Len(Emplaced(s)) <= 1
         /\ Emplaced(s) = <<>> <=> s = <<>>
         /\ Emplaced(Emplaced(s)) = Emplaced(s)
         /\ \A e \in S : Emplaced(Append(s, e)) = IF s = <<>> THEN <<e>> ELSE Emplaced(s)
<1>1. CASE s = <<>>
  <2>1. Emplaced(s) = s /\ Len(s) = 0
    BY <1>1, EmptySeq DEF Emplaced
  <2>2. \A e \in S : Append(s, e) # <<>> /\ Head(Append(s, e)) = e
    BY <1>1, Appended
  <2>3. QED
    BY <1>1, <2>1, <2>2 DEF Emplaced
<1>2. CASE s # <<>>
  <2>1. Head(s) \in S
    BY <1>2, Shortened
  <2>2. PICK e : e = Head(s)
    OBVIOUS
  <2>3. Emplaced(s) = <<e>> /\ <<e>> \in Seq(S) /\ <<e>> # <<>> /\ Head(<<e>>) = e /\ Len(<<e>>) = 1
    BY <1>2, <2>1, <2>2 DEF Emplaced
  <2>4. Emplaced(<<e>>) = <<e>>
    BY <2>3 DEF Emplaced
  <2>5. \A f \in S : Append(s, f) # <<>> /\ Head(Append(s, f)) = e
    BY <1>2, <2>2, Appended
  <2>6. QED
    BY <1>2, <2>3, <2>4, <2>5 DEF Emplaced
<1>3. QED
  BY <1>1, <1>2

(* What waits under a key, by the cache that its kind uses.                  *)
LEMMA CachedTypes ==
  ASSUME Types, NEW k \in Keys
  PROVE  /\ Cached(k) \in Seq(HostTask) /\ CachedGraph(k) \in Seq(HostTask)
         /\ Len(CachedGraph(k)) <= 1
         /\ Aging(k) => Cached(k) = kernelMap[k] \o hostTasks[k] /\ CachedGraph(k) = Emplaced(unagingMap[k])
         /\ ~Aging(k) => Cached(k) = kernelMap[k] /\ CachedGraph(k) = Emplaced(unagingMap[k] \o hostTasks[k])
<1>1. /\ hostTasks[k] \in Seq(HostTask) /\ kernelMap[k] \in Seq(HostTask) /\ unagingMap[k] \in Seq(HostTask)
  BY DEF Types
<1>2. \A s, u \in Seq(HostTask) : s \o u \in Seq(HostTask)
  BY ConcatProperties
<1>3. kernelMap[k] \o <<>> = kernelMap[k] /\ unagingMap[k] \o <<>> = unagingMap[k]
  BY <1>1, ConcatEmptySeq
<1>4. CASE Aging(k)
  <2>1. TasksOf(k, TRUE) = hostTasks[k] /\ TasksOf(k, FALSE) = <<>>
    BY <1>4 DEF TasksOf
  <2>2. QED
    BY <1>1, <1>2, <1>3, <1>4, <2>1, EmplacedFacts DEF Cached, CachedGraph
<1>5. CASE ~Aging(k)
  <2>1. TasksOf(k, TRUE) = <<>> /\ TasksOf(k, FALSE) = hostTasks[k]
    BY <1>5 DEF TasksOf
  <2>2. unagingMap[k] \o hostTasks[k] \in Seq(HostTask)
    BY <1>1, <1>2
  <2>3. QED
    BY <1>1, <1>3, <1>5, <2>1, <2>2, EmplacedFacts DEF Cached, CachedGraph
<1>6. QED
  BY <1>4, <1>5

CachedStays == \A k \in Keys : Cached(k)' = Cached(k) /\ CachedGraph(k)' = CachedGraph(k)

(* A step that touches no cache leaves all that waits.                       *)
LEMMA NoneCached ==
  ASSUME UNCHANGED <<hostTasks, kernelMap, unagingMap>>
  PROVE  CachedStays
  BY DEF CachedStays, Cached, CachedGraph, TasksOf

(* A task is reported: it joins the queue, or is the graph's if it is first. *)
LEMMA PushCached ==
  ASSUME Types, Ours, NEW t \in Threads, PushHostTask(t)
  PROVE  /\ Types' /\ call[t] \in DOMAIN calls
         /\ \E h \in HostTask :
              /\ h.launch = call[t] /\ h.key = calls[call[t]]
              /\ h.correlationId = threadCorrelationIdInfo[t]
              /\ \A k \in Keys :
                   /\ Cached(k)' = IF k = h.key /\ Aging(k) THEN Append(Cached(k), h) ELSE Cached(k)
                   /\ CachedGraph(k)' = IF k = h.key /\ ~Aging(k) /\ CachedGraph(k) = <<>>
                                        THEN <<h>> ELSE CachedGraph(k)
<1>1. PICK n : n = call[t]
  OBVIOUS
<1>2. PICK k : k = calls[n]
  OBVIOUS
<1>3. PICK h : h = [launch |-> n, key |-> k, correlationId |-> threadCorrelationIdInfo[t]]
  OBVIOUS
<1>4. /\ pc[t] = "reporting" /\ hostTasks' = [hostTasks EXCEPT ![k] = Append(@, h)]
      /\ reported' = reported \cup {n} /\ exact' \subseteq exact
      /\ pc' = [pc EXCEPT ![t] = "returning"]
      /\ UNCHANGED <<correlationId, threadCorrelationIdInfo, kernelMap, unagingMap, deviceMap, kernels,
                     toRun, begun, enabled, apis, call, calls, channel, replays, done>>
  BY <1>1, <1>2, <1>3 DEF PushHostTask, GetCorrelationId, parserVars, deviceVars
<1>5. n \in DOMAIN calls /\ threadCorrelationIdInfo[t] # 0
  BY <1>1, <1>4 DEF Ours, Busy
<1>6. n \in Launched /\ k \in Keys
  BY <1>2, <1>5, CallsKnown
<1>7. h \in HostTask /\ h.launch = n /\ h.key = k /\ h.correlationId = threadCorrelationIdInfo[t]
  <2>1. threadCorrelationIdInfo[t] \in 1 .. 2 * MaxCalls
    BY <1>5, KernelRecordsAssumption DEF Types
  <2>2. QED
    BY <1>3, <1>6, <2>1 DEF HostTask
<1>8. hostTasks'[k] = Append(hostTasks[k], h) /\ \A j \in Keys \ {k} : hostTasks'[j] = hostTasks[j]
  BY <1>4, <1>6 DEF Types
<1>9. hostTasks' \in [Keys -> Seq(HostTask)]
  <2>1. Append(hostTasks[k], h) \in Seq(HostTask)
    BY <1>6, <1>7, Appended DEF Types
  <2>2. QED
    BY <1>4, <1>6, <2>1 DEF Types
<1>10. Types'
  BY <1>4, <1>6, <1>9 DEF Types, Places
<1>11. ASSUME NEW j \in Keys
       PROVE  /\ Cached(j)' = IF j = k /\ Aging(j) THEN Append(Cached(j), h) ELSE Cached(j)
              /\ CachedGraph(j)' = IF j = k /\ ~Aging(j) /\ CachedGraph(j) = <<>>
                                   THEN <<h>> ELSE CachedGraph(j)
  <2>1. CASE j # k
    <3>1. Cached(j)' = Cached(j) /\ CachedGraph(j)' = CachedGraph(j)
      BY <1>4, <1>8, <2>1 DEF Cached, CachedGraph, TasksOf, Aging
    <3>2. QED
      BY <2>1, <3>1
  <2>2. CASE j = k /\ Aging(j)
    <3>1. PICK a \in Seq(HostTask), b \in Seq(HostTask) : a = kernelMap[j] /\ b = hostTasks[j]
      BY DEF Types
    <3>2. Cached(j) = a \o b /\ Cached(j)' = a \o Append(b, h) /\ CachedGraph(j)' = CachedGraph(j)
      BY <1>4, <1>8, <2>2, <3>1 DEF Cached, CachedGraph, TasksOf, Aging
    <3>3. a \o Append(b, h) = Append(a \o b, h)
      BY <1>7, AppendConcat
    <3>4. QED
      BY <2>2, <3>2, <3>3
  <2>3. CASE j = k /\ ~Aging(j)
    <3>1. PICK a \in Seq(HostTask), b \in Seq(HostTask) : a = unagingMap[j] /\ b = hostTasks[j]
      BY DEF Types
    <3>2. /\ CachedGraph(j) = Emplaced(a \o b) /\ CachedGraph(j)' = Emplaced(a \o Append(b, h))
          /\ Cached(j)' = Cached(j)
      BY <1>4, <1>8, <2>3, <3>1 DEF Cached, CachedGraph, TasksOf, Aging
    <3>3. a \o Append(b, h) = Append(a \o b, h)
      BY <1>7, AppendConcat
    <3>4. PICK u \in Seq(HostTask) : u = a \o b
      BY ConcatProperties
    <3>5. Emplaced(u) = <<>> <=> u = <<>>
      BY EmplacedFacts
    <3>6. Emplaced(Append(u, h)) = IF u = <<>> THEN <<h>> ELSE Emplaced(u)
      BY <1>7, EmplacedFacts
    <3>7. QED
      BY <2>3, <3>2, <3>3, <3>4, <3>5, <3>6
  <2>4. QED
    BY <2>1, <2>2, <2>3
<1>12. QED
  BY <1>1, <1>2, <1>5, <1>7, <1>10, <1>11

(* The tasks are moved: what waits stays, less the kernel that is recorded.  *)
LEMMA MovedCached ==
  ASSUME Types, NEW k \in Keys, DealCacheHostTask, NEW s \in Seq(HostTask),
         kernelMap'[k] = s, unagingMap'[k] = CachedGraph(k)
  PROVE  Cached(k)' = s /\ CachedGraph(k)' = CachedGraph(k)
<1>1. hostTasks'[k] = <<>>
  BY DEF DealCacheHostTask
<1>2. PICK u \in Seq(HostTask) : u = CachedGraph(k)
  BY CachedTypes
<1>3. s \o <<>> = s /\ u \o <<>> = u
  BY ConcatEmptySeq
<1>4. Emplaced(u) = u
  <2>1. CASE Aging(k)
    <3>1. PICK v \in Seq(HostTask) : v = unagingMap[k]
      BY DEF Types
    <3>2. u = Emplaced(v)
      BY <1>2, <2>1, <3>1, CachedTypes
    <3>3. QED
      BY <3>2, EmplacedFacts
  <2>2. CASE ~Aging(k)
    <3>1. PICK v \in Seq(HostTask) : v = unagingMap[k] \o hostTasks[k]
      BY ConcatProperties DEF Types
    <3>2. QED
      BY <1>2, <2>2, <3>1, EmplacedFacts, CachedTypes
  <2>3. QED
    BY <2>1, <2>2
<1>5. TasksOf(k, TRUE)' = <<>> /\ TasksOf(k, FALSE)' = <<>>
  BY <1>1 DEF TasksOf, Aging
<1>6. QED
  BY <1>2, <1>3, <1>4, <1>5 DEF Cached, CachedGraph, Aging

(* The log read: a start is noted, a kernel is recorded, or nothing.         *)
ReadsLog(k, c) ==
  /\ channel # <<>> /\ Head(channel).key = k /\ Head(channel).time = c /\ channel' = Tail(channel)
  /\ exact' \subseteq exact /\ (k \in exact' => c.launch \in reported)
  /\ \A j \in Keys : CachedGraph(j)' = CachedGraph(j)
  /\ \A j \in Keys : j # k => Cached(j)' = Cached(j) /\ deviceMap'[j] = deviceMap[j]
Notes(k, c) ==
  /\ Cached(k)' = Cached(k) /\ kernels' = kernels
  /\ c.at = "end" => deviceMap[k] = <<>> \/ ~Tasks(k)
  /\ deviceMap'[k] = IF Tasks(k) /\ c.at = "begin" THEN Emplaced(Append(deviceMap[k], c))
                                                   ELSE deviceMap[k]
RecordsKernel(k, c, h) ==
  /\ c.at = "end" /\ deviceMap[k] # <<>> /\ deviceMap'[k] = <<>>
  /\ kernels' = Append(kernels, KernelRecord(h, Head(deviceMap[k]), c))
  /\ Aging(k) => Cached(k) # <<>> /\ h = Head(Cached(k)) /\ Cached(k)' = Tail(Cached(k))
  /\ ~Aging(k) => CachedGraph(k) # <<>> /\ h = Head(CachedGraph(k)) /\ Cached(k)' = Cached(k)

(* Reading a log notes a start or records a kernel, for one key, and         *)
(* empties the other cache of each.                                          *)
LEMMA ReadEffect ==
  ASSUME Types, Single, Waiting, ReportSocLog
  PROVE  \E k \in Keys, c \in Counters :
           /\ ReadsLog(k, c)
           /\ Notes(k, c) \/ \E h \in HostTask : RecordsKernel(k, c, h)
           /\ \A j \in Keys : IF Aging(j) THEN unagingMap'[j] = <<>> ELSE kernelMap'[j] = <<>>
           /\ kernelMap' \in [Keys -> Seq(HostTask)] /\ unagingMap' \in [Keys -> Seq(HostTask)]
           /\ hostTasks' \in [Keys -> Seq(HostTask)]
           /\ \A j \in Keys : Len(unagingMap'[j]) <= 1
<1>1. channel # <<>> /\ channel \in Seq(LogSet)
  BY DEF ReportSocLog, Types
<1>2. Head(channel) \in LogSet
  BY <1>1, Shortened
<1>3. PICK k \in Keys, c \in Counters : k = Head(channel).key /\ c = Head(channel).time
  BY <1>2 DEF LogSet
<1>4. /\ DealCacheHostTask /\ channel' = Tail(channel)
      /\ exact' \subseteq exact /\ (k \in exact' => c.launch \in reported)
      /\ ParseBegin(k, c) \/ ParseNothing(k, c) \/ ParseEnd(k, c)
  <2>1. exact' = IF c.launch \in reported THEN exact ELSE exact \ {k}
    BY <1>3 DEF ReportSocLog
  <2>2. QED
    BY <1>3, <2>1 DEF ReportSocLog
<1>5. ASSUME NEW j \in Keys
      PROVE  /\ Cached(j) \in Seq(HostTask) /\ CachedGraph(j) \in Seq(HostTask)
             /\ Len(CachedGraph(j)) <= 1
             /\ IF Aging(j) THEN CachedGraph(j) = <<>> ELSE Cached(j) = <<>>
  <2>1. Cached(j) \in Seq(HostTask) /\ CachedGraph(j) \in Seq(HostTask) /\ Len(CachedGraph(j)) <= 1
    BY CachedTypes
  <2>0. IF Aging(j) THEN unagingMap[j] = <<>> ELSE kernelMap[j] = <<>>
    BY DEF Waiting
  <2>2. CASE Aging(j)
    BY <2>0, <2>1, <2>2, CachedTypes DEF Emplaced
  <2>3. CASE ~Aging(j)
    BY <2>0, <2>1, <2>3, CachedTypes
  <2>4. QED
    BY <2>1, <2>2, <2>3
<1>6. unagingMap' = [j \in Keys |-> CachedGraph(j)]
  BY <1>4 DEF ParseBegin, ParseNothing, ParseEnd, Kept
<1>7. deviceMap \in [Keys -> Seq(Counters)]
  BY DEF Types
<1>8. hostTasks' \in [Keys -> Seq(HostTask)]
  BY <1>4, EmptySeq DEF DealCacheHostTask
<1>9. CASE ParseBegin(k, c) \/ ParseNothing(k, c)
  <2>1. kernelMap' = [j \in Keys |-> Cached(j)] /\ kernels' = kernels
    BY <1>9 DEF ParseBegin, ParseNothing, Kept
  <2>2. ASSUME NEW j \in Keys PROVE Cached(j)' = Cached(j) /\ CachedGraph(j)' = CachedGraph(j)
    <3>1. PICK s \in Seq(HostTask) : s = Cached(j)
      BY <1>5
    <3>2. kernelMap'[j] = s /\ unagingMap'[j] = CachedGraph(j)
      BY <1>6, <2>1, <3>1
    <3>3. QED
      BY <1>4, <3>1, <3>2, MovedCached
  <2>3. \A j \in Keys : j # k => deviceMap'[j] = deviceMap[j]
    BY <1>7, <1>9 DEF ParseBegin, ParseNothing
  <2>4. deviceMap'[k] = IF Tasks(k) /\ c.at = "begin" THEN Emplaced(Append(deviceMap[k], c)) ELSE deviceMap[k]
    BY <1>7, <1>9 DEF ParseBegin, ParseNothing
  <2>5. c.at = "end" => deviceMap[k] = <<>> \/ ~Tasks(k)
    BY <1>9 DEF ParseBegin, ParseNothing
  <2>6. Notes(k, c)
    BY <2>1, <2>2, <2>4, <2>5 DEF Notes
  <2>7. ReadsLog(k, c)
    BY <1>1, <1>3, <1>4, <2>2, <2>3 DEF ReadsLog
  <2>8. /\ \A j \in Keys : IF Aging(j) THEN unagingMap'[j] = <<>> ELSE kernelMap'[j] = <<>>
        /\ kernelMap' \in [Keys -> Seq(HostTask)] /\ unagingMap' \in [Keys -> Seq(HostTask)]
        /\ \A j \in Keys : Len(unagingMap'[j]) <= 1
    BY <1>5, <1>6, <2>1
  <2>9. QED
    BY <1>8, <2>6, <2>7, <2>8
<1>10. CASE ParseEnd(k, c)
  <2>1. /\ Tasks(k) /\ c.at = "end" /\ deviceMap[k] # <<>> /\ deviceMap' = [deviceMap EXCEPT ![k] = <<>>]
        /\ kernelMap' = [j \in Keys |-> IF j = k /\ ~IsGraphTask(k) THEN Tail(Cached(j)) ELSE Cached(j)]
        /\ kernels' = Append(kernels, KernelRecord(Head(IF IsGraphTask(k) THEN CachedGraph(k) ELSE Cached(k)),
                                                   Head(deviceMap[k]), c))
    BY <1>10 DEF ParseEnd, Popped
  <2>2. IsGraphTask(k) <=> ~Aging(k)
    BY <1>5, <2>1 DEF Tasks, IsGraphTask
  <2>3. Aging(k) => Cached(k) # <<>>
    BY <1>5, <2>1 DEF Tasks
  <2>4. ASSUME NEW j \in Keys
        PROVE  /\ Cached(j)' = IF j = k /\ Aging(k) THEN Tail(Cached(j)) ELSE Cached(j)
               /\ CachedGraph(j)' = CachedGraph(j)
               /\ kernelMap'[j] = Cached(j)' /\ kernelMap'[j] \in Seq(HostTask)
    <3>1. PICK s : s = IF j = k /\ Aging(k) THEN Tail(Cached(j)) ELSE Cached(j)
      OBVIOUS
    <3>2. kernelMap'[j] = s /\ unagingMap'[j] = CachedGraph(j)
      BY <1>6, <2>1, <2>2, <3>1
    <3>3. s \in Seq(HostTask)
      <4>1. CASE j = k /\ Aging(k)
        BY <1>5, <2>3, <3>1, <4>1, Shortened
      <4>2. CASE ~(j = k /\ Aging(k))
        BY <1>5, <3>1, <4>2
      <4>3. QED
        BY <4>1, <4>2
    <3>4. QED
      BY <1>4, <3>1, <3>2, <3>3, MovedCached
  <2>5. ReadsLog(k, c)
    <3>1. \A j \in Keys : j # k => Cached(j)' = Cached(j) /\ deviceMap'[j] = deviceMap[j]
      BY <1>7, <2>1, <2>4
    <3>2. QED
      BY <1>1, <1>3, <1>4, <2>4, <3>1 DEF ReadsLog
  <2>6. \E h \in HostTask : RecordsKernel(k, c, h)
    <3>1. deviceMap'[k] = <<>>
      BY <1>7, <2>1
    <3>2. CASE Aging(k)
      <4>1. PICK h : h = Head(Cached(k))
        OBVIOUS
      <4>2. h \in HostTask
        BY <1>5, <2>3, <3>2, <4>1, Shortened
      <4>3. RecordsKernel(k, c, h)
        BY <2>1, <2>2, <2>3, <2>4, <3>1, <3>2, <4>1 DEF RecordsKernel
      <4>4. QED
        BY <4>2, <4>3
    <3>3. CASE ~Aging(k)
      <4>1. PICK h : h = Head(CachedGraph(k))
        OBVIOUS
      <4>2. CachedGraph(k) # <<>>
        BY <2>2, <3>3 DEF IsGraphTask
      <4>3. h \in HostTask
        BY <1>5, <4>1, <4>2, Shortened
      <4>4. RecordsKernel(k, c, h)
        BY <2>1, <2>2, <2>4, <3>1, <3>3, <4>1, <4>2 DEF RecordsKernel
      <4>5. QED
        BY <4>3, <4>4
    <3>4. QED
      BY <3>2, <3>3
  <2>7. \A j \in Keys : IF Aging(j) THEN unagingMap'[j] = <<>> ELSE kernelMap'[j] = <<>>
    <3>1. TAKE j \in Keys
    <3>2. CASE Aging(j)
      BY <1>5, <1>6, <3>2
    <3>3. CASE ~Aging(j)
      BY <1>5, <2>4, <3>3
    <3>4. QED
      BY <3>2, <3>3
  <2>8. kernelMap' \in [Keys -> Seq(HostTask)] /\ unagingMap' \in [Keys -> Seq(HostTask)]
        /\ \A j \in Keys : Len(unagingMap'[j]) <= 1
    BY <1>5, <1>6, <2>1, <2>4
  <2>9. QED
    BY <1>8, <2>5, <2>6, <2>7, <2>8
<1>11. QED
  BY <1>4, <1>9, <1>10

-----------------------------------------------------------------------------
(* The ids that are still to be taken.                                       *)
LEMMA UnaskedFacts ==
  ASSUME Types, Ours
  PROVE  /\ IsFiniteSet(Unasked) /\ Unasked \subseteq DOMAIN calls
         /\ Cardinality(Unasked) \in Nat
         /\ \A n \in Unasked : Cardinality(Unasked \ {n}) + 1 = Cardinality(Unasked)
<1>1. Unasked \subseteq DOMAIN calls
  BY DEF Unasked, Ours, Busy
<1>2. IsFiniteSet(DOMAIN calls)
  BY CallsKnown, FS_Interval
<1>3. IsFiniteSet(Unasked)
  BY <1>1, <1>2, FS_Subset
<1>4. Cardinality(Unasked) \in Nat
  BY <1>3, FS_CardinalityType
<1>5. ASSUME NEW n \in Unasked PROVE Cardinality(Unasked \ {n}) + 1 = Cardinality(Unasked)
  <2>1. /\ IsFiniteSet(Unasked \ {n})
        /\ Cardinality(Unasked \ {n}) = IF n \in Unasked THEN Cardinality(Unasked) - 1 ELSE Cardinality(Unasked)
    BY <1>3, FS_RemoveElement
  <2>2. Cardinality(Unasked \ {n}) = Cardinality(Unasked) - 1
    BY <2>1
  <2>3. QED
    BY <1>4, <2>2
<1>6. QED
  BY <1>1, <1>3, <1>4, <1>5

(* A call counts two ids: its own, and that of the task track it has still   *)
(* to report.                                                                *)
LEMMA CallCounted ==
  ASSUME Types, Ours, Counted, NEW t \in Threads, NEW k \in Keys, Call(t, k)
  PROVE  Counted' /\ correlationId' \in 1 .. 2 * MaxCalls + 1
         /\ threadCorrelationIdInfo' \in [Threads -> 0 .. 2 * MaxCalls]
         /\ threadCorrelationIdInfo'[t] # 0
<1>1. PICK n \in Nat :
        /\ n = Len(calls) + 1 /\ n <= MaxCalls /\ n \notin DOMAIN calls /\ Len(calls') = n
        /\ call' = [call EXCEPT ![t] = n] /\ pc' = [pc EXCEPT ![t] = "launched"]
        /\ pc[t] = "idle" /\ UpdateAndReportCorrelationId(t)
  BY CallFacts
<1>2. /\ correlationId' = correlationId + 1 /\ correlationId \in Nat /\ correlationId # 0
      /\ threadCorrelationIdInfo' = [threadCorrelationIdInfo EXCEPT ![t] = correlationId]
      /\ Len(calls) \in Nat /\ MaxCalls \in Nat
  BY <1>1, CallsKnown, KernelRecordsAssumption DEF UpdateAndReportCorrelationId, Types
<1>3. PICK C \in Nat : C = Cardinality(Unasked)
  BY UnaskedFacts
<1>4. Unasked' = Unasked \cup {n}
  BY <1>1 DEF Unasked, Types
<1>5. Cardinality(Unasked') = C + 1
  <2>1. n \notin Unasked
    BY <1>1, UnaskedFacts
  <2>2. Cardinality(Unasked \cup {n}) = IF n \in Unasked THEN Cardinality(Unasked) ELSE Cardinality(Unasked) + 1
    BY UnaskedFacts, FS_AddElement
  <2>3. QED
    BY <1>3, <1>4, <2>1, <2>2
<1>6. correlationId + C <= 2 * Len(calls) + 1
  BY <1>3 DEF Counted
<1>7. correlationId <= 2 * MaxCalls
  BY <1>1, <1>2, <1>6
<1>8. Counted'
  <2>1. correlationId' + (C + 1) <= 2 * Len(calls') + 1
    BY <1>1, <1>2, <1>6
  <2>2. QED
    BY <1>5, <2>1 DEF Counted
<1>9. QED
  BY <1>2, <1>7, <1>8 DEF Types

(* A task track takes the id that its call had counted for it.               *)
LEMMA TrackCounted ==
  ASSUME Types, Ours, Counted, NEW t \in Threads, ReportRtTaskTrack(t)
  PROVE  Counted' /\ correlationId' \in 1 .. 2 * MaxCalls + 1
         /\ threadCorrelationIdInfo' \in [Threads -> 0 .. 2 * MaxCalls]
         /\ threadCorrelationIdInfo'[t] # 0
<1>1. pc[t] = "launched" /\ call' = call /\ calls' = calls
  BY DEF ReportRtTaskTrack
<1>2. PICK n : n = call[t]
  OBVIOUS
<1>3. n \in Unasked /\ threadCorrelationIdInfo[t] # 0
  BY <1>1, <1>2 DEF Unasked, Ours, Busy
<1>4. pc' = [pc EXCEPT ![t] = "reporting"] \/ pc' = [pc EXCEPT ![t] = "returning"]
  BY DEF ReportRtTaskTrack
<1>5. Unasked' = Unasked \ {n}
  <2>1. \A u \in Threads : pc'[u] = "launched" <=> (u # t /\ pc[u] = "launched")
    BY <1>4 DEF Types
  <2>2. \A u \in Threads : u # t /\ pc[u] = "launched" => call[u] # n
    BY <1>1, <1>2 DEF Ours, Busy
  <2>3. QED
    BY <1>1, <1>2, <2>1, <2>2 DEF Unasked
<1>6. PICK C \in Nat : C = Cardinality(Unasked')
  <2>1. IsFiniteSet(Unasked \ {n})
    BY UnaskedFacts, FS_Subset
  <2>2. QED
    BY <1>5, <2>1, FS_CardinalityType
<1>7. C + 1 = Cardinality(Unasked)
  BY <1>3, <1>5, <1>6, UnaskedFacts
<1>8. correlationId \in Nat /\ correlationId # 0 /\ Len(calls) \in Nat /\ Len(calls) <= MaxCalls /\ MaxCalls \in Nat
      /\ correlationId + (C + 1) <= 2 * Len(calls) + 1
  <2>1. correlationId \in 1 .. 2 * MaxCalls + 1 /\ Len(calls) <= MaxCalls
    BY DEF Types
  <2>2. MaxCalls \in Nat
    BY KernelRecordsAssumption
  <2>3. correlationId \in Nat /\ correlationId # 0
    BY <2>1, <2>2
  <2>4. correlationId + Cardinality(Unasked) <= 2 * Len(calls) + 1
    BY DEF Counted
  <2>5. QED
    BY <1>7, <2>1, <2>2, <2>3, <2>4, CallsKnown
<1>9. \/ correlationId' = correlationId + 1
         /\ threadCorrelationIdInfo' = [threadCorrelationIdInfo EXCEPT ![t] = correlationId]
      \/ correlationId' = correlationId /\ threadCorrelationIdInfo' = threadCorrelationIdInfo
  BY DEF ReportRtTaskTrack, UpdateAndReportCorrelationId
<1>10. correlationId' + C <= 2 * Len(calls') + 1 /\ correlationId <= 2 * MaxCalls
  BY <1>1, <1>8, <1>9
<1>11. Counted'
  BY <1>6, <1>10 DEF Counted
<1>12. correlationId' \in 1 .. 2 * MaxCalls + 1
  <2>1. correlationId \in 1 .. 2 * MaxCalls + 1
    BY DEF Types
  <2>2. QED
    BY <1>8, <1>9, <1>10, <2>1
<1>13. /\ threadCorrelationIdInfo' \in [Threads -> 0 .. 2 * MaxCalls]
       /\ threadCorrelationIdInfo'[t] # 0
  <2>1. correlationId \in 0 .. 2 * MaxCalls
    BY <1>8, <1>10
  <2>2. threadCorrelationIdInfo \in [Threads -> 0 .. 2 * MaxCalls]
    BY DEF Types
  <2>3. QED
    BY <1>3, <1>8, <1>9, <2>1, <2>2
<1>14. QED
  BY <1>11, <1>12, <1>13

(* Steps that take no id and neither begin nor report a call keep the        *)
(* count.                                                                    *)
LEMMA OthersCounted ==
  ASSUME Types, Counted, UNCHANGED <<correlationId, call, calls>>,
         \A u \in Threads : pc'[u] = "launched" <=> pc[u] = "launched"
  PROVE  Counted'
<1>1. Unasked' = Unasked
  BY DEF Unasked
<1>2. QED
  BY <1>1 DEF Counted

-----------------------------------------------------------------------------
(* Types.                                                                    *)
LEMMA RunTypes ==
  ASSUME NEW n \in Launched, NEW r \in 1 .. MaxReplays + 1, NEW a \in {"begin", "end"}
  PROVE  SysCnt(n, r, a) \in Counters /\ SysCnt(n, r, a).launch = n /\ SysCnt(n, r, a).run = r
         /\ SysCnt(n, r, a).at = a
BY DEF SysCnt, Counters

(* A log has the key of its launch and the time of its task.                 *)
LEMMA LogTypes ==
  ASSUME Types, NEW c \in Counters, c.launch \in DOMAIN calls
  PROVE  Log(c) \in LogSet /\ Log(c).key = calls[c.launch] /\ Log(c).time = c
BY CallsKnown DEF Log, LogSet

(* What a launch, a capture and a replay give to a stream.                   *)
LEMMA LaunchEffect ==
  ASSUME Types, NEW t \in Threads, Launch(t)
  PROVE  \E k \in Keys, n \in Nat, c \in Counters :
           /\ k \notin GraphKeys /\ Call(t, k) /\ n = Len(calls) + 1
           /\ c = SysCnt(n, 1, "end") /\ c.launch = n /\ c.run = 1 /\ c.at = "end"
           /\ toRun' = [toRun EXCEPT ![NoKey] = Append(@, c)]
           /\ toRun' \in [Streams -> Seq(Counters)]
           /\ UNCHANGED <<parserVars, enabled, hostTasks, apis, begun, channel, replays,
                          faults, reported, done, exact>>
<1>1. PICK k : k = Cardinality(AgingLaunches) % NumIds
  OBVIOUS
<1>2. PICK n \in Nat : n = Len(calls) + 1
  BY CallsKnown
<1>3. /\ Call(t, k) /\ toRun' = [toRun EXCEPT ![NoKey] = Append(@, SysCnt(n, 1, "end"))]
      /\ UNCHANGED <<parserVars, enabled, hostTasks, apis, begun, channel, replays,
                     faults, reported, done, exact>>
  BY <1>1, <1>2 DEF Launch
<1>4. k \in 0 .. NumIds - 1
  <2>1. IsFiniteSet(AgingLaunches)
    <3>1. IsFiniteSet(DOMAIN calls)
      BY CallsKnown, FS_Interval
    <3>2. QED
      BY <3>1, FS_Subset DEF AgingLaunches
  <2>2. Cardinality(AgingLaunches) \in Nat
    BY <2>1, FS_CardinalityType
  <2>3. QED
    BY <1>1, <2>2, KernelRecordsAssumption
<1>5. k \in Keys /\ k \notin GraphKeys
  BY <1>4, AgingKey DEF Keys
<1>6. n \in Launched
  <2>1. Len(calls) < MaxCalls /\ Len(calls) \in Nat
    BY <1>3, CallsKnown DEF Call
  <2>2. QED
    BY <1>2, <2>1, KernelRecordsAssumption DEF Launched
<1>7. PICK c \in Counters : c = SysCnt(n, 1, "end") /\ c.launch = n /\ c.run = 1 /\ c.at = "end"
  <2>1. 1 \in 1 .. MaxReplays + 1
    BY KernelRecordsAssumption
  <2>2. QED
    BY <1>6, <2>1, RunTypes
<1>8. toRun' \in [Streams -> Seq(Counters)]
  <2>1. NoKey \in Streams
    BY DEF Streams
  <2>2. Append(toRun[NoKey], c) \in Seq(Counters)
    BY <2>1, Appended DEF Types
  <2>3. QED
    BY <1>3, <1>7, <2>1, <2>2 DEF Types
<1>9. QED
  BY <1>2, <1>3, <1>5, <1>7, <1>8

(* A replay puts the latest launch of its graph at the end of the stream.    *)
LEMMA ReplayEffect ==
  ASSUME Types, NEW k \in GraphKeys, Replay(k)
  PROVE  \E n \in LaunchesOn(k), c \in Counters :
           /\ \A m \in LaunchesOn(k) : m <= n
           /\ c.launch = n /\ c.run = replays + 1 /\ c.at = "end"
           /\ toRun' = [toRun EXCEPT ![k] = Append(@, c)]
           /\ toRun' \in [Streams -> Seq(Counters)]
           /\ replays \in Nat /\ replays' = replays + 1 /\ replays' \in 0 .. MaxReplays
<1>1. PICK n \in LaunchesOn(k) :
        /\ \A m \in LaunchesOn(k) : m <= n
        /\ toRun' = [toRun EXCEPT ![k] = Append(@, SysCnt(n, replays + 1, "end"))]
  BY DEF Replay
<1>2. replays \in Nat /\ replays < MaxReplays /\ MaxReplays \in Nat /\ replays' = replays + 1
  BY KernelRecordsAssumption DEF Replay, Types
<1>3. n \in Launched
  BY CallsKnown DEF LaunchesOn
<1>4. PICK c \in Counters : /\ c = SysCnt(n, replays + 1, "end")
                            /\ c.launch = n /\ c.run = replays + 1 /\ c.at = "end"
  <2>1. replays + 1 \in 1 .. MaxReplays + 1
    BY <1>2
  <2>2. QED
    BY <1>3, <2>1, RunTypes
<1>5. toRun' \in [Streams -> Seq(Counters)]
  <2>1. k \in Streams
    BY DEF Streams
  <2>2. Append(toRun[k], c) \in Seq(Counters)
    BY <2>1, Appended DEF Types
  <2>3. QED
    BY <1>1, <1>4, <2>1, <2>2 DEF Types
<1>6. toRun' = [toRun EXCEPT ![k] = Append(@, c)]
  BY <1>1, <1>4
<1>7. replays' \in 0 .. MaxReplays
  BY <1>2
<1>8. QED
  BY <1>1, <1>2, <1>4, <1>5, <1>6, <1>7

(* A task begins, and ends.                                                  *)
LEMMA BeginEffect ==
  ASSUME Types, Device, NEW s \in Streams, BeginTask(s)
  PROVE  \E c \in Counters, b \in Counters, l \in LogSet :
           /\ toRun[s] # <<>> /\ ~begun[s] /\ c = Head(toRun[s]) /\ c.at = "end" /\ c.launch \in DOMAIN calls
           /\ OnStream(c, s)
           /\ b.launch = c.launch /\ b.run = c.run /\ b.at = "begin" /\ End(b) = c
           /\ begun' = [begun EXCEPT ![s] = TRUE]
           /\ l.key = calls[b.launch] /\ l.time = b /\ channel' = Append(channel, l)
<1>1. toRun[s] \in Seq(Counters) /\ toRun[s] # <<>>
  BY DEF BeginTask, Types
<1>2. PICK c \in Counters : c = Head(toRun[s])
  BY <1>1, Shortened
<1>3. 1 \in DOMAIN toRun[s] /\ toRun[s][1] = c
  BY <1>1, <1>2, Shortened
<1>4. c.at = "end" /\ c.launch \in DOMAIN calls /\ OnStream(c, s)
  BY <1>3 DEF Device, Orderly, WellMade, InStream
<1>5. PICK b : b = [c EXCEPT !.at = "begin"]
  OBVIOUS
<1>6. b \in Counters /\ b.launch = c.launch /\ b.run = c.run /\ b.at = "begin"
  BY <1>5 DEF Counters
<1>7. End(b) = c
  BY <1>4, <1>6, LogFacts
<1>8. PICK l \in LogSet : l = Log(b) /\ l.key = calls[b.launch] /\ l.time = b
  BY <1>4, <1>6, LogTypes
<1>9. QED
  BY <1>1, <1>2, <1>4, <1>5, <1>6, <1>7, <1>8 DEF BeginTask

(* A task that ends writes the log of its end and leaves the stream.         *)
LEMMA EndEffect ==
  ASSUME Types, Device, NEW s \in Streams, EndTask(s)
  PROVE  \E c \in Counters, l \in LogSet :
           /\ toRun[s] # <<>> /\ begun[s] /\ c = Head(toRun[s]) /\ c.at = "end" /\ c.launch \in DOMAIN calls
           /\ OnStream(c, s) /\ WellMade(c)
           /\ begun' = [begun EXCEPT ![s] = FALSE]
           /\ l.key = calls[c.launch] /\ l.time = c /\ channel' = Append(channel, l)
           /\ toRun' = [toRun EXCEPT ![s] = Tail(@)] /\ toRun' \in [Streams -> Seq(Counters)]
           /\ done' = done \cup {c}
<1>1. toRun[s] \in Seq(Counters) /\ toRun[s] # <<>>
  BY DEF EndTask, Types, Device, Orderly
<1>2. PICK c \in Counters : c = Head(toRun[s])
  BY <1>1, Shortened
<1>3. 1 \in DOMAIN toRun[s] /\ toRun[s][1] = c /\ Tail(toRun[s]) \in Seq(Counters)
  BY <1>1, <1>2, Shortened
<1>4. WellMade(c) /\ c.at = "end" /\ c.launch \in DOMAIN calls /\ OnStream(c, s)
  BY <1>3 DEF Device, Orderly, WellMade, InStream
<1>5. PICK l \in LogSet : l = Log(c) /\ l.key = calls[c.launch] /\ l.time = c
  BY <1>4, LogTypes
<1>6. toRun' = [toRun EXCEPT ![s] = Tail(@)] /\ toRun' \in [Streams -> Seq(Counters)]
  BY <1>3 DEF EndTask, Types
<1>7. QED
  BY <1>1, <1>2, <1>4, <1>5, <1>6 DEF EndTask

(* The types of what a call changes.                                         *)
LEMMA CallTypes ==
  ASSUME Types, Ours, Counted, NEW t \in Threads, NEW k \in Keys, Call(t, k)
  PROVE  /\ pc' \in [Threads -> Places] /\ call' \in [Threads -> Nat]
         /\ calls' \in Seq(Keys) /\ Len(calls') <= MaxCalls
         /\ correlationId' \in 1 .. 2 * MaxCalls + 1
         /\ threadCorrelationIdInfo' \in [Threads -> 0 .. 2 * MaxCalls]
<1>1. PICK n \in Nat :
        /\ n <= MaxCalls /\ calls' \in Seq(Keys) /\ Len(calls') = n
        /\ call' = [call EXCEPT ![t] = n] /\ pc' = [pc EXCEPT ![t] = "launched"]
  BY CallFacts
<1>2. pc' \in [Threads -> Places] /\ call' \in [Threads -> Nat]
  BY <1>1 DEF Types, Places
<1>3. QED
  BY <1>1, <1>2, CallCounted

(* The types of what reading a log changes.                                  *)
LEMMA ReadTypes ==
  ASSUME Types, Single, Waiting, ReportSocLog
  PROVE  Types' /\ Single'
<1>1. PICK k \in Keys, c \in Counters :
        /\ ReadsLog(k, c)
        /\ Notes(k, c) \/ \E h \in HostTask : RecordsKernel(k, c, h)
        /\ kernelMap' \in [Keys -> Seq(HostTask)] /\ unagingMap' \in [Keys -> Seq(HostTask)]
        /\ hostTasks' \in [Keys -> Seq(HostTask)]
        /\ \A j \in Keys : Len(unagingMap'[j]) <= 1
  BY ReadEffect
<1>2. /\ channel # <<>> /\ channel' = Tail(channel) /\ exact' \subseteq exact
      /\ \A j \in Keys : j # k => deviceMap'[j] = deviceMap[j]
  BY <1>1 DEF ReadsLog
<1>3. channel' \in Seq(LogSet)
  BY <1>2, Shortened DEF Types
<1>4. deviceMap[k] \in Seq(Counters) /\ Len(deviceMap[k]) <= 1
  BY DEF Types, Single
<1>5. deviceMap'[k] \in Seq(Counters) /\ Len(deviceMap'[k]) <= 1 /\ kernels' \in Seq(Records)
  <2>1. CASE Notes(k, c)
    <3>1. kernels' = kernels
          /\ deviceMap'[k] = IF Tasks(k) /\ c.at = "begin" THEN Emplaced(Append(deviceMap[k], c)) ELSE deviceMap[k]
      BY <2>1 DEF Notes
    <3>2. PICK u \in Seq(Counters) : u = Append(deviceMap[k], c)
      BY <1>4, Appended
    <3>3. Emplaced(u) \in Seq(Counters) /\ Len(Emplaced(u)) <= 1
      BY EmplacedFacts
    <3>4. QED
      BY <1>4, <3>1, <3>2, <3>3 DEF Types
  <2>2. ASSUME NEW h \in HostTask, RecordsKernel(k, c, h)
        PROVE  deviceMap'[k] \in Seq(Counters) /\ Len(deviceMap'[k]) <= 1 /\ kernels' \in Seq(Records)
    <3>1. deviceMap[k] # <<>> /\ deviceMap'[k] = <<>> /\ kernels' = Append(kernels, KernelRecord(h, Head(deviceMap[k]), c))
      BY <2>2 DEF RecordsKernel
    <3>2. Head(deviceMap[k]) \in Counters
      BY <1>4, <3>1, Shortened
    <3>3. PICK r : r = KernelRecord(h, Head(deviceMap[k]), c)
      OBVIOUS
    <3>4. r \in Records
      BY <3>2, <3>3 DEF KernelRecord, Records, RealTime, HostTask
    <3>5. Append(kernels, r) \in Seq(Records)
      BY <3>4, Appended DEF Types
    <3>6. <<>> \in Seq(Counters) /\ Len(<<>>) = 0
      BY EmptySeq
    <3>7. QED
      BY <3>1, <3>3, <3>5, <3>6
  <2>3. QED
    BY <1>1, <2>1, <2>2
<1>6. deviceMap' \in [Keys -> Seq(Counters)]
  <2>1. \A j \in Keys : deviceMap'[j] \in Seq(Counters)
    BY <1>2, <1>5 DEF Types
  <2>2. DOMAIN deviceMap' = Keys /\ deviceMap' = [j \in DOMAIN deviceMap' |-> deviceMap'[j]]
    <3>1. ReportSocLog /\ deviceMap \in [Keys -> Seq(Counters)]
      BY DEF Types
    <3>2. deviceMap' = deviceMap \/ \E j, v : deviceMap' = [deviceMap EXCEPT ![j] = v]
      BY <3>1 DEF ReportSocLog, ParseBegin, ParseNothing, ParseEnd
    <3>3. QED
      BY <3>1, <3>2
  <2>3. QED
    BY <2>1, <2>2
<1>7. UNCHANGED <<hostVars, deviceVars, enabled, apis, replays, faults, reported, done>>
  BY DEF ReportSocLog
<1>8. Types'
  BY <1>1, <1>2, <1>3, <1>5, <1>6, <1>7 DEF Types, hostVars, deviceVars
<1>9. Single'
  BY <1>1, <1>2, <1>5 DEF Single
<1>10. QED
  BY <1>8, <1>9

(* Every step keeps the types, and one start at most for each key.           *)
LEMMA TypesStep ==
  ASSUME Types, Single, Ours, Counted, Waiting, Device, Next
  PROVE  Types' /\ Single'
<1>1. ASSUME NEW t \in Threads, Launch(t) PROVE Types' /\ Single'
  <2>1. PICK k \in Keys :
          /\ Call(t, k) /\ toRun' \in [Streams -> Seq(Counters)]
          /\ UNCHANGED <<parserVars, enabled, hostTasks, apis, begun, channel, replays,
                         faults, reported, done, exact>>
    BY <1>1, LaunchEffect
  <2>2. QED
    BY <2>1, CallTypes DEF Types, Single, parserVars
<1>2. ASSUME NEW t \in Threads, NEW k \in GraphKeys, Capture(t, k) PROVE Types' /\ Single'
  <2>1. k \in Keys
    BY DEF Keys
  <2>2. /\ Call(t, k) /\ exact' \subseteq exact
        /\ UNCHANGED <<parserVars, enabled, hostTasks, apis, toRun, begun, channel, replays,
                       faults, reported, done>>
    BY <1>2 DEF Capture
  <2>3. QED
    BY <2>1, <2>2, CallTypes DEF Types, Single, parserVars
<1>3. ASSUME NEW t \in Threads, ReportRtTaskTrack(t) PROVE Types' /\ Single'
  <2>1. pc' \in [Threads -> Places] /\ exact' \subseteq exact
    BY <1>3 DEF ReportRtTaskTrack, Types, Places
  <2>2. UNCHANGED <<parserVars, deviceVars, enabled, hostTasks, apis, call, calls,
                    channel, replays, faults, reported, done>>
    BY <1>3 DEF ReportRtTaskTrack
  <2>3. QED
    BY <1>3, <2>1, <2>2, TrackCounted DEF Types, Single, parserVars, deviceVars
<1>4. ASSUME NEW t \in Threads, PushHostTask(t) PROVE Types' /\ Single'
  <2>1. Types'
    BY <1>4, PushCached
  <2>2. UNCHANGED <<unagingMap, deviceMap>>
    BY <1>4 DEF PushHostTask, parserVars
  <2>3. QED
    BY <2>1, <2>2 DEF Single
<1>5. ASSUME NEW t \in Threads, ReportRtApi(t) PROVE Types' /\ Single'
  <2>1. UNCHANGED <<correlationId, threadCorrelationIdInfo, parserVars, deviceVars,
                    enabled, hostTasks, call, calls, channel, replays, faults,
                    reported, done, exact>>
    BY <1>5 DEF ReportRtApi
  <2>2. pc' \in [Threads -> Places]
    BY <1>5 DEF ReportRtApi, Types, Places
  <2>3. apis' \subseteq ApiSet
    <3>1. PICK a : a = [call |-> call[t], correlationId |-> threadCorrelationIdInfo[t]]
      OBVIOUS
    <3>2. apis' = apis \cup {a} /\ call[t] \in Launched
      BY <1>5, <3>1, CallsKnown DEF ReportRtApi, GetCorrelationId, Ours, Busy
    <3>3. a \in ApiSet
      BY <3>1, <3>2 DEF ApiSet, Types
    <3>4. QED
      BY <3>2, <3>3 DEF Types
  <2>4. QED
    BY <2>1, <2>2, <2>3 DEF Types, Single, parserVars, deviceVars
<1>6. ASSUME NEW k \in GraphKeys, Replay(k) PROVE Types' /\ Single'
  <2>1. UNCHANGED <<hostVars, parserVars, begun, enabled, hostTasks, apis, channel,
                    faults, reported, done, exact>>
    BY <1>6 DEF Replay
  <2>2. toRun' \in [Streams -> Seq(Counters)] /\ replays' \in 0 .. MaxReplays
    BY <1>6, ReplayEffect
  <2>3. QED
    BY <2>1, <2>2 DEF Types, Single, hostVars, parserVars
<1>7. ASSUME NEW s \in Streams, BeginTask(s) PROVE Types' /\ Single'
  <2>1. UNCHANGED <<hostVars, parserVars, toRun, enabled, hostTasks, apis, replays,
                    faults, reported, done, exact>>
    BY <1>7 DEF BeginTask
  <2>2. PICK l \in LogSet : begun' = [begun EXCEPT ![s] = TRUE] /\ channel' = Append(channel, l)
    BY <1>7, BeginEffect
  <2>3. channel' \in Seq(LogSet) /\ begun' \in [Streams -> BOOLEAN]
    BY <2>2, Appended DEF Types
  <2>4. QED
    BY <2>1, <2>3 DEF Types, Single, hostVars, parserVars
<1>8. ASSUME NEW s \in Streams, EndTask(s) PROVE Types' /\ Single'
  <2>1. UNCHANGED <<hostVars, parserVars, enabled, hostTasks, apis, replays, faults, reported, exact>>
    BY <1>8 DEF EndTask
  <2>2. PICK c \in Counters, l \in LogSet :
          /\ begun' = [begun EXCEPT ![s] = FALSE] /\ channel' = Append(channel, l)
          /\ toRun' \in [Streams -> Seq(Counters)] /\ done' = done \cup {c}
    BY <1>8, EndEffect
  <2>3. channel' \in Seq(LogSet) /\ begun' \in [Streams -> BOOLEAN] /\ done' \subseteq Counters
    BY <2>2, Appended DEF Types
  <2>4. QED
    BY <2>1, <2>2, <2>3 DEF Types, Single, hostVars, parserVars
<1>9. CASE Switch
  BY <1>9 DEF Switch, Types, Single, hostVars, parserVars, deviceVars
<1>10. CASE LoseLog \/ IgnoreSocLog
  <2>1. /\ UNCHANGED <<hostVars, parserVars, deviceVars, enabled, hostTasks, apis, replays,
                       reported, done>>
        /\ channel # <<>> /\ channel' = Tail(channel) /\ exact' \subseteq exact
    BY <1>10 DEF LoseLog, IgnoreSocLog
  <2>2. channel' \in Seq(LogSet)
    BY <2>1, Shortened DEF Types
  <2>3. QED
    BY <2>1, <2>2 DEF Types, Single, hostVars, parserVars, deviceVars
<1>11. CASE ReportSocLog
  BY <1>11, ReadTypes
<1>12. QED
  BY <1>1, <1>2, <1>3, <1>4, <1>5, <1>6, <1>7, <1>8, <1>9, <1>10, <1>11 DEF Next, Host

-----------------------------------------------------------------------------
(* Calls under way.                                                          *)
LEMMA CallOurs ==
  ASSUME Types, Ours, Counted, NEW t \in Threads, NEW k \in Keys, Call(t, k), apis' = apis
  PROVE  Ours'
<1>1. PICK n \in Nat :
        /\ n \notin DOMAIN calls /\ DOMAIN calls' = DOMAIN calls \cup {n}
        /\ call' = [call EXCEPT ![t] = n] /\ pc' = [pc EXCEPT ![t] = "launched"]
        /\ UpdateAndReportCorrelationId(t)
  BY CallFacts
<1>2. threadCorrelationIdInfo'[t] # 0
  BY CallCounted
<1>3. /\ call'[t] = n /\ pc'[t] = "launched"
      /\ \A u \in Threads : u # t => /\ pc'[u] = pc[u] /\ call'[u] = call[u]
                                     /\ threadCorrelationIdInfo'[u] = threadCorrelationIdInfo[u]
  BY <1>1 DEF Types, UpdateAndReportCorrelationId
<1>4. ASSUME NEW u \in Threads, Busy(u)'
      PROVE  /\ call'[u] \in DOMAIN calls' /\ threadCorrelationIdInfo'[u] # 0
             /\ \A a \in apis' : a.call # call'[u]
             /\ \A w \in Threads : Busy(w)' /\ call'[w] = call'[u] => w = u
  <2>1. \A w \in Threads : w # t /\ Busy(w)' => Busy(w) /\ call'[w] \in DOMAIN calls
    BY <1>3 DEF Ours, Busy
  <2>2. CASE u = t
    BY <1>1, <1>2, <1>3, <2>1, <2>2 DEF Ours
  <2>3. CASE u # t
    BY <1>1, <1>3, <1>4, <2>1, <2>3 DEF Ours
  <2>4. QED
    BY <2>2, <2>3
<1>5. QED
  BY <1>1, <1>4 DEF Ours, Busy

(* Every step keeps each thread's call its own, and the ids bounded by the   *)
(* calls.                                                                    *)
LEMMA OursStep ==
  ASSUME Types, Ours, Counted, Next
  PROVE  Ours' /\ Counted'
<1>1. ASSUME NEW t \in Threads, Launch(t) PROVE Ours' /\ Counted'
  <2>1. PICK k \in Keys : Call(t, k) /\ apis' = apis
    BY <1>1, LaunchEffect
  <2>2. QED
    BY <2>1, CallOurs, CallCounted
<1>2. ASSUME NEW t \in Threads, NEW k \in GraphKeys, Capture(t, k) PROVE Ours' /\ Counted'
  <2>1. k \in Keys /\ Call(t, k) /\ apis' = apis
    BY <1>2 DEF Keys, Capture
  <2>2. QED
    BY <2>1, CallOurs, CallCounted
<1>3. ASSUME NEW t \in Threads, ReportRtTaskTrack(t) PROVE Ours' /\ Counted'
  <2>1. /\ UNCHANGED <<call, calls, apis>>
        /\ \A u \in Threads : Busy(u)' => Busy(u)
        /\ \A u \in Threads : u # t => threadCorrelationIdInfo'[u] = threadCorrelationIdInfo[u]
    BY <1>3 DEF ReportRtTaskTrack, UpdateAndReportCorrelationId, Types, Busy
  <2>2. threadCorrelationIdInfo'[t] # 0 /\ Counted'
    BY <1>3, TrackCounted
  <2>3. Ours'
    BY <2>1, <2>2 DEF Ours, Busy
  <2>4. QED
    BY <2>2, <2>3
<1>4. ASSUME NEW t \in Threads, PushHostTask(t) PROVE Ours' /\ Counted'
  <2>1. /\ UNCHANGED <<correlationId, call, calls, apis, threadCorrelationIdInfo>>
        /\ pc[t] = "reporting" /\ pc' = [pc EXCEPT ![t] = "returning"]
    BY <1>4 DEF PushHostTask
  <2>2. \A u \in Threads : (Busy(u)' <=> Busy(u)) /\ (pc'[u] = "launched" <=> pc[u] = "launched")
    BY <2>1 DEF Busy, Types
  <2>3. QED
    BY <2>1, <2>2, OthersCounted DEF Ours, Busy
<1>5. ASSUME NEW t \in Threads, ReportRtApi(t) PROVE Ours' /\ Counted'
  <2>1. PICK a : a = [call |-> call[t], correlationId |-> threadCorrelationIdInfo[t]]
    OBVIOUS
  <2>2. /\ UNCHANGED <<correlationId, call, calls, threadCorrelationIdInfo>> /\ apis' = apis \cup {a}
        /\ pc[t] = "returning" /\ pc' = [pc EXCEPT ![t] = "idle"] /\ a.call = call[t]
    BY <1>5, <2>1 DEF ReportRtApi, GetCorrelationId
  <2>3. \A u \in Threads : (Busy(u)' <=> Busy(u) /\ u # t) /\ (pc'[u] = "launched" <=> pc[u] = "launched")
    BY <2>2 DEF Busy, Types
  <2>4. Busy(t)
    BY <2>2 DEF Busy
  <2>5. call[t] \in DOMAIN calls /\ \A u \in Threads : Busy(u) /\ u # t => call[u] # call[t]
    BY <2>4 DEF Ours
  <2>6. ASSUME NEW u \in Threads, Busy(u)'
        PROVE  /\ call'[u] \in DOMAIN calls' /\ threadCorrelationIdInfo'[u] # 0
               /\ \A b \in apis' : b.call # call'[u]
               /\ \A w \in Threads : Busy(w)' /\ call'[w] = call'[u] => w = u
    BY <2>2, <2>3, <2>5, <2>6 DEF Ours
  <2>7. Ours'
    BY <2>2, <2>5, <2>6 DEF Ours, Busy
  <2>8. QED
    BY <2>2, <2>3, <2>7, OthersCounted
<1>6. CASE UNCHANGED <<hostVars, apis>>
  BY <1>6, OthersCounted DEF hostVars, Ours, Busy
<1>7. ASSUME NEW k \in GraphKeys, Replay(k) PROVE UNCHANGED <<hostVars, apis>>
  BY <1>7 DEF Replay
<1>8. ASSUME NEW s \in Streams, BeginTask(s) \/ EndTask(s) PROVE UNCHANGED <<hostVars, apis>>
  BY <1>8 DEF BeginTask, EndTask
<1>9. ASSUME Switch \/ LoseLog \/ ReportSocLog \/ IgnoreSocLog PROVE UNCHANGED <<hostVars, apis>>
  BY <1>9 DEF Switch, LoseLog, ReportSocLog, IgnoreSocLog
<1>10. QED
  BY <1>1, <1>2, <1>3, <1>4, <1>5, <1>6, <1>7, <1>8, <1>9 DEF Next, Host

-----------------------------------------------------------------------------
(* Launches that wait.                                                       *)
LEMMA KernelTypes ==
  ASSUME Types
  PROVE  \A i \in DOMAIN kernels :
           /\ kernels[i] \in Records /\ kernels[i].key \in Keys
           /\ kernels[i].launch \in Nat /\ kernels[i].launch \in Launched
           /\ kernels[i].end.ns \in Counters /\ kernels[i].start.ns \in Counters
           /\ kernels[i].end = RealTime(kernels[i].end.ns)
<1>1. \A i \in DOMAIN kernels : kernels[i] \in Records
  BY ElementOfSeq DEF Types
<1>2. QED
  BY <1>1 DEF Records, Launched, RealTime

(* What waits stays as long as no cache changes, whatever new calls come.    *)
LEMMA WaitingStays ==
  ASSUME Types, Waiting, UNCHANGED <<reported, hostTasks, kernelMap, unagingMap, kernels>>,
         \A n \in DOMAIN calls : n \in DOMAIN calls' /\ calls'[n] = calls[n],
         \A t \in Threads : pc'[t] \in {"launched", "reporting"} => call'[t] \notin reported
  PROVE  Waiting'
<1>1. CachedStays
  BY NoneCached
<1>2. \A k, n : n \in LaunchesOn(k) => n \in LaunchesOn(k)'
  BY DEF LaunchesOn
<1>3. \A k \in Keys : \A n : Waits(k, n)' <=> Waits(k, n)
  BY <1>1 DEF CachedStays, Waits
<1>4. /\ reported' \subseteq DOMAIN calls'
      /\ \A t \in Threads : pc'[t] \in {"launched", "reporting"} => call'[t] \notin reported'
      /\ \A k \in Keys : IF Aging(k) THEN unagingMap'[k] = <<>> ELSE kernelMap'[k] = <<>>
  BY DEF Waiting
<1>5. ASSUME NEW k \in Keys PROVE WaitsOn(k)'
  <2>1. WaitsOn(k)
    BY DEF Waiting
  <2>2. Cached(k)' = Cached(k) /\ CachedGraph(k)' = CachedGraph(k)
    BY <1>1 DEF CachedStays
  <2>3. QED
    BY <1>2, <2>1, <2>2 DEF WaitsOn
<1>6. ASSUME NEW i \in DOMAIN kernels' PROVE Recorded(i, kernels[i].key, kernels[i].launch)'
  <2>1. PICK k \in Keys, n \in Nat : k = kernels[i].key /\ n = kernels[i].launch
    BY KernelTypes
  <2>2. Recorded(i, k, n)
    BY <2>1 DEF Waiting
  <2>3. Recorded(i, k, n)'
    BY <1>2, <1>3, <2>2 DEF Recorded, Aging
  <2>4. kernels'[i].key = k /\ kernels'[i].launch = n
    BY <2>1
  <2>5. QED
    BY <2>3, <2>4
<1>7. QED
  BY <1>4, <1>5, <1>6 DEF Waiting, Aging

(* What is pushed waits for the launch that reported it.                     *)
LEMMA WaitingPush ==
  ASSUME Types, Ours, Waiting, NEW t \in Threads, PushHostTask(t)
  PROVE  Waiting'
<1>1. PICK h \in HostTask :
        /\ h.launch = call[t] /\ h.key = calls[call[t]]
        /\ \A k \in Keys :
             /\ Cached(k)' = IF k = h.key /\ Aging(k) THEN Append(Cached(k), h) ELSE Cached(k)
             /\ CachedGraph(k)' = IF k = h.key /\ ~Aging(k) /\ CachedGraph(k) = <<>>
                                  THEN <<h>> ELSE CachedGraph(k)
  BY PushCached
<1>2. PICK n : n = call[t]
  OBVIOUS
<1>3. /\ pc[t] = "reporting" /\ pc' = [pc EXCEPT ![t] = "returning"] /\ reported' = reported \cup {n}
      /\ UNCHANGED <<call, calls, kernelMap, unagingMap, kernels>>
  BY <1>2 DEF PushHostTask, parserVars
<1>4. n \in DOMAIN calls /\ n \notin reported /\ h.launch = n /\ h.key = calls[n]
  BY <1>1, <1>2, <1>3 DEF Waiting, Ours, Busy
<1>5. ASSUME NEW u \in Threads, pc'[u] \in {"launched", "reporting"} PROVE call'[u] \notin reported'
  <2>1. u # t /\ pc'[u] = pc[u]
    BY <1>3, <1>5 DEF Types
  <2>2. call[u] \notin reported /\ call[u] # n
    BY <1>2, <1>3, <1>5, <2>1 DEF Waiting, Ours, Busy
  <2>3. QED
    BY <1>3, <2>2
<1>6. \A k : LaunchesOn(k)' = LaunchesOn(k)
  BY <1>3 DEF LaunchesOn
<1>7. ASSUME NEW k \in Keys
      PROVE  WaitsOn(k)' /\ \A m : Waits(k, m)' => Waits(k, m) \/ m = n
  <2>1. WaitsOn(k)
    BY DEF Waiting
  <2>2. PICK s \in Seq(HostTask) : s = Cached(k)
    BY CachedTypes
  <2>3. CASE ~(k = h.key /\ Aging(k))
    <3>1. Cached(k)' = s
      BY <1>1, <2>2, <2>3
    <3>2. CASE CachedGraph(k)' = CachedGraph(k)
      BY <1>3, <1>6, <2>1, <2>2, <3>1, <3>2 DEF WaitsOn, Waits
    <3>3. CASE CachedGraph(k)' # CachedGraph(k)
      <4>1. k = h.key /\ CachedGraph(k)' = <<h>>
        BY <1>1, <3>3
      <4>2. n \in LaunchesOn(k) \cap reported'
        BY <1>3, <1>4, <4>1 DEF LaunchesOn
      <4>3. \A i \in DOMAIN <<h>> : <<h>>[i] = h
        OBVIOUS
      <4>4. QED
        BY <1>3, <1>4, <1>6, <2>1, <2>2, <3>1, <4>1, <4>2, <4>3 DEF WaitsOn, Waits
    <3>4. QED
      BY <3>2, <3>3
  <2>4. CASE k = h.key /\ Aging(k)
    <3>1. PICK u : u = Append(s, h)
      OBVIOUS
    <3>2. Cached(k)' = u /\ CachedGraph(k)' = CachedGraph(k)
      BY <1>1, <2>2, <2>4, <3>1
    <3>3. PICK l : l = Len(s) + 1
      OBVIOUS
    <3>4. DOMAIN u = DOMAIN s \cup {l} /\ l \notin DOMAIN s /\ u[l] = h /\ \A i \in DOMAIN s : u[i] = s[i]
      BY <3>1, <3>3, Appended
    <3>5. n \in LaunchesOn(k) \cap reported'
      BY <1>3, <1>4, <2>4 DEF LaunchesOn
    <3>6. /\ \A i \in DOMAIN u : u[i].key = k /\ u[i].launch \in LaunchesOn(k) \cap reported'
          /\ \A i, j \in DOMAIN u : u[i].launch = u[j].launch => i = j
      <4>1. \A i \in DOMAIN s : s[i].key = k /\ s[i].launch \in LaunchesOn(k) \cap reported
        BY <2>1, <2>2 DEF WaitsOn
      <4>2. \A i, j \in DOMAIN s : s[i].launch = s[j].launch => i = j
        BY <2>1, <2>2 DEF WaitsOn
      <4>3. \A i \in DOMAIN s : s[i].launch # n
        BY <1>4, <4>1
      <4>4. QED
        BY <1>3, <1>4, <2>4, <3>4, <3>5, <4>1, <4>2, <4>3
    <3>7. \A i \in DOMAIN CachedGraph(k) :
             CachedGraph(k)[i].key = k /\ CachedGraph(k)[i].launch \in LaunchesOn(k) \cap reported'
      BY <1>3, <2>1 DEF WaitsOn
    <3>8. WaitsOn(k)'
      BY <1>6, <3>2, <3>6, <3>7 DEF WaitsOn
    <3>9. \A m : Waits(k, m)' => Waits(k, m) \/ m = n
      BY <1>4, <2>2, <3>2, <3>4 DEF Waits
    <3>10. QED
      BY <3>8, <3>9
  <2>5. QED
    BY <2>3, <2>4
<1>8. ASSUME NEW i \in DOMAIN kernels' PROVE Recorded(i, kernels[i].key, kernels[i].launch)'
  <2>1. PICK k \in Keys, m \in Nat : k = kernels[i].key /\ m = kernels[i].launch
    BY <1>3, KernelTypes
  <2>2. Recorded(i, k, m)
    BY <1>3, <2>1 DEF Waiting
  <2>3. Recorded(i, k, m)'
    BY <1>3, <1>4, <1>6, <1>7, <2>2 DEF Recorded, Aging
  <2>4. kernels'[i].key = k /\ kernels'[i].launch = m
    BY <1>3, <2>1
  <2>5. QED
    BY <2>3, <2>4
<1>9. reported' \subseteq DOMAIN calls' /\ \A k \in Keys : IF Aging(k) THEN unagingMap'[k] = <<>> ELSE kernelMap'[k] = <<>>
  BY <1>3, <1>4 DEF Waiting
<1>10. QED
  BY <1>5, <1>7, <1>8, <1>9 DEF Waiting, Aging

(* What reading a log leaves waits as before.                                *)
LEMMA WaitingRead ==
  ASSUME Types, Single, Waiting, ReportSocLog
  PROVE  Waiting'
<1>1. PICK k \in Keys, c \in Counters :
        /\ ReadsLog(k, c)
        /\ Notes(k, c) \/ \E h \in HostTask : RecordsKernel(k, c, h)
        /\ \A j \in Keys : IF Aging(j) THEN unagingMap'[j] = <<>> ELSE kernelMap'[j] = <<>>
  BY ReadEffect
<1>2. UNCHANGED <<reported, pc, call, calls>>
  BY DEF ReportSocLog, hostVars
<1>3. \A j : LaunchesOn(j)' = LaunchesOn(j)
  BY <1>2 DEF LaunchesOn
<1>4. \A j \in Keys : /\ CachedGraph(j)' = CachedGraph(j)
                      /\ j # k => Cached(j)' = Cached(j)
  BY <1>1 DEF ReadsLog
<1>5. /\ reported' \subseteq DOMAIN calls'
      /\ \A t \in Threads : pc'[t] \in {"launched", "reporting"} => call'[t] \notin reported'
      /\ \A j \in Keys : IF Aging(j) THEN unagingMap'[j] = <<>> ELSE kernelMap'[j] = <<>>
  BY <1>1, <1>2 DEF Waiting
<1>6. CASE Notes(k, c)
  <2>1. \A j \in Keys : Cached(j)' = Cached(j) /\ CachedGraph(j)' = CachedGraph(j)
    BY <1>4, <1>6 DEF Notes
  <2>2. kernels' = kernels
    BY <1>6 DEF Notes
  <2>3. ASSUME NEW j \in Keys PROVE WaitsOn(j)' /\ \A m : Waits(j, m)' <=> Waits(j, m)
    <3>1. WaitsOn(j)
      BY DEF Waiting
    <3>2. QED
      BY <1>2, <1>3, <2>1, <3>1 DEF WaitsOn, Waits
  <2>4. ASSUME NEW i \in DOMAIN kernels' PROVE Recorded(i, kernels[i].key, kernels[i].launch)'
    <3>1. PICK j \in Keys, m \in Nat : j = kernels[i].key /\ m = kernels[i].launch
      BY <2>2, KernelTypes
    <3>2. Recorded(i, j, m)
      BY <2>2, <3>1 DEF Waiting
    <3>3. Recorded(i, j, m)'
      BY <1>2, <1>3, <2>2, <2>3, <3>2 DEF Recorded, Aging
    <3>4. kernels'[i].key = j /\ kernels'[i].launch = m
      BY <2>2, <3>1
    <3>5. QED
      BY <3>3, <3>4
  <2>5. QED
    BY <1>5, <2>3, <2>4 DEF Waiting, Aging
<1>7. ASSUME NEW h \in HostTask, RecordsKernel(k, c, h) PROVE Waiting'
  <2>1. PICK r : r = KernelRecord(h, Head(deviceMap[k]), c)
    OBVIOUS
  <2>2. kernels' = Append(kernels, r) /\ r.launch = h.launch /\ r.key = h.key
    BY <1>7, <2>1 DEF RecordsKernel, KernelRecord
  <2>3. PICK l : l = Len(kernels) + 1
    OBVIOUS
  <2>4. r \in Records
    <3>1. Head(deviceMap[k]) \in Counters
      BY <1>7, Shortened DEF RecordsKernel, Types
    <3>2. QED
      BY <2>1, <3>1 DEF KernelRecord, Records, RealTime, HostTask
  <2>5. /\ DOMAIN kernels' = DOMAIN kernels \cup {l} /\ l \notin DOMAIN kernels
        /\ kernels'[l] = r /\ \A i \in DOMAIN kernels : kernels'[i] = kernels[i]
    <3>1. PICK s \in Seq(Records) : s = kernels
      BY DEF Types
    <3>2. kernels' = Append(s, r) /\ l = Len(s) + 1
      BY <2>2, <2>3, <3>1
    <3>3. QED
      BY <2>4, <3>1, <3>2, Appended
  <2>6. WaitsOn(k)
    BY DEF Waiting
  <2>7. h.key = k /\ h.launch \in LaunchesOn(k) \cap reported /\ (Aging(k) => Waits(k, h.launch))
    <3>1. CASE Aging(k)
      <4>1. PICK s \in Seq(HostTask) : s = Cached(k)
        BY CachedTypes
      <4>2. s # <<>> /\ h = Head(s)
        BY <1>7, <3>1, <4>1 DEF RecordsKernel
      <4>3. 1 \in DOMAIN s /\ s[1] = h
        BY <4>2, Shortened
      <4>4. QED
        BY <2>6, <4>1, <4>3 DEF WaitsOn, Waits
    <3>2. CASE ~Aging(k)
      <4>1. PICK s \in Seq(HostTask) : s = CachedGraph(k)
        BY CachedTypes
      <4>2. s # <<>> /\ h = Head(s)
        BY <1>7, <3>2, <4>1 DEF RecordsKernel
      <4>3. 1 \in DOMAIN s /\ s[1] = h
        BY <4>2, Shortened
      <4>4. QED
        BY <2>6, <3>2, <4>1, <4>3 DEF WaitsOn
    <3>3. QED
      BY <3>1, <3>2
  <2>8. /\ WaitsOn(k)' /\ \A m : Waits(k, m)' => Waits(k, m)
        /\ Aging(k) => ~Waits(k, h.launch)'
    <3>1. CASE Aging(k)
      <4>1. PICK s \in Seq(HostTask) : s = Cached(k)
        BY CachedTypes
      <4>2. s # <<>> /\ h = Head(s) /\ Cached(k)' = Tail(s)
        BY <1>7, <3>1, <4>1 DEF RecordsKernel
      <4>3. PICK u : u = Tail(s)
        OBVIOUS
      <4>4. /\ 1 \in DOMAIN s /\ s[1] = h
            /\ \A i \in DOMAIN u : i \in Nat /\ i + 1 \in DOMAIN s /\ i + 1 > 1 /\ u[i] = s[i + 1]
        BY <4>2, <4>3, Shortened
      <4>5. /\ \A i \in DOMAIN s : s[i].key = k /\ s[i].launch \in LaunchesOn(k) \cap reported
            /\ \A i, j \in DOMAIN s : s[i].launch = s[j].launch => i = j
        BY <2>6, <4>1 DEF WaitsOn
      <4>6. /\ \A i \in DOMAIN u : u[i].key = k /\ u[i].launch \in LaunchesOn(k) \cap reported
            /\ \A i, j \in DOMAIN u : u[i].launch = u[j].launch => i = j
            /\ \A i \in DOMAIN u : u[i].launch # h.launch
        <5>1. \A i \in DOMAIN u : u[i].key = k /\ u[i].launch \in LaunchesOn(k) \cap reported
          BY <4>4, <4>5
        <5>2. ASSUME NEW i \in DOMAIN u, NEW j \in DOMAIN u, u[i].launch = u[j].launch PROVE i = j
          <6>1. i \in Nat /\ j \in Nat /\ i + 1 = j + 1
            BY <4>4, <4>5, <5>2
          <6>2. QED
            BY <6>1
        <5>3. ASSUME NEW i \in DOMAIN u, u[i].launch = h.launch PROVE FALSE
          <6>1. i \in Nat /\ i + 1 = 1 /\ i + 1 > 1
            BY <4>4, <4>5, <5>3
          <6>2. QED
            BY <6>1
        <5>4. QED
          BY <5>1, <5>2, <5>3
      <4>7. \A m : Waits(k, m)' => Waits(k, m)
        BY <4>1, <4>2, <4>3, <4>4 DEF Waits
      <4>8. WaitsOn(k)'
        BY <1>2, <1>3, <1>4, <2>6, <4>2, <4>3, <4>6 DEF WaitsOn
      <4>9. ~Waits(k, h.launch)'
        BY <4>2, <4>3, <4>6 DEF Waits
      <4>10. QED
        BY <4>7, <4>8, <4>9
    <3>2. CASE ~Aging(k)
      <4>1. Cached(k)' = Cached(k)
        BY <1>7, <3>2 DEF RecordsKernel
      <4>2. QED
        BY <1>2, <1>3, <1>4, <2>6, <3>2, <4>1 DEF WaitsOn, Waits
    <3>3. QED
      BY <3>1, <3>2
  <2>9. ASSUME NEW j \in Keys PROVE WaitsOn(j)' /\ \A m : Waits(j, m)' => Waits(j, m)
    <3>1. CASE j = k
      BY <2>8, <3>1
    <3>2. CASE j # k
      <4>1. WaitsOn(j) /\ Cached(j)' = Cached(j) /\ CachedGraph(j)' = CachedGraph(j)
        BY <1>4, <3>2 DEF Waiting
      <4>2. QED
        BY <1>2, <1>3, <4>1 DEF WaitsOn, Waits
    <3>3. QED
      BY <3>1, <3>2
  <2>10. ASSUME NEW i \in DOMAIN kernels, kernels[i].launch = h.launch PROVE ~Aging(k)
    <3>1. PICK j \in Keys, m \in Nat : j = kernels[i].key /\ m = kernels[i].launch
      BY KernelTypes
    <3>2. Recorded(i, j, m)
      BY <3>1 DEF Waiting
    <3>3. j = k
      BY <2>7, <2>10, <3>1, <3>2 DEF Recorded, LaunchesOn
    <3>4. QED
      BY <2>7, <2>10, <3>1, <3>2, <3>3 DEF Recorded
  <2>11. ASSUME NEW i \in DOMAIN kernels PROVE Recorded(i, kernels[i].key, kernels[i].launch)'
    <3>1. PICK j \in Keys, m \in Nat : j = kernels[i].key /\ m = kernels[i].launch
      BY KernelTypes
    <3>2. Recorded(i, j, m)
      BY <3>1 DEF Waiting
    <3>3. m = h.launch => ~Aging(j)
      <4>1. m = h.launch => j = k
        BY <2>7, <3>2 DEF Recorded, LaunchesOn
      <4>2. QED
        BY <2>10, <3>1, <4>1
    <3>4. \A i2 \in DOMAIN kernels' : (i2 \in DOMAIN kernels /\ kernels'[i2] = kernels[i2]) \/ i2 = l
      BY <2>5
    <3>5. Aging(j) => ~Waits(j, m)' /\ \A i2 \in DOMAIN kernels' : kernels'[i2].launch = m => i = i2
      BY <2>2, <2>5, <2>9, <3>2, <3>3, <3>4 DEF Recorded
    <3>6. Recorded(i, j, m)'
      BY <1>2, <1>3, <3>2, <3>5 DEF Recorded, Aging
    <3>7. kernels'[i].key = j /\ kernels'[i].launch = m
      BY <2>5, <3>1
    <3>8. QED
      BY <3>6, <3>7
  <2>12. Recorded(l, kernels[l].key, kernels[l].launch)'
    <3>1. PICK m : m = h.launch
      OBVIOUS
    <3>2. kernels'[l].key = k /\ kernels'[l].launch = m
      BY <2>2, <2>5, <2>7, <3>1
    <3>3. Aging(k) => \A i2 \in DOMAIN kernels' : kernels'[i2].launch = m => l = i2
      BY <2>5, <2>10, <3>1
    <3>4. Recorded(l, k, m)'
      BY <1>2, <1>3, <2>7, <2>8, <3>1, <3>3 DEF Recorded, Aging
    <3>5. QED
      BY <3>2, <3>4
  <2>13. \A i \in DOMAIN kernels' : Recorded(i, kernels[i].key, kernels[i].launch)'
    BY <2>5, <2>11, <2>12
  <2>14. QED
    BY <1>5, <2>9, <2>13 DEF Waiting, Aging
<1>8. QED
  BY <1>1, <1>6, <1>7

(* Every step keeps what waits that of calls which reported it.              *)
LEMMA WaitingStep ==
  ASSUME Types, Single, Ours, Waiting, Next
  PROVE  Waiting'
<1>1. ASSUME NEW t \in Threads, NEW k \in Keys, Call(t, k),
             UNCHANGED <<reported, hostTasks, kernelMap, unagingMap, kernels>>
      PROVE  Waiting'
  <2>1. PICK n \in Nat :
          /\ n \notin DOMAIN calls /\ DOMAIN calls' = DOMAIN calls \cup {n}
          /\ \A m \in DOMAIN calls : calls'[m] = calls[m]
          /\ call' = [call EXCEPT ![t] = n] /\ pc' = [pc EXCEPT ![t] = "launched"]
    BY <1>1, CallFacts
  <2>2. n \notin reported /\ \A u \in Threads : pc[u] \in {"launched", "reporting"} => call[u] \notin reported
    BY <2>1 DEF Waiting
  <2>3. \A u \in Threads : pc'[u] \in {"launched", "reporting"} => call'[u] \notin reported
    BY <2>1, <2>2 DEF Types
  <2>4. QED
    BY <1>1, <2>1, <2>3, WaitingStays
<1>2. ASSUME NEW t \in Threads, Launch(t) PROVE Waiting'
  <2>1. PICK k \in Keys : Call(t, k) /\ UNCHANGED <<parserVars, hostTasks, reported>>
    BY <1>2, LaunchEffect
  <2>2. QED
    BY <1>1, <2>1 DEF parserVars
<1>3. ASSUME NEW t \in Threads, NEW k \in GraphKeys, Capture(t, k) PROVE Waiting'
  <2>1. k \in Keys /\ Call(t, k) /\ UNCHANGED <<parserVars, hostTasks, reported>>
    BY <1>3 DEF Capture, Keys
  <2>2. QED
    BY <1>1, <2>1 DEF parserVars
<1>4. ASSUME UNCHANGED <<reported, hostTasks, parserVars, call, calls>>,
             \A u \in Threads : pc'[u] \in {"launched", "reporting"} => pc[u] \in {"launched", "reporting"}
      PROVE  Waiting'
  <2>1. \A u \in Threads : pc'[u] \in {"launched", "reporting"} => call'[u] \notin reported
    BY <1>4 DEF Waiting
  <2>2. QED
    BY <1>4, <2>1, WaitingStays DEF parserVars
<1>5. ASSUME NEW t \in Threads, ReportRtTaskTrack(t) PROVE Waiting'
  <2>1. UNCHANGED <<reported, hostTasks, parserVars, call, calls>> /\ pc[t] = "launched"
        /\ (pc' = [pc EXCEPT ![t] = "reporting"] \/ pc' = [pc EXCEPT ![t] = "returning"])
    BY <1>5 DEF ReportRtTaskTrack
  <2>2. \A u \in Threads : pc'[u] \in {"launched", "reporting"} => pc[u] \in {"launched", "reporting"}
    BY <2>1 DEF Types
  <2>3. QED
    BY <1>4, <2>1, <2>2
<1>6. ASSUME NEW t \in Threads, ReportRtApi(t) PROVE Waiting'
  <2>1. UNCHANGED <<reported, hostTasks, parserVars, call, calls>>
        /\ pc' = [pc EXCEPT ![t] = "idle"]
    BY <1>6 DEF ReportRtApi
  <2>2. \A u \in Threads : pc'[u] \in {"launched", "reporting"} => pc[u] \in {"launched", "reporting"}
    BY <2>1 DEF Types
  <2>3. QED
    BY <1>4, <2>1, <2>2
<1>7. CASE UNCHANGED <<reported, hostTasks, parserVars, hostVars>>
  BY <1>4, <1>7 DEF hostVars
<1>8. ASSUME NEW k \in GraphKeys, Replay(k) PROVE Waiting'
  BY <1>7, <1>8 DEF Replay
<1>9. ASSUME NEW s \in Streams, BeginTask(s) \/ EndTask(s) PROVE Waiting'
  BY <1>7, <1>9 DEF BeginTask, EndTask
<1>10. ASSUME Switch \/ LoseLog \/ IgnoreSocLog PROVE Waiting'
  BY <1>7, <1>10 DEF Switch, LoseLog, IgnoreSocLog
<1>11. QED
  BY <1>2, <1>3, <1>5, <1>6, <1>8, <1>9, <1>10, WaitingPush, WaitingRead DEF Next, Host

-----------------------------------------------------------------------------
(* Ids of launches that were reported.                                       *)
LEMMA FitsStays ==
  ASSUME Types, Waiting, Next, NEW n \in reported, NEW id, Fits(n, id)
  PROVE  Fits(n, id)'
<1>1. n \in DOMAIN calls
  BY DEF Waiting
<1>2. ASSUME NEW t \in Threads, NEW k \in Keys, Call(t, k), apis' = apis PROVE Fits(n, id)'
  <2>1. PICK m \in Nat :
          /\ m \notin DOMAIN calls /\ pc[t] = "idle"
          /\ call' = [call EXCEPT ![t] = m] /\ pc' = [pc EXCEPT ![t] = "launched"]
          /\ UpdateAndReportCorrelationId(t)
    BY <1>2, CallFacts
  <2>2. /\ call'[t] # n
        /\ \A u \in Threads : u # t => /\ pc'[u] = pc[u] /\ call'[u] = call[u]
                                       /\ threadCorrelationIdInfo'[u] = threadCorrelationIdInfo[u]
    BY <1>1, <2>1 DEF Types, UpdateAndReportCorrelationId
  <2>3. QED
    BY <1>2, <2>2 DEF Fits, Busy
<1>3. ASSUME NEW t \in Threads, Launch(t) PROVE Fits(n, id)'
  <2>1. PICK k \in Keys : Call(t, k) /\ apis' = apis
    BY <1>3, LaunchEffect
  <2>2. QED
    BY <1>2, <2>1
<1>4. ASSUME NEW t \in Threads, NEW k \in GraphKeys, Capture(t, k) PROVE Fits(n, id)'
  <2>1. k \in Keys /\ Call(t, k) /\ apis' = apis
    BY <1>4 DEF Capture, Keys
  <2>2. QED
    BY <1>2, <2>1
<1>5. ASSUME NEW t \in Threads, ReportRtTaskTrack(t) PROVE Fits(n, id)'
  <2>1. call[t] # n /\ UNCHANGED <<call, apis>>
    BY <1>5 DEF ReportRtTaskTrack, Waiting
  <2>2. \A u \in Threads : u # t => /\ pc'[u] = pc[u]
                                    /\ threadCorrelationIdInfo'[u] = threadCorrelationIdInfo[u]
    BY <1>5 DEF ReportRtTaskTrack, UpdateAndReportCorrelationId, Types
  <2>3. QED
    BY <2>1, <2>2 DEF Fits, Busy
<1>6. ASSUME NEW t \in Threads, PushHostTask(t) PROVE Fits(n, id)'
  <2>1. /\ pc' = [pc EXCEPT ![t] = "returning"] /\ pc[t] = "reporting" /\ call[t] # n
        /\ UNCHANGED <<call, apis, threadCorrelationIdInfo>>
    BY <1>6 DEF PushHostTask, Waiting
  <2>2. QED
    BY <2>1 DEF Fits, Busy, Types
<1>7. ASSUME NEW t \in Threads, ReportRtApi(t) PROVE Fits(n, id)'
  <2>1. PICK a : a = [call |-> call[t], correlationId |-> threadCorrelationIdInfo[t]]
    OBVIOUS
  <2>2. /\ pc' = [pc EXCEPT ![t] = "idle"] /\ pc[t] = "returning" /\ apis' = apis \cup {a}
        /\ UNCHANGED <<call, threadCorrelationIdInfo>>
        /\ a.call = call[t] /\ a.correlationId = threadCorrelationIdInfo[t]
    BY <1>7, <2>1 DEF ReportRtApi, GetCorrelationId
  <2>3. \A u \in Threads : Busy(u)' => u # t /\ Busy(u) /\ pc'[u] = pc[u]
    BY <2>2 DEF Busy, Types
  <2>4. Busy(t)
    BY <2>2 DEF Busy
  <2>5. a.call = n => a.correlationId = id
    BY <2>2, <2>4 DEF Fits
  <2>6. QED
    BY <2>2, <2>3, <2>5 DEF Fits
<1>8. CASE UNCHANGED <<hostVars, apis>>
  BY <1>8 DEF hostVars, Fits, Busy
<1>9. ASSUME NEW k \in GraphKeys, Replay(k) PROVE Fits(n, id)'
  BY <1>8, <1>9 DEF Replay
<1>10. ASSUME NEW s \in Streams, BeginTask(s) \/ EndTask(s) PROVE Fits(n, id)'
  BY <1>8, <1>10 DEF BeginTask, EndTask
<1>11. ASSUME Switch \/ LoseLog \/ ReportSocLog \/ IgnoreSocLog PROVE Fits(n, id)'
  BY <1>8, <1>11 DEF Switch, LoseLog, ReportSocLog, IgnoreSocLog
<1>12. QED
  BY <1>3, <1>4, <1>5, <1>6, <1>7, <1>9, <1>10, <1>11 DEF Next, Host

Waiter(h) == \E k \in Keys : \/ \E i \in DOMAIN Cached(k) : Cached(k)[i] = h
                             \/ \E i \in DOMAIN CachedGraph(k) : CachedGraph(k)[i] = h

(* A launch and an id that fit each other go on doing so.                    *)
LEMMA FitStay ==
  ASSUME Types, Waiting, Correlated, Next
  PROVE  /\ \A h : Waiter(h) => h.launch \in reported /\ Fits(h.launch, h.correlationId)'
         /\ \A i \in DOMAIN kernels : \A r : r = kernels[i] => Fits(r.launch, r.correlationId)'
<1>1. ASSUME NEW h, Waiter(h) PROVE h.launch \in reported /\ Fits(h.launch, h.correlationId)'
  <2>1. PICK k \in Keys : \/ \E i \in DOMAIN Cached(k) : Cached(k)[i] = h
                          \/ \E i \in DOMAIN CachedGraph(k) : CachedGraph(k)[i] = h
    BY <1>1 DEF Waiter
  <2>2. WaitsOn(k) /\ CorrelatedOn(k)
    BY DEF Waiting, Correlated
  <2>3. PICK n, id : n = h.launch /\ id = h.correlationId
    OBVIOUS
  <2>4. n \in reported /\ Fits(n, id)
    BY <2>1, <2>2, <2>3 DEF WaitsOn, CorrelatedOn
  <2>5. Fits(n, id)'
    BY <2>4, FitsStays
  <2>6. QED
    BY <2>3, <2>4, <2>5
<1>2. ASSUME NEW i \in DOMAIN kernels, NEW r, r = kernels[i] PROVE Fits(r.launch, r.correlationId)'
  <2>1. PICK n, id : n = r.launch /\ id = r.correlationId
    OBVIOUS
  <2>2. n \in reported /\ Fits(n, id)
    BY <1>2, <2>1 DEF Waiting, Recorded, Correlated
  <2>3. Fits(n, id)'
    BY <2>2, FitsStays
  <2>4. QED
    BY <2>1, <2>3
<1>3. QED
  BY <1>1, <1>2

(* Who waits after the step waited before, or has just been reported.        *)
LEMMA CorrelatedFrom ==
  ASSUME Types, Waiting, Correlated, Next,
         \A h : Waiter(h)' => Waiter(h) \/ Fits(h.launch, h.correlationId)',
         \A i \in DOMAIN kernels' : \A r : r = kernels'[i] =>
           (i \in DOMAIN kernels /\ r = kernels[i]) \/ Fits(r.launch, r.correlationId)'
  PROVE  Correlated'
<1>1. ASSUME NEW k \in Keys PROVE CorrelatedOn(k)'
  <2>1. ASSUME NEW i \in DOMAIN Cached(k)' PROVE Fits(Cached(k)[i].launch, Cached(k)[i].correlationId)'
    <3>1. PICK h : h = Cached(k)'[i]
      OBVIOUS
    <3>2. Waiter(h)'
      BY <3>1 DEF Waiter
    <3>3. Fits(h.launch, h.correlationId)'
      BY <3>2, FitStay
    <3>4. QED
      BY <3>1, <3>3
  <2>2. ASSUME NEW i \in DOMAIN CachedGraph(k)'
        PROVE  Fits(CachedGraph(k)[i].launch, CachedGraph(k)[i].correlationId)'
    <3>1. PICK h : h = CachedGraph(k)'[i]
      OBVIOUS
    <3>2. Waiter(h)'
      BY <3>1 DEF Waiter
    <3>3. Fits(h.launch, h.correlationId)'
      BY <3>2, FitStay
    <3>4. QED
      BY <3>1, <3>3
  <2>3. QED
    BY <2>1, <2>2 DEF CorrelatedOn
<1>2. ASSUME NEW i \in DOMAIN kernels' PROVE Fits(kernels[i].launch, kernels[i].correlationId)'
  <2>1. PICK r : r = kernels'[i]
    OBVIOUS
  <2>2. Fits(r.launch, r.correlationId)'
    BY <2>1, FitStay
  <2>3. QED
    BY <2>1, <2>2
<1>3. QED
  BY <1>1, <1>2 DEF Correlated

(* Every step keeps the ids of what waits and of what is recorded those of   *)
(* their launches.                                                           *)
LEMMA CorrelatedStep ==
  ASSUME Types, Single, Ours, Waiting, Correlated, Next
  PROVE  Correlated'
<1>1. CASE UNCHANGED <<hostTasks, parserVars>>
  <2>1. CachedStays
    BY <1>1, NoneCached DEF parserVars
  <2>2. \A h : Waiter(h)' => Waiter(h)
    BY <2>1 DEF Waiter, CachedStays
  <2>3. kernels' = kernels
    BY <1>1 DEF parserVars
  <2>4. QED
    BY <2>2, <2>3, CorrelatedFrom
<1>2. ASSUME NEW t \in Threads, PushHostTask(t) PROVE Correlated'
  <2>1. PICK h \in HostTask :
          /\ h.launch = call[t] /\ h.correlationId = threadCorrelationIdInfo[t]
          /\ \A k \in Keys :
               /\ Cached(k)' = IF k = h.key /\ Aging(k) THEN Append(Cached(k), h) ELSE Cached(k)
               /\ CachedGraph(k)' = IF k = h.key /\ ~Aging(k) /\ CachedGraph(k) = <<>>
                                    THEN <<h>> ELSE CachedGraph(k)
    BY <1>2, PushCached
  <2>2. /\ pc[t] = "reporting" /\ pc' = [pc EXCEPT ![t] = "returning"]
        /\ UNCHANGED <<call, apis, threadCorrelationIdInfo, kernels>>
    BY <1>2 DEF PushHostTask, parserVars
  <2>3. Fits(h.launch, h.correlationId)'
    <3>1. /\ Busy(t) /\ pc'[t] = "returning"
          /\ \A u \in Threads : Busy(u)' => Busy(u)
      BY <2>2 DEF Busy, Types
    <3>2. (\A a \in apis : a.call # call[t]) /\ \A u \in Threads : Busy(u) /\ call[u] = call[t] => u = t
      BY <3>1 DEF Ours
    <3>3. PICK n, id : n = h.launch /\ id = h.correlationId
      OBVIOUS
    <3>4. Fits(n, id)'
      BY <2>1, <2>2, <3>1, <3>2, <3>3 DEF Fits
    <3>5. QED
      BY <3>3, <3>4
  <2>4. ASSUME NEW g, Waiter(g)', g # h PROVE Waiter(g)
    <3>1. PICK k \in Keys : \/ \E i \in DOMAIN Cached(k)' : Cached(k)'[i] = g
                            \/ \E i \in DOMAIN CachedGraph(k)' : CachedGraph(k)'[i] = g
      BY <2>4 DEF Waiter
    <3>2. PICK s \in Seq(HostTask) : s = Cached(k)
      BY CachedTypes
    <3>3. CASE \E i \in DOMAIN Cached(k)' : Cached(k)'[i] = g
      <4>1. \E i \in DOMAIN s : s[i] = g
        <5>1. CASE Cached(k)' = s
          BY <3>3, <5>1
        <5>2. CASE Cached(k)' = Append(s, h)
          BY <2>4, <3>3, <5>2, Appended
        <5>3. QED
          BY <2>1, <3>2, <5>1, <5>2
      <4>2. QED
        BY <3>2, <4>1 DEF Waiter
    <3>4. CASE \E i \in DOMAIN CachedGraph(k)' : CachedGraph(k)'[i] = g
      <4>1. CachedGraph(k)' # <<h>>
        <5>1. \A i \in DOMAIN <<h>> : <<h>>[i] = h
          OBVIOUS
        <5>2. QED
          BY <2>4, <3>4, <5>1
      <4>2. CachedGraph(k)' = CachedGraph(k)
        BY <2>1, <4>1
      <4>3. QED
        BY <3>4, <4>2 DEF Waiter
    <3>5. QED
      BY <3>1, <3>3, <3>4
  <2>5. QED
    BY <2>2, <2>3, <2>4, CorrelatedFrom
<1>3. CASE ReportSocLog
  <2>1. PICK k \in Keys, c \in Counters :
          /\ ReadsLog(k, c)
          /\ Notes(k, c) \/ \E h \in HostTask : RecordsKernel(k, c, h)
    BY <1>3, ReadEffect
  <2>2. \A j \in Keys : /\ CachedGraph(j)' = CachedGraph(j)
                        /\ j # k => Cached(j)' = Cached(j)
    BY <2>1 DEF ReadsLog
  <2>3. PICK s \in Seq(HostTask) : s = Cached(k)
    BY CachedTypes
  <2>4. CASE Notes(k, c)
    <3>1. \A h : Waiter(h)' => Waiter(h)
      BY <2>2, <2>4 DEF Notes, Waiter
    <3>2. kernels' = kernels
      BY <2>4 DEF Notes
    <3>3. QED
      BY <3>1, <3>2, CorrelatedFrom
  <2>5. ASSUME NEW h \in HostTask, RecordsKernel(k, c, h) PROVE Correlated'
    <3>1. Cached(k)' = s \/ (s # <<>> /\ Cached(k)' = Tail(s))
      BY <2>3, <2>5 DEF RecordsKernel
    <3>2. ASSUME NEW g, NEW i \in DOMAIN Cached(k)', Cached(k)'[i] = g PROVE \E j \in DOMAIN s : s[j] = g
      <4>1. CASE Cached(k)' = s
        BY <3>2, <4>1
      <4>2. CASE s # <<>> /\ Cached(k)' = Tail(s)
        <5>1. PICK u : u = Tail(s)
          OBVIOUS
        <5>2. i \in DOMAIN u /\ u[i] = g
          BY <3>2, <4>2, <5>1
        <5>3. i + 1 \in DOMAIN s /\ u[i] = s[i + 1]
          BY <4>2, <5>1, <5>2, Shortened
        <5>4. QED
          BY <5>2, <5>3
      <4>3. QED
        BY <3>1, <4>1, <4>2
    <3>3. \A g : Waiter(g)' => Waiter(g)
      BY <2>2, <2>3, <3>2 DEF Waiter
    <3>4. Waiter(h)
      <4>1. CASE Aging(k)
        <5>1. s # <<>> /\ h = Head(s)
          BY <2>3, <2>5, <4>1 DEF RecordsKernel
        <5>2. 1 \in DOMAIN s /\ s[1] = h
          BY <5>1, Shortened
        <5>3. QED
          BY <2>3, <5>2 DEF Waiter
      <4>2. CASE ~Aging(k)
        <5>1. PICK u \in Seq(HostTask) : u = CachedGraph(k)
          BY CachedTypes
        <5>2. u # <<>> /\ h = Head(u)
          BY <2>5, <4>2, <5>1 DEF RecordsKernel
        <5>3. 1 \in DOMAIN u /\ u[1] = h
          BY <5>2, Shortened
        <5>4. QED
          BY <5>1, <5>3 DEF Waiter
      <4>3. QED
        BY <4>1, <4>2
    <3>5. Fits(h.launch, h.correlationId)'
      BY <3>4, FitStay
    <3>6. PICK r : r = KernelRecord(h, Head(deviceMap[k]), c)
      OBVIOUS
    <3>7. r.launch = h.launch /\ r.correlationId = h.correlationId /\ kernels' = Append(kernels, r)
      BY <2>5, <3>6 DEF KernelRecord, RecordsKernel
    <3>8. r \in Records
      <4>1. Head(deviceMap[k]) \in Counters
        BY <2>5, Shortened DEF RecordsKernel, Types
      <4>2. QED
        BY <3>6, <4>1 DEF KernelRecord, Records, RealTime, HostTask
    <3>9. PICK q \in Seq(Records) : q = kernels
      BY DEF Types
    <3>10. \A i \in DOMAIN kernels' : (i \in DOMAIN kernels /\ kernels'[i] = kernels[i]) \/ kernels'[i] = r
      BY <3>7, <3>8, <3>9, Appended
    <3>11. Fits(r.launch, r.correlationId)'
      <4>1. PICK n, id : n = h.launch /\ id = h.correlationId
        OBVIOUS
      <4>2. QED
        BY <3>5, <3>7, <4>1
    <3>12. QED
      BY <3>3, <3>10, <3>11, CorrelatedFrom
  <2>6. QED
    BY <2>1, <2>4, <2>5
<1>4. ASSUME NEW t \in Threads, Launch(t) PROVE Correlated'
  <2>1. UNCHANGED <<hostTasks, parserVars>>
    BY <1>4, LaunchEffect
  <2>2. QED
    BY <1>1, <2>1
<1>5. ASSUME NEW t \in Threads,
             (\E k \in GraphKeys : Capture(t, k)) \/ ReportRtTaskTrack(t) \/ ReportRtApi(t)
      PROVE  UNCHANGED <<hostTasks, parserVars>>
  BY <1>5 DEF Capture, ReportRtTaskTrack, ReportRtApi
<1>6. ASSUME NEW k \in GraphKeys, Replay(k) PROVE UNCHANGED <<hostTasks, parserVars>>
  BY <1>6 DEF Replay
<1>7. ASSUME NEW s \in Streams, BeginTask(s) \/ EndTask(s) PROVE UNCHANGED <<hostTasks, parserVars>>
  BY <1>7 DEF BeginTask, EndTask
<1>8. ASSUME Switch \/ LoseLog \/ IgnoreSocLog PROVE UNCHANGED <<hostTasks, parserVars>>
  BY <1>8 DEF Switch, LoseLog, IgnoreSocLog
<1>9. QED
  BY <1>1, <1>2, <1>3, <1>4, <1>5, <1>6, <1>7, <1>8 DEF Next, Host

-----------------------------------------------------------------------------
(* Streams.                                                                  *)
LEMMA LaterLast ==
  ASSUME NEW s \in Seq(Counters), NEW e \in Counters,
         \A i, j \in DOMAIN s : i < j => Before(s[i], s[j]),
         \A i \in DOMAIN s : Before(s[i], e)
  PROVE  \A i, j \in DOMAIN Append(s, e) : i < j => Before(Append(s, e)[i], Append(s, e)[j])
<1>1. PICK u : u = Append(s, e)
  OBVIOUS
<1>2. PICK l : l = Len(s) + 1
  OBVIOUS
<1>3. /\ DOMAIN u = DOMAIN s \cup {l} /\ u[l] = e /\ l \in Nat
      /\ \A i \in DOMAIN s : i \in Nat /\ i < l /\ u[i] = s[i]
  BY <1>1, <1>2, Appended
<1>4. ASSUME NEW i \in DOMAIN u, NEW j \in DOMAIN u, i < j PROVE Before(u[i], u[j])
  <2>1. i \in DOMAIN s
    BY <1>3, <1>4
  <2>2. QED
    BY <1>3, <1>4, <2>1
<1>5. QED
  BY <1>1, <1>4

(* The tail of an ordered sequence is ordered and after its head.            *)
LEMMA LaterTail ==
  ASSUME NEW s \in Seq(Counters), s # <<>>,
         \A i, j \in DOMAIN s : i < j => Before(s[i], s[j])
  PROVE  /\ \A i, j \in DOMAIN Tail(s) : i < j => Before(Tail(s)[i], Tail(s)[j])
         /\ \A i \in DOMAIN Tail(s) : Before(Head(s), Tail(s)[i])
<1>1. PICK u : u = Tail(s)
  OBVIOUS
<1>2. /\ 1 \in DOMAIN s /\ s[1] = Head(s)
      /\ \A i \in DOMAIN u : i \in Nat /\ i + 1 \in DOMAIN s /\ i + 1 > 1 /\ u[i] = s[i + 1]
  BY <1>1, Shortened
<1>3. ASSUME NEW i \in DOMAIN u, NEW j \in DOMAIN u, i < j PROVE Before(u[i], u[j])
  <2>1. PICK a, b : a = i + 1 /\ b = j + 1
    OBVIOUS
  <2>2. a \in DOMAIN s /\ b \in DOMAIN s /\ u[i] = s[a] /\ u[j] = s[b] /\ a < b
    BY <1>2, <1>3, <2>1
  <2>3. QED
    BY <2>2
<1>4. ASSUME NEW i \in DOMAIN u PROVE Before(Head(s), u[i])
  <2>1. PICK a : a = i + 1
    OBVIOUS
  <2>2. a \in DOMAIN s /\ u[i] = s[a] /\ 1 < a
    BY <1>2, <2>1
  <2>3. QED
    BY <1>2, <2>2
<1>5. QED
  BY <1>1, <1>3, <1>4

(* The elements of a sequence with one more.                                 *)
LEMMA Elements ==
  ASSUME NEW S, NEW s \in Seq(S), NEW e \in S
  PROVE  \A c : (\E i \in DOMAIN Append(s, e) : Append(s, e)[i] = c)
                  <=> (\E i \in DOMAIN s : s[i] = c) \/ c = e
<1>1. PICK l : l = Len(s) + 1
  OBVIOUS
<1>2. PICK u : u = Append(s, e)
  OBVIOUS
<1>3. DOMAIN u = DOMAIN s \cup {l} /\ u[l] = e /\ \A i \in DOMAIN s : u[i] = s[i]
  BY <1>1, <1>2, Appended
<1>4. \A c : (\E i \in DOMAIN u : u[i] = c) <=> (\E i \in DOMAIN s : s[i] = c) \/ c = e
  BY <1>3
<1>5. QED
  BY <1>2, <1>4

(* The elements of a sequence are its head and those of its tail.            *)
LEMMA ElementsTail ==
  ASSUME NEW S, NEW s \in Seq(S), s # <<>>
  PROVE  \A c : (\E i \in DOMAIN s : s[i] = c)
                  <=> (\E i \in DOMAIN Tail(s) : Tail(s)[i] = c) \/ c = Head(s)
<1>1. PICK v : v = Tail(s)
  OBVIOUS
<1>2. /\ 1 \in DOMAIN s /\ s[1] = Head(s)
      /\ \A i \in DOMAIN v : i + 1 \in DOMAIN s /\ v[i] = s[i + 1]
      /\ \A i \in DOMAIN s : i = 1 \/ (i - 1 \in DOMAIN v /\ v[i - 1] = s[i])
  BY <1>1, Shortened
<1>3. \A c : (\E i \in DOMAIN s : s[i] = c) => (\E i \in DOMAIN v : v[i] = c) \/ c = Head(s)
  BY <1>2
<1>4. \A c : (\E i \in DOMAIN v : v[i] = c) \/ c = Head(s) => (\E i \in DOMAIN s : s[i] = c)
  BY <1>2
<1>5. QED
  BY <1>1, <1>3, <1>4

(* Calls known keep their key; a stream has executions of its keys only.     *)
LEMMA StreamOf ==
  ASSUME Types, NEW c \in Counters, c.launch \in DOMAIN calls,
         NEW s \in Streams, NEW u \in Streams, OnStream(c, s), OnStream(c, u)
  PROVE  s = u
BY AgingKey, CallsKnown DEF OnStream, Streams

CallsStay == \A n \in DOMAIN calls : n \in DOMAIN calls' /\ calls'[n] = calls[n]

(* A task that is well made stays so, and on its stream.                     *)
LEMMA MadeStays ==
  ASSUME CallsStay, NEW c, WellMade(c), replays \in Nat, replays' \in Nat, replays <= replays', c.run \in Nat
  PROVE  /\ WellMade(c)'
         /\ \A s : OnStream(c, s)' <=> OnStream(c, s)
BY DEF CallsStay, WellMade, OnStream

(* A stream that does not move stays in order.                               *)
LEMMA OrderlyStays ==
  ASSUME Types, Device, CallsStay, replays' \in Nat, replays <= replays', done' = done,
         NEW s \in Streams, toRun'[s] = toRun[s], begun'[s] = begun[s]
  PROVE  Orderly(s)'
<1>1. Orderly(s) /\ \A c \in done : WellMade(c)
  BY DEF Device
<1>2. \A c : InStream(c, s)' <=> InStream(c, s)
  BY DEF InStream
<1>3. replays \in Nat /\ \A c \in Counters : c.run \in Nat
  BY LogFacts, KernelRecordsAssumption DEF Types
<1>4. ASSUME NEW c \in Counters, InStream(c, s)' PROVE WellMade(c)' /\ OnStream(c, s)'
  <2>1. WellMade(c) /\ OnStream(c, s)
    BY <1>1, <1>2, <1>4 DEF Orderly
  <2>2. QED
    BY <1>3, <2>1, MadeStays
<1>5. ASSUME NEW c \in Counters, NEW d \in done', InStream(c, s)', OnStream(d, s)' PROVE Before(d, c)
  <2>1. WellMade(d) /\ d \in Counters /\ InStream(c, s)
    BY <1>1, <1>2, <1>5 DEF Types
  <2>2. OnStream(d, s)
    BY <1>3, <1>5, <2>1, MadeStays
  <2>3. QED
    BY <1>1, <1>5, <2>1, <2>2 DEF Orderly
<1>6. QED
  BY <1>1, <1>4, <1>5 DEF Orderly, Before

(* One more execution in a stream, after all that ended and all that wait.   *)
LEMMA OrderlyMore ==
  ASSUME Types, Device, CallsStay, replays' \in Nat, replays <= replays', done' = done,
         NEW s \in Streams, NEW c \in Counters, toRun'[s] = Append(toRun[s], c), begun'[s] = begun[s],
         WellMade(c)', OnStream(c, s)',
         \A d \in Counters : (InStream(d, s) \/ d \in done) /\ WellMade(d) /\ OnStream(d, s) => Before(d, c)
  PROVE  Orderly(s)'
<1>1. Orderly(s) /\ \A d \in done : WellMade(d)
  BY DEF Device
<1>2. PICK q \in Seq(Counters) : q = toRun[s]
  BY DEF Types
<1>3. \A d : InStream(d, s)' <=> InStream(d, s) \/ d = c
  BY <1>2, Elements DEF InStream
<1>4. replays \in Nat /\ \A d \in Counters : d.run \in Nat
  BY LogFacts, KernelRecordsAssumption DEF Types
<1>5. ASSUME NEW d \in Counters, InStream(d, s)' PROVE WellMade(d)' /\ OnStream(d, s)'
  <2>1. CASE d = c
    BY <2>1
  <2>2. CASE d # c
    <3>1. WellMade(d) /\ OnStream(d, s)
      BY <1>1, <1>3, <1>5, <2>2 DEF Orderly
    <3>2. QED
      BY <1>4, <3>1, MadeStays
  <2>3. QED
    BY <2>1, <2>2
<1>6. ASSUME NEW e \in Counters, NEW d \in done', InStream(e, s)', OnStream(d, s)' PROVE Before(d, e)
  <2>1. WellMade(d) /\ d \in Counters
    BY <1>1, <1>6 DEF Types
  <2>2. OnStream(d, s)
    BY <1>4, <1>6, <2>1, MadeStays
  <2>3. CASE e = c
    BY <1>6, <2>1, <2>2, <2>3
  <2>4. CASE e # c
    BY <1>1, <1>3, <1>6, <2>1, <2>2, <2>4 DEF Orderly
  <2>5. QED
    BY <2>3, <2>4
<1>7. \A i, j \in DOMAIN toRun'[s] : i < j => Before(toRun'[s][i], toRun'[s][j])
  <2>1. \A i, j \in DOMAIN q : i < j => Before(q[i], q[j])
    BY <1>1, <1>2 DEF Orderly
  <2>2. ASSUME NEW i \in DOMAIN q PROVE Before(q[i], c)
    <3>1. PICK d \in Counters : d = q[i]
      BY <1>2, ElementOfSeq
    <3>2. InStream(d, s)
      BY <1>2, <3>1 DEF InStream
    <3>3. QED
      BY <1>1, <3>1, <3>2 DEF Orderly
  <2>3. PICK u : u = Append(q, c)
    OBVIOUS
  <2>4. \A i, j \in DOMAIN u : i < j => Before(u[i], u[j])
    BY <2>1, <2>2, <2>3, LaterLast
  <2>5. QED
    BY <1>2, <2>3, <2>4
<1>8. toRun'[s] # <<>>
  BY Appended DEF Types
<1>9. QED
  BY <1>5, <1>6, <1>7, <1>8 DEF Orderly, Before

(* A new call leaves the keys of those before it.                            *)
LEMMA CallStays ==
  ASSUME Types, NEW t \in Threads, NEW k \in Keys, Call(t, k)
  PROVE  CallsStay
BY CallFacts DEF CallsStay

(* The device's invariant holds after a step that adds to one stream and     *)
(* ends no task.                                                             *)
LEMMA DeviceQuiet ==
  ASSUME Types, Device, CallsStay, replays' \in Nat, replays <= replays', UNCHANGED <<done, begun>>,
         NEW s \in Streams, \A u \in Streams : u # s => toRun'[u] = toRun[u], Orderly(s)',
         \A n \in AgingLaunches' : n \in AgingLaunches \/ InStream(SysCnt(n, 1, "end"), NoKey)',
         \A c : InStream(c, s) => InStream(c, s)'
  PROVE  Device'
<1>1. \A u \in Streams : Orderly(u)'
  BY OrderlyStays
<1>2. replays \in Nat /\ \A d \in Counters : d.run \in Nat
  BY LogFacts, KernelRecordsAssumption DEF Types
<1>3. \A c \in done : WellMade(c) /\ c \in Counters
  BY DEF Device, Types
<1>4. \A c \in done' : WellMade(c)'
  BY <1>2, <1>3, MadeStays
<1>5. \A c : InStream(c, NoKey) => InStream(c, NoKey)'
  BY AgingKey DEF InStream, Streams
<1>6. \A n \in AgingLaunches : SysCnt(n, 1, "end") \in done \/ InStream(SysCnt(n, 1, "end"), NoKey)
  BY DEF Device
<1>7. ASSUME NEW n \in AgingLaunches'
      PROVE  SysCnt(n, 1, "end") \in done' \/ InStream(SysCnt(n, 1, "end"), NoKey)'
  <2>1. PICK c : c = SysCnt(n, 1, "end")
    OBVIOUS
  <2>2. c \in done' \/ InStream(c, NoKey)'
    BY <1>5, <1>6, <1>7, <2>1
  <2>3. QED
    BY <2>1, <2>2
<1>8. \A n \in AgingLaunches' :
        SysCnt(n, 1, "end") \in done' \/ InStream(SysCnt(n, 1, "end"), NoKey)'
  BY <1>7
<1>9. QED
  BY <1>1, <1>4, <1>8 DEF Device, SysCnt

(* A launch comes last in its stream.                                        *)
LEMMA DeviceLaunch ==
  ASSUME Types, Device, NEW t \in Threads, Launch(t)
  PROVE  Device'
<1>1. PICK k \in Keys, n \in Nat, c \in Counters :
        /\ k \notin GraphKeys /\ Call(t, k) /\ n = Len(calls) + 1
        /\ c = SysCnt(n, 1, "end") /\ c.launch = n /\ c.run = 1 /\ c.at = "end"
        /\ toRun' = [toRun EXCEPT ![NoKey] = Append(@, c)]
        /\ UNCHANGED <<begun, replays, done>>
  BY LaunchEffect
<1>2. /\ DOMAIN calls' = DOMAIN calls \cup {n} /\ calls'[n] = k
      /\ \A m \in DOMAIN calls : m < n /\ calls'[m] = calls[m]
  <2>1. Call(t, k) /\ n = Len(calls) + 1
    BY <1>1
  <2>2. PICK m \in Nat :
          /\ m = Len(calls) + 1 /\ DOMAIN calls' = DOMAIN calls \cup {m} /\ calls'[m] = k
          /\ \A j \in DOMAIN calls : j < m /\ calls'[j] = calls[j]
    BY <2>1, CallFacts
  <2>3. m = n
    BY <2>1, <2>2
  <2>4. QED
    BY <2>2, <2>3, Zenon
<1>3. CallsStay
  BY <1>1, CallStays
<1>4. replays \in Nat /\ replays' = replays
  BY <1>1, KernelRecordsAssumption DEF Types
<1>5. NoKey \in Streams /\ toRun'[NoKey] = Append(toRun[NoKey], c)
      /\ \A u \in Streams : u # NoKey => toRun'[u] = toRun[u]
  BY <1>1 DEF Streams, Types
<1>6. WellMade(c)' /\ OnStream(c, NoKey)'
  BY <1>1, <1>2 DEF WellMade, OnStream
<1>7. \A d \in Counters : WellMade(d) => Before(d, c)
  BY <1>1, <1>2 DEF WellMade, Before
<1>8. Orderly(NoKey)'
  BY <1>1, <1>3, <1>4, <1>5, <1>6, <1>7, OrderlyMore
<1>9. PICK q \in Seq(Counters) : q = toRun[NoKey]
  BY <1>5 DEF Types
<1>10. \A d : InStream(d, NoKey)' <=> InStream(d, NoKey) \/ d = c
  BY <1>5, <1>9, Elements DEF InStream
<1>11. \A m \in AgingLaunches' : m \in AgingLaunches \/ InStream(SysCnt(m, 1, "end"), NoKey)'
  <2>1. InStream(c, NoKey)'
    BY <1>10
  <2>2. \A m \in AgingLaunches' : m \in AgingLaunches \/ m = n
    BY <1>2 DEF AgingLaunches
  <2>3. InStream(SysCnt(n, 1, "end"), NoKey)'
    BY <1>1, <2>1
  <2>4. QED
    BY <2>2, <2>3
<1>12. QED
  BY <1>1, <1>3, <1>4, <1>5, <1>8, <1>10, <1>11, DeviceQuiet

(* A replay comes last in its stream, and only one graph is launched on      *)
(* it.                                                                       *)
LEMMA DeviceReplay ==
  ASSUME Types, Device, NEW k \in GraphKeys, Replay(k)
  PROVE  Device'
<1>1. PICK n \in LaunchesOn(k), c \in Counters :
        /\ \A m \in LaunchesOn(k) : m <= n
        /\ c.launch = n /\ c.run = replays + 1 /\ c.at = "end"
        /\ toRun' = [toRun EXCEPT ![k] = Append(@, c)]
        /\ replays \in Nat /\ replays' = replays + 1
  BY ReplayEffect
<1>2. UNCHANGED <<calls, done, begun>>
  BY DEF Replay, hostVars
<1>3. CallsStay /\ replays' \in Nat /\ replays <= replays'
  BY <1>1, <1>2 DEF CallsStay
<1>4. k \in Streams /\ k \in Keys /\ k # NoKey
  BY AgingKey DEF Streams, Keys
<1>5. toRun'[k] = Append(toRun[k], c) /\ \A u \in Streams : u # k => toRun'[u] = toRun[u]
  BY <1>1, <1>4 DEF Types
<1>6. WellMade(c)' /\ OnStream(c, k)'
  BY <1>1, <1>2, <1>4 DEF WellMade, OnStream, LaunchesOn
<1>7. ASSUME NEW d \in Counters, WellMade(d), OnStream(d, k) PROVE Before(d, c)
  <2>1. d.launch \in LaunchesOn(k) /\ d.run <= replays
    BY <1>4, <1>7 DEF WellMade, OnStream, LaunchesOn
  <2>2. d.launch \in Nat /\ c.launch \in Nat /\ d.run \in Nat /\ d.launch <= c.launch
    BY <1>1, <2>1, LogFacts
  <2>3. QED
    BY <1>1, <2>1, <2>2 DEF Before
<1>8. Orderly(k)'
  BY <1>1, <1>2, <1>3, <1>4, <1>5, <1>6, <1>7, OrderlyMore
<1>9. PICK q \in Seq(Counters) : q = toRun[k]
  BY <1>4 DEF Types
<1>10. \A d : InStream(d, k)' <=> InStream(d, k) \/ d = c
  BY <1>5, <1>9, Elements DEF InStream
<1>11. \A m \in AgingLaunches' : m \in AgingLaunches \/ InStream(SysCnt(m, 1, "end"), NoKey)'
  BY <1>2 DEF AgingLaunches
<1>12. QED
  BY <1>2, <1>3, <1>4, <1>5, <1>8, <1>10, <1>11, DeviceQuiet

(* The device's invariant holds after a step that leaves the streams         *)
(* alone.                                                                    *)
LEMMA DeviceSame ==
  ASSUME Types, Device, CallsStay, UNCHANGED <<replays, done, begun, toRun>>,
         AgingLaunches' = AgingLaunches
  PROVE  Device'
<1>1. replays' \in Nat /\ replays <= replays' /\ NoKey \in Streams
  BY KernelRecordsAssumption DEF Types, Streams
<1>2. Orderly(NoKey)'
  BY <1>1, OrderlyStays
<1>3. \A c : InStream(c, NoKey) => InStream(c, NoKey)'
  BY DEF InStream
<1>4. QED
  BY <1>1, <1>2, <1>3, DeviceQuiet

(* Only the first task of a stream begins.                                   *)
LEMMA DeviceBegin ==
  ASSUME Types, Device, NEW s \in Streams, BeginTask(s)
  PROVE  Device'
<1>1. UNCHANGED <<calls, toRun, replays, done>> /\ toRun[s] # <<>>
      /\ begun' = [begun EXCEPT ![s] = TRUE]
  BY DEF BeginTask, hostVars
<1>2. ASSUME NEW u \in Streams PROVE Orderly(u)'
  <2>1. Orderly(u) /\ (begun'[u] => toRun[u] # <<>>)
    BY <1>1 DEF Device, Orderly, Types
  <2>2. (\A c : InStream(c, u)' <=> InStream(c, u)) /\ (\A c : WellMade(c)' <=> WellMade(c))
        /\ \A c : OnStream(c, u)' <=> OnStream(c, u)
    BY <1>1 DEF InStream, WellMade, OnStream
  <2>3. QED
    BY <1>1, <2>1, <2>2 DEF Orderly, Before
<1>3. /\ \A c \in done' : WellMade(c)'
      /\ \A n \in AgingLaunches' : SysCnt(n, 1, "end") \in done' \/ InStream(SysCnt(n, 1, "end"), NoKey)'
  BY <1>1 DEF Device, WellMade, AgingLaunches, InStream, SysCnt
<1>4. QED
  BY <1>2, <1>3 DEF Device, SysCnt

(* Only a task that has begun ends, once.                                    *)
LEMMA DeviceEnd ==
  ASSUME Types, Device, NEW s \in Streams, EndTask(s)
  PROVE  Device'
<1>1. PICK c \in Counters :
        /\ toRun[s] # <<>> /\ begun[s] /\ c = Head(toRun[s]) /\ OnStream(c, s) /\ WellMade(c)
        /\ begun' = [begun EXCEPT ![s] = FALSE]
        /\ toRun' = [toRun EXCEPT ![s] = Tail(@)]
        /\ done' = done \cup {c}
  BY EndEffect
<1>2. UNCHANGED <<calls, replays>>
  BY DEF EndTask, hostVars
<1>3. toRun'[s] = Tail(toRun[s]) /\ \A u \in Streams : u # s => toRun'[u] = toRun[u] /\ begun'[u] = begun[u]
  BY <1>1 DEF Types
<1>4. \A d : (WellMade(d)' <=> WellMade(d)) /\ \A u : OnStream(d, u)' <=> OnStream(d, u)
  BY <1>2 DEF WellMade, OnStream
<1>5. PICK q \in Seq(Counters) : q = toRun[s]
  BY DEF Types
<1>6. /\ \A d : InStream(d, s) <=> InStream(d, s)' \/ d = c
      /\ \A u \in Streams : u # s => \A d : InStream(d, u)' <=> InStream(d, u)
  <2>1. PICK v : v = Tail(q)
    OBVIOUS
  <2>2. \A d : (\E i \in DOMAIN q : q[i] = d) <=> (\E i \in DOMAIN v : v[i] = d) \/ d = c
    <3>1. q # <<>> /\ c = Head(q)
      BY <1>1, <1>5
    <3>2. \A d : (\E i \in DOMAIN q : q[i] = d)
                    <=> (\E i \in DOMAIN Tail(q) : Tail(q)[i] = d) \/ d = Head(q)
      BY <3>1, ElementsTail
    <3>3. QED
      BY <2>1, <3>1, <3>2
  <2>3. toRun[s] = q /\ toRun'[s] = v
    BY <1>3, <1>5, <2>1
  <2>4. \A d : InStream(d, s) <=> InStream(d, s)' \/ d = c
    BY <2>2, <2>3 DEF InStream
  <2>5. ASSUME NEW u \in Streams, u # s PROVE \A d : InStream(d, u)' <=> InStream(d, u)
    BY <1>3, <2>5 DEF InStream
  <2>6. QED
    BY <2>4, <2>5
<1>7. c.launch \in DOMAIN calls
  BY <1>1 DEF WellMade
<1>8. Orderly(s)'
  <2>1. Orderly(s)
    BY DEF Device
  <2>2. PICK v : v = Tail(q)
    OBVIOUS
  <2>3. /\ \A i, j \in DOMAIN v : i < j => Before(v[i], v[j])
        /\ \A i \in DOMAIN v : Before(c, v[i])
    <3>1. \A i, j \in DOMAIN q : i < j => Before(q[i], q[j])
      BY <1>5, <2>1 DEF Orderly
    <3>2. QED
      BY <1>1, <1>5, <2>2, <3>1, LaterTail
  <2>4. \A d \in Counters : InStream(d, s)' => Before(c, d)
    BY <1>3, <1>5, <2>2, <2>3 DEF InStream
  <2>5. \A i, j \in DOMAIN toRun'[s] : i < j => Before(toRun'[s][i], toRun'[s][j])
    BY <1>3, <1>5, <2>2, <2>3
  <2>6. begun'[s] = FALSE
    BY <1>1 DEF Types
  <2>7. \A d \in Counters : InStream(d, s)' => WellMade(d)' /\ OnStream(d, s)'
    BY <1>4, <1>6, <2>1 DEF Orderly
  <2>8. \A e \in Counters, d \in done' : InStream(e, s)' /\ OnStream(d, s)' => Before(d, e)
    BY <1>1, <1>4, <1>6, <2>1, <2>4 DEF Orderly
  <2>9. QED
    BY <2>5, <2>6, <2>7, <2>8 DEF Orderly, Before
<1>9. ASSUME NEW u \in Streams, u # s PROVE Orderly(u)'
  <2>1. Orderly(u)
    BY DEF Device
  <2>2. ~OnStream(c, u)
    BY <1>1, <1>7, <1>9, StreamOf
  <2>3. toRun'[u] = toRun[u] /\ begun'[u] = begun[u] /\ \A d : InStream(d, u)' <=> InStream(d, u)
    BY <1>3, <1>6, <1>9
  <2>4. \A d \in Counters : InStream(d, u)' => WellMade(d)' /\ OnStream(d, u)'
    BY <1>4, <2>1, <2>3 DEF Orderly
  <2>5. \A e \in Counters, d \in done' : InStream(e, u)' /\ OnStream(d, u)' => Before(d, e)
    BY <1>1, <1>4, <2>1, <2>2, <2>3 DEF Orderly
  <2>6. /\ \A i, j \in DOMAIN toRun'[u] : i < j => Before(toRun'[u][i], toRun'[u][j])
        /\ begun'[u] => toRun'[u] # <<>>
    BY <2>1, <2>3 DEF Orderly
  <2>7. QED
    BY <2>4, <2>5, <2>6 DEF Orderly, Before
<1>10. \A d \in done' : WellMade(d)'
  BY <1>1, <1>4 DEF Device
<1>11. ASSUME NEW n \in AgingLaunches'
       PROVE  SysCnt(n, 1, "end") \in done' \/ InStream(SysCnt(n, 1, "end"), NoKey)'
  <2>1. n \in AgingLaunches /\ NoKey \in Streams
    BY <1>2 DEF AgingLaunches, Streams
  <2>2. PICK d : d = SysCnt(n, 1, "end")
    OBVIOUS
  <2>3. d \in done \/ InStream(d, NoKey)
    BY <2>1, <2>2 DEF Device
  <2>4. d \in done' \/ InStream(d, NoKey)'
    BY <1>1, <1>6, <2>1, <2>3
  <2>5. QED
    BY <2>2, <2>4
<1>12. QED
  BY <1>8, <1>9, <1>10, <1>11 DEF Device, SysCnt

(* Every step keeps the device's invariant.                                  *)
LEMMA DeviceStep ==
  ASSUME Types, Device, Next
  PROVE  Device'
<1>1. ASSUME NEW t \in Threads, NEW k \in GraphKeys, Capture(t, k) PROVE Device'
  <2>1. k \in Keys /\ Call(t, k) /\ UNCHANGED <<replays, done, begun, toRun>>
    BY <1>1 DEF Capture, Keys
  <2>2. CallsStay
    BY <2>1, CallStays
  <2>3. AgingLaunches' = AgingLaunches
    <3>1. PICK n \in Nat : /\ DOMAIN calls' = DOMAIN calls \cup {n} /\ calls'[n] = k
                           /\ \A m \in DOMAIN calls : calls'[m] = calls[m]
                           /\ n \notin DOMAIN calls
      BY <2>1, CallFacts
    <3>2. k \notin 0 .. NumIds - 1
      BY <2>1, AgingKey
    <3>3. QED
      BY <3>1, <3>2 DEF AgingLaunches
  <2>4. QED
    BY <2>1, <2>2, <2>3, DeviceSame
<1>2. CASE UNCHANGED <<calls, replays, done, begun, toRun>>
  BY <1>2, DeviceSame DEF CallsStay, AgingLaunches
<1>3. ASSUME NEW t \in Threads, ReportRtTaskTrack(t) \/ PushHostTask(t) \/ ReportRtApi(t) PROVE Device'
  BY <1>2, <1>3 DEF ReportRtTaskTrack, PushHostTask, ReportRtApi, deviceVars
<1>4. ASSUME Switch \/ LoseLog \/ ReportSocLog \/ IgnoreSocLog PROVE Device'
  BY <1>2, <1>4 DEF Switch, LoseLog, ReportSocLog, IgnoreSocLog, deviceVars, hostVars
<1>5. QED
  BY <1>1, <1>3, <1>4, DeviceLaunch, DeviceReplay, DeviceBegin, DeviceEnd DEF Next, Host

-----------------------------------------------------------------------------
(* Logs that the device has written.                                         *)
LEMMA HeadInStream ==
  ASSUME Types, Device, NEW s \in Streams, begun[s]
  PROVE  /\ toRun[s] # <<>> /\ Head(toRun[s]) \in Counters
         /\ InStream(Head(toRun[s]), s) /\ WellMade(Head(toRun[s])) /\ OnStream(Head(toRun[s]), s)
<1>1. Orderly(s)
  BY DEF Device
<1>2. PICK q \in Seq(Counters) : q = toRun[s]
  BY DEF Types
<1>3. q # <<>>
  BY <1>1, <1>2 DEF Orderly
<1>4. PICK c : c = Head(q)
  OBVIOUS
<1>5. c \in Counters /\ 1 \in DOMAIN q /\ q[1] = c
  BY <1>3, <1>4, Shortened
<1>6. InStream(c, s)
  BY <1>2, <1>5 DEF InStream
<1>7. QED
  BY <1>1, <1>2, <1>3, <1>4, <1>5, <1>6 DEF Orderly

(* A log is of a launch that was called.                                     *)
LEMMA IssuedKnown ==
  ASSUME Types, Device, NEW c \in Counters, Issued(c)
  PROVE  c.launch \in DOMAIN calls
<1>1. End(c).launch = c.launch
  BY LogFacts
<1>2. \A d \in done : WellMade(d)
  BY DEF Device
<1>3. CASE c \in done \/ End(c) \in done
  BY <1>1, <1>2, <1>3 DEF WellMade
<1>4. CASE Running(End(c))
  <2>1. PICK s \in Streams : begun[s] /\ End(c) = Head(toRun[s])
    BY <1>4 DEF Running
  <2>2. QED
    BY <1>1, <2>1, HeadInStream DEF WellMade
<1>5. QED
  BY <1>3, <1>4 DEF Issued

(* Nothing is written unless a task begins or ends.                          *)
LEMMA RunningStays ==
  ASSUME Types, Device, begun' = begun,
         \A s \in Streams : toRun'[s] = toRun[s] \/ \E c \in Counters : toRun'[s] = Append(toRun[s], c)
  PROVE  \A x : Running(x)' <=> Running(x)
<1>1. ASSUME NEW s \in Streams, begun[s] PROVE Head(toRun'[s]) = Head(toRun[s])
  <2>1. PICK q \in Seq(Counters) : q = toRun[s]
    BY DEF Types
  <2>2. q # <<>>
    BY <1>1, <2>1, HeadInStream
  <2>3. \A c \in Counters : Head(Append(q, c)) = Head(q)
    BY <2>2, Appended
  <2>4. QED
    BY <2>1, <2>3
<1>2. QED
  BY <1>1 DEF Running

(* A step that begins and ends no task issues no log.                        *)
LEMMA IssuedStays ==
  ASSUME Types, Device, begun' = begun, done' = done,
         \A s \in Streams : toRun'[s] = toRun[s] \/ \E c \in Counters : toRun'[s] = Append(toRun[s], c)
  PROVE  \A d : Issued(d)' <=> Issued(d)
<1>1. ASSUME NEW d PROVE Issued(d)' <=> Issued(d)
  <2>1. PICK e : e = End(d)
    OBVIOUS
  <2>2. Running(e)' <=> Running(e)
    BY RunningStays
  <2>3. Issued(d) <=> d \in done \/ (d.at = "begin" /\ (e \in done \/ Running(e)))
    BY <2>1 DEF Issued
  <2>4. Issued(d)' <=> d \in done' \/ (d.at = "begin" /\ (e \in done' \/ Running(e)'))
    BY <2>1 DEF Issued, End
  <2>5. QED
    BY <2>2, <2>3, <2>4
<1>2. QED
  BY <1>1

(* Those of a key precede what its stream runs next.                         *)
LEMMA StreamKey ==
  ASSUME Types, NEW c \in Counters, NEW d \in Counters, c.launch \in DOMAIN calls, d.launch \in DOMAIN calls,
         SameKey(c, d), NEW s \in Streams, OnStream(c, s)
  PROVE  OnStream(d, s)
BY DEF OnStream, SameKey

(* The logs of a key that are out are before the task that is first in the   *)
(* stream.                                                                   *)
LEMMA IssuedEarlier ==
  ASSUME Types, Device, NEW s \in Streams, toRun[s] # <<>>,
         NEW c \in Counters, c = Head(toRun[s]), OnStream(c, s), c.launch \in DOMAIN calls,
         NEW d \in Counters, Issued(d), SameKey(c, d)
  PROVE  Before(d, c) \/ (begun[s] /\ End(d) = c /\ d.at = "begin")
<1>1. d.launch \in DOMAIN calls
  BY IssuedKnown
<1>2. PICK e \in Counters : e = End(d) /\ e.launch = d.launch /\ e.run = d.run
  BY LogFacts
<1>3. OnStream(e, s) /\ OnStream(d, s)
  <2>1. OnStream(d, s)
    BY <1>1, StreamKey
  <2>2. QED
    BY <1>2, <2>1 DEF OnStream
<1>4. InStream(c, s)
  <2>1. PICK q \in Seq(Counters) : q = toRun[s]
    BY DEF Types
  <2>2. 1 \in DOMAIN q /\ q[1] = c
    BY <2>1, Shortened
  <2>3. QED
    BY <2>1, <2>2 DEF InStream
<1>5. \A x \in done : OnStream(x, s) => Before(x, c)
  BY <1>4 DEF Device, Orderly
<1>6. CASE d \in done
  BY <1>3, <1>5, <1>6
<1>7. CASE e \in done
  BY <1>2, <1>3, <1>5, <1>7 DEF Before
<1>8. CASE d.at = "begin" /\ Running(e)
  <2>1. PICK u \in Streams : begun[u] /\ e = Head(toRun[u])
    BY <1>8 DEF Running
  <2>2. OnStream(e, u)
    BY <2>1, HeadInStream
  <2>3. u = s
    BY <1>1, <1>2, <1>3, <2>2, StreamOf
  <2>4. QED
    BY <1>2, <1>8, <2>1, <2>3
<1>9. QED
  BY <1>2, <1>6, <1>7, <1>8 DEF Issued

(* The log a task writes when it begins, and the one when it ends.           *)
Wrote(e) ==
  /\ \A d \in Counters : Issued(d)' <=> Issued(d) \/ d = e
  /\ \A d \in Counters : Issued(d) /\ SameKey(d, e) => Precedes(d, e)
  /\ e.launch \in DOMAIN calls

(* A task that begins issues the log of its beginning, for the first time.   *)
LEMMA IssuedBegin ==
  ASSUME Types, Device, NEW s \in Streams, BeginTask(s)
  PROVE  \E c \in Counters, b \in Counters, l \in LogSet :
           /\ c = Head(toRun[s]) /\ toRun[s] # <<>> /\ OnStream(c, s) /\ ~begun[s] /\ b.at = "begin" /\ End(b) = c
           /\ l.key = calls[b.launch] /\ l.time = b /\ channel' = Append(channel, l)
           /\ Wrote(b) /\ ~Issued(b)
<1>1. PICK c \in Counters, b \in Counters, l \in LogSet :
        /\ toRun[s] # <<>> /\ ~begun[s] /\ c = Head(toRun[s]) /\ c.at = "end" /\ c.launch \in DOMAIN calls
        /\ OnStream(c, s)
        /\ b.launch = c.launch /\ b.run = c.run /\ b.at = "begin" /\ End(b) = c
        /\ begun' = [begun EXCEPT ![s] = TRUE]
        /\ l.key = calls[b.launch] /\ l.time = b /\ channel' = Append(channel, l)
  BY BeginEffect
<1>2. toRun' = toRun /\ done' = done
  BY DEF BeginTask
<1>3. \A x : Running(x)' <=> Running(x) \/ x = c
  BY <1>1, <1>2 DEF Running, Types
<1>4. ASSUME NEW d \in Counters PROVE Issued(d)' <=> Issued(d) \/ d = b
  <2>1. PICK x : x = End(d)
    OBVIOUS
  <2>2. Issued(d) <=> d \in done \/ (d.at = "begin" /\ (x \in done \/ Running(x)))
    BY <2>1 DEF Issued
  <2>3. Issued(d)' <=> d \in done' \/ (d.at = "begin" /\ (x \in done' \/ Running(x)'))
    BY <2>1 DEF Issued, End
  <2>4. d.at = "begin" /\ x = c <=> d = b
    BY <1>1, <2>1, LogFacts
  <2>5. QED
    BY <1>2, <1>3, <2>2, <2>3, <2>4
<1>5. ASSUME NEW d \in Counters, Issued(d), SameKey(d, b) PROVE Before(d, b)
  <2>1. SameKey(c, d)
    BY <1>1, <1>5 DEF SameKey
  <2>2. Before(d, c)
    BY <1>1, <1>5, <2>1, IssuedEarlier
  <2>3. QED
    BY <1>1, <2>2 DEF Before
<1>6. ~Issued(b)
  <2>1. ~Before(b, b)
    BY OneOrder
  <2>2. QED
    BY <1>5, <2>1 DEF SameKey
<1>7. Wrote(b)
  BY <1>1, <1>4, <1>5 DEF Wrote, Precedes
<1>8. QED
  BY <1>1, <1>6, <1>7

(* A task that ends issues the log of its end, for the first time.           *)
LEMMA IssuedEnd ==
  ASSUME Types, Device, NEW s \in Streams, EndTask(s)
  PROVE  \E c \in Counters, l \in LogSet :
           /\ c = Head(toRun[s]) /\ toRun[s] # <<>> /\ OnStream(c, s) /\ begun[s] /\ c.at = "end"
           /\ l.key = calls[c.launch] /\ l.time = c /\ channel' = Append(channel, l)
           /\ done' = done \cup {c} /\ c \notin done
           /\ Wrote(c) /\ ~Issued(c)
<1>1. PICK c \in Counters, l \in LogSet :
        /\ toRun[s] # <<>> /\ begun[s] /\ c = Head(toRun[s]) /\ c.at = "end" /\ c.launch \in DOMAIN calls
        /\ OnStream(c, s) /\ WellMade(c)
        /\ begun' = [begun EXCEPT ![s] = FALSE]
        /\ l.key = calls[c.launch] /\ l.time = c /\ channel' = Append(channel, l)
        /\ toRun' = [toRun EXCEPT ![s] = Tail(@)]
        /\ done' = done \cup {c}
  BY EndEffect
<1>2. \A u \in Streams : u # s => toRun'[u] = toRun[u] /\ begun'[u] = begun[u]
  BY <1>1 DEF Types
<1>3. ~begun'[s]
  BY <1>1 DEF Types
<1>4. \A x : Running(x) \/ x = c <=> Running(x)' \/ x = c
  BY <1>1, <1>2, <1>3 DEF Running
<1>5. Running(c)
  BY <1>1 DEF Running
<1>6. ASSUME NEW d \in Counters PROVE Issued(d)' <=> Issued(d) \/ d = c
  <2>1. PICK x : x = End(d)
    OBVIOUS
  <2>2. Issued(d) <=> d \in done \/ (d.at = "begin" /\ (x \in done \/ Running(x)))
    BY <2>1 DEF Issued
  <2>3. Issued(d)' <=> d \in done' \/ (d.at = "begin" /\ (x \in done' \/ Running(x)'))
    BY <2>1 DEF Issued, End
  <2>4. QED
    BY <1>1, <1>4, <1>5, <2>2, <2>3
<1>7. ASSUME NEW d \in Counters, Issued(d), SameKey(d, c) PROVE Before(d, c) \/ (End(d) = c /\ d.at = "begin")
  <2>1. SameKey(c, d)
    BY <1>7 DEF SameKey
  <2>2. QED
    BY <1>1, <1>7, <2>1, IssuedEarlier
<1>8. ~Issued(c)
  <2>1. ~Before(c, c)
    BY OneOrder
  <2>2. QED
    BY <1>1, <1>7, <2>1 DEF SameKey
<1>9. ASSUME NEW d \in Counters, Issued(d), SameKey(d, c) PROVE Precedes(d, c)
  <2>1. CASE Before(d, c)
    BY <2>1 DEF Precedes
  <2>2. CASE End(d) = c /\ d.at = "begin"
    <3>1. d.launch = c.launch /\ d.run = c.run
      BY <2>2, LogFacts
    <3>2. QED
      BY <1>1, <2>2, <3>1 DEF Precedes
  <2>3. QED
    BY <1>7, <1>9, <2>1, <2>2
<1>10. Wrote(c)
  BY <1>1, <1>6, <1>9 DEF Wrote
<1>11. c \notin done
  BY <1>8 DEF Issued
<1>12. QED
  BY <1>1, <1>8, <1>10, <1>11

-----------------------------------------------------------------------------
(* Logs in the channel.                                                      *)
LEMMA OrderedMore ==
  ASSUME Types, Device, Ordered, calls' = calls,
         NEW e \in Counters, NEW l \in LogSet, l.key = calls[e.launch], l.time = e,
         channel' = Append(channel, l), Wrote(e)
  PROVE  /\ Ordered'
         /\ \A c : InChannel(c)' <=> InChannel(c) \/ c = e
<1>1. PICK q \in Seq(LogSet) : q = channel
  BY DEF Types
<1>2. PICK n : n = Len(q) + 1
  OBVIOUS
<1>3. /\ DOMAIN channel' = DOMAIN channel \cup {n} /\ channel'[n] = l /\ n \in Nat
      /\ \A i \in DOMAIN channel : i \in Nat /\ i < n /\ channel'[i] = channel[i]
  <2>1. channel' = Append(q, l)
    BY <1>1
  <2>2. QED
    BY <1>1, <1>2, <2>1, Appended
<1>4. \A c : InChannel(c)' <=> InChannel(c) \/ c = e
  BY <1>3 DEF InChannel
<1>5. \A i \in DOMAIN channel', c \in Counters : channel'[i].time = c => channel'[i].key = calls'[c.launch] /\ Issued(c)'
  BY <1>3 DEF Ordered, Wrote
<1>6. ASSUME NEW i \in DOMAIN channel', NEW j \in DOMAIN channel', NEW c \in Counters, NEW d \in Counters,
             i < j, channel'[i].time = c, channel'[j].time = d, SameKey(c, d)'
      PROVE  Precedes(c, d)
  <2>1. SameKey(c, d)
    BY <1>6 DEF SameKey
  <2>2. i \in DOMAIN channel
    BY <1>3, <1>6
  <2>3. CASE j \in DOMAIN channel
    BY <1>3, <1>6, <2>1, <2>2, <2>3 DEF Ordered
  <2>4. CASE j = n
    <3>1. d = e /\ channel[i].time = c
      BY <1>3, <1>6, <2>2, <2>4
    <3>2. Issued(c)
      BY <2>2, <3>1 DEF Ordered
    <3>3. QED
      BY <2>1, <3>1, <3>2 DEF Wrote
  <2>5. QED
    BY <1>3, <2>3, <2>4
<1>7. ASSUME NEW c \in Counters, NEW d \in Counters,
             InChannel(c)', Issued(d)', SameKey(c, d)', Precedes(c, d)
      PROVE  InChannel(d)'
  <2>1. SameKey(c, d) /\ SameKey(d, c)
    BY <1>7 DEF SameKey
  <2>2. CASE d = e
    BY <1>4, <2>2
  <2>3. CASE d # e
    <3>1. Issued(d)
      BY <1>7, <2>3 DEF Wrote
    <3>2. c # e
      <4>1. c = e => Precedes(d, c)
        BY <2>1, <3>1 DEF Wrote
      <4>2. QED
        BY <1>7, <4>1, OneOrder
    <3>3. InChannel(c)
      BY <1>4, <1>7, <3>2
    <3>4. InChannel(d)
      BY <1>7, <2>1, <3>1, <3>3 DEF Ordered
    <3>5. QED
      BY <1>4, <3>4
  <2>4. QED
    BY <2>2, <2>3
<1>8. \A c, d \in Counters : Precedes(c, d)' <=> Precedes(c, d)
  BY DEF Precedes, Before
<1>9. Ordered'
  BY <1>5, <1>6, <1>7, <1>8 DEF Ordered
<1>10. QED
  BY <1>4, <1>9

(* A channel whose first log is read stays in order, and that log is not     *)
(* in it again.                                                              *)
LEMMA OrderedTail ==
  ASSUME Types, Device, Ordered, calls' = calls, channel # <<>>, channel' = Tail(channel),
         \A d : Issued(d)' <=> Issued(d)
  PROVE  /\ Ordered'
         /\ \A c : InChannel(c) <=> InChannel(c)' \/ c = Head(channel).time
         /\ \A c : c = Head(channel).time => ~InChannel(c)'
         /\ Head(channel).time \in Counters /\ Issued(Head(channel).time)
         /\ Head(channel).key = calls[Head(channel).time.launch]
<1>1. PICK q \in Seq(LogSet) : q = channel
  BY DEF Types
<1>2. PICK v : v = Tail(q)
  OBVIOUS
<1>3. /\ 1 \in DOMAIN q /\ q[1] = Head(q) /\ Head(q) \in LogSet /\ v \in Seq(LogSet)
      /\ \A i \in DOMAIN v : i \in Nat /\ i + 1 \in DOMAIN q /\ i + 1 > 1 /\ v[i] = q[i + 1]
      /\ \A i \in DOMAIN q : i \in Nat /\ (i = 1 \/ (i > 1 /\ i - 1 \in DOMAIN v /\ v[i - 1] = q[i]))
  BY <1>1, <1>2, Shortened
<1>4. channel' = v
  BY <1>1, <1>2
<1>5. PICK h \in Counters : h = Head(q).time
  BY <1>3 DEF LogSet
<1>6. \A c : InChannel(c) <=> InChannel(c)' \/ c = h
  <2>1. \A c : (\E i \in DOMAIN q : q[i].time = c) <=> (\E i \in DOMAIN v : v[i].time = c) \/ c = h
    BY <1>3, <1>5
  <2>2. \A c : InChannel(c) <=> \E i \in DOMAIN q : q[i].time = c
    BY <1>1 DEF InChannel
  <2>3. \A c : InChannel(c)' <=> \E i \in DOMAIN v : v[i].time = c
    BY <1>4 DEF InChannel
  <2>4. QED
    BY <2>1, <2>2, <2>3
<1>7. Issued(h) /\ Head(q).key = calls[h.launch]
  BY <1>1, <1>3, <1>5 DEF Ordered
<1>8. ASSUME NEW i \in DOMAIN v, NEW c \in Counters, v[i].time = c
      PROVE  /\ v[i].key = calls[c.launch] /\ Issued(c)
             /\ SameKey(h, c) => Precedes(h, c)
  <2>1. PICK a : a = i + 1
    OBVIOUS
  <2>2. a \in DOMAIN q /\ v[i] = q[a] /\ 1 < a
    BY <1>3, <2>1
  <2>3. QED
    BY <1>1, <1>3, <1>5, <1>8, <2>2 DEF Ordered
<1>9. ASSUME NEW i \in DOMAIN v, NEW j \in DOMAIN v, NEW c \in Counters, NEW d \in Counters,
             i < j, v[i].time = c, v[j].time = d, SameKey(c, d)
      PROVE  Precedes(c, d)
  <2>1. PICK a, b : a = i + 1 /\ b = j + 1
    OBVIOUS
  <2>2. a \in DOMAIN q /\ v[i] = q[a] /\ b \in DOMAIN q /\ v[j] = q[b] /\ a < b
    BY <1>3, <1>9, <2>1
  <2>3. QED
    BY <1>1, <1>9, <2>2 DEF Ordered
<1>10. ~InChannel(h)'
  <2>1. SUFFICES ASSUME NEW i \in DOMAIN v, v[i].time = h PROVE FALSE
    BY <1>4 DEF InChannel
  <2>2. Precedes(h, h)
    BY <1>8, <2>1 DEF SameKey
  <2>3. QED
    BY <2>2, OneOrder
<1>11. ASSUME NEW c \in Counters, NEW d \in Counters,
              InChannel(c)', Issued(d), SameKey(c, d), Precedes(c, d)
       PROVE  InChannel(d)'
  <2>1. InChannel(c)
    BY <1>6, <1>11
  <2>2. InChannel(d)
    BY <1>11, <2>1 DEF Ordered
  <2>3. d # h
    <3>1. SUFFICES ASSUME d = h PROVE FALSE
      OBVIOUS
    <3>2. PICK i \in DOMAIN v : v[i].time = c
      BY <1>4, <1>11 DEF InChannel
    <3>3. Precedes(h, c)
      BY <1>8, <1>11, <3>1, <3>2 DEF SameKey
    <3>4. QED
      BY <1>11, <3>1, <3>3, OneOrder
  <2>4. QED
    BY <1>6, <2>2, <2>3
<1>12. Ordered'
  <2>1. \A i \in DOMAIN channel', c \in Counters :
          channel'[i].time = c => channel'[i].key = calls'[c.launch] /\ Issued(c)'
    BY <1>4, <1>8
  <2>2. \A i, j \in DOMAIN channel', c, d \in Counters :
          i < j /\ channel'[i].time = c /\ channel'[j].time = d /\ SameKey(c, d)' => Precedes(c, d)
    BY <1>4, <1>9 DEF SameKey
  <2>3. \A c, d \in Counters : InChannel(c)' /\ Issued(d)' /\ SameKey(c, d)' /\ Precedes(c, d) => InChannel(d)'
    BY <1>11 DEF SameKey
  <2>4. QED
    BY <2>1, <2>2, <2>3 DEF Ordered, Precedes, Before
<1>13. QED
  <2>1. h = Head(channel).time
    BY <1>1, <1>5
  <2>2. QED
    BY <1>1, <1>5, <1>6, <1>7, <1>10, <1>12, <2>1

(* Steps that write no log.                                                  *)
WritesNone == (\A d : Issued(d)' <=> Issued(d)) /\ done' = done

(* Only tasks that begin or end write to the channel.                        *)
LEMMA NoneWritten ==
  ASSUME Types, Device, Next
  PROVE  CallsStay /\ (WritesNone \/ \E s \in Streams : BeginTask(s) \/ EndTask(s))
<1>1. ASSUME UNCHANGED <<begun, done, toRun>> PROVE WritesNone
  BY <1>1, IssuedStays DEF WritesNone
<1>2. ASSUME NEW t \in Threads, Launch(t) PROVE CallsStay /\ WritesNone
  <2>1. PICK k \in Keys, c \in Counters :
          /\ Call(t, k) /\ toRun' = [toRun EXCEPT ![NoKey] = Append(@, c)]
          /\ UNCHANGED <<begun, done>>
    BY <1>2, LaunchEffect
  <2>2. \A s \in Streams : toRun'[s] = toRun[s] \/ \E d \in Counters : toRun'[s] = Append(toRun[s], d)
    BY <2>1 DEF Types
  <2>3. QED
    BY <2>1, <2>2, IssuedStays, CallStays DEF WritesNone
<1>3. ASSUME NEW t \in Threads, NEW k \in GraphKeys, Capture(t, k) PROVE CallsStay /\ WritesNone
  <2>1. k \in Keys /\ Call(t, k) /\ UNCHANGED <<begun, done, toRun>>
    BY <1>3 DEF Capture, Keys
  <2>2. QED
    BY <1>1, <2>1, CallStays, IssuedStays DEF WritesNone
<1>4. ASSUME NEW t \in Threads, ReportRtTaskTrack(t) \/ PushHostTask(t) \/ ReportRtApi(t)
      PROVE  CallsStay /\ WritesNone
  <2>1. UNCHANGED <<begun, done, toRun, calls>>
    BY <1>4 DEF ReportRtTaskTrack, PushHostTask, ReportRtApi, deviceVars
  <2>2. QED
    BY <2>1, IssuedStays DEF WritesNone, CallsStay
<1>5. ASSUME NEW k \in GraphKeys, Replay(k) PROVE CallsStay /\ WritesNone
  <2>1. PICK c \in Counters : toRun' = [toRun EXCEPT ![k] = Append(@, c)]
    BY <1>5, ReplayEffect
  <2>2. \A s \in Streams : toRun'[s] = toRun[s] \/ \E d \in Counters : toRun'[s] = Append(toRun[s], d)
    BY <2>1 DEF Types
  <2>3. UNCHANGED <<begun, done, calls>>
    BY <1>5 DEF Replay, hostVars
  <2>4. QED
    BY <2>2, <2>3, IssuedStays DEF WritesNone, CallsStay
<1>6. ASSUME Switch \/ LoseLog \/ ReportSocLog \/ IgnoreSocLog PROVE CallsStay /\ WritesNone
  <2>1. UNCHANGED <<begun, done, toRun, calls>>
    BY <1>6 DEF Switch, LoseLog, ReportSocLog, IgnoreSocLog, deviceVars, hostVars
  <2>2. QED
    BY <2>1, IssuedStays DEF WritesNone, CallsStay
<1>7. ASSUME NEW s \in Streams, BeginTask(s) \/ EndTask(s) PROVE CallsStay
  BY <1>7 DEF BeginTask, EndTask, hostVars, CallsStay
<1>8. QED
  BY <1>2, <1>3, <1>4, <1>5, <1>6, <1>7 DEF Next, Host

(* Steps that leave the channel alone.                                       *)
LEMMA OrderedStays ==
  ASSUME Types, Device, Ordered, CallsStay, WritesNone, channel' = channel
  PROVE  Ordered'
<1>1. \A c \in Counters : InChannel(c) => Issued(c)
  BY DEF Ordered, InChannel
<1>2. \A c \in Counters : Issued(c) => c.launch \in DOMAIN calls /\ calls'[c.launch] = calls[c.launch]
  BY IssuedKnown DEF CallsStay
<1>3. \A c \in Counters : (InChannel(c)' <=> InChannel(c)) /\ (Issued(c)' <=> Issued(c))
  BY DEF InChannel, WritesNone
<1>4. \A c, d \in Counters : Issued(c) /\ Issued(d) => (SameKey(c, d)' <=> SameKey(c, d))
  BY <1>2 DEF SameKey
<1>5. \A i \in DOMAIN channel', c \in Counters :
        channel'[i].time = c => channel'[i].key = calls'[c.launch] /\ Issued(c)'
  BY <1>2, <1>3 DEF Ordered
<1>6. \A i, j \in DOMAIN channel', c, d \in Counters :
        i < j /\ channel'[i].time = c /\ channel'[j].time = d /\ SameKey(c, d)' => Precedes(c, d)
  <2>1. SUFFICES ASSUME NEW i \in DOMAIN channel, NEW j \in DOMAIN channel, NEW c \in Counters, NEW d \in Counters,
                        i < j, channel[i].time = c, channel[j].time = d, SameKey(c, d)'
                 PROVE  Precedes(c, d)
    OBVIOUS
  <2>2. InChannel(c) /\ InChannel(d)
    BY <2>1 DEF InChannel
  <2>3. SameKey(c, d)
    BY <1>1, <1>4, <2>1, <2>2
  <2>4. QED
    BY <2>1, <2>3 DEF Ordered
<1>7. \A c, d \in Counters : InChannel(c)' /\ Issued(d)' /\ SameKey(c, d)' /\ Precedes(c, d) => InChannel(d)'
  BY <1>1, <1>3, <1>4 DEF Ordered
<1>8. QED
  BY <1>5, <1>6, <1>7 DEF Ordered, Precedes, Before

(* Every step keeps the logs of a key in the order of their tasks.           *)
LEMMA OrderedStep ==
  ASSUME Types, Device, Ordered, Next
  PROVE  Ordered'
<1>1. ASSUME NEW s \in Streams, BeginTask(s) \/ EndTask(s) PROVE Ordered'
  <2>1. calls' = calls
    BY <1>1 DEF BeginTask, EndTask, hostVars
  <2>2. PICK e \in Counters, l \in LogSet :
          l.key = calls[e.launch] /\ l.time = e /\ channel' = Append(channel, l) /\ Wrote(e)
    BY <1>1, IssuedBegin, IssuedEnd
  <2>3. QED
    BY <2>1, <2>2, OrderedMore
<1>2. CASE CallsStay /\ WritesNone /\ channel' = channel
  BY <1>2, OrderedStays
<1>3. CASE CallsStay /\ WritesNone /\ channel' # channel
  <2>1. ASSUME NEW t \in Threads, Launch(t) PROVE FALSE
    BY <1>3, <2>1, LaunchEffect
  <2>2. LoseLog \/ ReportSocLog \/ IgnoreSocLog \/ \E s \in Streams : BeginTask(s) \/ EndTask(s)
    BY <1>3, <2>1 DEF Next, Host, Capture, ReportRtTaskTrack, PushHostTask, ReportRtApi, Replay, Switch
  <2>3. CASE LoseLog \/ ReportSocLog \/ IgnoreSocLog
    <3>1. channel # <<>> /\ channel' = Tail(channel) /\ calls' = calls
      BY <2>3 DEF LoseLog, ReportSocLog, IgnoreSocLog, hostVars
    <3>2. QED
      BY <1>3, <3>1, OrderedTail DEF WritesNone
  <2>4. QED
    BY <1>1, <2>2, <2>3
<1>4. QED
  BY <1>1, <1>2, <1>3, NoneWritten

-----------------------------------------------------------------------------
(* Keys on which nothing was missed or late.                                 *)

(* What was read and recorded of a key is as it was.                         *)
SameOn(k) ==
  /\ \A n : n \in LaunchesOn(k)' <=> n \in LaunchesOn(k)
  /\ \A n \in LaunchesOn(k) : n \in reported' <=> n \in reported
  /\ Cached(k)' = Cached(k) /\ CachedGraph(k)' = CachedGraph(k)
  /\ deviceMap'[k] = deviceMap[k]
SameLogs(k) ==
  /\ \A c \in Counters : Did(k, c)' <=> Did(k, c)
  /\ \A c \in Counters : Started(k, c)' <=> Started(k, c)
SameRecords(k) ==
  \/ kernels' = kernels
  \/ \E r \in Records : r.key # k /\ kernels' = Append(kernels, r)

(* The end of the first run of a launch is a time of the device.             *)
LEMMA LaunchRun ==
  ASSUME Types, NEW k, NEW n \in LaunchesOn(k)
  PROVE  /\ SysCnt(n, 1, "end") \in Counters /\ SysCnt(n, 1, "end").launch = n
         /\ SysCnt(n, 1, "end").run = 1 /\ SysCnt(n, 1, "end").at = "end" /\ n \in Nat
<1>1. n \in Launched /\ n \in Nat
  BY CallsKnown DEF LaunchesOn
<1>2. 1 \in 1 .. MaxReplays + 1
  BY KernelRecordsAssumption
<1>3. QED
  BY <1>1, <1>2, RunTypes

(* The records of a key stay right when no record is added and no task of    *)
(* it is done.                                                               *)
LEMMA RecordsStay ==
  ASSUME Types, NEW k, RecordsOf(k), SameRecords(k), \A c \in Counters : Did(k, c)' <=> Did(k, c)
  PROVE  RecordsOf(k)'
<1>1. CASE kernels' = kernels
  BY <1>1 DEF RecordsOf, HasRecord
<1>2. ASSUME NEW r \in Records, r.key # k, kernels' = Append(kernels, r) PROVE RecordsOf(k)'
  <2>1. PICK q \in Seq(Records) : q = kernels
    BY DEF Types
  <2>2. PICK l : l = Len(q) + 1
    OBVIOUS
  <2>3. /\ DOMAIN kernels' = DOMAIN kernels \cup {l} /\ kernels'[l] = r
        /\ \A i \in DOMAIN kernels : kernels'[i] = kernels[i]
    <3>1. kernels' = Append(q, r)
      BY <1>2, <2>1
    <3>2. QED
      BY <2>1, <2>2, <3>1, Appended
  <2>4. \A i \in DOMAIN kernels' : kernels'[i].key = k => i \in DOMAIN kernels /\ kernels'[i] = kernels[i]
    BY <1>2, <2>3
  <2>5. \A c : HasRecord(k, c)' <=> HasRecord(k, c)
    BY <2>3, <2>4 DEF HasRecord
  <2>6. \A c \in Counters : Did(k, c)' <=> HasRecord(k, c)'
    BY <2>5 DEF RecordsOf
  <2>7. \A i, j \in DOMAIN kernels' :
          kernels'[i].key = k /\ kernels'[j].key = k /\ kernels'[i].end = kernels'[j].end => i = j
    BY <2>4 DEF RecordsOf
  <2>8. \A i \in DOMAIN kernels' : kernels'[i].key = k =>
          /\ kernels'[i].launch = kernels'[i].end.ns.launch
          /\ kernels'[i].start.ns = [kernels'[i].end.ns EXCEPT !.at = "begin"]
    BY <2>4 DEF RecordsOf
  <2>9. QED
    BY <2>6, <2>7, <2>8 DEF RecordsOf
<1>3. QED
  BY <1>1, <1>2 DEF SameRecords

(* A start that is noted stays the one of a task under way.                  *)
LEMMA StartsStay ==
  ASSUME NEW k, Starts(k), deviceMap'[k] = deviceMap[k], \A c \in Counters : Started(k, c)' <=> Started(k, c)
  PROVE  Starts(k)'
BY DEF Starts

(* A task of a key that is done and read is one of its launches.             *)
LEMMA DidKnown ==
  ASSUME Device, NEW k, NEW c, Did(k, c)
  PROVE  /\ c \in done /\ WellMade(c) /\ c.at = "end" /\ c.launch \in LaunchesOn(k)
         /\ c.launch \in DOMAIN calls /\ calls[c.launch] = k /\ ~InChannel(c)
BY DEF Device, WellMade, Did, Read, LaunchesOn

(* A key stays exact when nothing of it changes.                             *)
LEMMA ExactStays ==
  ASSUME Types, Device, NEW k \in Keys, ExactOn(k), SameOn(k), SameLogs(k), SameRecords(k)
  PROVE  ExactOn(k)'
<1>1. Prefix(k)'
  BY DEF ExactOn, SameOn, Prefix
<1>2. Punctual(k)'
  <2>1. ASSUME NEW c \in Counters, Did(k, c)' PROVE c.launch \in reported'
    <3>1. Did(k, c) /\ c.launch \in reported
      BY <2>1 DEF SameLogs, ExactOn, Punctual
    <3>2. c.launch \in LaunchesOn(k)
      BY <3>1, DidKnown
    <3>3. QED
      BY <3>1, <3>2 DEF SameOn
  <2>2. QED
    BY <2>1 DEF Punctual
<1>3. Aging(k) => Queued(k)'
  <2>1. \A n : Waits(k, n)' <=> Waits(k, n)
    BY DEF SameOn, Waits
  <2>2. ASSUME Aging(k), NEW n \in LaunchesOn(k)'
        PROVE  Waits(k, n)' <=> (n \in reported' /\ ~Did(k, SysCnt(n, 1, "end"))')
    <3>1. PICK c : c = SysCnt(n, 1, "end")
      OBVIOUS
    <3>2. n \in LaunchesOn(k) /\ c \in Counters
      BY <2>2, <3>1, LaunchRun DEF SameOn
    <3>3. Waits(k, n) <=> (n \in reported /\ ~Did(k, c))
      BY <2>2, <3>1, <3>2 DEF ExactOn, Queued
    <3>4. (n \in reported' <=> n \in reported) /\ (Did(k, c)' <=> Did(k, c))
      BY <3>2 DEF SameOn, SameLogs
    <3>5. Waits(k, n)' <=> (n \in reported' /\ ~Did(k, c)')
      BY <2>1, <3>3, <3>4
    <3>6. QED
      BY <3>1, <3>5 DEF SysCnt
  <2>3. QED
    BY <2>2 DEF ExactOn, Queued, SameOn, SysCnt
<1>4. ~Aging(k) => Captured(k)'
  BY DEF ExactOn, Captured, SameOn
<1>5. Starts(k)'
  BY StartsStay DEF ExactOn, SameOn, SameLogs
<1>6. RecordsOf(k)'
  BY RecordsStay DEF ExactOn, SameLogs
<1>7. QED
  BY <1>1, <1>2, <1>3, <1>4, <1>5, <1>6 DEF ExactOn, Aging

(* Logs as they were: neither written nor read; written; read of another key. *)
LEMMA LogsStay ==
  ASSUME Types, Device, CallsStay, WritesNone, NEW k,
         \A c \in Counters : c.launch \in DOMAIN calls /\ calls[c.launch] = k => (InChannel(c)' <=> InChannel(c))
  PROVE  SameLogs(k)
<1>1. ASSUME NEW c \in Counters, c.launch \in DOMAIN calls PROVE calls'[c.launch] = calls[c.launch]
  BY <1>1 DEF CallsStay
<1>2. \A c \in done : c \in Counters /\ c.launch \in DOMAIN calls
  BY DEF Types, Device, WellMade
<1>3. ASSUME NEW c \in Counters PROVE Did(k, c)' <=> Did(k, c)
  <2>1. CASE c \in done
    BY <1>1, <1>2, <2>1 DEF Did, Read, WritesNone
  <2>2. CASE c \notin done
    BY <2>2 DEF Did, Read, WritesNone
  <2>3. QED
    BY <2>1, <2>2
<1>4. ASSUME NEW c \in Counters PROVE Started(k, c)' <=> Started(k, c)
  <2>1. Issued(c)' <=> Issued(c)
    BY DEF WritesNone
  <2>2. PICK e \in Counters : e = End(c) /\ e.launch = c.launch
    BY LogFacts
  <2>3. CASE Issued(c)
    <3>1. c.launch \in DOMAIN calls /\ calls'[c.launch] = calls[c.launch]
      BY <1>1, <2>3, IssuedKnown
    <3>2. CASE calls[c.launch] = k
      <4>1. (InChannel(c)' <=> InChannel(c)) /\ (InChannel(e)' <=> InChannel(e))
        BY <2>2, <3>1, <3>2
      <4>2. Read(e)' <=> Read(e)
        BY <4>1 DEF Read, WritesNone
      <4>3. Started(k, c) <=> c.at = "begin" /\ Issued(c) /\ calls[c.launch] = k /\ ~InChannel(c) /\ ~Read(e)
        BY <2>2 DEF Started
      <4>4. Started(k, c)' <=> c.at = "begin" /\ Issued(c)' /\ calls'[c.launch] = k /\ ~InChannel(c)' /\ ~Read(e)'
        BY <2>2 DEF Started, End
      <4>5. QED
        BY <2>1, <3>1, <4>1, <4>2, <4>3, <4>4
    <3>3. CASE calls[c.launch] # k
      BY <3>1, <3>3 DEF Started
    <3>4. QED
      BY <3>2, <3>3
  <2>4. CASE ~Issued(c)
    BY <2>1, <2>4 DEF Started
  <2>5. QED
    BY <2>3, <2>4
<1>5. QED
  BY <1>3, <1>4 DEF SameLogs

(* A log that is written changes nothing that has been read of any key.      *)
LEMMA LogsWritten ==
  ASSUME Types, Device, Ordered, NEW s \in Streams, BeginTask(s) \/ EndTask(s), NEW k
  PROVE  SameLogs(k)
<1>1. calls' = calls
  BY DEF BeginTask, EndTask, hostVars
<1>2. PICK e \in Counters :
        /\ \A c : InChannel(c)' <=> InChannel(c) \/ c = e
        /\ \A c \in Counters : Issued(c)' <=> Issued(c) \/ c = e
        /\ ~Issued(e)
        /\ \A c \in Counters : c # e => (c \in done' <=> c \in done)
  <2>1. CASE BeginTask(s)
    <3>1. PICK e \in Counters, l \in LogSet :
            /\ l.key = calls[e.launch] /\ l.time = e /\ channel' = Append(channel, l) /\ Wrote(e) /\ ~Issued(e)
      BY <2>1, IssuedBegin
    <3>2. done' = done
      BY <2>1 DEF BeginTask
    <3>3. \A c : InChannel(c)' <=> InChannel(c) \/ c = e
      BY <1>1, <3>1, OrderedMore
    <3>4. QED
      BY <3>1, <3>2, <3>3 DEF Wrote
  <2>2. CASE EndTask(s)
    <3>1. PICK e \in Counters, l \in LogSet :
            /\ l.key = calls[e.launch] /\ l.time = e /\ channel' = Append(channel, l) /\ Wrote(e) /\ ~Issued(e)
            /\ done' = done \cup {e}
      BY <2>2, IssuedEnd
    <3>2. \A c : InChannel(c)' <=> InChannel(c) \/ c = e
      BY <1>1, <3>1, OrderedMore
    <3>3. QED
      BY <3>1, <3>2 DEF Wrote
  <2>3. QED
    BY <2>1, <2>2
<1>3. e \notin done
  BY <1>2 DEF Issued
<1>4. \A c \in Counters : Read(c)' <=> Read(c)
  BY <1>2, <1>3 DEF Read
<1>5. \A c \in Counters : Did(k, c)' <=> Did(k, c)
  BY <1>1, <1>4 DEF Did
<1>6. ASSUME NEW c \in Counters PROVE Started(k, c)' <=> Started(k, c)
  <2>1. PICK x \in Counters : x = End(c)
    BY LogFacts
  <2>2. Started(k, c) <=> c.at = "begin" /\ Issued(c) /\ calls[c.launch] = k /\ ~InChannel(c) /\ ~Read(x)
    BY <2>1 DEF Started
  <2>3. Started(k, c)' <=> c.at = "begin" /\ Issued(c)' /\ calls'[c.launch] = k /\ ~InChannel(c)' /\ ~Read(x)'
    BY <2>1 DEF Started, End
  <2>4. QED
    BY <1>1, <1>2, <1>4, <2>2, <2>3
<1>7. QED
  BY <1>5, <1>6 DEF SameLogs

(* A launch on the key, which is the latest and not reported.                *)
LEMMA ExactLaunched ==
  ASSUME Types, Device, Waiting, NEW k \in Keys, ExactOn(k), SameLogs(k), SameRecords(k),
         NEW n \in Nat, \A m : m \in LaunchesOn(k)' <=> m \in LaunchesOn(k) \/ m = n,
         \A m \in LaunchesOn(k) : m < n, n \notin reported, reported' = reported,
         Cached(k)' = Cached(k), CachedGraph(k)' = CachedGraph(k), deviceMap'[k] = deviceMap[k],
         ~Aging(k) => LaunchesOn(k) = {}
  PROVE  ExactOn(k)'
<1>1. \A m \in LaunchesOn(k) : m \in Nat
  BY CallsKnown DEF LaunchesOn
<1>2. Prefix(k)'
  BY <1>1 DEF ExactOn, Prefix
<1>3. Punctual(k)'
  BY DEF ExactOn, Punctual, SameLogs
<1>4. Aging(k) => Queued(k)'
  <2>1. \A m : Waits(k, m)' <=> Waits(k, m)
    BY DEF Waits
  <2>2. ~Waits(k, n)
    <3>1. WaitsOn(k)
      BY DEF Waiting
    <3>2. QED
      BY <3>1 DEF WaitsOn, Waits
  <2>3. ASSUME Aging(k), NEW m \in LaunchesOn(k)'
        PROVE  Waits(k, m)' <=> (m \in reported' /\ ~Did(k, SysCnt(m, 1, "end"))')
    <3>1. CASE m = n
      BY <2>1, <2>2, <3>1
    <3>2. CASE m # n
      <4>1. PICK c : c = SysCnt(m, 1, "end")
        OBVIOUS
      <4>2. m \in LaunchesOn(k) /\ c \in Counters
        BY <2>3, <3>2, <4>1, LaunchRun
      <4>3. Waits(k, m) <=> (m \in reported /\ ~Did(k, c))
        BY <2>3, <4>1, <4>2 DEF ExactOn, Queued
      <4>4. Waits(k, m)' <=> (m \in reported' /\ ~Did(k, c)')
        BY <2>1, <4>2, <4>3 DEF SameLogs
      <4>5. QED
        BY <4>1, <4>4 DEF SysCnt
    <3>3. QED
      BY <3>1, <3>2
  <2>4. QED
    BY <2>3 DEF ExactOn, Queued, SysCnt
<1>5. ~Aging(k) => Captured(k)'
  BY DEF Captured
<1>6. Starts(k)'
  BY StartsStay DEF ExactOn, SameLogs
<1>7. RecordsOf(k)'
  BY RecordsStay DEF ExactOn, SameLogs
<1>8. QED
  BY <1>2, <1>3, <1>4, <1>5, <1>6, <1>7 DEF ExactOn, Aging

(* Its report: all earlier ones are in.                                      *)
LEMMA ExactReported ==
  ASSUME Types, Device, Waiting, NEW k \in Keys, ExactOn(k), SameLogs(k), SameRecords(k),
         LaunchesOn(k)' = LaunchesOn(k), NEW n \in LaunchesOn(k), n \notin reported, reported' = reported \cup {n},
         \A m \in LaunchesOn(k) : m < n => m \in reported,
         NEW h \in HostTask, h.launch = n,
         Aging(k) => Cached(k)' = Append(Cached(k), h),
         ~Aging(k) => CachedGraph(k)' # <<>>,
         deviceMap'[k] = deviceMap[k]
  PROVE  ExactOn(k)'
<1>1. \A m \in LaunchesOn(k) : m \in Nat
  BY CallsKnown DEF LaunchesOn
<1>2. Prefix(k)'
  BY <1>1 DEF ExactOn, Prefix
<1>3. Punctual(k)'
  BY DEF ExactOn, Punctual, SameLogs
<1>4. ASSUME Aging(k) PROVE Queued(k)'
  <2>1. PICK q \in Seq(HostTask) : q = Cached(k)
    BY CachedTypes
  <2>2. PICK l, u : l = Len(q) + 1 /\ u = Append(q, h)
    OBVIOUS
  <2>3. Cached(k)' = u
    BY <1>4, <2>1, <2>2
  <2>4. /\ DOMAIN u = DOMAIN q \cup {l} /\ u[l] = h /\ l \in Nat
        /\ \A i \in DOMAIN q : i \in Nat /\ i < l /\ u[i] = q[i]
    BY <2>2, Appended
  <2>5. ASSUME NEW i \in DOMAIN q PROVE q[i].launch < n
    <3>1. WaitsOn(k)
      BY DEF Waiting
    <3>2. q[i].launch \in LaunchesOn(k) \cap reported
      BY <2>1, <3>1 DEF WaitsOn
    <3>3. q[i].launch \in Nat /\ q[i].launch # n /\ n \in Nat
      BY <1>1, <3>2
    <3>4. ~(n < q[i].launch)
      BY <3>2 DEF ExactOn, Prefix
    <3>5. QED
      BY <3>3, <3>4
  <2>6. ASSUME NEW i \in DOMAIN u, NEW j \in DOMAIN u, i < j PROVE u[i].launch < u[j].launch
    <3>1. i \in DOMAIN q
      BY <2>4, <2>6
    <3>2. CASE j \in DOMAIN q
      <4>1. q[i].launch < q[j].launch
        BY <1>4, <2>1, <2>6, <3>1, <3>2 DEF ExactOn, Queued
      <4>2. QED
        BY <2>4, <3>1, <3>2, <4>1
    <3>3. CASE j = l
      BY <2>4, <2>5, <3>1, <3>3
    <3>4. QED
      BY <2>4, <3>2, <3>3
  <2>7. \A m : Waits(k, m)' <=> Waits(k, m) \/ m = n
    BY <2>1, <2>3, <2>4 DEF Waits
  <2>8. ASSUME NEW m \in LaunchesOn(k)
        PROVE  Waits(k, m)' <=> (m \in reported' /\ ~Did(k, SysCnt(m, 1, "end"))')
    <3>1. PICK c : c = SysCnt(m, 1, "end")
      OBVIOUS
    <3>2. c \in Counters /\ c.launch = m
      BY <3>1, LaunchRun
    <3>3. Waits(k, m) <=> (m \in reported /\ ~Did(k, c))
      BY <1>4, <3>1 DEF ExactOn, Queued
    <3>4. Did(k, c)' <=> Did(k, c)
      BY <3>2 DEF SameLogs
    <3>5. Did(k, c) => m \in reported
      BY <3>2 DEF ExactOn, Punctual
    <3>6. Waits(k, m)' <=> (m \in reported' /\ ~Did(k, c)')
      BY <2>7, <3>3, <3>4, <3>5
    <3>7. QED
      BY <3>1, <3>6 DEF SysCnt
  <2>9. QED
    BY <2>3, <2>6, <2>8 DEF Queued, SysCnt
<1>5. ~Aging(k) => Captured(k)'
  BY DEF ExactOn, Captured
<1>6. Starts(k)'
  BY StartsStay DEF ExactOn, SameLogs
<1>7. RecordsOf(k)'
  BY RecordsStay DEF ExactOn, SameLogs
<1>8. QED
  BY <1>2, <1>3, <1>4, <1>5, <1>6, <1>7 DEF ExactOn, Aging

(* The log of a key that is read when its launch is reported.                *)
LEMMA IssuedMade ==
  ASSUME Types, Device, NEW c \in Counters, Issued(c)
  PROVE  WellMade(End(c))
<1>1. \A d \in done : WellMade(d)
  BY DEF Device
<1>2. CASE c \in done
  <2>1. c.at = "end"
    BY <1>1, <1>2 DEF WellMade
  <2>2. QED
    BY <1>1, <1>2, <2>1, LogFacts
<1>3. CASE End(c) \in done
  BY <1>1, <1>3
<1>4. CASE Running(End(c))
  <2>1. PICK s \in Streams : begun[s] /\ End(c) = Head(toRun[s])
    BY <1>4 DEF Running
  <2>2. QED
    BY <2>1, HeadInStream
<1>5. QED
  BY <1>2, <1>3, <1>4 DEF Issued

(* One start at most is noted for a key.                                     *)
LEMMA SoleStart ==
  ASSUME Types, Single, NEW k \in Keys
  PROVE  /\ deviceMap[k] = <<>> \/ \E c \in Counters : deviceMap[k] = <<c>>
         /\ \A c, d \in Counters : <<c>> = <<d>> => c = d
         /\ \A c \in Counters : <<c>> # <<>> /\ Head(<<c>>) = c
         /\ \A c \in Counters : Emplaced(Append(<<>>, c)) = <<c>>
<1>1. PICK q \in Seq(Counters) : q = deviceMap[k] /\ Len(q) <= 1
  BY DEF Types, Single
<1>2. \A c, d : <<c>> = <<d>> => c = d
  OBVIOUS
<1>3. \A c \in Counters : <<c>> # <<>> /\ Head(<<c>>) = c
  OBVIOUS
<1>4. \A c \in Counters : Emplaced(Append(<<>>, c)) = <<c>>
  <2>1. <<>> \in Seq(Counters)
    BY EmptySeq
  <2>2. QED
    BY <2>1, EmplacedFacts
<1>5. CASE q # <<>>
  <2>1. Len(q) = 1 /\ Head(q) \in Counters /\ q[1] = Head(q)
    <3>1. Head(q) \in Counters /\ q[1] = Head(q)
      BY <1>5, Shortened
    <3>2. PICK l \in Nat : l = Len(q)
      BY LenProperties
    <3>3. l # 0 /\ l <= 1
      BY <1>1, <1>5, <3>2, EmptySeq
    <3>4. l = 1
      BY <3>3
    <3>5. QED
      BY <3>1, <3>2, <3>4
  <2>2. PICK c \in Counters : c = Head(q)
    BY <2>1
  <2>3. PICK v : v = <<c>>
    OBVIOUS
  <2>4. v \in Seq(Counters) /\ Len(v) = 1 /\ v[1] = c
    BY <2>2, <2>3
  <2>5. q = v
    BY <2>1, <2>2, <2>4, SeqEqual
  <2>6. \E d \in Counters : deviceMap[k] = <<d>>
    BY <1>1, <2>2, <2>3, <2>5
  <2>7. QED
    BY <1>2, <1>3, <1>4, <2>6
<1>6. QED
  BY <1>1, <1>2, <1>3, <1>4, <1>5

(* A log in the channel has its task waiting, when the key is exact and      *)
(* the launch has reported.                                                  *)
LEMMA LogHasTask ==
  ASSUME Types, Device, Waiting, Ordered, NEW k \in Keys, ExactOn(k),
         NEW c \in Counters, Issued(c), InChannel(c), calls[c.launch] = k, c.launch \in reported
  PROVE  /\ Tasks(k) /\ (Aging(k) => Waits(k, c.launch)) /\ c.launch \in LaunchesOn(k)
         /\ Aging(k) => c.run = 1
<1>1. c.launch \in LaunchesOn(k)
  BY IssuedKnown DEF LaunchesOn
<1>2. CASE Aging(k)
  <2>1. c.run = 1
    <3>1. WellMade(End(c)) /\ End(c).launch = c.launch /\ End(c).run = c.run
      BY IssuedMade, LogFacts
    <3>2. QED
      BY <1>2, <3>1 DEF WellMade, Aging
  <2>2. PICK e \in Counters : e = SysCnt(c.launch, 1, "end") /\ e.launch = c.launch /\ e.run = 1 /\ e.at = "end"
    BY <1>1, LaunchRun
  <2>3. ~Did(k, e)
    <3>1. SUFFICES ASSUME Did(k, e) PROVE FALSE
      OBVIOUS
    <3>2. Issued(e) /\ ~InChannel(e)
      BY <3>1 DEF Did, Read, Issued
    <3>3. c # e /\ SameKey(c, e)
      BY <2>2, <3>2 DEF SameKey
    <3>4. Precedes(c, e)
      BY <2>1, <2>2, <3>3, LogFacts DEF Precedes
    <3>5. QED
      BY <3>2, <3>3, <3>4 DEF Ordered
  <2>4. Waits(k, c.launch)
    BY <1>1, <1>2, <2>2, <2>3 DEF ExactOn, Queued
  <2>5. Cached(k) # <<>>
    BY <2>4, EmptySeq DEF Waits
  <2>6. QED
    BY <1>1, <2>1, <2>4, <2>5 DEF Tasks
<1>3. CASE ~Aging(k)
  BY <1>1, <1>3 DEF ExactOn, Captured, Tasks
<1>4. QED
  BY <1>2, <1>3

Reads(k, c) ==
  /\ Issued(c) /\ InChannel(c) /\ ~InChannel(c)' /\ calls[c.launch] = k /\ c.launch \in reported
  /\ \A d : InChannel(d) <=> InChannel(d)' \/ d = c
  /\ \A d \in Counters : Issued(d) /\ calls[d.launch] = k /\ Precedes(d, c) => ~InChannel(d)
  /\ \A d \in Counters : Issued(d) /\ calls[d.launch] = k /\ Precedes(c, d) => InChannel(d)
  /\ UNCHANGED <<calls, reported, done>> /\ WritesNone
  /\ CachedGraph(k)' = CachedGraph(k)

(* A log that is read is of its own key, and no other leaves the channel.    *)
LEMMA ReadsIt ==
  ASSUME Types, Device, Ordered, ReportSocLog, NEW k \in Keys, NEW c \in Counters, ReadsLog(k, c)
  PROVE  /\ k \in exact' => Reads(k, c)
         /\ calls[c.launch] = k /\ (\A d : InChannel(d) <=> InChannel(d)' \/ d = c)
         /\ UNCHANGED <<calls, reported, done>> /\ WritesNone
<1>1. UNCHANGED <<calls, reported, done, toRun, begun>>
  BY DEF ReportSocLog, hostVars, deviceVars
<1>2. WritesNone
  BY <1>1, IssuedStays DEF WritesNone
<1>3. channel # <<>> /\ channel' = Tail(channel) /\ Head(channel).key = k /\ Head(channel).time = c
  BY DEF ReadsLog
<1>4. /\ \A d : InChannel(d) <=> InChannel(d)' \/ d = c
      /\ ~InChannel(c)' /\ Issued(c) /\ k = calls[c.launch]
  BY <1>1, <1>2, <1>3, OrderedTail DEF WritesNone
<1>5. InChannel(c)
  BY <1>4
<1>6. ASSUME NEW d \in Counters, Issued(d), calls[d.launch] = k, Precedes(d, c) PROVE ~InChannel(d)
  <2>1. SUFFICES ASSUME InChannel(d) PROVE FALSE
    OBVIOUS
  <2>2. PICK q \in Seq(LogSet) : q = channel
    BY DEF Types
  <2>3. PICK i \in DOMAIN q : q[i].time = d
    BY <2>1, <2>2 DEF InChannel
  <2>4. 1 \in DOMAIN q /\ q[1].time = c /\ i \in Nat /\ (i = 1 \/ i > 1)
    BY <1>3, <2>2, <2>3, Shortened
  <2>5. i # 1
    BY <1>6, <2>3, <2>4, OneOrder
  <2>6. SameKey(c, d)
    BY <1>4, <1>6 DEF SameKey
  <2>7. 1 < i
    BY <2>4, <2>5
  <2>8. Precedes(c, d)
    BY <2>2, <2>3, <2>4, <2>6, <2>7 DEF Ordered
  <2>9. QED
    BY <1>6, <2>8, OneOrder
<1>7. ASSUME NEW d \in Counters, Issued(d), calls[d.launch] = k, Precedes(c, d) PROVE InChannel(d)
  <2>1. SameKey(c, d)
    BY <1>4, <1>7 DEF SameKey
  <2>2. QED
    BY <1>5, <1>7, <2>1 DEF Ordered
<1>8. ASSUME k \in exact' PROVE Reads(k, c)
  <2>1. c.launch \in reported /\ CachedGraph(k)' = CachedGraph(k)
    BY <1>8 DEF ReadsLog
  <2>2. QED
    BY <1>1, <1>2, <1>4, <1>5, <1>6, <1>7, <2>1 DEF Reads
<1>9. QED
  BY <1>1, <1>2, <1>4, <1>8

(* A begin: no execution of the key is under way, and now this one is.       *)
LEMMA ExactBegun ==
  ASSUME Types, Single, Device, Waiting, Ordered, NEW k \in Keys, ExactOn(k),
         NEW c \in Counters, Reads(k, c), c.at = "begin",
         Notes(k, c) \/ \E h \in HostTask : RecordsKernel(k, c, h)
  PROVE  ExactOn(k)'
<1>1. Notes(k, c)
  BY DEF RecordsKernel
<1>2. Tasks(k)
  BY LogHasTask DEF Reads
<1>3. PICK e \in Counters : e = End(c) /\ e.launch = c.launch /\ e.run = c.run /\ e.at = "end"
  BY LogFacts
<1>4. c.launch \in DOMAIN calls
  BY IssuedKnown DEF Reads
<1>5. c \notin done
  BY DEF Device, WellMade
<1>6. \A d \in Counters : Read(d)' <=> Read(d)
  BY <1>5 DEF Reads, Read
<1>7. \A d \in Counters : Did(k, d)' <=> Did(k, d)
  BY <1>6 DEF Did, Reads
<1>8. deviceMap[k] = <<>>
  <2>1. SUFFICES ASSUME NEW x \in Counters, Started(k, x) PROVE FALSE
    BY SoleStart DEF ExactOn, Starts
  <2>2. x.at = "begin" /\ Issued(x) /\ calls[x.launch] = k /\ ~InChannel(x) /\ ~Read(End(x))
    BY <2>1 DEF Started
  <2>3. PICK y \in Counters : y = End(x) /\ y.launch = x.launch /\ y.run = x.run /\ y.at = "end"
    BY LogFacts
  <2>4. x # c /\ ~Precedes(c, x)
    BY <2>2 DEF Reads
  <2>5. Precedes(x, c)
    BY <2>4, OneOrder
  <2>6. Before(x, c)
    BY <2>2, <2>5 DEF Precedes
  <2>7. CASE y \in done
    <3>1. InChannel(y) /\ Issued(y)
      BY <2>2, <2>3, <2>7 DEF Read, Issued
    <3>2. Precedes(y, c)
      BY <2>3, <2>6 DEF Precedes, Before
    <3>3. QED
      BY <2>2, <2>3, <3>1, <3>2 DEF Reads
  <2>8. CASE Running(y)
    <3>1. PICK s \in Streams : begun[s] /\ y = Head(toRun[s])
      BY <2>8 DEF Running
    <3>2. toRun[s] # <<>> /\ OnStream(y, s) /\ y.launch \in DOMAIN calls
      BY <3>1, HeadInStream DEF WellMade
    <3>3. SameKey(y, c) /\ Issued(c)
      BY <2>2, <2>3 DEF SameKey, Reads
    <3>4. Before(c, y) \/ End(c) = y
      BY <3>1, <3>2, <3>3, IssuedEarlier
    <3>5. ~Before(c, x) /\ End(x) # End(c)
      BY <2>6, OneOrder
    <3>6. QED
      BY <2>3, <3>4, <3>5 DEF Before
  <2>9. QED
    BY <2>2, <2>3, <2>7, <2>8 DEF Issued, Device, WellMade
<1>9. deviceMap'[k] = <<c>>
  BY <1>1, <1>2, <1>8, SoleStart DEF Notes
<1>10. ~Read(e)
  <2>1. SUFFICES ASSUME e \in done PROVE InChannel(e)
    BY DEF Read
  <2>2. Issued(e)
    BY <2>1 DEF Issued
  <2>3. Precedes(c, e)
    BY <1>3 DEF Precedes
  <2>4. QED
    BY <1>3, <2>2, <2>3 DEF Reads
<1>11. ASSUME NEW d \in Counters PROVE Started(k, d)' <=> d = c
  <2>1. PICK x \in Counters : x = End(d)
    BY LogFacts
  <2>2. Started(k, d)' <=> d.at = "begin" /\ Issued(d)' /\ calls'[d.launch] = k /\ ~InChannel(d)' /\ ~Read(x)'
    BY <2>1 DEF Started, End
  <2>3. Started(k, d) <=> d.at = "begin" /\ Issued(d) /\ calls[d.launch] = k /\ ~InChannel(d) /\ ~Read(x)
    BY <2>1 DEF Started
  <2>4. ~Started(k, d)
    BY <1>8, SoleStart DEF ExactOn, Starts
  <2>5. CASE d = c
    BY <1>3, <1>6, <1>10, <2>1, <2>2, <2>5 DEF Reads, WritesNone
  <2>6. CASE d # c
    BY <1>6, <2>2, <2>3, <2>4, <2>6 DEF Reads, WritesNone
  <2>7. QED
    BY <2>5, <2>6
<1>12. Starts(k)'
  <2>1. \A d \in Counters : (deviceMap'[k] = <<d>>) <=> d = c
    BY <1>9, SoleStart
  <2>2. QED
    BY <1>11, <2>1 DEF Starts
<1>13. Prefix(k)' /\ Punctual(k)' /\ (~Aging(k) => Captured(k)')
  BY <1>7 DEF ExactOn, Prefix, Punctual, Captured, Reads, LaunchesOn
<1>14. ASSUME Aging(k) PROVE Queued(k)'
  <2>1. Cached(k)' = Cached(k) /\ (\A n : Waits(k, n)' <=> Waits(k, n)) /\ \A n : n \in LaunchesOn(k)' <=> n \in LaunchesOn(k)
    BY <1>1 DEF Notes, Waits, LaunchesOn, Reads
  <2>2. ASSUME NEW n \in LaunchesOn(k)
        PROVE  Waits(k, n)' <=> (n \in reported' /\ ~Did(k, SysCnt(n, 1, "end"))')
    <3>1. PICK d \in Counters : d = SysCnt(n, 1, "end")
      BY LaunchRun
    <3>2. Waits(k, n) <=> (n \in reported /\ ~Did(k, d))
      BY <1>14, <3>1 DEF ExactOn, Queued
    <3>3. Waits(k, n)' <=> (n \in reported' /\ ~Did(k, d)')
      BY <1>7, <2>1, <3>2 DEF Reads
    <3>4. QED
      BY <3>1, <3>3 DEF SysCnt
  <2>3. QED
    BY <1>14, <2>1, <2>2 DEF ExactOn, Queued, SysCnt
<1>15. RecordsOf(k)'
  <2>1. SameRecords(k)
    BY <1>1 DEF Notes, SameRecords
  <2>2. QED
    BY <1>7, <2>1, RecordsStay DEF ExactOn
<1>16. QED
  BY <1>12, <1>13, <1>14, <1>15 DEF ExactOn, Aging

(* An end: the start that waits is of this execution, so is the first task.  *)
LEMMA EndsOwn ==
  ASSUME Types, Single, Device, Waiting, Ordered, NEW k \in Keys, ExactOn(k),
         NEW c \in Counters, Reads(k, c), c.at = "end"
  PROVE  \E b \in Counters :
           /\ b.at = "begin" /\ End(b) = c /\ b = [c EXCEPT !.at = "begin"]
           /\ deviceMap[k] = <<b>> /\ c \in done /\ ~Did(k, c)
<1>1. c \in done
  BY DEF Reads, Issued
<1>2. PICK b : b = [c EXCEPT !.at = "begin"]
  OBVIOUS
<1>3. b \in Counters /\ b.launch = c.launch /\ b.run = c.run /\ b.at = "begin"
  BY <1>2 DEF Counters
<1>4. End(b) = c
  <2>1. End(b) \in Counters /\ End(b).launch = b.launch /\ End(b).run = b.run /\ End(b).at = "end"
    BY <1>3, LogFacts
  <2>2. QED
    BY <1>3, <2>1, LogFacts
<1>5. Issued(b)
  BY <1>1, <1>3, <1>4 DEF Issued
<1>6. Precedes(b, c)
  BY <1>3 DEF Precedes
<1>7. ~InChannel(b)
  BY <1>3, <1>5, <1>6 DEF Reads
<1>8. ~Read(c)
  BY DEF Read, Reads
<1>9. Started(k, b)
  BY <1>3, <1>4, <1>5, <1>7, <1>8 DEF Started, Reads
<1>10. deviceMap[k] = <<b>>
  BY <1>3, <1>9 DEF ExactOn, Starts
<1>11. QED
  BY <1>1, <1>2, <1>3, <1>4, <1>8, <1>10 DEF Did

(* The first that waits for an end is the launch whose task ended.           *)
LEMMA FirstWaits ==
  ASSUME Types, Single, Device, Waiting, Ordered, NEW k \in Keys, ExactOn(k), Aging(k),
         NEW c \in Counters, Reads(k, c), c.at = "end", c \in done, Cached(k) # <<>>
  PROVE  Head(Cached(k)).launch = c.launch
<1>1. PICK q \in Seq(HostTask) : q = Cached(k)
  BY CachedTypes
<1>2. 1 \in DOMAIN q /\ q[1] = Head(q) /\ \A i \in DOMAIN q : i \in Nat /\ (i = 1 \/ i > 1)
  BY <1>1, Shortened
<1>3. PICK m : m = Head(q).launch
  OBVIOUS
<1>4. Waits(k, m)
  BY <1>1, <1>2, <1>3 DEF Waits
<1>5. WaitsOn(k)
  BY DEF Waiting
<1>6. m \in LaunchesOn(k) \cap reported
  BY <1>4, <1>5 DEF Waits, WaitsOn
<1>7. m \in Nat /\ c.launch \in Nat
  BY <1>6, LaunchRun, LogFacts
<1>8. Waits(k, c.launch)
  BY LogHasTask DEF Reads
<1>9. ~(c.launch < m)
  <2>1. PICK i \in DOMAIN q : q[i].launch = c.launch
    BY <1>1, <1>8 DEF Waits
  <2>2. CASE i = 1
    BY <1>2, <1>3, <1>7, <2>1, <2>2
  <2>3. CASE i > 1
    <3>1. q[1].launch < q[i].launch
      BY <1>1, <1>2, <2>1, <2>3 DEF ExactOn, Queued
    <3>2. QED
      BY <1>2, <1>3, <1>7, <2>1, <3>1
  <2>4. QED
    BY <1>2, <2>2, <2>3
<1>10. ~(m < c.launch)
  <2>1. SUFFICES ASSUME m < c.launch PROVE FALSE
    OBVIOUS
  <2>2. PICK e \in Counters : e = SysCnt(m, 1, "end") /\ e.launch = m /\ e.at = "end"
    BY <1>6, LaunchRun
  <2>3. ~Did(k, e)
    BY <1>4, <1>6, <2>2 DEF ExactOn, Queued
  <2>4. calls[m] = k /\ m \in AgingLaunches
    <3>1. calls[m] = k /\ m \in DOMAIN calls
      BY <1>6 DEF LaunchesOn
    <3>2. k \in 0 .. NumIds - 1
      BY AgingKey DEF Aging
    <3>3. QED
      BY <3>1, <3>2 DEF AgingLaunches
  <2>5. Before(e, c)
    BY <2>1, <2>2 DEF Before
  <2>6. CASE e \in done
    <3>1. InChannel(e) /\ Issued(e)
      BY <2>2, <2>3, <2>4, <2>6 DEF Did, Read, Issued
    <3>2. QED
      BY <2>2, <2>4, <2>5, <3>1 DEF Reads, Precedes
  <2>7. CASE InStream(e, NoKey)
    <3>1. OnStream(c, NoKey) /\ NoKey \in Streams
      BY DEF OnStream, Reads, Aging, Streams
    <3>2. Before(c, e)
      BY <2>7, <3>1 DEF Device, Orderly
    <3>3. QED
      BY <2>5, <3>2, OneOrder
  <2>8. QED
    BY <2>2, <2>4, <2>6, <2>7 DEF Device
<1>11. m = c.launch
  BY <1>7, <1>9, <1>10
<1>12. QED
  BY <1>1, <1>3, <1>11

(* A key is exact after the log of an end is read.                           *)
LEMMA ExactEnded ==
  ASSUME Types, Single, Device, Waiting, Ordered, NEW k \in Keys, ExactOn(k),
         NEW c \in Counters, Reads(k, c), c.at = "end",
         Notes(k, c) \/ \E h \in HostTask : RecordsKernel(k, c, h)
  PROVE  ExactOn(k)'
<1>1. PICK b \in Counters :
        /\ b.at = "begin" /\ End(b) = c /\ b = [c EXCEPT !.at = "begin"]
        /\ deviceMap[k] = <<b>> /\ c \in done /\ ~Did(k, c)
  BY EndsOwn
<1>2. Tasks(k) /\ c.launch \in LaunchesOn(k) /\ (Aging(k) => c.run = 1)
  BY LogHasTask DEF Reads
<1>3. deviceMap[k] # <<>> /\ Head(deviceMap[k]) = b
  BY <1>1, SoleStart
<1>4. PICK h \in HostTask : RecordsKernel(k, c, h)
  BY <1>2, <1>3 DEF Notes
<1>5. WaitsOn(k)
  BY DEF Waiting
<1>6. h.launch = c.launch /\ h.key = k
  <2>1. CASE Aging(k)
    <3>1. PICK q \in Seq(HostTask) : q = Cached(k)
      BY CachedTypes
    <3>2. q # <<>> /\ h = Head(q)
      BY <1>4, <2>1, <3>1 DEF RecordsKernel
    <3>3. 1 \in DOMAIN q /\ q[1] = h
      BY <3>2, Shortened
    <3>4. h.launch = c.launch
      BY <1>1, <2>1, <3>1, <3>2, FirstWaits
    <3>5. QED
      BY <1>5, <3>1, <3>3, <3>4 DEF WaitsOn
  <2>2. CASE ~Aging(k)
    <3>1. PICK q \in Seq(HostTask) : q = CachedGraph(k)
      BY CachedTypes
    <3>2. q # <<>> /\ h = Head(q)
      BY <1>4, <2>2, <3>1 DEF RecordsKernel
    <3>3. 1 \in DOMAIN q /\ q[1] = h
      BY <3>2, Shortened
    <3>4. h.key = k /\ h.launch \in LaunchesOn(k)
      BY <1>5, <3>1, <3>3 DEF WaitsOn
    <3>5. QED
      BY <1>2, <2>2, <3>4 DEF ExactOn, Captured
  <2>3. QED
    BY <2>1, <2>2
<1>7. PICK r \in Records :
        /\ kernels' = Append(kernels, r) /\ r.key = k /\ r.launch = c.launch
        /\ r.end = RealTime(c) /\ r.end.ns = c /\ r.start.ns = b
  <2>1. PICK r : r = KernelRecord(h, b, c)
    OBVIOUS
  <2>2. kernels' = Append(kernels, r)
    BY <1>3, <1>4, <2>1 DEF RecordsKernel
  <2>3. r \in Records
    BY <2>1 DEF KernelRecord, Records, RealTime, HostTask
  <2>4. QED
    BY <1>6, <2>1, <2>2, <2>3 DEF KernelRecord, RealTime
<1>8. deviceMap'[k] = <<>>
  BY <1>4 DEF RecordsKernel
<1>9. \A d \in Counters : Read(d)' <=> Read(d) \/ d = c
  BY <1>1 DEF Reads, Read
<1>10. \A d \in Counters : Did(k, d)' <=> Did(k, d) \/ d = c
  BY <1>9 DEF Did, Reads
<1>11. Starts(k)'
  <2>1. \A d \in Counters : deviceMap'[k] # <<d>>
    BY <1>8, SoleStart
  <2>2. ASSUME NEW d \in Counters, Started(k, d)' PROVE FALSE
    <3>1. PICK x \in Counters : x = End(d)
      BY LogFacts
    <3>2. d.at = "begin" /\ Issued(d)' /\ calls'[d.launch] = k /\ ~InChannel(d)' /\ ~Read(x)'
      BY <2>2, <3>1 DEF Started, End
    <3>3. Issued(d) /\ calls[d.launch] = k /\ ~Read(x) /\ x # c
      BY <1>9, <3>1, <3>2 DEF Reads, WritesNone
    <3>4. d # c /\ ~InChannel(d)
      BY <3>2 DEF Reads
    <3>5. Started(k, d)
      BY <3>1, <3>2, <3>3, <3>4 DEF Started
    <3>6. <<b>> = <<d>>
      BY <1>1, <3>5 DEF ExactOn, Starts
    <3>7. d = b
      BY <3>6, SoleStart
    <3>8. QED
      BY <1>1, <3>1, <3>3, <3>7
  <2>3. QED
    BY <2>1, <2>2 DEF Starts
<1>12. Prefix(k)' /\ Punctual(k)' /\ (~Aging(k) => Captured(k)')
  <2>1. Punctual(k)'
    BY <1>10 DEF ExactOn, Punctual, Reads
  <2>2. QED
    BY <2>1 DEF ExactOn, Prefix, Captured, Reads, LaunchesOn
<1>13. ASSUME Aging(k) PROVE Queued(k)'
  <2>1. PICK q \in Seq(HostTask) : q = Cached(k)
    BY CachedTypes
  <2>2. PICK u : u = Tail(q)
    OBVIOUS
  <2>3. q # <<>> /\ h = Head(q) /\ Cached(k)' = u
    BY <1>4, <1>13, <2>1, <2>2 DEF RecordsKernel
  <2>4. /\ 1 \in DOMAIN q /\ q[1] = h
        /\ \A i \in DOMAIN u : i \in Nat /\ i + 1 \in DOMAIN q /\ i + 1 > 1 /\ u[i] = q[i + 1]
        /\ \A i \in DOMAIN q : i = 1 \/ (i - 1 \in DOMAIN u /\ u[i - 1] = q[i])
    BY <2>2, <2>3, Shortened
  <2>5. /\ \A i, j \in DOMAIN q : i < j => q[i].launch < q[j].launch
        /\ \A i \in DOMAIN q : q[i].launch \in LaunchesOn(k)
    BY <1>5, <1>13, <2>1 DEF ExactOn, Queued, WaitsOn
  <2>6. ASSUME NEW i \in DOMAIN u, NEW j \in DOMAIN u, i < j PROVE u[i].launch < u[j].launch
    <3>1. PICK a, d : a = i + 1 /\ d = j + 1
      OBVIOUS
    <3>2. a \in DOMAIN q /\ d \in DOMAIN q /\ a < d /\ u[i] = q[a] /\ u[j] = q[d]
      BY <2>4, <2>6, <3>1
    <3>3. QED
      BY <2>5, <3>2
  <2>7. ASSUME NEW i \in DOMAIN u PROVE u[i].launch # c.launch
    <3>1. PICK a : a = i + 1
      OBVIOUS
    <3>2. a \in DOMAIN q /\ 1 < a /\ u[i] = q[a]
      BY <2>4, <3>1
    <3>3. h.launch < u[i].launch
      BY <2>4, <2>5, <3>2
    <3>4. c.launch \in Nat
      BY LogFacts
    <3>5. QED
      BY <1>6, <3>3, <3>4
  <2>8. \A n : Waits(k, n)' <=> (Waits(k, n) /\ n # c.launch)
    <3>1. ASSUME NEW n PROVE Waits(k, n)' => Waits(k, n) /\ n # c.launch
      BY <2>1, <2>3, <2>4, <2>7 DEF Waits
    <3>2. ASSUME NEW n, Waits(k, n), n # c.launch PROVE Waits(k, n)'
      <4>1. PICK i \in DOMAIN q : q[i].launch = n
        BY <2>1, <3>2 DEF Waits
      <4>2. i - 1 \in DOMAIN u /\ u[i - 1] = q[i]
        BY <1>6, <2>4, <3>2, <4>1
      <4>3. QED
        BY <2>3, <4>1, <4>2 DEF Waits
    <3>3. QED
      BY <3>1, <3>2
  <2>9. ASSUME NEW n \in LaunchesOn(k)
        PROVE  Waits(k, n)' <=> (n \in reported' /\ ~Did(k, SysCnt(n, 1, "end"))')
    <3>1. PICK d \in Counters : d = SysCnt(n, 1, "end") /\ d.launch = n /\ d.run = 1 /\ d.at = "end"
      BY LaunchRun
    <3>2. Waits(k, n) <=> (n \in reported /\ ~Did(k, d))
      BY <1>13, <3>1 DEF ExactOn, Queued
    <3>3. d = c <=> n = c.launch
      BY <1>2, <1>13, <3>1, LogFacts
    <3>4. Waits(k, n)' <=> (n \in reported' /\ ~Did(k, d)')
      BY <1>10, <2>8, <3>2, <3>3 DEF Reads
    <3>5. QED
      BY <3>1, <3>4 DEF SysCnt
  <2>10. \A n : n \in LaunchesOn(k)' <=> n \in LaunchesOn(k)
    BY DEF LaunchesOn, Reads
  <2>11. QED
    BY <2>3, <2>6, <2>9, <2>10 DEF Queued, SysCnt
<1>14. RecordsOf(k)'
  <2>1. PICK q \in Seq(Records) : q = kernels
    BY DEF Types
  <2>2. PICK l : l = Len(q) + 1
    OBVIOUS
  <2>3. /\ DOMAIN kernels' = DOMAIN kernels \cup {l} /\ kernels'[l] = r
        /\ \A i \in DOMAIN kernels : kernels'[i] = kernels[i]
    <3>1. kernels' = Append(q, r)
      BY <1>7, <2>1
    <3>2. QED
      BY <2>1, <2>2, <3>1, Appended
  <2>4. \A d : HasRecord(k, d)' <=> HasRecord(k, d) \/ d = c
    BY <1>7, <2>3 DEF HasRecord
  <2>5. \A d \in Counters : Did(k, d)' <=> HasRecord(k, d)'
    BY <1>10, <2>4 DEF ExactOn, RecordsOf
  <2>6. ~HasRecord(k, c)
    BY <1>1 DEF ExactOn, RecordsOf
  <2>7. ASSUME NEW i \in DOMAIN kernels, kernels[i].key = k PROVE kernels[i].end # r.end
    BY <1>7, <2>6, <2>7 DEF HasRecord
  <2>8. \A i, j \in DOMAIN kernels' :
          kernels'[i].key = k /\ kernels'[j].key = k /\ kernels'[i].end = kernels'[j].end => i = j
    <3>1. \A i, j \in DOMAIN kernels :
            kernels[i].key = k /\ kernels[j].key = k /\ kernels[i].end = kernels[j].end => i = j
      BY DEF ExactOn, RecordsOf
    <3>2. ASSUME NEW i \in DOMAIN kernels', NEW j \in DOMAIN kernels', kernels'[i].key = k,
                 kernels'[j].key = k, kernels'[i].end = kernels'[j].end
          PROVE  i = j
      <4>1. CASE i \in DOMAIN kernels /\ j \in DOMAIN kernels
        BY <2>3, <3>1, <3>2, <4>1
      <4>2. CASE i \in DOMAIN kernels /\ j = l
        BY <2>3, <2>7, <3>2, <4>2
      <4>3. CASE i = l /\ j \in DOMAIN kernels
        BY <2>3, <2>7, <3>2, <4>3
      <4>4. QED
        BY <2>3, <3>2, <4>1, <4>2, <4>3
    <3>3. QED
      BY <3>2
  <2>9. \A i \in DOMAIN kernels' : kernels'[i].key = k =>
          /\ kernels'[i].launch = kernels'[i].end.ns.launch
          /\ kernels'[i].start.ns = [kernels'[i].end.ns EXCEPT !.at = "begin"]
    <3>1. ASSUME NEW i \in DOMAIN kernels, kernels[i].key = k
          PROVE  /\ kernels[i].launch = kernels[i].end.ns.launch
                 /\ kernels[i].start.ns = [kernels[i].end.ns EXCEPT !.at = "begin"]
      BY <3>1 DEF ExactOn, RecordsOf
    <3>2. /\ kernels'[l].launch = kernels'[l].end.ns.launch
          /\ kernels'[l].start.ns = [kernels'[l].end.ns EXCEPT !.at = "begin"]
      BY <1>1, <1>7, <2>3
    <3>3. QED
      BY <2>3, <3>1, <3>2
  <2>10. QED
    BY <2>5, <2>8, <2>9 DEF RecordsOf
<1>15. QED
  BY <1>11, <1>12, <1>13, <1>14 DEF ExactOn, Aging

(* A call launches on one key; the others are as they were.                  *)
LEMMA ExactCalled ==
  ASSUME Types, Device, Waiting, Exact, WritesNone, NEW t \in Threads, NEW k \in Keys, Call(t, k),
         UNCHANGED <<parserVars, hostTasks, channel, reported>>, exact' \subseteq exact,
         k \in exact' /\ ~Aging(k) => LaunchesOn(k) = {}
  PROVE  Exact'
<1>1. PICK n \in Nat :
        /\ n \notin DOMAIN calls /\ DOMAIN calls' = DOMAIN calls \cup {n}
        /\ calls'[n] = k /\ \A m \in DOMAIN calls : m < n /\ calls'[m] = calls[m]
  BY CallFacts
<1>2. CallsStay
  BY CallStays
<1>3. UNCHANGED <<hostTasks, kernelMap, unagingMap, deviceMap, kernels>>
  BY DEF parserVars
<1>4. CachedStays
  BY <1>3, NoneCached
<1>5. n \notin reported
  BY <1>1 DEF Waiting
<1>6. \A c : InChannel(c)' <=> InChannel(c)
  BY DEF InChannel
<1>7. SUFFICES ASSUME NEW j \in exact' PROVE ExactOn(j)'
  BY DEF Exact
<1>8. j \in Keys /\ ExactOn(j)
  BY DEF Types, Exact
<1>9. SameLogs(j)
  BY <1>2, <1>6, LogsStay
<1>10. SameRecords(j) /\ deviceMap'[j] = deviceMap[j]
  BY <1>3 DEF SameRecords
<1>11. Cached(j)' = Cached(j) /\ CachedGraph(j)' = CachedGraph(j)
  BY <1>4, <1>8 DEF CachedStays
<1>12. CASE j = k
  <2>1. \A m : m \in LaunchesOn(j)' <=> m \in LaunchesOn(j) \/ m = n
    BY <1>1, <1>12 DEF LaunchesOn
  <2>2. \A m \in LaunchesOn(j) : m < n
    BY <1>1 DEF LaunchesOn
  <2>3. ~Aging(j) => LaunchesOn(j) = {}
    BY <1>12
  <2>4. QED
    BY <1>5, <1>8, <1>9, <1>10, <1>11, <2>1, <2>2, <2>3, ExactLaunched
<1>13. CASE j # k
  <2>1. \A m : m \in LaunchesOn(j)' <=> m \in LaunchesOn(j)
    BY <1>1, <1>13 DEF LaunchesOn
  <2>2. SameOn(j)
    BY <1>10, <1>11, <2>1 DEF SameOn
  <2>3. QED
    BY <1>8, <1>9, <1>10, <2>2, ExactStays
<1>14. QED
  BY <1>12, <1>13

(* A report is of one key.                                                   *)
LEMMA ExactPushed ==
  ASSUME Types, Ours, Device, Waiting, Exact, WritesNone, NEW t \in Threads, PushHostTask(t)
  PROVE  Exact'
<1>1. PICK n : n = call[t]
  OBVIOUS
<1>2. PICK k : k = calls[n]
  OBVIOUS
<1>3. PICK h \in HostTask :
        /\ n \in DOMAIN calls /\ h.launch = n /\ h.key = k
        /\ \A j \in Keys :
             /\ Cached(j)' = IF j = h.key /\ Aging(j) THEN Append(Cached(j), h) ELSE Cached(j)
             /\ CachedGraph(j)' = IF j = h.key /\ ~Aging(j) /\ CachedGraph(j) = <<>>
                                  THEN <<h>> ELSE CachedGraph(j)
  BY <1>1, <1>2, PushCached
<1>4. /\ pc[t] = "reporting" /\ reported' = reported \cup {n}
      /\ exact' = IF \E m \in LaunchesOn(k) : m < n /\ m \notin reported THEN exact \ {k} ELSE exact
      /\ UNCHANGED <<calls, channel, deviceMap, kernels>>
  BY <1>1, <1>2 DEF PushHostTask, parserVars
<1>5. n \notin reported
  BY <1>1, <1>4 DEF Waiting
<1>6. k \in Keys /\ n \in LaunchesOn(k)
  BY <1>2, <1>3, CallsKnown DEF LaunchesOn
<1>7. SUFFICES ASSUME NEW j \in exact' PROVE ExactOn(j)'
  BY DEF Exact
<1>8. j \in Keys /\ ExactOn(j)
  BY <1>4 DEF Types, Exact
<1>9. SameLogs(j)
  <2>1. CallsStay /\ \A c : InChannel(c)' <=> InChannel(c)
    BY <1>4 DEF CallsStay, InChannel
  <2>2. QED
    BY <2>1, LogsStay
<1>10. SameRecords(j) /\ deviceMap'[j] = deviceMap[j] /\ LaunchesOn(j)' = LaunchesOn(j)
  BY <1>4 DEF SameRecords, LaunchesOn
<1>11. CASE j = k
  <2>1. n \in LaunchesOn(j) /\ \A m \in LaunchesOn(j) : m < n => m \in reported
    BY <1>4, <1>6, <1>11
  <2>2. Aging(j) => Cached(j)' = Append(Cached(j), h)
    BY <1>3, <1>8, <1>11
  <2>3. ~Aging(j) => CachedGraph(j)' # <<>>
    <3>1. <<h>> # <<>>
      OBVIOUS
    <3>2. QED
      BY <1>3, <1>8, <1>11, <3>1
  <2>4. QED
    BY <1>3, <1>4, <1>5, <1>8, <1>9, <1>10, <2>1, <2>2, <2>3, ExactReported
<1>12. CASE j # k
  <2>1. \A m \in LaunchesOn(j) : m # n
    BY <1>2, <1>12 DEF LaunchesOn
  <2>2. Cached(j)' = Cached(j) /\ CachedGraph(j)' = CachedGraph(j)
    BY <1>3, <1>8, <1>12
  <2>3. SameOn(j)
    BY <1>4, <1>10, <2>1, <2>2 DEF SameOn
  <2>4. QED
    BY <1>8, <1>9, <1>10, <2>3, ExactStays
<1>13. QED
  BY <1>11, <1>12

(* A log that is lost or ignored, of a key that is not exact any more.       *)
LEMMA ExactMissed ==
  ASSUME Types, Device, Ordered, Exact, WritesNone, LoseLog \/ IgnoreSocLog
  PROVE  Exact'
<1>1. /\ channel # <<>> /\ channel' = Tail(channel) /\ exact' = exact \ {Head(channel).key}
      /\ UNCHANGED <<calls, reported, hostTasks, kernelMap, unagingMap, deviceMap, kernels>>
  BY DEF LoseLog, IgnoreSocLog, hostVars, parserVars
<1>2. PICK c \in Counters :
        /\ \A d : InChannel(d) <=> InChannel(d)' \/ d = c
        /\ Head(channel).key = calls[c.launch]
  BY <1>1, OrderedTail DEF WritesNone
<1>3. CachedStays
  BY <1>1, NoneCached
<1>4. SUFFICES ASSUME NEW j \in exact' PROVE ExactOn(j)'
  BY DEF Exact
<1>5. j \in Keys /\ ExactOn(j) /\ j # calls[c.launch]
  BY <1>1, <1>2 DEF Types, Exact
<1>6. SameLogs(j)
  BY <1>1, <1>2, <1>5, LogsStay DEF CallsStay
<1>7. SameRecords(j) /\ SameOn(j)
  BY <1>1, <1>3, <1>5 DEF SameRecords, SameOn, CachedStays, LaunchesOn
<1>8. QED
  BY <1>5, <1>6, <1>7, ExactStays

(* A log that is read changes nothing of another key.                        *)
LEMMA ExactRead ==
  ASSUME Types, Single, Device, Waiting, Ordered, Exact, ReportSocLog
  PROVE  Exact'
<1>1. PICK k \in Keys, c \in Counters :
        ReadsLog(k, c) /\ (Notes(k, c) \/ \E h \in HostTask : RecordsKernel(k, c, h))
  BY ReadEffect
<1>2. /\ k \in exact' => Reads(k, c)
      /\ calls[c.launch] = k /\ (\A d : InChannel(d) <=> InChannel(d)' \/ d = c)
      /\ UNCHANGED <<calls, reported, done>> /\ WritesNone
  BY <1>1, ReadsIt
<1>3. SUFFICES ASSUME NEW j \in exact' PROVE ExactOn(j)'
  BY DEF Exact
<1>4. j \in Keys /\ ExactOn(j)
  BY <1>1 DEF Types, Exact, ReadsLog
<1>5. CASE j = k
  <2>1. ExactOn(k) /\ Reads(k, c) /\ c.at \in {"begin", "end"}
    BY <1>2, <1>4, <1>5, LogFacts
  <2>2. CASE c.at = "begin"
    BY <1>1, <1>5, <2>1, <2>2, ExactBegun
  <2>3. CASE c.at = "end"
    BY <1>1, <1>5, <2>1, <2>3, ExactEnded
  <2>4. QED
    BY <2>1, <2>2, <2>3
<1>6. CASE j # k
  <2>1. SameLogs(j)
    BY <1>2, <1>6, LogsStay DEF CallsStay
  <2>2. SameRecords(j)
    <3>1. ASSUME NEW h \in HostTask, RecordsKernel(k, c, h) PROVE SameRecords(j)
      <4>1. h.key = k
        <5>1. WaitsOn(k)
          BY DEF Waiting
        <5>2. PICK q, g \in Seq(HostTask) : q = Cached(k) /\ g = CachedGraph(k)
          BY CachedTypes
        <5>3. CASE Aging(k)
          <6>1. 1 \in DOMAIN q /\ q[1] = h
            BY <3>1, <5>2, <5>3, Shortened DEF RecordsKernel
          <6>2. QED
            BY <5>1, <5>2, <6>1 DEF WaitsOn
        <5>4. CASE ~Aging(k)
          <6>1. 1 \in DOMAIN g /\ g[1] = h
            BY <3>1, <5>2, <5>4, Shortened DEF RecordsKernel
          <6>2. QED
            BY <5>1, <5>2, <6>1 DEF WaitsOn
        <5>5. QED
          BY <5>3, <5>4
      <4>2. PICK b \in Counters : deviceMap[k] = <<b>> /\ Head(deviceMap[k]) = b
        BY <3>1, SoleStart DEF RecordsKernel
      <4>3. PICK r : r = KernelRecord(h, b, c)
        OBVIOUS
      <4>4. r \in Records /\ r.key = k
        BY <4>1, <4>3 DEF KernelRecord, Records, RealTime, HostTask
      <4>5. kernels' = Append(kernels, r)
        BY <3>1, <4>2, <4>3 DEF RecordsKernel
      <4>6. QED
        BY <1>6, <4>4, <4>5 DEF SameRecords
    <3>2. CASE Notes(k, c)
      BY <3>2 DEF Notes, SameRecords
    <3>3. QED
      BY <1>1, <3>1, <3>2
  <2>3. SameOn(j)
    BY <1>1, <1>2, <1>4, <1>6 DEF SameOn, ReadsLog, LaunchesOn
  <2>4. QED
    BY <1>4, <2>1, <2>2, <2>3, ExactStays
<1>7. QED
  BY <1>5, <1>6

(* Every step keeps the records of the keys in exact those of their tasks.   *)
LEMMA ExactStep ==
  ASSUME Types, Single, Ours, Waiting, Device, Ordered, Exact, Next
  PROVE  Exact'
<1>1. ASSUME NEW s \in Streams, BeginTask(s) \/ EndTask(s) PROVE Exact'
  <2>1. UNCHANGED <<calls, reported, exact, hostTasks, kernelMap, unagingMap, deviceMap, kernels>>
    BY <1>1 DEF BeginTask, EndTask, hostVars, parserVars
  <2>2. CachedStays
    BY <2>1, NoneCached
  <2>3. SUFFICES ASSUME NEW j \in exact PROVE ExactOn(j)'
    BY <2>1 DEF Exact
  <2>4. j \in Keys /\ ExactOn(j) /\ SameLogs(j)
    BY <1>1, LogsWritten DEF Types, Exact
  <2>5. SameRecords(j) /\ SameOn(j)
    BY <2>1, <2>2, <2>4 DEF SameRecords, SameOn, CachedStays, LaunchesOn
  <2>6. QED
    BY <2>4, <2>5, ExactStays
<1>2. CASE WritesNone
  <2>1. ASSUME NEW t \in Threads, Launch(t) PROVE Exact'
    <3>1. PICK k \in Keys :
            /\ k \notin GraphKeys /\ Call(t, k)
            /\ UNCHANGED <<parserVars, hostTasks, channel, reported, exact>>
      BY <2>1, LaunchEffect
    <3>2. Aging(k)
      BY <3>1 DEF Aging
    <3>3. QED
      BY <1>2, <3>1, <3>2, ExactCalled
  <2>2. ASSUME NEW t \in Threads, NEW k \in GraphKeys, Capture(t, k) PROVE Exact'
    <3>1. /\ k \in Keys /\ Call(t, k) /\ exact' \subseteq exact /\ (k \in exact' => LaunchesOn(k) = {})
          /\ UNCHANGED <<parserVars, hostTasks, channel, reported>>
      BY <2>2 DEF Capture, Keys
    <3>2. QED
      BY <1>2, <3>1, ExactCalled
  <2>3. ASSUME NEW t \in Threads, PushHostTask(t) PROVE Exact'
    BY <1>2, <2>3, ExactPushed
  <2>4. ASSUME \/ Switch \/ \E k \in GraphKeys : Replay(k)
               \/ \E t \in Threads : ReportRtTaskTrack(t) \/ ReportRtApi(t)
        PROVE  Exact'
    <3>1. UNCHANGED <<calls, reported, channel, hostTasks, kernelMap, unagingMap, deviceMap, kernels>>
      BY <2>4 DEF Switch, Replay, ReportRtTaskTrack, ReportRtApi, hostVars, parserVars
    <3>2. exact' \subseteq exact
      BY <2>4 DEF Switch, Replay, ReportRtTaskTrack, ReportRtApi
    <3>3. CachedStays /\ \A c : InChannel(c)' <=> InChannel(c)
      BY <3>1, NoneCached DEF InChannel
    <3>4. SUFFICES ASSUME NEW j \in exact' PROVE ExactOn(j)'
      BY DEF Exact
    <3>5. j \in Keys /\ ExactOn(j)
      BY <3>2 DEF Types, Exact
    <3>6. SameLogs(j)
      BY <1>2, <3>1, <3>3, LogsStay DEF CallsStay
    <3>7. SameRecords(j) /\ SameOn(j)
      BY <3>1, <3>3, <3>5 DEF SameRecords, SameOn, CachedStays, LaunchesOn
    <3>8. QED
      BY <3>5, <3>6, <3>7, ExactStays
  <2>5. CASE LoseLog \/ IgnoreSocLog
    BY <1>2, <2>5, ExactMissed
  <2>6. CASE ReportSocLog
    BY <2>6, ExactRead
  <2>7. QED
    BY <1>1, <2>1, <2>2, <2>3, <2>4, <2>5, <2>6 DEF Next, Host
<1>3. QED
  BY <1>1, <1>2, NoneWritten

-----------------------------------------------------------------------------
(* The invariant.                                                            *)
LEMMA InitHolds ==
  ASSUME Init
  PROVE  IndInv
<1>1. Types
  <2>1. <<>> \in Seq(HostTask) /\ <<>> \in Seq(Counters) /\ <<>> \in Seq(Records)
        /\ <<>> \in Seq(Keys) /\ <<>> \in Seq(LogSet) /\ Len(calls) = 0
    BY EmptySeq DEF Init
  <2>2. MaxCalls \in Nat /\ MaxReplays \in Nat
    BY KernelRecordsAssumption
  <2>3. /\ correlationId \in 1 .. 2 * MaxCalls + 1 /\ replays \in 0 .. MaxReplays /\ Len(calls) <= MaxCalls
        /\ threadCorrelationIdInfo \in [Threads -> 0 .. 2 * MaxCalls]
    BY <2>1, <2>2 DEF Init
  <2>4. QED
    BY <2>1, <2>3 DEF Init, Types, Places
<1>2. \A k \in Keys : Cached(k) = <<>> /\ CachedGraph(k) = <<>> /\ unagingMap[k] = <<>> /\ kernelMap[k] = <<>>
  <2>1. ASSUME NEW k \in Keys PROVE Cached(k) = <<>> /\ CachedGraph(k) = <<>>
    <3>1. hostTasks[k] = <<>> /\ kernelMap[k] = <<>> /\ unagingMap[k] = <<>>
      BY <2>1 DEF Init
    <3>2. <<>> \o <<>> = <<>>
      BY EmptySeq, ConcatEmptySeq
    <3>3. TasksOf(k, TRUE) = <<>> /\ TasksOf(k, FALSE) = <<>>
      BY <3>1 DEF TasksOf
    <3>4. QED
      BY <3>1, <3>2, <3>3 DEF Cached, CachedGraph, Emplaced
  <2>2. QED
    BY <2>1 DEF Init
<1>3. /\ DOMAIN calls = {} /\ DOMAIN kernels = {} /\ DOMAIN channel = {} /\ DOMAIN <<>> = {}
      /\ Len(calls) = 0 /\ \A t \in Threads : ~Busy(t)
  BY EmptySeq, LenProperties DEF Init, Busy
<1>4. \A k : LaunchesOn(k) = {}
  BY <1>3 DEF LaunchesOn
<1>5. Single
  BY EmptySeq DEF Init, Single
<1>6. Ours
  BY <1>3 DEF Init, Ours
<1>7. Counted
  <2>1. Unasked = {}
    BY DEF Init, Unasked
  <2>2. Cardinality(Unasked) = 0
    BY <2>1, FS_EmptySet
  <2>3. QED
    BY <1>3, <2>2 DEF Init, Counted
<1>8. Waiting
  <2>1. \A k \in Keys : WaitsOn(k)
    BY <1>2, <1>3 DEF WaitsOn
  <2>2. QED
    BY <1>2, <1>3, <2>1 DEF Init, Waiting
<1>9. Correlated
  BY <1>2, <1>3 DEF Correlated, CorrelatedOn
<1>10. Device
  <2>1. AgingLaunches = {}
    BY <1>3 DEF AgingLaunches
  <2>2. \A s \in Streams : Orderly(s)
    BY <1>3 DEF Init, Orderly, InStream
  <2>3. QED
    BY <2>1, <2>2 DEF Init, Device
<1>11. \A c : ~Issued(c) /\ ~InChannel(c) /\ ~Read(c)
  BY <1>3 DEF Init, Issued, Running, InChannel, Read, Streams
<1>12. Ordered
  BY <1>3, <1>11 DEF Ordered
<1>13. ASSUME NEW k \in exact PROVE ExactOn(k)
  <2>1. k \in Keys
    BY <1>1 DEF Types
  <2>2. Prefix(k) /\ Punctual(k) /\ Captured(k)
    BY <1>4, <1>11 DEF Prefix, Punctual, Captured, Did
  <2>3. Queued(k)
    BY <1>2, <1>3, <1>4, <2>1 DEF Queued
  <2>4. Starts(k)
    <3>1. \A c \in Counters : <<c>> # <<>> /\ deviceMap[k] = <<>>
      BY <2>1 DEF Init
    <3>2. QED
      BY <1>11, <3>1 DEF Starts, Started
  <2>5. RecordsOf(k)
    BY <1>3, <1>11 DEF RecordsOf, HasRecord, Did
  <2>6. QED
    BY <2>2, <2>3, <2>4, <2>5 DEF ExactOn
<1>14. QED
  BY <1>1, <1>5, <1>6, <1>7, <1>8, <1>9, <1>10, <1>12, <1>13 DEF IndInv, Exact

(* Every step keeps the inductive invariant.                                 *)
LEMMA NextStep ==
  ASSUME IndInv, [Next]_vars
  PROVE  IndInv'
<1>1. CASE Next
  BY <1>1, TypesStep, OursStep, WaitingStep, CorrelatedStep, DeviceStep, OrderedStep, ExactStep DEF IndInv
<1>2. CASE UNCHANGED vars
  <2>1. UNCHANGED <<enabled, correlationId, threadCorrelationIdInfo, hostTasks, kernelMap, unagingMap,
                    deviceMap, kernels, apis, pc, call, calls, toRun, begun, channel, replays, faults,
                    reported, done, exact>>
    BY <1>2 DEF vars, hostVars, parserVars, deviceVars
  <2>2. CachedStays
    BY <2>1, NoneCached
  <2>3. Types' /\ Single' /\ Ours' /\ Counted'
    BY <2>1 DEF IndInv, Types, Single, Ours, Busy, Counted, Unasked
  <2>4. Waiting'
    BY <2>1, WaitingStays DEF IndInv, Waiting
  <2>5. Correlated'
    BY <2>1, <2>2 DEF IndInv, Correlated, CorrelatedOn, CachedStays, Fits, Busy
  <2>6. WritesNone /\ CallsStay
    BY <2>1, IssuedStays DEF IndInv, WritesNone, CallsStay
  <2>7. Device'
    BY <2>1 DEF IndInv, Device, Orderly, InStream, WellMade, OnStream, AgingLaunches, SysCnt, Before
  <2>8. Ordered'
    BY <2>1, <2>6, OrderedStays DEF IndInv
  <2>9. ASSUME NEW k \in exact PROVE ExactOn(k)'
    <3>1. Types /\ Device /\ k \in Keys /\ ExactOn(k)
      BY DEF IndInv, Types, Exact
    <3>2. \A c : InChannel(c)' <=> InChannel(c)
      BY <2>1 DEF InChannel
    <3>3. SameLogs(k)
      BY <2>6, <3>1, <3>2, LogsStay
    <3>4. SameOn(k) /\ SameRecords(k)
      BY <2>1, <2>2, <3>1 DEF SameOn, SameRecords, CachedStays, LaunchesOn
    <3>5. QED
      BY <3>1, <3>3, <3>4, ExactStays
  <2>10. QED
    BY <2>1, <2>3, <2>4, <2>5, <2>7, <2>8, <2>9 DEF IndInv, Exact
<1>3. QED
  BY <1>1, <1>2

(* Every state that is reached has the invariant: the types, the tasks that  *)
(* wait, the ids of their calls, the order of the logs, and on a key where   *)
(* nothing was missed the queue, the start and the records.                  *)
THEOREM Inductive == Spec => []IndInv
<1>1. Init => IndInv
  BY InitHolds
<1>2. IndInv /\ [Next]_vars => IndInv'
  BY NextStep
<1>3. QED
  BY <1>1, <1>2, PTL DEF Spec

(* ReportRtTaskTrack, ReportRtApi, ReportSocLog: no record has a raw device  *)
(* counter, an id is never beyond two for each call, and the parser has one  *)
(* start and one graph kernel for a key.                                     *)
THEOREM TypeCorrect == Spec => []TypeOK
<1>1. IndInv => TypeOK
  <2>1. SUFFICES ASSUME IndInv PROVE TypeOK
    OBVIOUS
  <2>2. Types /\ Single
    BY <2>1 DEF IndInv
  <2>3. ASSUME NEW k \in Keys
        PROVE  /\ \A i \in DOMAIN hostTasks[k] : hostTasks[k][i] \in HostTask
               /\ \A i \in DOMAIN kernelMap[k] : kernelMap[k][i] \in HostTask
               /\ Len(unagingMap[k]) <= 1 /\ \A i \in DOMAIN unagingMap[k] : unagingMap[k][i] \in HostTask
               /\ Len(deviceMap[k]) <= 1 /\ \A i \in DOMAIN deviceMap[k] : deviceMap[k][i] \in Counters
    <3>1. /\ hostTasks[k] \in Seq(HostTask) /\ kernelMap[k] \in Seq(HostTask)
          /\ unagingMap[k] \in Seq(HostTask) /\ deviceMap[k] \in Seq(Counters)
      BY <2>2 DEF Types
    <3>2. QED
      BY <2>2, <3>1, ElementOfSeq DEF Single
  <2>4. ASSUME NEW i \in DOMAIN kernels
        PROVE  /\ kernels[i].correlationId \in 1 .. 2 * MaxCalls
               /\ {kernels[i].start, kernels[i].end} \subseteq [ns : Counters]
    <3>1. kernels[i] \in Records
      BY <2>2, KernelTypes
    <3>2. QED
      BY <3>1 DEF Records
  <2>5. QED
    BY <2>2, <2>3, <2>4 DEF Types, TypeOK, ApiSet, Places
<1>2. QED
  BY <1>1, Inductive, PTL

(* GetCorrelationId: the record of the API that launched a kernel has the id *)
(* of the kernel's record, whichever was delivered first.                    *)
THEOREM ApiOfItsKernelHolds == Spec => []ApiOfItsKernel
<1>1. IndInv => ApiOfItsKernel
  BY DEF IndInv, Correlated, Fits, ApiOfItsKernel
<1>2. QED
  BY <1>1, Inductive, PTL

(* DealAgingRtTaskTrack, DealUnAgingRtTaskTrack: on a key where nothing was  *)
(* missed or late, the executions whose end was read have one record each,   *)
(* of their launch and their times; and no ordinary launch ever has two.     *)
THEOREM RecordsAreExact == Spec => []RecordsOfKernels
<1>1. IndInv => KernelsExact
  <2>1. SUFFICES ASSUME IndInv, NEW k \in exact
                 PROVE  LET mine == {i \in DOMAIN kernels : kernels[i].key = k}
                            read == {c \in done : calls[c.launch] = k} \ {channel[i].time : i \in DOMAIN channel}
                        IN  /\ {kernels[i].end.ns : i \in mine} = read
                            /\ \A i, j \in mine : kernels[i].end = kernels[j].end => i = j
                            /\ \A i \in mine :
                                 /\ kernels[i].launch = kernels[i].end.ns.launch
                                 /\ kernels[i].start.ns = [kernels[i].end.ns EXCEPT !.at = "begin"]
    BY DEF KernelsExact
  <2>2. Types /\ RecordsOf(k) /\ done \subseteq Counters
    BY <2>1 DEF IndInv, Exact, ExactOn, Types
  <2>3. PICK mine : mine = {i \in DOMAIN kernels : kernels[i].key = k}
    OBVIOUS
  <2>4. PICK read : read = {c \in done : calls[c.launch] = k} \ {channel[i].time : i \in DOMAIN channel}
    OBVIOUS
  <2>5. {kernels[i].end.ns : i \in mine} = read
    <3>1. \A c : c \in read <=> c \in Counters /\ Did(k, c)
      BY <2>2, <2>4 DEF Did, Read, InChannel
    <3>2. \A c \in Counters : c \in read <=> HasRecord(k, c)
      BY <2>2, <3>1 DEF RecordsOf
    <3>3. \A i \in mine : kernels[i].end.ns \in Counters
      BY <2>2, <2>3, KernelTypes
    <3>4. \A i \in mine : HasRecord(k, kernels[i].end.ns)
      BY <2>3 DEF HasRecord
    <3>5. \A c \in read : \E i \in mine : kernels[i].end.ns = c
      BY <2>3, <3>1, <3>2 DEF HasRecord
    <3>6. QED
      BY <3>2, <3>3, <3>4, <3>5
  <2>6. /\ \A i, j \in mine : kernels[i].end = kernels[j].end => i = j
        /\ \A i \in mine :
             /\ kernels[i].launch = kernels[i].end.ns.launch
             /\ kernels[i].start.ns = [kernels[i].end.ns EXCEPT !.at = "begin"]
    BY <2>2, <2>3 DEF RecordsOf
  <2>7. QED
    BY <2>3, <2>4, <2>5, <2>6
<1>2. IndInv => RecordedOnce
  BY DEF IndInv, Waiting, Recorded, RecordedOnce, Aging
<1>3. IndInv => RecordsOfKernels
  BY <1>1, <1>2 DEF RecordsOfKernels
<1>4. QED
  BY <1>3, Inductive, PTL

(* A word of 16 bits is its own lower half.                                  *)
LEMMA SmallWord ==
  ASSUME NEW x \in 0 .. 2^16 - 1
  PROVE  Low(x, 16) = x
  BY DEF Low

(* Report and log are read by the same rules: it is enough that the two      *)
(* words of a packing give the stream and the task.                          *)
LEMMA ReadBackOfIds ==
  ASSUME NEW expand \in BOOLEAN, NEW p, NEW s, NEW t, NEW v, NEW u \in 0 .. 2^16 - 1,
         Pack(expand, p, s, t) = <<v, u>>,
         GetStreamId(expand, v, u) = s, GetTaskId(expand, v, u) = t
  PROVE  ReadBack(expand, p, s, t)
<1>1. Low(u, 16) = u
  BY SmallWord
<1>2. QED
  BY <1>1 DEF ReadBack, SocLogKey, KernelKey, CommunicationKey, GetHostTaskId

(* A stream of 11 bits has no flag.                                          *)
LEMMA PlainReadBack ==
  ASSUME NEW s \in 0 .. 2^11 - 1, NEW t \in 0 .. 2^16 - 1
  PROVE  ReadBack(FALSE, "plain", s, t)
<1>1. ~Bit(s, 12) /\ ~Bit(s, 13) /\ Low(s, 11) = s
  BY DEF Bit, Low
<1>2. Pack(FALSE, "plain", s, t) = <<s, t>>
  BY DEF Pack
<1>3. GetStreamId(FALSE, s, t) = s /\ GetTaskId(FALSE, s, t) = t
  BY <1>1 DEF GetStreamId, GetTaskId
<1>4. QED
  BY <1>2, <1>3, ReadBackOfIds

(* A stream of 15 bits has no flag of an expanded device.                    *)
LEMMA ExpandedPlainReadBack ==
  ASSUME NEW s \in 0 .. 2^15 - 1, NEW t \in 0 .. 2^16 - 1
  PROVE  ReadBack(TRUE, "plain", s, t)
<1>1. ~Bit(s, 15) /\ Low(s, 15) = s
  BY DEF Bit, Low
<1>2. Pack(TRUE, "plain", s, t) = <<s, t>>
  BY DEF Pack
<1>3. GetStreamId(TRUE, s, t) = s /\ GetTaskId(TRUE, s, t) = t
  BY <1>1 DEF GetStreamId, GetTaskId
<1>4. QED
  BY <1>2, <1>3, ReadBackOfIds

(* Stream and high bits of the task share a word: below and above the flag.  *)
LEMMA HighReadBack ==
  ASSUME NEW s \in 0 .. 2^11 - 1, NEW t \in 0 .. 2^16 - 1
  PROVE  ReadBack(FALSE, "high", s, t)
<1> DEFINE v == s + 2^12 + High(t, 13)
           u == Low(t, 13)
<1>1. u \in 0 .. 2^16 - 1 /\ Low(u, 13) = u /\ High(t, 13) + u = t
  BY DEF Low, High
<1>2. PICK q \in 0 .. 7 : High(t, 13) = q * 2^13
  <2>1. t \div 2^13 \in 0 .. 7 /\ High(t, 13) = (t \div 2^13) * 2^13
    BY DEF High, Low
  <2>2. QED
    BY <2>1
<1>3. Bit(v, 12) /\ Low(v, 11) = s /\ High(v, 13) = High(t, 13)
  BY <1>2 DEF Bit, Low, High
<1>4. Pack(FALSE, "high", s, t) = <<v, u>>
  BY DEF Pack
<1> HIDE DEF v, u
<1>5. GetStreamId(FALSE, v, u) = s /\ GetTaskId(FALSE, v, u) = t
  BY <1>1, <1>2, <1>3 DEF GetStreamId, GetTaskId
<1>6. QED
  BY <1>1, <1>4, <1>5, ReadBackOfIds

(* Low bits of the task and stream have changed places; bit 12 is clear.     *)
LEMMA SwappedReadBack ==
  ASSUME NEW s \in 0 .. 2^11 - 1, NEW t \in 0 .. 2^16 - 1
  PROVE  ReadBack(FALSE, "swapped", s, t)
<1> DEFINE v == 2^13 + Low(t, 12)
           u == High(t, 12) + s
<1>1. Low(t, 12) \in 0 .. 2^12 - 1 /\ High(t, 12) + Low(t, 12) = t
  BY DEF Low, High
<1>2. PICK q \in 0 .. 15 : High(t, 12) = q * 2^12
  <2>1. t \div 2^12 \in 0 .. 15 /\ High(t, 12) = (t \div 2^12) * 2^12
    BY DEF High, Low
  <2>2. QED
    BY <2>1
<1>3. ~Bit(v, 12) /\ Bit(v, 13) /\ Low(v, 12) = Low(t, 12)
  <2> HIDE DEF Low
  <2>1. v \div 2^12 = 2 /\ v \div 2^13 = 1
    BY <1>1
  <2>2. v % 2^12 = Low(t, 12)
    BY <1>1
  <2>3. QED
    BY <2>1, <2>2 DEF Bit, Low
<1>4. Low(u, 12) = s /\ High(u, 12) = High(t, 12) /\ u \in 0 .. 2^16 - 1 /\ Low(s, 11) = s
  BY <1>2 DEF Low, High
<1>5. Pack(FALSE, "swapped", s, t) = <<v, u>>
  BY DEF Pack
<1> HIDE DEF v, u
<1>6. GetStreamId(FALSE, v, u) = s /\ GetTaskId(FALSE, v, u) = t
  BY <1>1, <1>2, <1>3, <1>4 DEF GetStreamId, GetTaskId
<1>7. QED
  BY <1>4, <1>5, <1>6, ReadBackOfIds

(* The same on an expanded device, with one bit more of each.                *)
LEMMA ExpandedSwappedReadBack ==
  ASSUME NEW s \in 0 .. 2^15 - 1, NEW t \in 0 .. 2^16 - 1
  PROVE  ReadBack(TRUE, "swapped", s, t)
<1> DEFINE v == 2^15 + Low(t, 15)
           u == High(t, 15) + s
<1>1. Low(t, 15) \in 0 .. 2^15 - 1 /\ High(t, 15) + Low(t, 15) = t
  BY DEF Low, High
<1>2. PICK q \in 0 .. 1 : High(t, 15) = q * 2^15
  <2>1. t \div 2^15 \in 0 .. 1 /\ High(t, 15) = (t \div 2^15) * 2^15
    BY DEF High, Low
  <2>2. QED
    BY <2>1
<1>3. Bit(v, 15) /\ Low(v, 15) = Low(t, 15)
  <2>1. v \div 2^15 = 1
    BY <1>1
  <2>2. v % 2^15 = Low(t, 15)
    BY <1>1
  <2>3. QED
    BY <2>1, <2>2 DEF Bit, Low
<1>4. Low(u, 15) = s /\ High(u, 15) = High(t, 15) /\ u \in 0 .. 2^16 - 1
  BY <1>2 DEF Low, High
<1>5. Pack(TRUE, "swapped", s, t) = <<v, u>>
  BY DEF Pack
<1> HIDE DEF v, u
<1>6. GetStreamId(TRUE, v, u) = s /\ GetTaskId(TRUE, v, u) = t
  BY <1>1, <1>3, <1>4 DEF GetStreamId, GetTaskId
<1>7. QED
  BY <1>4, <1>5, <1>6, ReadBackOfIds

(* Every stream and every task that a device can have is read back from the  *)
(* words of a report or log as just these two, however they are packed       *)
(* (stars_common.cpp:31-68).                                                 *)
THEOREM PackingsAreReadBack ==
  ASSUME NEW expand \in BOOLEAN, NEW p \in Packings, ~(expand /\ p = "high"),
         NEW s \in 0 .. NumStreams(expand) - 1, NEW t \in 0 .. 2^16 - 1
  PROVE  ReadBack(expand, p, s, t)
  BY PlainReadBack, ExpandedPlainReadBack, HighReadBack, SwappedReadBack, ExpandedSwappedReadBack
     DEF Packings, NumStreams

(* Every id of a V6 device is one key for report and log; of a communication *)
(* task while it has 16 bits.                                                *)
LEMMA V6IdsAgree ==
  ASSUME NEW id \in Nat
  PROVE  V6Agrees(id)
<1>1. KernelKey(TRUE, FALSE, 0, id) = SocLogKey(TRUE, FALSE, 0, id)
  BY DEF KernelKey, SocLogKey, GetHostTaskId
<1>2. ASSUME id < 2^16
      PROVE  CommunicationKey(TRUE, FALSE, 0, id) = SocLogKey(TRUE, FALSE, 0, id)
  <2>1. Low(id, 16) = id
    BY <1>2 DEF Low
  <2>2. ~Bit(0, 12) /\ ~Bit(0, 13)
    BY DEF Bit
  <2>3. GetTaskId(FALSE, 0, id) = id
    BY <2>2 DEF GetTaskId
  <2>4. QED
    BY <2>1, <2>3 DEF CommunicationKey, SocLogKey
<1>3. QED
  BY <1>1, <1>2 DEF V6Agrees

(* The values that TLC tries are ids.                                        *)
LEMMA EdgesAreIds ==
  ASSUME NEW max \in Nat
  PROVE  Edges(max) \subseteq 0 .. max - 1
<1>1. ASSUME NEW i \in 0 .. 16
      PROVE  2^i \in Nat \ {0}
  <2>1. \/ i = 0  \/ i = 1  \/ i = 2  \/ i = 3  \/ i = 4  \/ i = 5
        \/ i = 6  \/ i = 7  \/ i = 8  \/ i = 9  \/ i = 10 \/ i = 11
        \/ i = 12 \/ i = 13 \/ i = 14 \/ i = 15 \/ i = 16
    OBVIOUS
  <2>2. {2^0, 2^1, 2^2, 2^3, 2^4, 2^5, 2^6, 2^7, 2^8, 2^9, 2^10, 2^11,
         2^12, 2^13, 2^14, 2^15, 2^16} \subseteq Nat \ {0}
    OBVIOUS
  <2>3. QED
    BY <2>1, <2>2
<1>2. \A m \in Nat \ {0} : {m - 1, m, m + 5} \subseteq Nat
  OBVIOUS
<1>3. \A i \in 0 .. 16 : {2^i - 1, 2^i, 2^i + 5} \subseteq Nat
  BY <1>1, <1>2, Zenon
<1>4. QED
  BY <1>3 DEF Edges

(* So the values that TLC tries are read back.                               *)
LEMMA AllIdsAgree == PackedIdsAgree
<1>1. ASSUME NEW expand \in BOOLEAN, NEW p \in Packings, ~(expand /\ p = "high"),
             NEW s \in Edges(NumStreams(expand)), NEW t \in Edges(2^16)
      PROVE  ReadBack(expand, p, s, t)
  <2>1. 2^11 \in Nat /\ 2^15 \in Nat /\ 2^16 \in Nat
    OBVIOUS
  <2>2. s \in 0 .. NumStreams(expand) - 1 /\ t \in 0 .. 2^16 - 1
    BY <2>1, EdgesAreIds DEF NumStreams
  <2>3. QED
    BY <1>1, <2>2, PackingsAreReadBack
<1>2. ASSUME NEW id \in {2^30 - 1, 65536} \cup Edges(2^16)
      PROVE  V6Agrees(id)
  <2>1. 2^16 \in Nat /\ 2^30 - 1 \in Nat
    OBVIOUS
  <2>2. id \in Nat
    BY <2>1, EdgesAreIds
  <2>3. QED
    BY <2>2, V6IdsAgree
<1>3. QED
  BY <1>1, <1>2 DEF PackedIdsAgree

(* No two tasks share an id, and a launched task's report and its logs have  *)
(* one key (stars_common.cpp:31-77), for any calls of any threads.           *)
THEOREM TaskIdsHold == Spec => []TaskIdsAgree
<1>1. TaskIdsAgree
  BY AllIdsAgree DEF TaskIdsAgree
<1>2. QED
  BY <1>1, PTL
=============================================================================
