---------------------------- MODULE Markers_proof ----------------------------
(***************************************************************************)
(* Proofs about Markers for every number of threads, domains and calls,    *)
(* and every bound: what is recorded of a range, of a mark and of an       *)
(* operator, and that disabled domains stay silent.                        *)
(***************************************************************************)
EXTENDS Markers, FiniteSetTheorems, SequenceTheorems, TLAPS

Flags     == {"start", "end", "mark"}
AllNames  == Names \cup {Default}
Places    == {"idle", "domain", "name", "mark", "range", "end", "record",
              "inner", "op", "run"}
DomainSet == [name : AllNames, isEnabled : BOOLEAN, isDestroyed : BOOLEAN]
CallSet   == [kind : Calls \cup {"end"} \cup Ops, via : Nat, stream : BOOLEAN, id : Nat,
              name : AllNames, time : Nat, quiet : SUBSET AllNames]
TraceSet  == [what : Calls \cup Ops, start : Nat, end : Nat, mark : Nat]
StepSet   == [id : Nat, flag : Flags, count : Nat]
ReaderSet == [id : Nat, flag : Flags, time : Nat, inner : BOOLEAN]
OpSet     == [opName : Ops, start : Nat, end : Nat, onDevice : BOOLEAN, rankSize : Nat]

Pending == {t \in Threads : pc[t] \in {"domain", "name", "mark", "range"}}
Working == {t \in Threads : pc[t] \notin {"idle", "record"}}
Marked  == 1 .. gMarkId

(* The types; an id that is known anywhere has been given out.               *)
Types ==
  /\ marker \in BOOLEAN /\ hccl \in BOOLEAN
  /\ domains \in Seq(DomainSet)
  /\ disableDomains \subseteq AllNames
  /\ gMarkId \in Nat /\ clock \in Nat /\ hostTime \in Nat /\ devTime \in Nat
  /\ DOMAIN markId2Context \subseteq given
  /\ \A id \in DOMAIN markId2Context : markId2Context[id] \in [stream : BOOLEAN, time : Nat]
  /\ DOMAIN deviceMarkId2Context \subseteq DOMAIN truth
  /\ \A id \in DOMAIN deviceMarkId2Context : deviceMarkId2Context[id] \in Nat \ {None}
  /\ DOMAIN innerMarkIds \subseteq Marked
  /\ \A id \in DOMAIN innerMarkIds : innerMarkIds[id] \in BOOLEAN
  /\ DOMAIN markId2HcclOp \subseteq Marked
  /\ \A id \in DOMAIN markId2HcclOp : markId2HcclOp[id] \in OpSet
  /\ channel \in Seq(StepSet)
  /\ reader # NoMark => reader \in ReaderSet /\ reader.id \in DOMAIN truth
  /\ IsABag(records)
  /\ \A r \in DOMAIN records : /\ r.source \in {"host", "device", "hccl"}
                               /\ r.id \in Marked /\ records[r] = 1
  /\ pc \in [Threads -> Places]
  /\ call \in [Threads -> CallSet \cup {NoCall}]
  /\ given \subseteq Marked
  /\ DOMAIN truth \subseteq Marked
  /\ \A id \in DOMAIN truth : truth[id] \in TraceSet

(* The kind and the arguments of a call fit the place of its thread.         *)
CallFits(t) ==
  /\ pc[t] = "idle" <=> call[t] = NoCall
  /\ pc[t] # "idle" =>
       /\ call[t] \in CallSet
       /\ pc[t] \in {"domain", "name"} => call[t].via \in {ByName} \cup 2 .. Len(domains)
       /\ pc[t] = "name" => call[t].via # ByName
       /\ pc[t] \in {"domain", "name", "record"} => call[t].kind \in Calls \cup {"end"}
       /\ pc[t] \in {"mark", "range", "end"} => call[t].kind = pc[t]
       /\ pc[t] \in {"inner", "op", "run"} => call[t].kind \in Ops
       /\ pc[t] \in {"record", "inner", "op", "run"} => call[t].id \in Marked
       /\ call[t].kind = "end" => call[t].id \in given

(* An operation that takes an id, or the counter, has still to come.         *)
Bounded ==
  /\ IsFiniteSet(Pending) /\ gMarkId + Cardinality(Pending) <= calls
  /\ IsFiniteSet(Working) /\ clock + Cardinality(Working) <= 2 * calls
  /\ calls \in Nat /\ calls <= MaxCalls
  /\ syncs \in Nat /\ syncs <= MaxSyncs
  /\ hostTime <= syncs + 1 /\ devTime <= syncs + 1

(* A domain is enabled if its name is; a call has found its domain enabled,  *)
(* which it was at some time since the call began.                           *)
Heard(t) ==
  pc[t] # "idle" =>
    /\ call[t].quiet \subseteq disableDomains
    /\ pc[t] = "domain" => call[t].name = Default
    /\ pc[t] = "name" => domains[call[t].via].name \notin call[t].quiet
    /\ pc[t] \in Calls \cup {"record"} /\ call[t].kind \in Calls =>
         call[t].name \notin call[t].quiet

Silent ==
  /\ domains # <<>>
  /\ \A d \in DOMAIN domains : domains[d].isEnabled <=> domains[d].name \notin disableDomains
  /\ \A t \in Threads : Heard(t)
  /\ leaked = {}

-----------------------------------------------------------------------------
(* Who has an id, and where the marks of an id are.                          *)
Owns(t, id) == pc[t] \in {"record", "inner", "op", "run"} /\ call[t].id = id
Owners == \A t, u \in Threads : (\E id \in Marked : Owns(t, id) /\ Owns(u, id)) => t = u

Traced(id)        == id \in DOMAIN truth
Unread(id, flag)  == \E i \in DOMAIN channel : channel[i].id = id /\ channel[i].flag = flag
InHand(id, flag)  == reader # NoMark /\ reader.id = id /\ reader.flag = flag
Written(id, flag) == Traced(id) /\ truth[id][flag] # None
Read(id, flag)    == Written(id, flag) /\ ~Unread(id, flag)
Done(id, flag)    == Read(id, flag) /\ ~InHand(id, flag)

(* The marks come in the order in which they were written.                   *)
Channel ==
  /\ \A i \in DOMAIN channel :
       /\ Traced(channel[i].id)
       /\ channel[i].count = truth[channel[i].id][channel[i].flag]
       /\ channel[i].count \in 1 .. clock
  /\ \A i, j \in DOMAIN channel : i < j => channel[i].count < channel[j].count

(* What is known of an id of kind k, whose host times are taken with the     *)
(* time information h, and whose marks are read with s and, at the end, e.   *)
Trace(id, k) ==
  Traced(id) =>
    /\ truth[id].what = k
    /\ truth[id].start <= clock /\ truth[id].end <= clock /\ truth[id].mark <= clock
    /\ IF k = "mark" THEN truth[id].mark # None /\ truth[id].start = None /\ truth[id].end = None
                     ELSE truth[id].mark = None /\ truth[id].start # None
    /\ truth[id].end # None => truth[id].start < truth[id].end

NotEnded(id) == Traced(id) => truth[id].end = None

HostMark(id, flag, h) ==
  [id |-> id, source |-> "host", flag |-> flag, time |-> RealTime(0, h)]

HostHas(id, flag) == \E r \in DOMAIN records : r.source = "host" /\ r.id = id /\ r.flag = flag

Host(id, k, h) ==
  /\ \A r \in DOMAIN records : r.source = "host" /\ r.id = id =>
       /\ k \in Calls /\ r.flag \in Flags
       /\ r = HostMark(id, r.flag, h)
       /\ r.flag = "mark" <=> k = "mark"
  /\ id \in given => k = "range"
  /\ id \in DOMAIN markId2Context =>
       /\ markId2Context[id].time = h
       /\ markId2Context[id].stream <=> Traced(id)
       /\ NotEnded(id) /\ ~HostHas(id, "end")
  /\ \A t \in Threads : pc[t] = "record" /\ call[t].id = id =>
       /\ call[t].time = h /\ id \notin DOMAIN markId2Context
       /\ call[t].kind = "end" => ~HostHas(id, "end")
       /\ call[t].kind \in Calls =>
            /\ k = call[t].kind /\ id \notin given
            /\ \A flag \in Flags : ~HostHas(id, flag)
            /\ call[t].stream <=> Traced(id)
            /\ NotEnded(id)

With(flag, s, e) == IF flag = "end" THEN e ELSE s
DeviceTime(id, flag, s, e) == RealTime(truth[id][flag], With(flag, s, e))
DeviceMark(id, flag, s, e) ==
  [id |-> id, source |-> "device", flag |-> flag, time |-> DeviceTime(id, flag, s, e)]

(* Between the ends of a range its time information is kept, if there is any.*)
Device(id, k, s, e) ==
  /\ \A r \in DOMAIN records : r.source = "device" /\ r.id = id =>
       /\ r.flag \in Flags /\ Done(id, r.flag)
       /\ r = DeviceMark(id, r.flag, s, e)
  /\ reader # NoMark /\ reader.id = id =>
       /\ Read(id, reader.flag)
       /\ reader.time = DeviceTime(id, reader.flag, s, e)
       /\ reader.inner => id \in DOMAIN innerMarkIds
  /\ k = "mark" \/ Unread(id, "start") => id \notin DOMAIN deviceMarkId2Context
  /\ Unread(id, "start") => ~Read(id, "end")
  /\ Read(id, "start") /\ ~Read(id, "end") =>
       /\ id \in DOMAIN deviceMarkId2Context <=> s # None
       /\ s # None => deviceMarkId2Context[id] = s
  /\ Read(id, "end") /\ s # None => id \notin DOMAIN deviceMarkId2Context /\ e = s

StartedOp(id, k, s)  == [Desc(k) EXCEPT !.start = DeviceTime(id, "start", s, s), !.onDevice = TRUE]
EndedOp(id, k, s, e) == [StartedOp(id, k, s) EXCEPT !.end = DeviceTime(id, "end", s, e)]
HcclRecord(id, k, s, e) ==
  [id |-> id, source |-> "hccl", op |-> EndedOp(id, k, s, e),
   bandWidth |-> BandWidth(EndedOp(id, k, s, e))]

Inner(id, k, s, e) ==
  /\ id \in DOMAIN innerMarkIds => k \in Ops /\ (innerMarkIds[id] <=> Traced(id))
  /\ id \in DOMAIN markId2HcclOp =>
       /\ k \in Ops
       /\ markId2HcclOp[id].opName = k /\ markId2HcclOp[id].rankSize = Desc(k).rankSize
       /\ markId2HcclOp[id].end = None
  /\ \A t \in Threads : pc[t] \in {"inner", "op", "run"} /\ call[t].id = id =>
       /\ k = call[t].kind /\ NotEnded(id)
       /\ pc[t] = "inner" => id \notin DOMAIN innerMarkIds /\ (call[t].stream <=> Traced(id))
       /\ pc[t] # "run" => id \notin DOMAIN markId2HcclOp
  /\ \A r \in DOMAIN records : r.source = "hccl" /\ r.id = id =>
       k \in Ops /\ Done(id, "end") /\ (id \in missed \/ r = HcclRecord(id, k, s, e))
  /\ k \in Ops /\ id \notin missed =>
       /\ Done(id, "start") /\ ~Done(id, "end") =>
            id \in DOMAIN markId2HcclOp /\ markId2HcclOp[id] = StartedOp(id, k, s)
       /\ Done(id, "end") =>
            /\ id \notin DOMAIN markId2HcclOp
            /\ HcclRecord(id, k, s, e) \in DOMAIN records

Account(id, k, h, s, e) ==
  Trace(id, k) /\ Host(id, k, h) /\ Device(id, k, s, e) /\ Inner(id, k, s, e)

Accounts ==
  \A id \in Marked : \E k \in Calls \cup Ops, h, s, e \in Nat : Account(id, k, h, s, e)

IndInv ==
  /\ Types /\ (\A t \in Threads : CallFits(t)) /\ Bounded /\ Silent
  /\ Owners /\ Channel /\ Accounts

-----------------------------------------------------------------------------
(* What the helpers of the model do.                                         *)

(* What is filed under a key, and that the other keys stay.                  *)
LEMMA PutFacts ==
  ASSUME NEW f, NEW x, NEW y
  PROVE  /\ DOMAIN Put(f, x, y) = DOMAIN f \cup {x}
         /\ Put(f, x, y)[x] = y
         /\ \A z \in DOMAIN f : z # x => Put(f, x, y)[z] = f[z]
  BY DEF Put

(* What is left without a key.                                               *)
LEMMA WithoutFacts ==
  ASSUME NEW f, NEW x
  PROVE  /\ DOMAIN Without(f, x) = DOMAIN f \ {x}
         /\ \A z \in DOMAIN f \ {x} : Without(f, x)[z] = f[z]
  BY DEF Without

(* A call is not the absence of one.                                         *)
LEMMA NoCallIsNone == NoCall \notin CallSet
  BY DEF NoCall, CallSet

(* A mark in the reader's hand is not the absence of one.                    *)
LEMMA NoMarkIsNone ==
  /\ NoMark \notin ReaderSet
  /\ \A id, flag, time, inner :
       [id |-> id, flag |-> flag, time |-> time, inner |-> inner] # NoMark
  BY DEF NoMark, ReaderSet

(* A bag of which one element more is taken.                                 *)
LEMMA BagFacts ==
  ASSUME NEW B, IsABag(B), NEW r
  PROVE  /\ IsABag(B (+) SetToBag({r}))
         /\ DOMAIN (B (+) SetToBag({r})) = DOMAIN B \cup {r}
         /\ \A x \in DOMAIN B : x # r => (B (+) SetToBag({r}))[x] = B[x]
         /\ r \notin DOMAIN B => (B (+) SetToBag({r}))[r] = 1
  BY DEF IsABag, SetToBag, (+)

(* What a place has still to take: an id, and the counter once more.         *)
Takes(p) == IF p \in {"domain", "name", "mark", "range"} THEN 1 ELSE 0
Marks(p) == IF p \in {"idle", "record"} THEN 0 ELSE 1

(* The size of a set that differs in one element.                            *)
LEMMA SetMoves ==
  ASSUME NEW S, NEW T, NEW x, IsFiniteSet(S), T \ {x} = S \ {x}
  PROVE  /\ IsFiniteSet(T) /\ Cardinality(S) \in Nat /\ Cardinality(T) \in Nat
         /\ Cardinality(T) = Cardinality(S) + (IF x \in T THEN 1 ELSE 0) - (IF x \in S THEN 1 ELSE 0)
<1>1. T = IF x \in T THEN (S \ {x}) \cup {x} ELSE S \ {x}
  OBVIOUS
<1>2. IsFiniteSet(S \ {x}) /\ Cardinality(S) \in Nat /\ Cardinality(S \ {x}) \in Nat
  BY FS_RemoveElement, FS_CardinalityType
<1>3. Cardinality(S \ {x}) = IF x \in S THEN Cardinality(S) - 1 ELSE Cardinality(S)
  BY FS_RemoveElement
<1>4. /\ IsFiniteSet((S \ {x}) \cup {x})
      /\ Cardinality((S \ {x}) \cup {x}) = Cardinality(S \ {x}) + 1
  BY <1>2, FS_AddElement
<1>5. CASE x \in T
  <2>1. T = (S \ {x}) \cup {x}
    BY <1>1, <1>5
  <2>2. QED
    BY <1>2, <1>3, <1>4, <1>5, <2>1
<1>6. CASE x \notin T
  <2>1. T = S \ {x}
    BY <1>1, <1>6
  <2>2. QED
    BY <1>2, <1>3, <1>6, <2>1
<1>7. QED
  BY <1>5, <1>6

(* How many threads still have an id, or a count, to take when one moves.    *)
LEMMA ThreadMoves ==
  ASSUME Types, Bounded, NEW t \in Threads, NEW p \in Places, pc' = [pc EXCEPT ![t] = p]
  PROVE  /\ IsFiniteSet(Pending)' /\ IsFiniteSet(Working)'
         /\ Cardinality(Pending) \in Nat /\ Cardinality(Working) \in Nat
         /\ Cardinality(Pending)' \in Nat /\ Cardinality(Working)' \in Nat
         /\ Cardinality(Pending)' = Cardinality(Pending) + Takes(p) - Takes(pc[t])
         /\ Cardinality(Working)' = Cardinality(Working) + Marks(p) - Marks(pc[t])
<1>1. pc[t] \in Places /\ pc'[t] = p /\ \A u \in Threads \ {t} : pc'[u] = pc[u]
  BY DEF Types
<1>2. /\ Pending' \ {t} = Pending \ {t} /\ Working' \ {t} = Working \ {t}
      /\ t \in Pending' <=> p \in {"domain", "name", "mark", "range"}
      /\ t \in Working' <=> p \notin {"idle", "record"}
      /\ t \in Pending <=> pc[t] \in {"domain", "name", "mark", "range"}
      /\ t \in Working <=> pc[t] \notin {"idle", "record"}
  BY <1>1 DEF Pending, Working
<1>3. IsFiniteSet(Pending) /\ IsFiniteSet(Working)
  BY DEF Bounded
<1>4. /\ IsFiniteSet(Pending') /\ Cardinality(Pending) \in Nat /\ Cardinality(Pending') \in Nat
      /\ Cardinality(Pending') = Cardinality(Pending) + Takes(p) - Takes(pc[t])
  BY <1>2, <1>3, SetMoves DEF Takes
<1>5. /\ IsFiniteSet(Working') /\ Cardinality(Working) \in Nat /\ Cardinality(Working') \in Nat
      /\ Cardinality(Working') = Cardinality(Working) + Marks(p) - Marks(pc[t])
  BY <1>2, <1>3, SetMoves DEF Marks
<1>6. QED
  BY <1>4, <1>5

-----------------------------------------------------------------------------
(* What a step leaves alone: each part of the account of an id reads only    *)
(* what belongs to this id.                                                  *)

(* A mark that is written stays written while the counter goes on.           *)
LEMMA TraceStays ==
  ASSUME NEW id, NEW k, Trace(id, k), clock \in Nat, clock' \in Nat, clock' >= clock,
         Traced(id) => truth[id] \in TraceSet,
         Traced(id)' => Traced(id) /\ truth'[id] = truth[id]
  PROVE  Trace(id, k)'
<1>1. CASE ~Traced(id)'
  BY <1>1 DEF Trace
<1>2. CASE Traced(id)'
  <2>1. Traced(id) /\ truth'[id] = truth[id] /\ truth[id] \in TraceSet
    BY <1>2
  <2>2. truth[id].start \in Nat /\ truth[id].end \in Nat /\ truth[id].mark \in Nat
    BY <2>1 DEF TraceSet
  <2>3. QED
    BY <2>1, <2>2 DEF Trace
<1>3. QED
  BY <1>1, <1>2

SameHost(id) ==
  /\ \A r \in DOMAIN records' : r.source = "host" /\ r.id = id => r \in DOMAIN records
  /\ id \in given' <=> id \in given
  /\ id \in DOMAIN markId2Context' =>
       id \in DOMAIN markId2Context /\ markId2Context'[id] = markId2Context[id]
  /\ Traced(id)' <=> Traced(id)
  /\ Traced(id) => truth'[id] = truth[id]
  /\ \A t \in Threads : pc'[t] = "record" /\ call'[t].id = id =>
       /\ pc[t] = "record" /\ call[t].id = id
       /\ call'[t].kind = call[t].kind /\ call'[t].time = call[t].time
       /\ call'[t].stream = call[t].stream

(* The host's part is kept by a step that leaves the host's state of the     *)
(* id.                                                                       *)
LEMMA HostStays ==
  ASSUME NEW id, NEW k, NEW h, Host(id, k, h), SameHost(id)
  PROVE  Host(id, k, h)'
<1>1. \A flag : HostHas(id, flag)' => HostHas(id, flag)
  BY DEF HostHas, SameHost
<1>2. NotEnded(id)' <=> NotEnded(id)
  BY DEF NotEnded, SameHost
<1>3. \A r \in DOMAIN records' : r.source = "host" /\ r.id = id =>
       /\ k \in Calls /\ r.flag \in Flags
       /\ r = HostMark(id, r.flag, h)
       /\ r.flag = "mark" <=> k = "mark"
  BY DEF Host, SameHost
<1>4. id \in DOMAIN markId2Context' =>
       /\ markId2Context'[id].time = h
       /\ markId2Context'[id].stream <=> Traced(id)'
       /\ NotEnded(id)' /\ ~HostHas(id, "end")'
  BY <1>1, <1>2 DEF Host, SameHost
<1>5. \A t \in Threads : pc'[t] = "record" /\ call'[t].id = id =>
       /\ call'[t].time = h /\ id \notin DOMAIN markId2Context'
       /\ call'[t].kind = "end" => ~HostHas(id, "end")'
       /\ call'[t].kind \in Calls =>
            /\ k = call'[t].kind /\ id \notin given'
            /\ \A flag \in Flags : ~HostHas(id, flag)'
            /\ call'[t].stream <=> Traced(id)'
            /\ NotEnded(id)'
  BY <1>1, <1>2 DEF Host, SameHost
<1>6. id \in given' => k = "range"
  BY DEF Host, SameHost
<1>7. QED
  BY <1>3, <1>4, <1>5, <1>6 DEF Host

SameMarks(id) ==
  /\ Traced(id)' <=> Traced(id)
  /\ Traced(id) => truth'[id] = truth[id]
  /\ \A flag \in Flags : Unread(id, flag)' <=> Unread(id, flag)

SameReader(id) ==
  /\ reader' # NoMark /\ reader'.id = id <=> reader # NoMark /\ reader.id = id
  /\ reader # NoMark /\ reader.id = id =>
       /\ reader'.flag = reader.flag /\ reader'.time = reader.time
       /\ (reader.inner => id \in DOMAIN innerMarkIds) =>
            (reader'.inner => id \in DOMAIN innerMarkIds')

(* Which marks are read, and what was read, stays.                           *)
SameReads(id) ==
  /\ \A flag \in Flags : Read(id, flag)' <=> Read(id, flag)
  /\ \A flag \in Flags : Read(id, flag) => truth'[id][flag] = truth[id][flag]
  /\ Read(id, "end") => truth'[id] = truth[id]
  /\ Unread(id, "start")' <=> Unread(id, "start")

(* What is read stays read as long as the channel keeps its marks.           *)
LEMMA MarksAndReads ==
  ASSUME NEW id, SameMarks(id)
  PROVE  SameReads(id)
<1>1. \A flag \in Flags : Written(id, flag)' <=> Written(id, flag)
  BY DEF Written, SameMarks
<1>2. \A flag \in Flags : Read(id, flag)' <=> Read(id, flag)
  BY <1>1 DEF Read, SameMarks
<1>3. \A flag : Read(id, flag) => truth'[id] = truth[id]
  BY DEF Read, Written, SameMarks
<1>4. QED
  BY <1>2, <1>3 DEF SameReads, SameMarks, Flags

(* What is done stays done while channel and reader keep the id's marks.     *)
LEMMA SameDone ==
  ASSUME NEW id, SameReads(id), SameReader(id)
  PROVE  \A flag \in Flags : Done(id, flag)' <=> Done(id, flag)
<1>1. \A flag \in Flags : InHand(id, flag)' <=> InHand(id, flag)
  BY DEF InHand, SameReader
<1>2. QED
  BY <1>1 DEF Done, SameReads

(* The times of marks that are written do not change.                        *)
LEMMA SameTimes ==
  ASSUME NEW id, SameReads(id), NEW s, NEW e, NEW flag \in Flags, Read(id, flag)
  PROVE  /\ DeviceTime(id, flag, s, e)' = DeviceTime(id, flag, s, e)
         /\ DeviceMark(id, flag, s, e)' = DeviceMark(id, flag, s, e)
  BY DEF DeviceTime, DeviceMark, With, RealTime, Offset, SameReads

SameDevice(id) ==
  /\ SameReads(id) /\ SameReader(id)
  /\ \A r \in DOMAIN records' : r.source = "device" /\ r.id = id => r \in DOMAIN records
  /\ id \in DOMAIN deviceMarkId2Context' <=> id \in DOMAIN deviceMarkId2Context
  /\ id \in DOMAIN deviceMarkId2Context => deviceMarkId2Context'[id] = deviceMarkId2Context[id]

(* The device's part is kept by a step that leaves the reader's state of     *)
(* the id.                                                                   *)
LEMMA DeviceStays ==
  ASSUME NEW id, NEW k, NEW s, NEW e, Device(id, k, s, e), SameDevice(id),
         reader # NoMark => reader \in ReaderSet
  PROVE  Device(id, k, s, e)'
<1>1. SameReads(id) /\ SameReader(id)
  BY DEF SameDevice
<1>2. \A flag \in Flags : /\ Read(id, flag)' <=> Read(id, flag)
                          /\ Done(id, flag)' <=> Done(id, flag)
  BY <1>1, SameDone DEF SameReads
<1>3. "start" \in Flags /\ "end" \in Flags
  BY DEF Flags
<1>4. \A r \in DOMAIN records' : r.source = "device" /\ r.id = id =>
       /\ r.flag \in Flags /\ Done(id, r.flag)'
       /\ r = DeviceMark(id, r.flag, s, e)'
  <2> SUFFICES ASSUME NEW r \in DOMAIN records', r.source = "device", r.id = id
               PROVE  /\ r.flag \in Flags /\ Done(id, r.flag)'
                      /\ r = DeviceMark(id, r.flag, s, e)'
    OBVIOUS
  <2>1. r \in DOMAIN records
    BY DEF SameDevice
  <2>2. r.flag \in Flags /\ Done(id, r.flag) /\ r = DeviceMark(id, r.flag, s, e)
    BY <2>1 DEF Device
  <2>3. Read(id, r.flag)
    BY <2>2 DEF Done
  <2>4. QED
    BY <1>1, <1>2, <2>2, <2>3, SameTimes
<1>5. reader' # NoMark /\ reader'.id = id =>
       /\ Read(id, reader.flag)'
       /\ reader'.time = DeviceTime(id, reader.flag, s, e)'
       /\ reader'.inner => id \in DOMAIN innerMarkIds'
  <2> SUFFICES ASSUME reader' # NoMark, reader'.id = id
               PROVE  /\ Read(id, reader.flag)'
                      /\ reader'.time = DeviceTime(id, reader.flag, s, e)'
                      /\ reader'.inner => id \in DOMAIN innerMarkIds'
    OBVIOUS
  <2>1. /\ reader # NoMark /\ reader.id = id
        /\ reader'.flag = reader.flag /\ reader'.time = reader.time
        /\ (reader.inner => id \in DOMAIN innerMarkIds) =>
             (reader'.inner => id \in DOMAIN innerMarkIds')
    BY <1>1 DEF SameReader
  <2>2. PICK flag \in Flags : flag = reader.flag
    BY <2>1 DEF ReaderSet
  <2>3. /\ Read(id, flag) /\ reader.time = DeviceTime(id, flag, s, e)
        /\ reader.inner => id \in DOMAIN innerMarkIds
    BY <2>1, <2>2 DEF Device
  <2>4. /\ DeviceTime(id, flag, s, e)' = DeviceTime(id, flag, s, e)
        /\ Read(id, flag)' /\ reader'.flag = flag
    BY <1>1, <1>2, <2>1, <2>2, <2>3, SameTimes
  <2>5. QED
    BY <2>1, <2>2, <2>3, <2>4
<1>6. k = "mark" \/ Unread(id, "start")' => id \notin DOMAIN deviceMarkId2Context'
  BY <1>1 DEF Device, SameDevice, SameReads
<1>7. Read(id, "start")' /\ ~Read(id, "end")' =>
       /\ id \in DOMAIN deviceMarkId2Context' <=> s # None
       /\ s # None => deviceMarkId2Context'[id] = s
  BY <1>2, <1>3 DEF Device, SameDevice
<1>8. Read(id, "end")' /\ s # None => id \notin DOMAIN deviceMarkId2Context' /\ e = s
  BY <1>2, <1>3 DEF Device, SameDevice
<1>9. Unread(id, "start")' => ~Read(id, "end")'
  BY <1>1, <1>2, <1>3 DEF Device, SameReads
<1>10. QED
  BY <1>4, <1>5, <1>6, <1>7, <1>8, <1>9 DEF Device

SameInner(id) ==
  /\ SameReads(id) /\ SameReader(id) /\ (Traced(id)' <=> Traced(id))
  /\ id \in DOMAIN innerMarkIds' <=> id \in DOMAIN innerMarkIds
  /\ id \in DOMAIN innerMarkIds => innerMarkIds'[id] = innerMarkIds[id]
  /\ id \in DOMAIN markId2HcclOp' <=> id \in DOMAIN markId2HcclOp
  /\ id \in DOMAIN markId2HcclOp => markId2HcclOp'[id] = markId2HcclOp[id]
  /\ \A r : r.source = "hccl" /\ r.id = id => (r \in DOMAIN records' <=> r \in DOMAIN records)
  /\ id \in missed => id \in missed'
  /\ \A t \in Threads : pc'[t] \in {"inner", "op", "run"} /\ call'[t].id = id =>
       /\ pc[t] = pc'[t] /\ call[t].id = id /\ (NotEnded(id)' <=> NotEnded(id))
       /\ call'[t].kind = call[t].kind /\ call'[t].stream = call[t].stream

(* The record of an operator follows from what is done.                      *)
LEMMA SameRecord ==
  ASSUME NEW id, NEW k, NEW s, NEW e, SameReads(id)
  PROVE  /\ Done(id, "start") => StartedOp(id, k, s)' = StartedOp(id, k, s)
         /\ Done(id, "end") => HcclRecord(id, k, s, e)' = HcclRecord(id, k, s, e)
<1>1. Done(id, "start") => StartedOp(id, k, s)' = StartedOp(id, k, s)
  <2>1. Done(id, "start") => DeviceTime(id, "start", s, s)' = DeviceTime(id, "start", s, s)
    BY SameTimes DEF Done, Flags
  <2>2. QED
    BY <2>1 DEF StartedOp
<1>2. ASSUME Done(id, "end")
      PROVE  HcclRecord(id, k, s, e)' = HcclRecord(id, k, s, e)
  <2>1. truth'[id] = truth[id]
    BY <1>2 DEF Done, SameReads
  <2>2. /\ DeviceTime(id, "start", s, s)' = DeviceTime(id, "start", s, s)
        /\ DeviceTime(id, "end", s, e)' = DeviceTime(id, "end", s, e)
    BY <2>1 DEF DeviceTime, With, RealTime, Offset
  <2>3. StartedOp(id, k, s)' = StartedOp(id, k, s)
    BY <2>2 DEF StartedOp
  <2>4. EndedOp(id, k, s, e)' = EndedOp(id, k, s, e)
    BY <2>2, <2>3 DEF EndedOp
  <2>5. QED
    BY <2>4 DEF HcclRecord
<1>3. QED
  BY <1>1, <1>2

(* The part of operators is kept by a step that leaves what is filed of      *)
(* the id.                                                                   *)
LEMMA InnerStays ==
  ASSUME NEW id, NEW k, NEW s, NEW e, Inner(id, k, s, e), SameInner(id)
  PROVE  Inner(id, k, s, e)'
<1>1. SameReads(id) /\ SameReader(id)
  BY DEF SameInner
<1>2. /\ Done(id, "start")' <=> Done(id, "start")
      /\ Done(id, "end")' <=> Done(id, "end")
  BY <1>1, SameDone DEF Flags
<1>3. Traced(id)' <=> Traced(id)
  BY DEF SameInner
<1>4. /\ Done(id, "start") => StartedOp(id, k, s)' = StartedOp(id, k, s)
      /\ Done(id, "end") => HcclRecord(id, k, s, e)' = HcclRecord(id, k, s, e)
  BY <1>1, SameRecord
<1>5. id \in DOMAIN innerMarkIds' => k \in Ops /\ (innerMarkIds'[id] <=> Traced(id)')
  BY <1>3 DEF Inner, SameInner
<1>6. id \in DOMAIN markId2HcclOp' =>
       /\ k \in Ops
       /\ markId2HcclOp'[id].opName = k /\ markId2HcclOp'[id].rankSize = Desc(k).rankSize
       /\ markId2HcclOp'[id].end = None
  BY DEF Inner, SameInner
<1>7. \A t \in Threads : pc'[t] \in {"inner", "op", "run"} /\ call'[t].id = id =>
       /\ k = call'[t].kind /\ NotEnded(id)'
       /\ pc'[t] = "inner" => id \notin DOMAIN innerMarkIds' /\ (call'[t].stream <=> Traced(id)')
       /\ pc'[t] # "run" => id \notin DOMAIN markId2HcclOp'
  BY <1>3 DEF Inner, SameInner
<1>8. \A r \in DOMAIN records' : r.source = "hccl" /\ r.id = id =>
       k \in Ops /\ Done(id, "end")' /\ (id \in missed' \/ r = HcclRecord(id, k, s, e)')
  BY <1>2, <1>4 DEF Inner, SameInner
<1>9. k \in Ops /\ id \notin missed' =>
       /\ Done(id, "start")' /\ ~Done(id, "end")' =>
            id \in DOMAIN markId2HcclOp' /\ markId2HcclOp'[id] = StartedOp(id, k, s)'
       /\ Done(id, "end")' =>
            /\ id \notin DOMAIN markId2HcclOp'
            /\ HcclRecord(id, k, s, e)' \in DOMAIN records'
  <2>1. HcclRecord(id, k, s, e).source = "hccl" /\ HcclRecord(id, k, s, e).id = id
    BY DEF HcclRecord
  <2>2. QED
    BY <1>2, <1>4, <2>1 DEF Inner, SameInner
<1>10. QED
  BY <1>5, <1>6, <1>7, <1>8, <1>9 DEF Inner

(* Nothing of an id changes.                                                 *)
Same(id) ==
  /\ SameMarks(id) /\ SameReader(id)
  /\ \A r : r.id = id => (r \in DOMAIN records' <=> r \in DOMAIN records)
  /\ id \in given' <=> id \in given
  /\ id \in DOMAIN markId2Context' <=> id \in DOMAIN markId2Context
  /\ id \in DOMAIN markId2Context => markId2Context'[id] = markId2Context[id]
  /\ id \in DOMAIN deviceMarkId2Context' <=> id \in DOMAIN deviceMarkId2Context
  /\ id \in DOMAIN deviceMarkId2Context => deviceMarkId2Context'[id] = deviceMarkId2Context[id]
  /\ id \in DOMAIN innerMarkIds' <=> id \in DOMAIN innerMarkIds
  /\ id \in DOMAIN innerMarkIds => innerMarkIds'[id] = innerMarkIds[id]
  /\ id \in DOMAIN markId2HcclOp' <=> id \in DOMAIN markId2HcclOp
  /\ id \in DOMAIN markId2HcclOp => markId2HcclOp'[id] = markId2HcclOp[id]
  /\ id \in missed => id \in missed'

(* The threads that have an id keep it.                                      *)
SameOwners(id) ==
  \A t \in Threads : Owns(t, id)' =>
    /\ Owns(t, id) /\ pc'[t] = pc[t] /\ call'[t].kind = call[t].kind
    /\ call'[t].time = call[t].time /\ call'[t].stream = call[t].stream

(* The whole account of an id that a step does not touch.                    *)
LEMMA AccountStays ==
  ASSUME NEW id, NEW k, NEW h, NEW s, NEW e, Account(id, k, h, s, e), Same(id), SameOwners(id),
         Types, clock' \in Nat, clock' >= clock
  PROVE  Account(id, k, h, s, e)'
<1>1. Trace(id, k)'
  BY TraceStays DEF Account, Same, SameMarks, Types, Traced
<1>2. SameHost(id)
  BY DEF SameHost, Same, SameMarks, SameOwners, Owns
<1>3. SameReads(id)
  BY MarksAndReads DEF Same
<1>4. SameDevice(id)
  BY <1>3 DEF SameDevice, Same
<1>5. SameInner(id)
  BY <1>3 DEF SameInner, Same, SameMarks, SameOwners, Owns, NotEnded
<1>6. QED
  BY <1>1, <1>2, <1>4, <1>5, HostStays, DeviceStays, InnerStays DEF Account, Types

(* A step that touches no id keeps every account.                            *)
LEMMA AccountsStay ==
  ASSUME Accounts, Types, clock' \in Nat, clock' >= clock, gMarkId' = gMarkId,
         \A id \in Marked : Same(id) /\ SameOwners(id)
  PROVE  Accounts'
<1> SUFFICES ASSUME NEW id \in Marked
             PROVE  \E k \in Calls \cup Ops, h, s, e \in Nat : Account(id, k, h, s, e)'
  BY DEF Accounts, Marked
<1>1. PICK k \in Calls \cup Ops, h \in Nat, s \in Nat, e \in Nat : Account(id, k, h, s, e)
  BY DEF Accounts
<1>2. QED
  BY <1>1, AccountStays

(* All accounts but that of one id stay.                                     *)
LEMMA AccountsChange ==
  ASSUME Accounts, Types, clock' \in Nat, clock' >= clock, NEW x,
         Marked' \subseteq Marked \cup {x},
         \A id \in Marked \ {x} : Same(id) /\ SameOwners(id),
         \E k \in Calls \cup Ops, h, s, e \in Nat : Account(x, k, h, s, e)'
  PROVE  Accounts'
<1> SUFFICES ASSUME NEW id \in Marked'
             PROVE  \E k \in Calls \cup Ops, h, s, e \in Nat : Account(id, k, h, s, e)'
  BY DEF Accounts
<1>1. CASE id = x
  BY <1>1
<1>2. CASE id # x
  <2>1. id \in Marked
    BY <1>2
  <2>2. PICK k \in Calls \cup Ops, h \in Nat, s \in Nat, e \in Nat : Account(id, k, h, s, e)
    BY <2>1 DEF Accounts
  <2>3. QED
    BY <1>2, <2>1, <2>2, AccountStays
<1>3. QED
  BY <1>1, <1>2

SameCall(t) ==
  /\ pc'[t] = pc[t] /\ call'[t].kind = call[t].kind /\ call'[t].id = call[t].id
  /\ call'[t].time = call[t].time /\ call'[t].stream = call[t].stream

(* A step that only moves threads which have no id, and gives them none.     *)
LEMMA IdsStay ==
  ASSUME IndInv, clock' = clock, UNCHANGED <<gMarkId, hostVars, markId2HcclOp, readerVars, channel>>,
         UNCHANGED <<records, given, truth>>, missed \subseteq missed',
         \A t \in Threads : pc'[t] \in {"record", "inner", "op", "run"} => SameCall(t)
  PROVE  Owners' /\ Channel' /\ Accounts'
<1>1. \A t \in Threads : \A id : Owns(t, id)' => Owns(t, id)
  BY DEF Owns, SameCall
<1>2. Owners'
  BY <1>1 DEF IndInv, Owners, Marked
<1>3. Channel'
  BY DEF IndInv, Channel, Traced
<1>4. \A id : Same(id)
  BY DEF Same, SameMarks, SameReader, Traced, Unread, hostVars, readerVars
<1>5. \A id : SameOwners(id)
  BY DEF SameOwners, Owns, SameCall
<1>6. clock \in Nat /\ clock' >= clock
  BY DEF IndInv, Types
<1>7. Accounts'
  BY <1>4, <1>5, <1>6, AccountsStay DEF IndInv
<1>8. QED
  BY <1>2, <1>3, <1>7

(* A thread that a step does not touch keeps its place and its call.         *)
LEMMA CallFitsStays ==
  ASSUME NEW t \in Threads, CallFits(t), pc'[t] = pc[t], call'[t] = call[t],
         Len(domains) \in Nat, Len(domains') \in Nat, Len(domains') >= Len(domains),
         given \subseteq given', gMarkId \in Nat, gMarkId' \in Nat, gMarkId' >= gMarkId
  PROVE  CallFits(t)'
  BY DEF CallFits, Marked

(* What a call has heard stays true while the domains stay.                  *)
LEMMA HeardStays ==
  ASSUME NEW t \in Threads, Heard(t), pc'[t] = pc[t], call'[t] = call[t],
         UNCHANGED <<domains, disableDomains>>
  PROVE  Heard(t)'
  BY DEF Heard

(* A step that leaves all that is typed, but the places and the calls.       *)
LEMMA TypesStay ==
  ASSUME Types, UNCHANGED <<marker, hccl, domains, disableDomains, gMarkId, clock>>,
         UNCHANGED <<hostVars, markId2HcclOp, readerVars, channel, records, given, truth>>,
         hostTime' \in Nat, devTime' \in Nat,
         pc' \in [Threads -> Places], call' \in [Threads -> CallSet \cup {NoCall}]
  PROVE  Types'
  BY DEF Types, hostVars, readerVars, Marked

-----------------------------------------------------------------------------
(* The steps.                                                                *)

(* The invariant holds at the start.                                         *)
LEMMA InitHolds == Init => IndInv
<1> SUFFICES ASSUME Init PROVE IndInv
  OBVIOUS
<1>1. Types
  <2>1. domains \in Seq(DomainSet)
    BY DEF Init, DomainSet, AllNames
  <2>2. IsABag(records) /\ DOMAIN records = {}
    BY DEF Init, IsABag, EmptyBag, SetToBag
  <2>3. channel \in Seq(StepSet)
    BY DEF Init
  <2>4. QED
    BY <2>1, <2>2, <2>3 DEF Init, Types, Marked, Places, None
<1>2. \A t \in Threads : CallFits(t)
  BY DEF Init, CallFits
<1>3. Bounded
  <2>1. Pending = {} /\ Working = {}
    BY DEF Init, Pending, Working
  <2>2. QED
    BY <2>1, FS_EmptySet, MarkersAssumption DEF Init, Bounded, None
<1>4. Silent
  BY DEF Init, Silent, Heard
<1>5. Owners /\ Channel
  BY DEF Init, Owners, Owns, Channel
<1>6. Accounts
  BY DEF Init, Accounts, Marked
<1>7. QED
  BY <1>1, <1>2, <1>3, <1>4, <1>5, <1>6 DEF IndInv

(* A switched kind changes what will be recorded, not what was.              *)
LEMMA SwitchStep == IndInv /\ Switch => IndInv'
<1> SUFFICES ASSUME IndInv, Switch PROVE IndInv'
  OBVIOUS
<1>1. /\ marker' \in BOOLEAN /\ hccl' \in BOOLEAN
      /\ UNCHANGED <<domainVars, gMarkId, hostVars, markId2HcclOp, readerVars, timeVars,
                     channel, clock, records, callVars, calls, given, truth, missed, leaked>>
  BY DEF Switch, IndInv, Types
<1>2. Types'
  BY <1>1 DEF IndInv, Types, domainVars, hostVars, readerVars, timeVars, callVars, Marked
<1>3. \A t \in Threads : CallFits(t)'
  BY <1>1 DEF IndInv, CallFits, domainVars, callVars, Marked
<1>4. Bounded'
  BY <1>1 DEF IndInv, Bounded, callVars, timeVars, Pending, Working
<1>5. Silent'
  BY <1>1 DEF IndInv, Silent, Heard, domainVars, callVars
<1>6. Owners' /\ Channel' /\ Accounts'
  BY <1>1, IdsStay DEF callVars, SameCall
<1>7. QED
  BY <1>2, <1>3, <1>4, <1>5, <1>6 DEF IndInv

(* New time information leaves the times that are kept.                      *)
LEMMA SynchroniseStep == IndInv /\ Synchronise => IndInv'
<1> SUFFICES ASSUME IndInv, Synchronise PROVE IndInv'
  OBVIOUS
<1>1. /\ UNCHANGED <<kindVars, domainVars, gMarkId, hostVars, markId2HcclOp, readerVars,
                     channel, clock, records, callVars, calls, given, truth, missed, leaked>>
      /\ syncs < MaxSyncs /\ syncs' = syncs + 1
      /\ hostTime' \in {hostTime, hostTime + 1} /\ devTime' \in {devTime, devTime + 1}
  BY DEF Synchronise
<1>2. Types'
  BY <1>1 DEF IndInv, Types, kindVars, domainVars, hostVars, readerVars, callVars, Marked
<1>3. \A t \in Threads : CallFits(t)'
  BY <1>1 DEF IndInv, CallFits, domainVars, callVars, Marked
<1>4. Bounded'
  BY <1>1, MarkersAssumption DEF IndInv, Types, Bounded, callVars, Pending, Working
<1>5. Silent'
  BY <1>1 DEF IndInv, Silent, Heard, domainVars, callVars
<1>6. Owners' /\ Channel' /\ Accounts'
  BY <1>1, IdsStay DEF callVars, SameCall
<1>7. QED
  BY <1>2, <1>3, <1>4, <1>5, <1>6 DEF IndInv

(* A call of the domain manager changes no place, and of the calls at most   *)
(* for which domains they are quiet.                                         *)
DomainsChange ==
  /\ UNCHANGED <<kindVars, gMarkId, hostVars, markId2HcclOp, readerVars, timeVars,
                 channel, clock, records, pc, calls, given, truth, missed, leaked>>
  /\ domains' \in Seq(DomainSet) /\ Len(domains') >= Len(domains) /\ domains # <<>>
  /\ disableDomains' \subseteq AllNames
  /\ call' \in [Threads -> CallSet \cup {NoCall}]
  /\ \A t \in Threads : \/ call'[t] = call[t]
                        \/ /\ call[t] # NoCall
                           /\ \E q \in SUBSET AllNames : call'[t] = [call[t] EXCEPT !.quiet = q]

(* A change of domains keeps a domain enabled exactly while its name is.     *)
LEMMA DomainsStep ==
  ASSUME IndInv, DomainsChange
  PROVE  /\ Types' /\ (\A t \in Threads : CallFits(t)') /\ Bounded'
         /\ Owners' /\ Channel' /\ Accounts'
<1>1. Types'
  BY DEF IndInv, DomainsChange, Types, kindVars, hostVars, readerVars, timeVars, Marked
<1>2. \A t \in Threads : /\ call[t] = NoCall => call'[t] = NoCall
                         /\ call[t] # NoCall =>
                              /\ call[t] \in CallSet /\ call'[t] \in CallSet /\ call'[t] # NoCall
                              /\ SameCall(t) /\ call'[t].via = call[t].via
                              /\ call'[t].name = call[t].name
  <2> SUFFICES ASSUME NEW t \in Threads
               PROVE  /\ call[t] = NoCall => call'[t] = NoCall
                      /\ call[t] # NoCall =>
                           /\ call[t] \in CallSet /\ call'[t] \in CallSet /\ call'[t] # NoCall
                           /\ SameCall(t) /\ call'[t].via = call[t].via
                           /\ call'[t].name = call[t].name
    OBVIOUS
  <2>1. call[t] \in CallSet \cup {NoCall}
    BY DEF IndInv, Types
  <2>2. CASE call'[t] = call[t]
    BY <2>1, <2>2 DEF DomainsChange, SameCall
  <2>3. CASE call'[t] # call[t]
    <3>1. call[t] \in CallSet
      BY <2>1, <2>3 DEF DomainsChange
    <3>2. PICK q \in SUBSET AllNames : call'[t] = [call[t] EXCEPT !.quiet = q]
      BY <2>3 DEF DomainsChange
    <3>3. call'[t] \in CallSet
      BY <3>1, <3>2 DEF CallSet
    <3>4. SameCall(t) /\ call'[t].via = call[t].via /\ call'[t].name = call[t].name
      BY <3>1, <3>2 DEF CallSet, SameCall, DomainsChange
    <3>5. call[t] # NoCall /\ call'[t] # NoCall
      BY <3>1, <3>3, NoCallIsNone
    <3>6. QED
      BY <3>1, <3>3, <3>4, <3>5
  <2>4. QED
    BY <2>2, <2>3
<1>3. \A t \in Threads : CallFits(t)'
  <2> SUFFICES ASSUME NEW t \in Threads PROVE CallFits(t)'
    OBVIOUS
  <2>1. Len(domains) \in Nat /\ Len(domains') \in Nat /\ CallFits(t)
    BY DEF IndInv, Types, DomainsChange
  <2>2. CASE pc[t] = "idle"
    BY <1>2, <2>1, <2>2 DEF CallFits, DomainsChange
  <2>3. CASE pc[t] # "idle"
    BY <1>2, <2>1, <2>3 DEF CallFits, DomainsChange, SameCall, Marked
  <2>4. QED
    BY <2>2, <2>3
<1>4. Bounded'
  BY DEF IndInv, Bounded, DomainsChange, timeVars, Pending, Working
<1>5. \A t \in Threads : pc'[t] \in {"record", "inner", "op", "run"} => SameCall(t)
  BY <1>2 DEF IndInv, CallFits, DomainsChange
<1>6. Owners' /\ Channel' /\ Accounts'
  BY <1>5, IdsStay DEF DomainsChange
<1>7. QED
  BY <1>1, <1>3, <1>4, <1>6

(* Creating, destroying and switching domains keep this.                     *)
LEMMA DomainCallStep == IndInv /\ DomainCall => IndInv'
<1> SUFFICES ASSUME IndInv, DomainCall PROVE IndInv'
  OBVIOUS
<1>1. UNCHANGED <<kindVars, gMarkId, hostVars, markId2HcclOp, readerVars, timeVars,
                  channel, clock, records, pc, calls, given, truth, missed, leaked>>
  BY DEF DomainCall
<1>2. /\ domains \in Seq(DomainSet) /\ domains # <<>> /\ disableDomains \subseteq AllNames
      /\ call \in [Threads -> CallSet \cup {NoCall}] /\ Len(domains) \in Nat
      /\ \A t \in Threads : CallFits(t) /\ Heard(t)
  BY DEF IndInv, Types, Silent
<1>3. ASSUME NEW name \in Names, CreateDomainHandle(name)
      PROVE  IndInv'
  <2>1. UNCHANGED <<disableDomains, call>>
    BY <1>3 DEF CreateDomainHandle
  <2>2. /\ domains' \in Seq(DomainSet) /\ Len(domains') >= Len(domains)
        /\ \A d \in DOMAIN domains : domains'[d].name = domains[d].name
        /\ \A d \in DOMAIN domains' : domains'[d].isEnabled <=> domains'[d].name \notin disableDomains
    <3>1. CASE domains' = Append(domains, NewDomain(name))
      <4>1. NewDomain(name) \in DomainSet
        BY DEF NewDomain, DomainSet, AllNames
      <4>2. /\ NewDomain(name).isEnabled <=> NewDomain(name).name \notin disableDomains
        BY DEF NewDomain
      <4>3. QED
        BY <1>2, <3>1, <4>1, <4>2 DEF IndInv, Silent
    <3>2. CASE \E d \in 2 .. Len(domains) : domains' = [domains EXCEPT ![d].isDestroyed = FALSE]
      <4>1. PICK d \in 2 .. Len(domains) : domains' = [domains EXCEPT ![d].isDestroyed = FALSE]
        BY <3>2
      <4>2. PICK x : x = [domains[d] EXCEPT !.isDestroyed = FALSE]
        OBVIOUS
      <4>3. d \in 1 .. Len(domains) /\ domains[d] \in DomainSet
        BY <1>2
      <4>4. x \in DomainSet /\ x.name = domains[d].name /\ x.isEnabled = domains[d].isEnabled
        BY <4>2, <4>3 DEF DomainSet
      <4>5. domains' = [domains EXCEPT ![d] = x]
        BY <4>1, <4>2
      <4>6. QED
        BY <1>2, <4>3, <4>4, <4>5 DEF IndInv, Silent
    <3>3. QED
      BY <1>3, <3>1, <3>2 DEF CreateDomainHandle
  <2>3. DomainsChange
    BY <1>1, <1>2, <2>1, <2>2 DEF DomainsChange
  <2>4. \A t \in Threads : Heard(t)'
    BY <1>1, <1>2, <2>1, <2>2 DEF Heard, CallFits, ByName
  <2>5. Silent'
    BY <1>1, <1>2, <2>1, <2>2, <2>4 DEF IndInv, Silent
  <2>6. QED
    BY <2>3, <2>5, DomainsStep DEF IndInv
<1>4. ASSUME NEW d \in 2 .. Len(domains), DestroyDomainHandle(d)
      PROVE  IndInv'
  <2>1. UNCHANGED <<disableDomains, call>> /\ domains' = [domains EXCEPT ![d].isDestroyed = TRUE]
    BY <1>4 DEF DestroyDomainHandle
  <2>2. /\ domains' \in Seq(DomainSet) /\ Len(domains') >= Len(domains)
        /\ \A c \in DOMAIN domains : domains'[c].name = domains[c].name
        /\ \A c \in DOMAIN domains' : domains'[c].isEnabled <=> domains'[c].name \notin disableDomains
    <3>1. PICK x : x = [domains[d] EXCEPT !.isDestroyed = TRUE]
      OBVIOUS
    <3>2. d \in 1 .. Len(domains) /\ domains[d] \in DomainSet
      BY <1>2
    <3>3. x \in DomainSet /\ x.name = domains[d].name /\ x.isEnabled = domains[d].isEnabled
      BY <3>1, <3>2 DEF DomainSet
    <3>4. domains' = [domains EXCEPT ![d] = x]
      BY <2>1, <3>1
    <3>5. QED
      BY <1>2, <3>2, <3>3, <3>4 DEF IndInv, Silent
  <2>3. DomainsChange
    BY <1>1, <1>2, <2>1, <2>2 DEF DomainsChange
  <2>4. \A t \in Threads : Heard(t)'
    BY <1>1, <1>2, <2>1, <2>2 DEF Heard, CallFits, ByName
  <2>5. Silent'
    BY <1>1, <1>2, <2>1, <2>2, <2>4 DEF IndInv, Silent
  <2>6. QED
    BY <2>3, <2>5, DomainsStep DEF IndInv
<1>5. ASSUME NEW name \in AllNames, NEW flag \in BOOLEAN, SetMstxDomainEnableStatus(name, flag)
      PROVE  IndInv'
  <2>1. disableDomains' = (IF flag THEN disableDomains \ {name} ELSE disableDomains \cup {name})
    BY <1>5 DEF SetMstxDomainEnableStatus
  <2>2. /\ domains' \in Seq(DomainSet) /\ Len(domains') >= Len(domains)
        /\ domains' # <<>> /\ DOMAIN domains' = DOMAIN domains
        /\ \A c \in DOMAIN domains : domains'[c].name = domains[c].name
        /\ \A c \in DOMAIN domains' : domains'[c].isEnabled <=> domains'[c].name \notin disableDomains'
    <3> DEFINE New(c) == IF domains[c].name = name THEN [domains[c] EXCEPT !.isEnabled = flag]
                                                   ELSE domains[c]
    <3>1. \A c \in 1 .. Len(domains) :
            /\ New(c) \in DomainSet /\ New(c).name = domains[c].name
            /\ New(c).isEnabled <=> New(c).name \notin disableDomains'
      <4> SUFFICES ASSUME NEW c \in 1 .. Len(domains)
                   PROVE  /\ New(c) \in DomainSet /\ New(c).name = domains[c].name
                          /\ New(c).isEnabled <=> New(c).name \notin disableDomains'
        OBVIOUS
      <4>1. domains[c] \in DomainSet /\ (domains[c].isEnabled <=> domains[c].name \notin disableDomains)
        BY <1>2 DEF IndInv, Silent
      <4>2. CASE domains[c].name = name
        BY <2>1, <4>1, <4>2 DEF DomainSet
      <4>3. CASE domains[c].name # name
        BY <2>1, <4>1, <4>3 DEF DomainSet
      <4>4. QED
        BY <4>2, <4>3
    <3>2. domains' = [c \in 1 .. Len(domains) |-> New(c)]
      BY <1>2, <1>5 DEF SetMstxDomainEnableStatus
    <3> HIDE DEF New
    <3>3. domains' \in Seq(DomainSet) /\ Len(domains') = Len(domains)
      BY <1>2, <3>1, <3>2
    <3>4. QED
      BY <1>2, <3>1, <3>2, <3>3
  <2>3. \A t \in Threads :
          call'[t] = IF call[t] = NoCall \/ ~flag THEN call[t]
                     ELSE [call[t] EXCEPT !.quiet = call[t].quiet \ {name}]
    BY <1>5 DEF SetMstxDomainEnableStatus
  <2>4. \A t \in Threads : call[t] # NoCall =>
          call[t] \in CallSet /\ call[t].quiet \ {name} \in SUBSET AllNames
    BY <1>2 DEF CallSet
  <2>5. \A t \in Threads : call'[t] \in CallSet \cup {NoCall}
    <3> SUFFICES ASSUME NEW t \in Threads PROVE call'[t] \in CallSet \cup {NoCall}
      OBVIOUS
    <3>1. CASE call[t] = NoCall \/ ~flag
      BY <1>2, <2>3, <3>1
    <3>2. CASE call[t] # NoCall /\ flag
      BY <2>3, <2>4, <3>2 DEF CallSet
    <3>3. QED
      BY <3>1, <3>2
  <2>6. call' \in [Threads -> CallSet \cup {NoCall}]
    BY <1>5, <2>5 DEF SetMstxDomainEnableStatus
  <2>7. disableDomains' \subseteq AllNames
    BY <1>2, <2>1
  <2>8. DomainsChange
    BY <1>1, <1>2, <2>2, <2>3, <2>4, <2>6, <2>7 DEF DomainsChange
  <2>9. \A t \in Threads : Heard(t)'
    <3> SUFFICES ASSUME NEW t \in Threads, pc[t] # "idle" PROVE Heard(t)'
      BY <1>1 DEF Heard
    <3>1. call[t] # NoCall /\ call[t] \in CallSet /\ Heard(t) /\ CallFits(t)
      BY <1>2, <2>4 DEF CallFits
    <3>2. /\ call'[t].name = call[t].name /\ call'[t].kind = call[t].kind
          /\ call'[t].via = call[t].via /\ call'[t].quiet \subseteq call[t].quiet
          /\ call'[t].quiet \subseteq disableDomains'
      <4>1. CASE ~flag
        BY <2>1, <2>3, <3>1, <4>1 DEF Heard
      <4>2. CASE flag
        <5>1. PICK c \in CallSet : c = call[t]
          BY <3>1
        <5>2. call'[t] = [c EXCEPT !.quiet = c.quiet \ {name}]
          BY <2>3, <3>1, <4>2, <5>1
        <5>3. /\ call'[t].name = c.name /\ call'[t].kind = c.kind /\ call'[t].via = c.via
              /\ call'[t].quiet = c.quiet \ {name}
          BY <5>2 DEF CallSet
        <5>4. c.quiet \subseteq disableDomains
          BY <3>1, <5>1 DEF Heard
        <5>5. call'[t].quiet \subseteq disableDomains'
          BY <2>1, <4>2, <5>3, <5>4
        <5>6. QED
          BY <5>1, <5>3, <5>5
      <4>3. QED
        BY <4>1, <4>2
    <3>3. pc[t] = "name" => domains'[call[t].via].name = domains[call[t].via].name
      BY <1>2, <2>2, <3>1 DEF CallFits, ByName
    <3>4. QED
      BY <1>1, <3>1, <3>2, <3>3 DEF Heard
  <2>10. Silent'
    BY <1>1, <2>2, <2>9 DEF IndInv, Silent
  <2>11. QED
    BY <2>8, <2>10, DomainsStep DEF IndInv
<1>6. QED
  BY <1>3, <1>4, <1>5 DEF DomainCall, AllNames

(* One thread moves to a place, with a call of its own.                      *)
Moves(t, p, c) == pc' = [pc EXCEPT ![t] = p] /\ call' = [call EXCEPT ![t] = c]

(* The place of one thread changes and no other's.                           *)
LEMMA MovesFacts ==
  ASSUME Types, NEW t \in Threads, NEW p \in Places, NEW c \in CallSet \cup {NoCall}, Moves(t, p, c)
  PROVE  /\ pc' \in [Threads -> Places] /\ call' \in [Threads -> CallSet \cup {NoCall}]
         /\ pc'[t] = p /\ call'[t] = c
         /\ \A u \in Threads \ {t} : pc'[u] = pc[u] /\ call'[u] = call[u]
  BY DEF Types, Moves

(* A thread that leaves has nothing left to take.                            *)
LEMMA LeaveMoves ==
  ASSUME NEW t \in Threads, Leave(t)
  PROVE  Moves(t, "idle", NoCall)
  BY DEF Leave, Goto, Moves

(* What is said of every thread holds when it holds of the one that moves.   *)
LEMMA ThreadsFit ==
  ASSUME IndInv, NEW t \in Threads, CallFits(t)', Heard(t)',
         \A u \in Threads \ {t} : pc'[u] = pc[u] /\ call'[u] = call[u],
         UNCHANGED domainVars, UNCHANGED leaked,
         given \subseteq given', gMarkId' \in Nat, gMarkId' >= gMarkId
  PROVE  (\A u \in Threads : CallFits(u)') /\ Silent'
<1>1. Len(domains) \in Nat /\ Len(domains') \in Nat /\ Len(domains') >= Len(domains)
  BY DEF IndInv, Types, domainVars
<1>2. \A u \in Threads \ {t} : CallFits(u)'
  BY <1>1, CallFitsStays DEF IndInv, Types, domainVars
<1>3. \A u \in Threads \ {t} : Heard(u)'
  BY HeardStays DEF IndInv, Silent, domainVars
<1>4. QED
  BY <1>2, <1>3 DEF IndInv, Silent, domainVars

(* An idle thread has no call.                                               *)
LEMMA IdleFits ==
  ASSUME NEW t \in Threads, pc'[t] = "idle", call'[t] = NoCall
  PROVE  CallFits(t)' /\ Heard(t)'
  BY DEF CallFits, Heard

(* The bounds, when a thread moves.                                          *)
LEMMA BoundsMove ==
  ASSUME Types, Bounded, NEW t \in Threads, NEW p \in Places, pc' = [pc EXCEPT ![t] = p],
         UNCHANGED timeVars, calls' \in Nat, calls' <= MaxCalls,
         gMarkId' \in Nat, clock' \in Nat,
         gMarkId' + Takes(p) + calls <= gMarkId + Takes(pc[t]) + calls',
         clock' + Marks(p) + 2 * calls <= clock + Marks(pc[t]) + 2 * calls'
  PROVE  Bounded'
<1>1. /\ IsFiniteSet(Pending)' /\ IsFiniteSet(Working)'
      /\ Cardinality(Pending) \in Nat /\ Cardinality(Working) \in Nat
      /\ Cardinality(Pending)' \in Nat /\ Cardinality(Working)' \in Nat
      /\ Cardinality(Pending)' = Cardinality(Pending) + Takes(p) - Takes(pc[t])
      /\ Cardinality(Working)' = Cardinality(Working) + Marks(p) - Marks(pc[t])
  BY ThreadMoves
<1>2. Takes(p) \in Nat /\ Takes(pc[t]) \in Nat /\ Marks(p) \in Nat /\ Marks(pc[t]) \in Nat
  BY DEF Takes, Marks
<1>3. gMarkId \in Nat /\ clock \in Nat /\ calls \in Nat
  BY DEF Types, Bounded
<1>4. /\ gMarkId' + Cardinality(Pending)' <= calls'
      /\ clock' + Cardinality(Working)' <= 2 * calls'
  BY <1>1, <1>2, <1>3 DEF Bounded
<1>5. QED
  BY <1>1, <1>4 DEF Bounded, timeVars

(* A call begins; what is disabled then is what it must respect.             *)
LEMMA EnterStep ==
  ASSUME IndInv, NEW t \in Threads, Enter(t)
  PROVE  IndInv'
<1>1. /\ pc[t] = "idle" /\ calls < MaxCalls /\ calls' = calls + 1
      /\ UNCHANGED <<kindVars, domainVars, gMarkId, hostVars, markId2HcclOp, readerVars,
                     timeVars, channel, clock, records, given, truth, missed, leaked>>
  BY DEF Enter
<1>2. PICK via \in {ByName} \cup 2 .. Len(domains), kind \in Calls \cup {"end"},
           stream \in BOOLEAN, id \in {None} \cup given :
        /\ Moves(t, "domain", Call(kind, via, stream, id))
        /\ kind = "end" => id \in given
  <2>1. pc' = [pc EXCEPT ![t] = "domain"]
    BY DEF Enter, Goto
  <2>2. PICK via \in {ByName} \cup 2 .. Len(domains) :
          \/ \E kind \in Calls, stream \in BOOLEAN :
               call' = [call EXCEPT ![t] = Call(kind, via, stream, None)]
          \/ \E id \in given : call' = [call EXCEPT ![t] = Call("end", via, NoStream, id)]
    BY DEF Enter
  <2>3. CASE \E kind \in Calls, stream \in BOOLEAN :
               call' = [call EXCEPT ![t] = Call(kind, via, stream, None)]
    <3>1. PICK kind \in Calls, stream \in BOOLEAN :
            call' = [call EXCEPT ![t] = Call(kind, via, stream, None)]
      BY <2>3
    <3>2. Moves(t, "domain", Call(kind, via, stream, None)) /\ kind # "end"
      BY <2>1, <3>1 DEF Moves, Calls
    <3>3. QED
      BY <3>2
  <2>4. CASE \E id \in given : call' = [call EXCEPT ![t] = Call("end", via, NoStream, id)]
    <3>1. PICK id \in given : call' = [call EXCEPT ![t] = Call("end", via, NoStream, id)]
      BY <2>4
    <3>2. Moves(t, "domain", Call("end", via, NoStream, id)) /\ NoStream \in BOOLEAN
      BY <2>1, <3>1 DEF Moves, NoStream
    <3>3. QED
      BY <3>2
  <2>5. QED
    BY <2>2, <2>3, <2>4
<1>3. PICK c : c = Call(kind, via, stream, id)
  OBVIOUS
<1>4. Types /\ Len(domains) \in Nat /\ gMarkId \in Nat /\ given \subseteq Marked
  BY DEF IndInv, Types
<1>5. /\ c \in CallSet /\ c.kind = kind /\ c.via = via /\ c.id = id /\ c.name = Default
      /\ c.quiet = disableDomains
  <2>1. via \in Nat /\ id \in Nat
    BY <1>4 DEF ByName, None, Marked
  <2>2. disableDomains \subseteq AllNames /\ Default \in AllNames
    BY <1>4 DEF Types, AllNames
  <2>3. QED
    BY <1>3, <2>1, <2>2 DEF Call, CallSet, None
<1>6. /\ pc' \in [Threads -> Places] /\ call' \in [Threads -> CallSet \cup {NoCall}]
      /\ pc'[t] = "domain" /\ call'[t] = c
      /\ \A u \in Threads \ {t} : pc'[u] = pc[u] /\ call'[u] = call[u]
  BY <1>2, <1>3, <1>4, <1>5, MovesFacts DEF Places
<1>7. Types'
  BY <1>1, <1>4, <1>6, TypesStay DEF Types, kindVars, domainVars, timeVars
<1>8. CallFits(t)' /\ Heard(t)'
  BY <1>1, <1>2, <1>5, <1>6, NoCallIsNone DEF CallFits, Heard, domainVars, Calls
<1>9. (\A u \in Threads : CallFits(u)') /\ Silent'
  BY <1>1, <1>4, <1>6, <1>8, ThreadsFit
<1>10. Bounded'
  <2>1. calls \in Nat /\ MaxCalls \in Nat
    BY MarkersAssumption DEF IndInv, Bounded
  <2>2. /\ Takes("domain") = 1 /\ Takes(pc[t]) = 0
        /\ Marks("domain") = 1 /\ Marks(pc[t]) = 0
    BY <1>1 DEF Takes, Marks
  <2>3. pc' = [pc EXCEPT ![t] = "domain"] /\ "domain" \in Places
    BY <1>2 DEF Moves, Places
  <2>4. clock \in Nat /\ Bounded
    BY <1>4 DEF Types, IndInv
  <2>5. /\ calls' \in Nat /\ calls' <= MaxCalls /\ UNCHANGED timeVars
        /\ gMarkId' \in Nat /\ clock' \in Nat
        /\ gMarkId' + Takes("domain") + calls <= gMarkId + Takes(pc[t]) + calls'
        /\ clock' + Marks("domain") + 2 * calls <= clock + Marks(pc[t]) + 2 * calls'
    BY <1>1, <1>4, <2>1, <2>2, <2>4
  <2>6. QED
    BY <1>4, <2>3, <2>4, <2>5, BoundsMove
<1>11. Owners' /\ Channel' /\ Accounts'
  BY <1>1, <1>6, IdsStay DEF SameCall
<1>12. QED
  BY <1>7, <1>9, <1>10, <1>11 DEF IndInv

(* The domain of the call is looked up by its handle.                        *)
LEMMA CheckDomainStep ==
  ASSUME IndInv, NEW t \in Threads, CheckDomain(t)
  PROVE  IndInv'
<1>1. /\ pc[t] = "domain"
      /\ UNCHANGED <<kindVars, domainVars, gMarkId, hostVars, markId2HcclOp, readerVars,
                     timeVars, channel, clock, records, calls, given, truth, missed, leaked>>
  BY DEF CheckDomain
<1>2. PICK p \in {"idle", "name", "mark", "range", "end"}, c \in CallSet \cup {NoCall} :
        /\ Moves(t, p, c)
        /\ \/ p = "idle" /\ c = NoCall
           \/ p # "idle" /\ c = call[t] /\ isDomainEnable(c.via)
                /\ p = IF c.via = ByName THEN c.kind ELSE "name"
  <2>1. call[t] \in CallSet /\ call[t].kind \in Calls \cup {"end"}
    BY <1>1 DEF IndInv, CallFits
  <2>2. CASE ~isDomainEnable(call[t].via)
    BY <2>2, LeaveMoves DEF CheckDomain
  <2>3. CASE isDomainEnable(call[t].via)
    <3>1. PICK p : p = IF call[t].via = ByName THEN call[t].kind ELSE "name"
      OBVIOUS
    <3>2. p \in {"name", "mark", "range", "end"}
      BY <2>1, <3>1 DEF Calls
    <3>3. pc' = [pc EXCEPT ![t] = p] /\ call' = call
      BY <2>3, <3>1 DEF CheckDomain, Goto
    <3>4. Moves(t, p, call[t])
      BY <3>3 DEF Moves, IndInv, Types
    <3>5. QED
      BY <2>1, <2>3, <3>1, <3>2, <3>4
  <2>4. QED
    BY <2>2, <2>3
<1>3. Types /\ Len(domains) \in Nat /\ gMarkId \in Nat /\ CallFits(t) /\ Heard(t) /\ p \in Places
  BY DEF IndInv, Types, Silent, Places
<1>4. /\ pc' \in [Threads -> Places] /\ call' \in [Threads -> CallSet \cup {NoCall}]
      /\ pc'[t] = p /\ call'[t] = c
      /\ \A u \in Threads \ {t} : pc'[u] = pc[u] /\ call'[u] = call[u]
  BY <1>2, <1>3, MovesFacts
<1>5. Types'
  BY <1>1, <1>3, <1>4, TypesStay DEF Types, kindVars, domainVars, timeVars
<1>6. CallFits(t)' /\ Heard(t)'
  <2>1. CASE p = "idle"
    BY <1>2, <1>4, <2>1, IdleFits
  <2>2. CASE p # "idle"
    <3>1. c = call[t] /\ isDomainEnable(c.via) /\ p = IF c.via = ByName THEN c.kind ELSE "name"
      BY <1>2, <2>2
    <3>2. CallFits(t)'
      BY <1>1, <1>3, <1>4, <2>2, <3>1 DEF CallFits, domainVars, Calls
    <3>3. c.quiet \subseteq disableDomains /\ c.name = Default
      BY <1>1, <1>3, <3>1 DEF Heard
    <3>4. c.via = ByName => Default \notin c.quiet
      BY <3>1, <3>3 DEF isDomainEnable
    <3>5. c.via # ByName => domains[c.via].name \notin c.quiet
      <4>1. c.via # ByName => c.via \in DOMAIN domains
        BY <1>1, <1>3, <3>1 DEF CallFits, ByName, Types
      <4>2. QED
        BY <3>1, <3>3, <4>1 DEF isDomainEnable, IndInv, Silent
    <3>6. Heard(t)'
      <4>1. domains' = domains /\ disableDomains' = disableDomains
        BY <1>1 DEF domainVars
      <4>2. CASE c.via = ByName
        <5>1. p \notin {"domain", "name"} /\ c.name \notin c.quiet
          BY <1>2, <1>3, <1>1, <3>1, <3>3, <3>4, <4>2 DEF CallFits, Calls
        <5>2. QED
          BY <1>4, <3>3, <4>1, <5>1 DEF Heard
      <4>3. CASE c.via # ByName
        <5>1. p = "name" /\ "name" \notin Calls \cup {"record"}
          BY <3>1, <4>3 DEF Calls
        <5>2. QED
          BY <1>4, <3>3, <3>5, <4>1, <4>3, <5>1 DEF Heard
      <4>4. QED
        BY <4>2, <4>3
    <3>7. QED
      BY <3>2, <3>6
  <2>3. QED
    BY <2>1, <2>2
<1>7. (\A u \in Threads : CallFits(u)') /\ Silent'
  BY <1>1, <1>3, <1>4, <1>6, ThreadsFit
<1>8. Bounded'
  <2>1. Takes(p) <= 1 /\ Takes(pc[t]) = 1 /\ Marks(p) <= 1 /\ Marks(pc[t]) = 1
        /\ Takes(p) \in Nat /\ Marks(p) \in Nat
    BY <1>1 DEF Takes, Marks
  <2>2. clock \in Nat /\ calls \in Nat /\ calls <= MaxCalls /\ pc' = [pc EXCEPT ![t] = p]
    BY <1>2, <1>3 DEF Types, IndInv, Bounded, Moves
  <2>3. /\ calls' \in Nat /\ calls' <= MaxCalls /\ UNCHANGED timeVars
        /\ gMarkId' \in Nat /\ clock' \in Nat
        /\ gMarkId' + Takes(p) + calls <= gMarkId + Takes(pc[t]) + calls'
        /\ clock' + Marks(p) + 2 * calls <= clock + Marks(pc[t]) + 2 * calls'
    BY <1>1, <1>3, <2>1, <2>2
  <2>4. Bounded
    BY DEF IndInv
  <2>5. QED
    BY <1>3, <2>2, <2>3, <2>4, BoundsMove
<1>9. Owners' /\ Channel' /\ Accounts'
  BY <1>1, <1>2, <1>4, IdsStay DEF SameCall
<1>10. QED
  BY <1>5, <1>7, <1>8, <1>9 DEF IndInv

(* A destroyed domain ends the call; the others give their name.             *)
LEMMA GetDomainNameStep ==
  ASSUME IndInv, NEW t \in Threads, GetDomainNameByHandle(t)
  PROVE  IndInv'
<1>1. /\ pc[t] = "name"
      /\ UNCHANGED <<kindVars, domainVars, gMarkId, hostVars, markId2HcclOp, readerVars,
                     timeVars, channel, clock, records, calls, given, truth, missed, leaked>>
  BY DEF GetDomainNameByHandle
<1>2. PICK name : name = domains[call[t].via].name
  OBVIOUS
<1>3. PICK new : new = [call[t] EXCEPT !.name = name, !.via = ByName]
  OBVIOUS
<1>4. /\ call[t] \in CallSet /\ call[t].kind \in Calls \cup {"end"}
      /\ call[t].via \in 2 .. Len(domains)
      /\ call[t].kind = "end" => call[t].id \in given
      /\ call[t].quiet \subseteq disableDomains /\ name \notin call[t].quiet
  BY <1>1, <1>2 DEF IndInv, CallFits, Silent, Heard
<1>5. name \in AllNames
  <2>1. domains \in Seq(DomainSet) /\ call[t].via \in 1 .. Len(domains)
    BY <1>4 DEF IndInv, Types
  <2>2. domains[call[t].via] \in DomainSet
    BY <2>1
  <2>3. QED
    BY <1>2, <2>2 DEF DomainSet
<1>6. /\ new \in CallSet /\ new.kind = call[t].kind /\ new.id = call[t].id
      /\ new.name = name /\ new.quiet = call[t].quiet
  BY <1>3, <1>4, <1>5 DEF CallSet, ByName
<1>7. PICK p \in {"idle", "mark", "range", "end"}, c \in CallSet \cup {NoCall} :
        /\ Moves(t, p, c)
        /\ \/ p = "idle" /\ c = NoCall
           \/ p # "idle" /\ c = new /\ p = call[t].kind
  <2>1. CASE domains[call[t].via].isDestroyed
    BY <2>1, LeaveMoves DEF GetDomainNameByHandle
  <2>2. CASE ~domains[call[t].via].isDestroyed
    <3>1. /\ pc' = [pc EXCEPT ![t] = call[t].kind]
          /\ call' = [call EXCEPT ![t].name = name, ![t].via = ByName]
      BY <1>2, <2>2 DEF GetDomainNameByHandle, Goto
    <3>2. call' = [call EXCEPT ![t] = new]
      BY <1>3, <3>1 DEF IndInv, Types
    <3>3. QED
      BY <1>4, <1>6, <3>1, <3>2 DEF Moves, Calls
  <2>3. QED
    BY <2>1, <2>2
<1>8. Types /\ Len(domains) \in Nat /\ gMarkId \in Nat /\ p \in Places
  BY DEF IndInv, Types, Places
<1>9. /\ pc' \in [Threads -> Places] /\ call' \in [Threads -> CallSet \cup {NoCall}]
      /\ pc'[t] = p /\ call'[t] = c
      /\ \A u \in Threads \ {t} : pc'[u] = pc[u] /\ call'[u] = call[u]
  BY <1>7, <1>8, MovesFacts
<1>10. Types'
  BY <1>1, <1>8, <1>9, TypesStay DEF Types, kindVars, domainVars, timeVars
<1>11. CallFits(t)' /\ Heard(t)'
  <2>1. CASE p = "idle"
    BY <1>7, <1>9, <2>1, IdleFits
  <2>2. CASE p # "idle"
    BY <1>1, <1>4, <1>6, <1>7, <1>9, <2>2, NoCallIsNone DEF CallFits, Heard, domainVars, Calls
  <2>3. QED
    BY <2>1, <2>2
<1>12. (\A u \in Threads : CallFits(u)') /\ Silent'
  BY <1>1, <1>8, <1>9, <1>11, ThreadsFit
<1>13. Bounded'
  <2>1. Takes(p) <= 1 /\ Takes(pc[t]) = 1 /\ Marks(p) <= 1 /\ Marks(pc[t]) = 1
        /\ Takes(p) \in Nat /\ Marks(p) \in Nat
    BY <1>1 DEF Takes, Marks
  <2>2. clock \in Nat /\ calls \in Nat /\ calls <= MaxCalls /\ pc' = [pc EXCEPT ![t] = p]
    BY <1>7, <1>8 DEF Types, IndInv, Bounded, Moves
  <2>3. /\ calls' \in Nat /\ calls' <= MaxCalls /\ UNCHANGED timeVars
        /\ gMarkId' \in Nat /\ clock' \in Nat
        /\ gMarkId' + Takes(p) + calls <= gMarkId + Takes(pc[t]) + calls'
        /\ clock' + Marks(p) + 2 * calls <= clock + Marks(pc[t]) + 2 * calls'
    BY <1>1, <1>8, <2>1, <2>2
  <2>4. Bounded
    BY DEF IndInv
  <2>5. QED
    BY <1>8, <2>2, <2>3, <2>4, BoundsMove
<1>14. Owners' /\ Channel' /\ Accounts'
  BY <1>1, <1>7, <1>9, IdsStay DEF SameCall
<1>15. QED
  BY <1>10, <1>12, <1>13, <1>14 DEF IndInv

-----------------------------------------------------------------------------
(* A mark is written to the stream.                                          *)

(* What is in the channel when one mark is appended.                         *)
LEMMA WhatIsUnread ==
  ASSUME Channel, NEW id, NEW flag, Unread(id, flag)
  PROVE  Written(id, flag)
<1>1. PICK i \in DOMAIN channel : channel[i].id = id /\ channel[i].flag = flag
  BY DEF Unread
<1>2. Traced(id) /\ truth[id][flag] \in 1 .. clock
  BY <1>1 DEF Channel
<1>3. QED
  BY <1>2 DEF Written, None

(* What ProfTrace writes, and that nothing else changes with it.             *)
LEMMA TraceFacts ==
  ASSUME Types, Channel, NEW id \in Nat, NEW what \in Calls \cup Ops, NEW flag \in Flags,
         ProfTrace(id, what, flag), ~Written(id, flag)
  PROVE  /\ channel' \in Seq(StepSet) /\ clock' = clock + 1
         /\ DOMAIN truth' = DOMAIN truth \cup {id}
         /\ \A j \in DOMAIN truth : j # id => truth'[j] = truth[j]
         /\ truth'[id] \in TraceSet /\ truth'[id][flag] = clock + 1
         /\ truth'[id].what = IF Traced(id) THEN truth[id].what ELSE what
         /\ \A f \in Flags : f # flag =>
              truth'[id][f] = IF Traced(id) THEN truth[id][f] ELSE None
         /\ \A j, f : Unread(j, f)' <=> Unread(j, f) \/ (j = id /\ f = flag)
         /\ Channel'
<1>1. clock \in Nat /\ channel \in Seq(StepSet) /\ clock' = clock + 1
  BY DEF Types, ProfTrace
<1>2. PICK m : m = StepTrace(id, flag, clock + 1)
  OBVIOUS
<1>3. m \in StepSet /\ m.id = id /\ m.flag = flag /\ m.count = clock + 1
  BY <1>1, <1>2 DEF StepSet, StepTrace
<1>4. channel' = Append(channel, m)
  BY <1>2 DEF ProfTrace
<1>5. /\ channel' \in Seq(StepSet) /\ Len(channel) \in Nat
      /\ DOMAIN channel = 1 .. Len(channel) /\ DOMAIN channel' = 1 .. Len(channel) + 1
      /\ \A i \in 1 .. Len(channel) : channel'[i] = channel[i]
      /\ channel'[Len(channel) + 1] = m
  BY <1>1, <1>3, <1>4
<1>6. PICK old : old = IF id \in DOMAIN truth THEN truth[id] ELSE [NotTraced EXCEPT !.what = what]
  OBVIOUS
<1>7. PICK new : new = [old EXCEPT ![flag] = clock + 1]
  OBVIOUS
<1>8. truth' = Put(truth, id, new)
  BY <1>6, <1>7 DEF ProfTrace
<1>9. /\ DOMAIN truth' = DOMAIN truth \cup {id}
      /\ truth'[id] = new
      /\ \A j \in DOMAIN truth : j # id => truth'[j] = truth[j]
  BY <1>8 DEF Put
<1>10. /\ old \in TraceSet
       /\ old.what = IF Traced(id) THEN truth[id].what ELSE what
       /\ \A f \in Flags : old[f] = IF Traced(id) THEN truth[id][f] ELSE None
  <2>1. CASE id \in DOMAIN truth
    BY <1>6, <2>1 DEF Types, Traced
  <2>2. CASE id \notin DOMAIN truth
    <3>1. old = [what |-> what, start |-> None, end |-> None, mark |-> None]
      BY <1>6, <2>2 DEF NotTraced
    <3>2. old \in TraceSet /\ old.what = what
      BY <3>1 DEF TraceSet, None
    <3>3. old["start"] = None /\ old["end"] = None /\ old["mark"] = None
      BY <3>1
    <3>4. QED
      BY <2>2, <3>2, <3>3 DEF Traced, Flags
  <2>3. QED
    BY <2>1, <2>2
<1>11. /\ new \in TraceSet /\ new[flag] = clock + 1 /\ new.what = old.what
       /\ \A f \in Flags : f # flag => new[f] = old[f]
  <2>1. PICK n \in Nat : n = clock + 1
    BY <1>1
  <2>2. new = [old EXCEPT ![flag] = n] /\ old \in TraceSet
    BY <1>7, <1>10, <2>1
  <2>3. CASE flag = "start"
    BY <2>1, <2>2, <2>3 DEF TraceSet, Flags
  <2>4. CASE flag = "end"
    BY <2>1, <2>2, <2>4 DEF TraceSet, Flags
  <2>5. CASE flag = "mark"
    BY <2>1, <2>2, <2>5 DEF TraceSet, Flags
  <2>6. QED
    BY <2>3, <2>4, <2>5 DEF Flags
<1>12. \A j, f : Unread(j, f)' <=> Unread(j, f) \/ (j = id /\ f = flag)
  BY <1>3, <1>5 DEF Unread
<1>13. ~Unread(id, flag)
  BY WhatIsUnread
<1>14. Channel'
  <2>1. \A i \in 1 .. Len(channel) :
          /\ channel[i].id \in DOMAIN truth /\ channel[i].flag \in Flags
          /\ channel[i].count = truth[channel[i].id][channel[i].flag]
          /\ channel[i].count \in 1 .. clock
          /\ ~(channel[i].id = id /\ channel[i].flag = flag)
    <3>1. \A i \in 1 .. Len(channel) : channel[i] \in StepSet
      BY <1>1
    <3>2. QED
      BY <1>5, <1>13, <3>1 DEF Channel, Traced, StepSet, Unread
  <2>2. \A i \in 1 .. Len(channel) :
          truth'[channel[i].id][channel[i].flag] = truth[channel[i].id][channel[i].flag]
    <3> SUFFICES ASSUME NEW i \in 1 .. Len(channel)
                 PROVE  truth'[channel[i].id][channel[i].flag] = truth[channel[i].id][channel[i].flag]
      OBVIOUS
    <3>1. CASE channel[i].id = id
      BY <1>9, <1>10, <1>11, <2>1, <3>1 DEF Traced
    <3>2. CASE channel[i].id # id
      BY <1>9, <2>1, <3>2
    <3>3. QED
      BY <3>1, <3>2
  <2>3. \A i \in DOMAIN channel' :
          /\ channel'[i].id \in DOMAIN truth'
          /\ channel'[i].count = truth'[channel'[i].id][channel'[i].flag]
          /\ channel'[i].count \in 1 .. clock'
    <3> SUFFICES ASSUME NEW i \in DOMAIN channel'
                 PROVE  /\ channel'[i].id \in DOMAIN truth'
                        /\ channel'[i].count = truth'[channel'[i].id][channel'[i].flag]
                        /\ channel'[i].count \in 1 .. clock'
      OBVIOUS
    <3>1. CASE i = Len(channel) + 1
      BY <1>1, <1>3, <1>5, <1>9, <1>11, <3>1
    <3>2. CASE i \in 1 .. Len(channel)
      BY <1>1, <1>5, <1>9, <2>1, <2>2, <3>2
    <3>3. QED
      BY <1>5, <3>1, <3>2
  <2>4. \A i, j \in DOMAIN channel' : i < j => channel'[i].count < channel'[j].count
    BY <1>1, <1>3, <1>5, <2>1 DEF Channel
  <2>5. QED
    BY <2>3, <2>4 DEF Channel, Traced
<1>15. QED
  BY <1>1, <1>5, <1>9, <1>10, <1>11, <1>12, <1>14

(* Without a mark on the stream all of it stays.                             *)
LEMMA NoTraceFacts ==
  ASSUME Channel, NoTrace
  PROVE  /\ Channel' /\ UNCHANGED <<channel, clock, truth>>
         /\ \A j, f : Unread(j, f)' <=> Unread(j, f)
  BY DEF NoTrace, Channel, Traced, Unread

-----------------------------------------------------------------------------
(* A new id is known nowhere.                                                *)

(* The new id belongs to nobody yet.                                         *)
LEMMA NewId ==
  ASSUME IndInv, NEW x, x = gMarkId + 1
  PROVE  /\ x \in Nat \ {0} /\ x \notin Marked
         /\ x \notin given /\ x \notin DOMAIN markId2Context /\ x \notin DOMAIN truth
         /\ x \notin DOMAIN deviceMarkId2Context /\ x \notin DOMAIN innerMarkIds
         /\ x \notin DOMAIN markId2HcclOp
         /\ \A r \in DOMAIN records : r.id # x
         /\ reader # NoMark => reader.id # x
         /\ \A f : ~Unread(x, f)
         /\ \A t \in Threads : ~Owns(t, x)
<1>1. gMarkId \in Nat /\ x \notin Marked /\ x \in Nat \ {0}
  BY DEF IndInv, Types, Marked
<1>2. \A t \in Threads : ~Owns(t, x)
  BY <1>1 DEF IndInv, CallFits, Owns
<1>3. \A f : ~Unread(x, f)
  BY <1>1 DEF IndInv, Types, Channel, Unread, Traced
<1>4. QED
  BY <1>1, <1>2, <1>3 DEF IndInv, Types

(* Operators are not functions of mstx.                                      *)
LEMMA OpsAreNoCalls == \A k \in Ops : k \notin Calls /\ k # "end"
  BY OpsAssumption DEF AllOps, P2p, Ranked, Calls

(* Its account begins, when nothing of its marks is read yet.                *)
LEMMA NewAccount ==
  ASSUME IndInv, NEW x, x = gMarkId + 1, NEW k \in Calls \cup Ops, NEW h \in Nat,
         UNCHANGED <<hostVars, markId2HcclOp, readerVars, records, given>>,
         Trace(x, k)', NotEnded(x)', Unread(x, "start")' <=> Written(x, "start")',
         \A t \in Threads : pc'[t] = "record" /\ call'[t].id = x =>
           /\ call'[t].time = h /\ call'[t].kind \in Calls /\ k = call'[t].kind
           /\ call'[t].stream <=> Traced(x)',
         \A t \in Threads : pc'[t] \in {"inner", "op", "run"} /\ call'[t].id = x =>
           k = call'[t].kind /\ (pc'[t] = "inner" => (call'[t].stream <=> Traced(x)'))
  PROVE  Account(x, k, h, None, None)'
<1>1. /\ x \notin given /\ x \notin DOMAIN markId2Context
      /\ x \notin DOMAIN deviceMarkId2Context /\ x \notin DOMAIN innerMarkIds
      /\ x \notin DOMAIN markId2HcclOp
      /\ \A r \in DOMAIN records : r.id # x
      /\ reader # NoMark => reader.id # x
  BY NewId
<1>2. /\ x \notin given' /\ x \notin DOMAIN markId2Context'
      /\ x \notin DOMAIN deviceMarkId2Context' /\ x \notin DOMAIN innerMarkIds'
      /\ x \notin DOMAIN markId2HcclOp'
      /\ \A r \in DOMAIN records' : r.id # x
      /\ reader' # NoMark => reader'.id # x
  BY <1>1 DEF hostVars, readerVars
<1>3. \A f : ~HostHas(x, f)'
  BY <1>2 DEF HostHas
<1>4. ~Read(x, "start")' /\ ~Read(x, "end")'
  BY DEF Read, Written, NotEnded
<1>5. ~Done(x, "start")' /\ ~Done(x, "end")'
  BY <1>4 DEF Done
<1>6. "end" \notin Calls
  BY DEF Calls
<1>7. Host(x, k, h)'
  BY <1>2, <1>3, <1>6 DEF Host
<1>8. Device(x, k, None, None)'
  BY <1>2, <1>4 DEF Device
<1>9. Inner(x, k, None, None)'
  BY <1>2, <1>5 DEF Inner
<1>10. QED
  BY <1>7, <1>8, <1>9 DEF Account

(* A thread gets an id that no other has, or none.                           *)
LEMMA OwnersMove ==
  ASSUME IndInv, NEW t \in Threads,
         \A u \in Threads \ {t} : pc'[u] = pc[u] /\ call'[u] = call[u],
         \A id : Owns(t, id)' => \A u \in Threads \ {t} : ~Owns(u, id)
  PROVE  Owners'
<1>1. \A u \in Threads \ {t} : \A id : Owns(u, id)' <=> Owns(u, id)
  BY DEF Owns
<1>2. \A u \in Threads : \A id : Owns(u, id) => id \in Marked
  BY DEF IndInv, CallFits, Owns
<1>3. QED
  BY <1>1, <1>2 DEF IndInv, Owners

(* The types, when a mark may have been written and an id taken.             *)
LEMMA TypesOfTrace ==
  ASSUME Types, UNCHANGED <<kindVars, domainVars, innerMarkIds, markId2HcclOp, readerVars>>,
         UNCHANGED <<timeVars, records, given>>,
         DOMAIN markId2Context' \subseteq DOMAIN markId2Context,
         \A id \in DOMAIN markId2Context' : markId2Context'[id] = markId2Context[id],
         gMarkId' \in Nat, gMarkId' >= gMarkId, clock' \in Nat, channel' \in Seq(StepSet),
         DOMAIN truth \subseteq DOMAIN truth', DOMAIN truth' \subseteq Marked',
         \A id \in DOMAIN truth' : truth'[id] \in TraceSet,
         pc' \in [Threads -> Places], call' \in [Threads -> CallSet \cup {NoCall}]
  PROVE  Types'
<1>1. Marked \subseteq Marked'
  BY DEF Types, Marked
<1>2. QED
  BY <1>1 DEF Types, kindVars, domainVars, readerVars, timeVars

(* A mark or the start of a range takes a new id and writes its mark.        *)
LEMMA StartTraceStep ==
  ASSUME IndInv, NEW t \in Threads, StartTrace(t)
  PROVE  IndInv'
<1>1. /\ pc[t] \in Calls /\ gMarkId' = gMarkId + 1
      /\ UNCHANGED <<kindVars, domainVars, hostVars, markId2HcclOp, readerVars, timeVars,
                     records, calls, given, missed, leaked>>
  BY DEF StartTrace
<1>2. PICK x : x = gMarkId + 1
  OBVIOUS
<1>3. /\ Types /\ Channel /\ Accounts /\ gMarkId \in Nat /\ clock \in Nat /\ hostTime \in Nat
      /\ gMarkId' \in Nat /\ gMarkId' >= gMarkId
  BY <1>1 DEF IndInv, Types
<1>4. PICK k : k = call[t].kind
  OBVIOUS
<1>5. /\ call[t] \in CallSet /\ k = pc[t] /\ k \in Calls /\ k # "end"
      /\ call[t].quiet \subseteq disableDomains /\ call[t].name \notin call[t].quiet
  BY <1>1, <1>4 DEF IndInv, CallFits, Silent, Heard, Calls
<1>6. PICK new : new = [call[t] EXCEPT !.id = x, !.time = hostTime]
  OBVIOUS
<1>7. x \in Nat \ {0} /\ x \notin Marked /\ Marked' = Marked \cup {x} /\ x \notin DOMAIN truth
      /\ \A u \in Threads : ~Owns(u, x)
  <2>1. Marked' = Marked \cup {x}
    BY <1>1, <1>2, <1>3 DEF Marked
  <2>2. QED
    BY <1>2, <2>1, NewId
<1>8. /\ new \in CallSet /\ new.kind = k /\ new.id = x /\ new.time = hostTime
      /\ new.stream = call[t].stream /\ new.name = call[t].name /\ new.quiet = call[t].quiet
  BY <1>3, <1>4, <1>5, <1>6, <1>7 DEF CallSet
<1>9. PICK p \in {"idle", "record"}, c \in CallSet \cup {NoCall} :
        /\ Moves(t, p, c)
        /\ \/ p = "idle" /\ c = NoCall /\ NoTrace
           \/ /\ p = "record" /\ c = new
              /\ IF call[t].stream
                 THEN ProfTrace(x, k, IF k = "range" THEN "start" ELSE "mark") ELSE NoTrace
  <2>1. CASE Leave(t) /\ NoTrace
    BY <2>1, LeaveMoves
  <2>2. CASE /\ IF call[t].stream
                THEN ProfTrace(x, k, IF k = "range" THEN "start" ELSE "mark") ELSE NoTrace
             /\ call' = [call EXCEPT ![t].id = x, ![t].time = hostTime]
             /\ Goto(t, "record")
    <3>1. call' = [call EXCEPT ![t] = new]
      BY <1>6, <2>2 DEF IndInv, Types
    <3>2. Moves(t, "record", new)
      BY <2>2, <3>1 DEF Goto, Moves
    <3>3. QED
      BY <1>8, <2>2, <3>2
  <2>3. QED
    BY <1>2, <1>4, <2>1, <2>2 DEF StartTrace, NewMarkId
<1>10. /\ pc' \in [Threads -> Places] /\ call' \in [Threads -> CallSet \cup {NoCall}]
       /\ pc'[t] = p /\ call'[t] = c
       /\ \A u \in Threads \ {t} : pc'[u] = pc[u] /\ call'[u] = call[u]
  BY <1>3, <1>9, MovesFacts DEF Places
<1>11. /\ channel' \in Seq(StepSet) /\ clock' \in {clock, clock + 1}
       /\ DOMAIN truth \subseteq DOMAIN truth' /\ DOMAIN truth' \subseteq DOMAIN truth \cup {x}
       /\ \A j \in DOMAIN truth : truth'[j] = truth[j]
       /\ \A j \in DOMAIN truth' : truth'[j] \in TraceSet
       /\ \A j \in Marked : \A f : Unread(j, f)' <=> Unread(j, f)
       /\ Channel'
       /\ Trace(x, k)' /\ NotEnded(x)' /\ (Unread(x, "start")' <=> Written(x, "start")')
       /\ p = "record" => (call[t].stream <=> Traced(x)')
  <2>1. CASE NoTrace /\ (p = "record" => ~call[t].stream)
    <3>1. Channel' /\ UNCHANGED <<channel, clock, truth>>
      BY <1>3, <2>1, NoTraceFacts
    <3>2. \A j, f : Unread(j, f)' <=> Unread(j, f)
      BY <3>1 DEF Unread
    <3>3. ~Traced(x)' /\ ~Unread(x, "start")
      BY <1>2, <1>7, <3>1, NewId DEF Traced
    <3>4. Trace(x, k)' /\ NotEnded(x)' /\ ~Written(x, "start")'
      BY <3>3 DEF Trace, NotEnded, Written
    <3>5. QED
      BY <1>3, <2>1, <3>1, <3>2, <3>3, <3>4 DEF Types
  <2>2. CASE p = "record" /\ call[t].stream
    <3>1. PICK flag \in {"start", "mark"} : flag = IF k = "range" THEN "start" ELSE "mark"
      OBVIOUS
    <3>2. ProfTrace(x, k, flag)
      BY <1>9, <2>2, <3>1
    <3>3. ~Written(x, flag) /\ ~Traced(x)
      BY <1>7 DEF Written, Traced
    <3>4. /\ channel' \in Seq(StepSet) /\ clock' = clock + 1
          /\ DOMAIN truth' = DOMAIN truth \cup {x}
          /\ \A j \in DOMAIN truth : j # x => truth'[j] = truth[j]
          /\ truth'[x] \in TraceSet /\ truth'[x][flag] = clock + 1
          /\ truth'[x].what = k
          /\ \A f \in Flags : f # flag => truth'[x][f] = None
          /\ \A j, f : Unread(j, f)' <=> Unread(j, f) \/ (j = x /\ f = flag)
          /\ Channel'
      <4>1. x \in Nat /\ k \in Calls \cup Ops /\ flag \in Flags
        BY <1>5, <1>7 DEF Flags
      <4>2. /\ channel' \in Seq(StepSet) /\ clock' = clock + 1
            /\ DOMAIN truth' = DOMAIN truth \cup {x}
            /\ \A j \in DOMAIN truth : j # x => truth'[j] = truth[j]
            /\ truth'[x] \in TraceSet /\ truth'[x][flag] = clock + 1
            /\ truth'[x].what = IF Traced(x) THEN truth[x].what ELSE k
            /\ \A f \in Flags : f # flag =>
                 truth'[x][f] = IF Traced(x) THEN truth[x][f] ELSE None
            /\ \A j, f : Unread(j, f)' <=> Unread(j, f) \/ (j = x /\ f = flag)
            /\ Channel'
        BY <1>3, <3>2, <3>3, <4>1, TraceFacts
      <4>3. QED
        BY <3>3, <4>2
    <3>5. \A f : ~Unread(x, f)
      BY <1>2, NewId
    <3>6. Traced(x)' /\ NotEnded(x)'
      BY <3>1, <3>4 DEF Traced, NotEnded, Flags
    <3>7. Trace(x, k)'
      <4>1. CASE k = "range"
        BY <1>3, <3>1, <3>4, <4>1 DEF Trace, Flags, None
      <4>2. CASE k = "mark"
        BY <1>3, <3>1, <3>4, <4>2 DEF Trace, Flags, None
      <4>3. QED
        BY <1>5, <4>1, <4>2 DEF Calls
    <3>8. Unread(x, "start")' <=> Written(x, "start")'
      <4>1. CASE k = "range"
        BY <1>3, <3>1, <3>4, <3>6, <4>1 DEF Written, None
      <4>2. CASE k = "mark"
        BY <3>1, <3>4, <3>5, <4>2 DEF Written, Flags
      <4>3. QED
        BY <1>5, <4>1, <4>2 DEF Calls
    <3>9. \A j \in DOMAIN truth' : truth'[j] \in TraceSet
      BY <1>3, <3>4 DEF Types
    <3>10. QED
      BY <1>7, <2>2, <3>4, <3>6, <3>7, <3>8, <3>9
  <2>3. QED
    BY <1>9, <2>1, <2>2
<1>12. Types'
  <2>1. clock' \in Nat /\ DOMAIN truth' \subseteq Marked'
    BY <1>3, <1>7, <1>11 DEF Types
  <2>2. UNCHANGED <<markId2Context, innerMarkIds>>
    BY <1>1 DEF hostVars
  <2>3. QED
    BY <1>1, <1>3, <1>10, <1>11, <2>1, <2>2, TypesOfTrace
<1>13. CallFits(t)' /\ Heard(t)'
  <2>1. CASE p = "idle"
    BY <1>9, <1>10, <2>1, IdleFits
  <2>2. CASE p = "record"
    <3>1. c = new /\ c # NoCall
      BY <1>8, <1>9, <2>2, NoCallIsNone
    <3>2. disableDomains' = disableDomains
      BY <1>1 DEF domainVars
    <3>3. CallFits(t)'
      BY <1>5, <1>7, <1>8, <1>10, <2>2, <3>1 DEF CallFits
    <3>4. Heard(t)'
      BY <1>5, <1>8, <1>10, <2>2, <3>1, <3>2 DEF Heard
    <3>5. QED
      BY <3>3, <3>4
  <2>3. QED
    BY <2>1, <2>2
<1>14. (\A u \in Threads : CallFits(u)') /\ Silent'
  BY <1>1, <1>3, <1>10, <1>13, ThreadsFit
<1>15. Bounded'
  <2>1. Takes(p) = 0 /\ Takes(pc[t]) = 1 /\ Marks(p) = 0 /\ Marks(pc[t]) = 1
    BY <1>1 DEF Takes, Marks, Calls
  <2>2. calls \in Nat /\ calls <= MaxCalls /\ pc' = [pc EXCEPT ![t] = p] /\ p \in Places
    BY <1>9 DEF IndInv, Bounded, Moves, Places
  <2>3. /\ calls' \in Nat /\ calls' <= MaxCalls /\ UNCHANGED timeVars
        /\ gMarkId' \in Nat /\ clock' \in Nat
        /\ gMarkId' + Takes(p) + calls <= gMarkId + Takes(pc[t]) + calls'
        /\ clock' + Marks(p) + 2 * calls <= clock + Marks(pc[t]) + 2 * calls'
    <3>1. clock' \in {clock, clock + 1}
      BY <1>11
    <3>2. calls' = calls /\ gMarkId' = gMarkId + 1 /\ UNCHANGED timeVars
      BY <1>1
    <3>3. calls' \in Nat /\ calls' <= MaxCalls /\ gMarkId' \in Nat /\ clock' \in Nat
      BY <1>3, <2>2, <3>1, <3>2
    <3>4. gMarkId' + Takes(p) + calls <= gMarkId + Takes(pc[t]) + calls'
      BY <1>3, <2>1, <2>2, <3>2
    <3>5. clock' + Marks(p) + 2 * calls <= clock + Marks(pc[t]) + 2 * calls'
      <4>1. clock' \in Nat /\ clock' <= clock + 1
        BY <1>3, <3>1
      <4>2. PICK n \in Nat : n = 2 * calls /\ n = 2 * calls'
        BY <2>2, <3>2
      <4>3. clock' + 0 + n <= clock + 1 + n
        BY <1>3, <4>1, <4>2
      <4>4. QED
        BY <2>1, <4>2, <4>3
    <3>6. QED
      BY <3>2, <3>3, <3>4, <3>5
  <2>4. Bounded
    BY DEF IndInv
  <2>5. QED
    BY <1>3, <2>2, <2>3, <2>4, BoundsMove
<1>16. \A id : Owns(t, id)' => id = x
  BY <1>8, <1>9, <1>10 DEF Owns
<1>17. Owners'
  BY <1>7, <1>10, <1>16, OwnersMove
<1>18. \A id \in Marked : Same(id) /\ SameOwners(id)
  <2> SUFFICES ASSUME NEW id \in Marked PROVE Same(id) /\ SameOwners(id)
    OBVIOUS
  <2>1. id # x /\ ~Owns(t, id)'
    BY <1>7, <1>16
  <2>2. SameOwners(id)
    BY <1>10, <2>1 DEF SameOwners, Owns
  <2>3. SameMarks(id)
    BY <1>11, <2>1 DEF SameMarks, Traced
  <2>4. SameReader(id)
    BY <1>1 DEF SameReader, readerVars, hostVars
  <2>5. Same(id)
    BY <1>1, <2>3, <2>4 DEF Same, hostVars, readerVars
  <2>6. QED
    BY <2>2, <2>5
<1>19. Account(x, k, hostTime, None, None)'
  <2>1. \A u \in Threads : pc'[u] \in {"record", "inner", "op", "run"} /\ call'[u].id = x =>
          u = t /\ p = "record" /\ c = new
    BY <1>7, <1>9, <1>10 DEF Owns
  <2>2. PICK h \in Nat : h = hostTime
    BY <1>3
  <2>3. Account(x, k, h, None, None)'
    BY <1>1, <1>2, <1>5, <1>8, <1>10, <1>11, <2>1, <2>2, NewAccount
  <2>4. hostTime' = hostTime
    BY <1>1 DEF timeVars
  <2>5. QED
    BY <2>2, <2>3, <2>4
<1>20. Accounts'
  <2>1. PICK h \in Nat : h = hostTime /\ h = hostTime'
    BY <1>1, <1>3 DEF timeVars
  <2>2. Account(x, k, h, None, None)' /\ None \in Nat /\ k \in Calls \cup Ops
    BY <1>5, <1>19, <2>1 DEF None
  <2>3. clock' \in Nat /\ clock' >= clock
    BY <1>3, <1>11
  <2>4. QED
    BY <1>3, <1>7, <1>18, <2>2, <2>3, AccountsChange
<1>21. QED
  BY <1>11, <1>12, <1>14, <1>15, <1>17, <1>20 DEF IndInv

(* A call returns, and nothing else happens.                                 *)
LEMMA LeaveStep ==
  ASSUME IndInv, NEW t \in Threads, Leave(t),
         UNCHANGED <<kindVars, domainVars, gMarkId, hostVars, markId2HcclOp, readerVars>>,
         UNCHANGED <<timeVars, channel, clock, records, calls, given, truth, leaked>>,
         missed \subseteq missed'
  PROVE  IndInv'
<1>1. Moves(t, "idle", NoCall)
  BY LeaveMoves
<1>2. Types /\ gMarkId \in Nat /\ clock \in Nat
  BY DEF IndInv, Types
<1>3. /\ pc' \in [Threads -> Places] /\ call' \in [Threads -> CallSet \cup {NoCall}]
      /\ pc'[t] = "idle" /\ call'[t] = NoCall
      /\ \A u \in Threads \ {t} : pc'[u] = pc[u] /\ call'[u] = call[u]
  BY <1>1, <1>2, MovesFacts DEF Places
<1>4. Types'
  BY <1>2, <1>3, TypesStay DEF Types, kindVars, domainVars, timeVars
<1>5. (\A u \in Threads : CallFits(u)') /\ Silent'
  BY <1>2, <1>3, IdleFits, ThreadsFit
<1>6. Bounded'
  <2>1. Takes("idle") = 0 /\ Takes(pc[t]) \in Nat /\ Marks("idle") = 0 /\ Marks(pc[t]) \in Nat
    BY DEF Takes, Marks
  <2>2. calls \in Nat /\ calls <= MaxCalls /\ pc' = [pc EXCEPT ![t] = "idle"] /\ Bounded
    BY <1>1 DEF IndInv, Bounded, Moves
  <2>3. /\ calls' \in Nat /\ calls' <= MaxCalls /\ UNCHANGED timeVars
        /\ gMarkId' \in Nat /\ clock' \in Nat
        /\ gMarkId' + Takes("idle") + calls <= gMarkId + Takes(pc[t]) + calls'
        /\ clock' + Marks("idle") + 2 * calls <= clock + Marks(pc[t]) + 2 * calls'
    BY <1>2, <2>1, <2>2
  <2>4. QED
    BY <1>2, <2>2, <2>3, BoundsMove DEF Places
<1>7. Owners' /\ Channel' /\ Accounts'
  BY <1>3, IdsStay DEF SameCall
<1>8. QED
  BY <1>4, <1>5, <1>6, <1>7 DEF IndInv

(* A call has taken its id and its marks from the bounds.                    *)
LEMMA Spent ==
  ASSUME NEW a \in Nat, NEW b \in Nat, a = b \/ a = b + 1, NEW n \in Nat
  PROVE  a + 0 + n <= b + 1 + n
<1>1. CASE a = b
  BY <1>1
<1>2. CASE a = b + 1
  BY <1>2
<1>3. QED
  BY <1>1, <1>2

(* The bounds, when a thread leaves what it had still to do on the stream.   *)
LEMMA BoundsSpend ==
  ASSUME Types, Bounded, NEW t \in Threads, NEW p \in {"idle", "record"},
         pc' = [pc EXCEPT ![t] = p], Marks(pc[t]) = 1, UNCHANGED <<timeVars, calls, gMarkId>>,
         clock' \in {clock, clock + 1}
  PROVE  Bounded'
<1>1. Takes(p) = 0 /\ Takes(pc[t]) \in Nat /\ Marks(p) = 0 /\ p \in Places
  BY DEF Takes, Marks, Places
<1>2. calls \in Nat /\ calls <= MaxCalls /\ gMarkId \in Nat /\ clock \in Nat /\ clock' \in Nat
  BY DEF Types, Bounded
<1>3. clock' + Marks(p) + 2 * calls <= clock + Marks(pc[t]) + 2 * calls'
  <2>1. 2 * calls \in Nat /\ 2 * calls' = 2 * calls
    BY <1>2
  <2>2. clock' + 0 + 2 * calls <= clock + 1 + 2 * calls
    BY <1>2, <2>1, Spent
  <2>3. QED
    BY <1>1, <2>1, <2>2
<1>4. /\ calls' \in Nat /\ calls' <= MaxCalls /\ UNCHANGED timeVars
      /\ gMarkId' \in Nat /\ clock' \in Nat
      /\ gMarkId' + Takes(p) + calls <= gMarkId + Takes(pc[t]) + calls'
  BY <1>1, <1>2
<1>5. QED
  BY <1>1, <1>3, <1>4, BoundsMove

(* The end of a range is written, and changes nothing of what was read.      *)
LEMMA EndWritten ==
  ASSUME Types, Channel, NEW id \in Marked, NEW what \in Calls \cup Ops, NEW k, k # "mark",
         Traced(id), NotEnded(id), Trace(id, k), ProfTrace(id, what, "end")
  PROVE  /\ channel' \in Seq(StepSet) /\ clock' = clock + 1 /\ Channel'
         /\ DOMAIN truth' = DOMAIN truth
         /\ \A j \in DOMAIN truth' : truth'[j] \in TraceSet
         /\ \A j \in DOMAIN truth : j # id => truth'[j] = truth[j]
         /\ \A j, f : j # id => (Unread(j, f)' <=> Unread(j, f))
         /\ SameReads(id) /\ Trace(id, k)'
<1>1. ~Written(id, "end") /\ id \in Nat /\ "end" \in Flags
  BY DEF Written, NotEnded, Marked, Flags
<1>2. /\ channel' \in Seq(StepSet) /\ clock' = clock + 1
      /\ DOMAIN truth' = DOMAIN truth \cup {id}
      /\ \A j \in DOMAIN truth : j # id => truth'[j] = truth[j]
      /\ truth'[id] \in TraceSet /\ truth'[id]["end"] = clock + 1
      /\ truth'[id].what = IF Traced(id) THEN truth[id].what ELSE what
      /\ \A f \in Flags : f # "end" =>
           truth'[id][f] = IF Traced(id) THEN truth[id][f] ELSE None
      /\ \A j, f : Unread(j, f)' <=> Unread(j, f) \/ (j = id /\ f = "end")
      /\ Channel'
  BY <1>1, TraceFacts
<1>3. /\ DOMAIN truth' = DOMAIN truth /\ truth'[id].what = truth[id].what
      /\ truth'[id]["start"] = truth[id]["start"] /\ truth'[id]["mark"] = truth[id]["mark"]
      /\ Traced(id)'
  BY <1>2 DEF Traced, Flags
<1>4. \A j \in DOMAIN truth' : truth'[j] \in TraceSet
  BY <1>2 DEF Types
<1>5. SameReads(id)
  <2>1. ~Read(id, "end") /\ ~Read(id, "end")'
    BY <1>1, <1>2 DEF Read
  <2>2. \A f \in {"start", "mark"} : Read(id, f)' <=> Read(id, f)
    BY <1>2, <1>3 DEF Read, Written
  <2>3. QED
    BY <1>2, <1>3, <2>1, <2>2 DEF SameReads, Flags
<1>6. Trace(id, k)'
  <2>1. /\ truth[id] \in TraceSet /\ clock \in Nat
        /\ truth[id].start \in Nat /\ truth[id].mark \in Nat
    BY DEF Types, Traced, TraceSet
  <2>2. QED
    BY <1>2, <1>3, <2>1 DEF Trace, None
<1>7. QED
  BY <1>2, <1>3, <1>4, <1>5, <1>6

(* What is said of the marks of another id stays.                            *)
LEMMA OtherMarksStay ==
  ASSUME NEW j, Traced(j)' <=> Traced(j), Traced(j) => truth'[j] = truth[j],
         \A f : Unread(j, f)' <=> Unread(j, f), reader' = reader, innerMarkIds' = innerMarkIds
  PROVE  SameMarks(j) /\ SameReader(j)
  BY DEF SameMarks, SameReader

(* Of all calls that end a range, one finds it and erases it.                *)
LEMMA EndTraceStep ==
  ASSUME IndInv, NEW t \in Threads, EndTrace(t)
  PROVE  IndInv'
<1> DEFINE id == call[t].id
<1>1. /\ pc[t] = "end"
      /\ UNCHANGED <<kindVars, domainVars, gMarkId, innerMarkIds, markId2HcclOp, readerVars>>
      /\ UNCHANGED <<timeVars, records, calls, given, missed, leaked>>
  BY DEF EndTrace
<1>2. CASE Leave(t) /\ NoTrace /\ UNCHANGED markId2Context
  BY <1>1, <1>2, LeaveStep DEF NoTrace, hostVars
<1>3. CASE /\ id \in DOMAIN markId2Context
           /\ IF markId2Context[id].stream THEN ProfTrace(id, "range", "end") ELSE NoTrace
           /\ CloseRange(id)
           /\ call' = [call EXCEPT ![t].time = markId2Context[id].time]
           /\ Goto(t, "record")
  <2>1. /\ Types /\ Channel /\ Accounts /\ gMarkId \in Nat /\ clock \in Nat
        /\ call[t] \in CallSet /\ call[t].kind = "end" /\ id \in given /\ id \in Marked
        /\ call[t].quiet \subseteq disableDomains
    BY <1>1 DEF IndInv, Types, CallFits, Silent, Heard
  <2>2. PICK i \in Marked : i = id
    BY <2>1
  <2>3. PICK k \in Calls \cup Ops, h \in Nat, s \in Nat, e \in Nat : Account(i, k, h, s, e)
    BY <2>1 DEF Accounts
  <2>4. /\ k = "range" /\ i \in DOMAIN markId2Context /\ markId2Context[i].time = h
        /\ markId2Context[i].stream <=> Traced(i)
        /\ NotEnded(i) /\ ~HostHas(i, "end") /\ Trace(i, k)
        /\ \A u \in Threads : ~Owns(u, i)
    <3>1. Host(i, k, h) /\ Inner(i, k, s, e) /\ i \in given /\ Trace(i, k)
      BY <2>1, <2>2, <2>3 DEF Account
    <3>2. k = "range" /\ i \in DOMAIN markId2Context
      BY <1>3, <2>2, <3>1 DEF Host
    <3>3. \A u \in Threads : pc[u] = "record" => call[u].id # i
      BY <3>1, <3>2 DEF Host
    <3>4. \A u \in Threads : pc[u] \in {"inner", "op", "run"} => call[u].id # i
      BY <3>1, <3>2, OpsAreNoCalls DEF IndInv, CallFits, Inner, Calls
    <3>5. QED
      BY <3>1, <3>2, <3>3, <3>4 DEF Host, Owns
  <2>5. PICK new : new = [call[t] EXCEPT !.time = h]
    OBVIOUS
  <2>6. /\ new \in CallSet /\ new.kind = "end" /\ new.id = i /\ new.time = h /\ new # NoCall
        /\ new.quiet = call[t].quiet
    BY <2>1, <2>2, <2>5, NoCallIsNone DEF CallSet
  <2>7. Moves(t, "record", new)
    <3>1. call' = [call EXCEPT ![t] = new]
      BY <1>3, <2>2, <2>4, <2>5 DEF Types, IndInv
    <3>2. QED
      BY <1>3, <3>1 DEF Moves, Goto
  <2>8. /\ pc' \in [Threads -> Places] /\ call' \in [Threads -> CallSet \cup {NoCall}]
        /\ pc'[t] = "record" /\ call'[t] = new
        /\ \A u \in Threads \ {t} : pc'[u] = pc[u] /\ call'[u] = call[u]
    BY <2>1, <2>6, <2>7, MovesFacts DEF Places
  <2>9. /\ channel' \in Seq(StepSet) /\ clock' \in {clock, clock + 1} /\ Channel'
        /\ DOMAIN truth' = DOMAIN truth
        /\ \A j \in DOMAIN truth' : truth'[j] \in TraceSet
        /\ \A j \in DOMAIN truth : j # i => truth'[j] = truth[j]
        /\ \A j, f : j # i => (Unread(j, f)' <=> Unread(j, f))
        /\ SameReads(i) /\ Trace(i, k)'
    <3>1. CASE markId2Context[i].stream
      <4>1. ProfTrace(i, "range", "end") /\ "range" \in Calls \cup Ops /\ k # "mark" /\ Traced(i)
        BY <1>3, <2>2, <2>4, <3>1 DEF Calls
      <4>2. /\ channel' \in Seq(StepSet) /\ clock' = clock + 1 /\ Channel'
            /\ DOMAIN truth' = DOMAIN truth
            /\ \A j \in DOMAIN truth' : truth'[j] \in TraceSet
            /\ \A j \in DOMAIN truth : j # i => truth'[j] = truth[j]
            /\ \A j, f : j # i => (Unread(j, f)' <=> Unread(j, f))
            /\ SameReads(i) /\ Trace(i, k)'
        BY <2>1, <2>4, <4>1, EndWritten
      <4>3. QED
        BY <4>2
    <3>2. CASE ~markId2Context[i].stream
      <4>1. NoTrace
        BY <1>3, <2>2, <3>2
      <4>2. /\ Channel' /\ UNCHANGED <<channel, clock, truth>>
            /\ \A j, f : Unread(j, f)' <=> Unread(j, f)
        BY <2>1, <4>1, NoTraceFacts
      <4>3. SameMarks(i) /\ Trace(i, k)'
        BY <2>4, <4>2 DEF SameMarks, Traced, Trace
      <4>4. QED
        BY <2>1, <4>2, <4>3, MarksAndReads DEF Types
    <3>3. QED
      BY <3>1, <3>2
  <2>10. /\ DOMAIN markId2Context' = DOMAIN markId2Context \ {i}
         /\ \A j \in DOMAIN markId2Context' : markId2Context'[j] = markId2Context[j]
    BY <1>3, <2>2 DEF CloseRange, Without
  <2>11. clock' \in Nat /\ clock' >= clock
    BY <2>1, <2>9
  <2>12. Types'
    <3>1. DOMAIN truth \subseteq DOMAIN truth' /\ DOMAIN truth' \subseteq Marked'
      BY <1>1, <2>1, <2>9 DEF Types, Marked
    <3>2. gMarkId' \in Nat /\ gMarkId' >= gMarkId
      BY <1>1, <2>1
    <3>3. QED
      BY <1>1, <2>1, <2>8, <2>9, <2>10, <2>11, <3>1, <3>2, TypesOfTrace
  <2>13. CallFits(t)' /\ Heard(t)'
    <3>1. disableDomains' = disableDomains /\ given' = given /\ Marked' = Marked
      BY <1>1 DEF domainVars, Marked
    <3>2. CallFits(t)'
      BY <2>1, <2>2, <2>6, <2>8, <3>1 DEF CallFits
    <3>3. Heard(t)'
      BY <2>1, <2>6, <2>8, <3>1 DEF Heard, Calls
    <3>4. QED
      BY <3>2, <3>3
  <2>14. (\A u \in Threads : CallFits(u)') /\ Silent'
    BY <1>1, <2>1, <2>8, <2>13, ThreadsFit
  <2>15. Bounded'
    <3>1. Marks(pc[t]) = 1 /\ pc' = [pc EXCEPT ![t] = "record"] /\ Bounded
      BY <1>1, <2>7 DEF Marks, Moves, IndInv
    <3>2. QED
      BY <1>1, <2>1, <2>9, <3>1, BoundsSpend
  <2>16. \A j : Owns(t, j)' => j = i
    BY <2>6, <2>8 DEF Owns
  <2>17. Owners'
    BY <2>4, <2>8, <2>16, OwnersMove
  <2>18. \A j \in Marked \ {i} : Same(j) /\ SameOwners(j)
    <3> SUFFICES ASSUME NEW j \in Marked \ {i} PROVE Same(j) /\ SameOwners(j)
      OBVIOUS
    <3>1. SameOwners(j)
      BY <2>8, <2>16 DEF SameOwners, Owns
    <3>2. SameMarks(j) /\ SameReader(j)
      BY <1>1, <2>9, OtherMarksStay DEF Traced, readerVars
    <3>3. Same(j)
      BY <1>1, <2>10, <3>2 DEF Same, readerVars
    <3>4. QED
      BY <3>1, <3>3
  <2>19. Account(i, k, h, s, e)'
    <3>1. Host(i, k, h) /\ Device(i, k, s, e) /\ Inner(i, k, s, e)
      BY <2>3 DEF Account
    <3>2. \A f : HostHas(i, f)' <=> HostHas(i, f)
      BY <1>1 DEF HostHas
    <3>3. \A u \in Threads : pc'[u] \in {"record", "inner", "op", "run"} /\ call'[u].id = i => u = t
      BY <2>4, <2>8 DEF Owns
    <3>4. Host(i, k, h)'
      <4>1. \A r \in DOMAIN records' : r.source = "host" /\ r.id = i =>
             /\ k \in Calls /\ r.flag \in Flags
             /\ r = HostMark(i, r.flag, h)
             /\ r.flag = "mark" <=> k = "mark"
        BY <1>1, <3>1 DEF Host
      <4>2. \A u \in Threads : pc'[u] = "record" /\ call'[u].id = i =>
              /\ call'[u].time = h /\ i \notin DOMAIN markId2Context'
              /\ call'[u].kind = "end" /\ ~HostHas(i, "end")'
        BY <2>4, <2>6, <2>8, <2>10, <3>2, <3>3
      <4>3. "end" \notin Calls
        BY DEF Calls
      <4>4. QED
        BY <2>4, <2>10, <4>1, <4>2, <4>3 DEF Host
    <3>5. SameReader(i)
      BY <1>1 DEF SameReader, readerVars
    <3>6. Device(i, k, s, e)'
      <4>1. SameDevice(i)
        BY <1>1, <2>9, <3>5 DEF SameDevice, readerVars
      <4>2. QED
        BY <2>1, <3>1, <4>1, DeviceStays DEF Types
    <3>7. Inner(i, k, s, e)'
      <4>1. SameInner(i)
        BY <1>1, <2>8, <2>9, <3>3, <3>5 DEF SameInner, Traced
      <4>2. QED
        BY <3>1, <4>1, InnerStays
    <3>8. QED
      BY <2>9, <3>4, <3>6, <3>7 DEF Account
  <2>20. Accounts'
    <3>1. Marked' \subseteq Marked \cup {i}
      BY <1>1 DEF Marked
    <3>2. QED
      BY <2>1, <2>11, <2>18, <2>19, <3>1, AccountsChange
  <2>21. QED
    BY <2>9, <2>12, <2>14, <2>15, <2>17, <2>20 DEF IndInv
<1>4. QED
  BY <1>2, <1>3 DEF EndTrace

-----------------------------------------------------------------------------
(* Something is recorded, or dropped because its kind is disabled.           *)

(* One record more, or none when the kind is disabled.                       *)
LEMMA RecordFacts ==
  ASSUME Types, NEW kind \in BOOLEAN, NEW r, Record(kind, r), r \notin DOMAIN records,
         r.source \in {"host", "device", "hccl"}, r.id \in Marked
  PROVE  /\ IsABag(records')
         /\ \A q \in DOMAIN records' :
              q.source \in {"host", "device", "hccl"} /\ q.id \in Marked /\ records'[q] = 1
         /\ \A q : q \in DOMAIN records' <=> q \in DOMAIN records \/ (kind /\ q = r)
<1>1. IsABag(records) /\ \A q \in DOMAIN records :
        q.source \in {"host", "device", "hccl"} /\ q.id \in Marked /\ records[q] = 1
  BY DEF Types
<1>2. CASE ~kind
  <2>1. records' = records
    BY <1>2 DEF Record
  <2>2. QED
    BY <1>1, <1>2, <2>1
<1>3. CASE kind
  <2>1. PICK B : B = records
    OBVIOUS
  <2>2. records' = B (+) SetToBag({r})
    BY <1>3, <2>1 DEF Record
  <2>3. IsABag(B) /\ r \notin DOMAIN B
    BY <1>1, <2>1
  <2>4. /\ IsABag(B (+) SetToBag({r}))
        /\ DOMAIN (B (+) SetToBag({r})) = DOMAIN B \cup {r}
        /\ \A x \in DOMAIN B : x # r => (B (+) SetToBag({r}))[x] = B[x]
        /\ (B (+) SetToBag({r}))[r] = 1
    BY <2>3, BagFacts
  <2>5. /\ IsABag(records') /\ DOMAIN records' = DOMAIN records \cup {r}
        /\ \A x \in DOMAIN records : x # r => records'[x] = records[x]
        /\ records'[r] = 1
    BY <2>1, <2>2, <2>4
  <2>6. QED
    BY <1>1, <1>3, <2>5
<1>4. QED
  BY <1>2, <1>3

(* The host's record is the first of its id and flag.                        *)
LEMMA RecordMarkStep ==
  ASSUME IndInv, NEW t \in Threads, RecordMark(t)
  PROVE  IndInv'
<1>1. /\ pc[t] = "record" /\ Leave(t)
      /\ UNCHANGED <<kindVars, domainVars, gMarkId, innerMarkIds, markId2HcclOp, readerVars>>
      /\ UNCHANGED <<timeVars, channel, clock, calls, truth, missed>>
  BY DEF RecordMark
<1>2. PICK c \in CallSet : c = call[t]
  BY <1>1 DEF IndInv, CallFits
<1>3. PICK i \in Marked : i = c.id
  BY <1>1, <1>2 DEF IndInv, CallFits
<1>4. /\ Types /\ Channel /\ Accounts /\ gMarkId \in Nat /\ clock \in Nat /\ marker \in BOOLEAN
      /\ c.kind \in Calls \cup {"end"} /\ (c.kind = "end" => i \in given)
      /\ c.kind \in Calls => c.name \notin c.quiet
      /\ leaked = {}
  BY <1>1, <1>2, <1>3 DEF IndInv, Types, CallFits, Silent, Heard
<1>5. PICK k \in Calls \cup Ops, h \in Nat, s \in Nat, e \in Nat : Account(i, k, h, s, e)
  BY <1>4 DEF Accounts
<1>6. Host(i, k, h) /\ Device(i, k, s, e) /\ Inner(i, k, s, e) /\ Trace(i, k)
  BY <1>5 DEF Account
<1>7. /\ c.time = h /\ i \notin DOMAIN markId2Context
      /\ c.kind = "end" => ~HostHas(i, "end") /\ k = "range"
      /\ c.kind \in Calls =>
           /\ k = c.kind /\ i \notin given
           /\ \A flag \in Flags : ~HostHas(i, flag)
           /\ c.stream <=> Traced(i)
           /\ NotEnded(i)
  BY <1>1, <1>2, <1>3, <1>4, <1>6 DEF Host
<1>8. PICK flag : flag = HostFlag(c.kind)
  OBVIOUS
<1>9. /\ flag \in Flags /\ (flag = "mark" <=> c.kind = "mark") /\ (flag = "end" <=> c.kind = "end")
      /\ ~HostHas(i, flag)
  BY <1>4, <1>7, <1>8 DEF HostFlag, Flags, Calls
<1>10. PICK r : r = HostMark(i, flag, h)
  OBVIOUS
<1>11. /\ r.source = "host" /\ r.id = i /\ r.flag = flag /\ r \notin DOMAIN records
       /\ Record(marker, r)
  <2>1. r.source = "host" /\ r.id = i /\ r.flag = flag
    BY <1>10 DEF HostMark
  <2>2. r \notin DOMAIN records
    BY <1>9, <2>1 DEF HostHas
  <2>3. Record(marker, r)
    BY <1>2, <1>3, <1>7, <1>8, <1>10 DEF RecordMark, HostMark
  <2>4. QED
    BY <2>1, <2>2, <2>3
<1>12. /\ IsABag(records')
       /\ \A q \in DOMAIN records' :
            q.source \in {"host", "device", "hccl"} /\ q.id \in Marked /\ records'[q] = 1
       /\ \A q : q \in DOMAIN records' <=> q \in DOMAIN records \/ (marker /\ q = r)
  BY <1>4, <1>11, RecordFacts
<1>13. leaked' = {}
  BY <1>2, <1>4 DEF RecordMark
<1>14. /\ c.kind = "range" =>
            /\ DOMAIN markId2Context' = DOMAIN markId2Context \cup {i}
            /\ markId2Context'[i] = [stream |-> c.stream, time |-> h]
            /\ \A j \in DOMAIN markId2Context : j # i => markId2Context'[j] = markId2Context[j]
            /\ given' = given \cup {i}
       /\ c.kind # "range" => markId2Context' = markId2Context /\ given' = given
  BY <1>2, <1>3, <1>7 DEF RecordMark, Put
<1>15. /\ given \subseteq given' /\ given' \subseteq given \cup {i}
       /\ DOMAIN markId2Context' \subseteq given'
       /\ \A j \in DOMAIN markId2Context' : markId2Context'[j] \in [stream : BOOLEAN, time : Nat]
       /\ \A j \in Nat : j # i =>
            /\ j \in given' <=> j \in given
            /\ j \in DOMAIN markId2Context' <=> j \in DOMAIN markId2Context
            /\ j \in DOMAIN markId2Context => markId2Context'[j] = markId2Context[j]
  <2>1. c.stream \in BOOLEAN
    BY DEF CallSet
  <2>2. CASE c.kind = "range"
    BY <1>4, <1>14, <2>1, <2>2 DEF Types
  <2>3. CASE c.kind # "range"
    BY <1>4, <1>14, <2>3 DEF Types
  <2>4. QED
    BY <2>2, <2>3
<1>16. Moves(t, "idle", NoCall)
  BY <1>1, LeaveMoves
<1>17. /\ pc' \in [Threads -> Places] /\ call' \in [Threads -> CallSet \cup {NoCall}]
       /\ pc'[t] = "idle" /\ call'[t] = NoCall
       /\ \A u \in Threads \ {t} : pc'[u] = pc[u] /\ call'[u] = call[u]
  BY <1>4, <1>16, MovesFacts DEF Places
<1>18. Types'
  <2>1. Marked' = Marked /\ given' \subseteq Marked
    BY <1>1, <1>4, <1>15 DEF Types, Marked
  <2>2. QED
    BY <1>1, <1>4, <1>12, <1>15, <1>17, <2>1 DEF Types, kindVars, domainVars, readerVars, timeVars
<1>19. (\A u \in Threads : CallFits(u)') /\ Silent'
  <2>1. UNCHANGED <<domainVars, leaked>> /\ gMarkId' \in Nat /\ gMarkId' >= gMarkId
    BY <1>1, <1>4, <1>13
  <2>2. CallFits(t)' /\ Heard(t)'
    BY <1>17, IdleFits
  <2>3. QED
    BY <1>15, <1>17, <2>1, <2>2, ThreadsFit
<1>20. Bounded'
  <2>1. Takes("idle") = 0 /\ Takes(pc[t]) \in Nat /\ Marks("idle") = 0 /\ Marks(pc[t]) \in Nat
    BY DEF Takes, Marks
  <2>2. calls \in Nat /\ calls <= MaxCalls /\ pc' = [pc EXCEPT ![t] = "idle"] /\ Bounded
    BY <1>16 DEF IndInv, Bounded, Moves
  <2>3. /\ calls' \in Nat /\ calls' <= MaxCalls /\ UNCHANGED timeVars
        /\ gMarkId' \in Nat /\ clock' \in Nat
        /\ gMarkId' + Takes("idle") + calls <= gMarkId + Takes(pc[t]) + calls'
        /\ clock' + Marks("idle") + 2 * calls <= clock + Marks(pc[t]) + 2 * calls'
    BY <1>1, <1>4, <2>1, <2>2
  <2>4. QED
    BY <1>4, <2>2, <2>3, BoundsMove DEF Places
<1>21. \A j : ~Owns(t, j)'
  BY <1>17 DEF Owns
<1>22. Owners'
  BY <1>17, <1>21, OwnersMove
<1>23. Channel'
  BY <1>1, <1>4 DEF Channel, Traced
<1>24. \A j : SameMarks(j) /\ SameReader(j) /\ (Traced(j)' <=> Traced(j))
  BY <1>1 DEF SameMarks, SameReader, Traced, Unread, readerVars
<1>25. \A j \in Marked \ {i} : Same(j) /\ SameOwners(j)
  <2> SUFFICES ASSUME NEW j \in Marked \ {i} PROVE Same(j) /\ SameOwners(j)
    OBVIOUS
  <2>1. SameOwners(j)
    BY <1>17, <1>21 DEF SameOwners, Owns
  <2>2. \A q : q.id = j => (q \in DOMAIN records' <=> q \in DOMAIN records)
    BY <1>11, <1>12
  <2>3. j \in Nat /\ j # i
    BY DEF Marked
  <2>4. Same(j)
    BY <1>1, <1>15, <1>24, <2>2, <2>3 DEF Same, readerVars
  <2>5. QED
    BY <2>1, <2>4
<1>26. \A u \in Threads : u # t => ~Owns(u, i)
  BY <1>1, <1>2, <1>3 DEF IndInv, Owners, Owns
<1>27. Host(i, k, h)'
  <2>1. \A q \in DOMAIN records' : q.source = "host" /\ q.id = i =>
         /\ k \in Calls /\ q.flag \in Flags
         /\ q = HostMark(i, q.flag, h)
         /\ q.flag = "mark" <=> k = "mark"
    <3>1. k \in Calls /\ (flag = "mark" <=> k = "mark")
      BY <1>4, <1>7, <1>9 DEF Calls
    <3> SUFFICES ASSUME NEW q \in DOMAIN records', q.source = "host", q.id = i
                 PROVE  /\ q.flag \in Flags /\ q = HostMark(i, q.flag, h)
                        /\ q.flag = "mark" <=> k = "mark"
      BY <3>1
    <3>2. CASE q \in DOMAIN records
      BY <1>6, <3>2 DEF Host
    <3>3. CASE q = r
      BY <1>9, <1>10, <1>11, <3>1, <3>3
    <3>4. QED
      BY <1>12, <3>2, <3>3
  <2>2. \A u \in Threads : ~(pc'[u] = "record" /\ call'[u].id = i)
    BY <1>17, <1>26 DEF Owns
  <2>3. i \in given' => k = "range"
    <3>1. CASE c.kind = "range"
      BY <1>7, <3>1 DEF Calls
    <3>2. CASE c.kind # "range"
      BY <1>6, <1>14, <3>2 DEF Host
    <3>3. QED
      BY <3>1, <3>2
  <2>4. i \in DOMAIN markId2Context' =>
         /\ markId2Context'[i].time = h
         /\ markId2Context'[i].stream <=> Traced(i)'
         /\ NotEnded(i)' /\ ~HostHas(i, "end")'
    <3>1. CASE c.kind = "range"
      <4>1. markId2Context'[i].time = h /\ (markId2Context'[i].stream <=> Traced(i)')
        BY <1>7, <1>14, <1>24, <3>1 DEF Calls
      <4>2. NotEnded(i)'
        BY <1>1, <1>7, <3>1 DEF NotEnded, Traced, Calls
      <4>3. ~HostHas(i, "end") /\ flag # "end"
        BY <1>7, <1>9, <3>1 DEF Flags, Calls
      <4>4. ~HostHas(i, "end")'
        BY <1>11, <1>12, <4>3 DEF HostHas
      <4>5. QED
        BY <4>1, <4>2, <4>4
    <3>2. CASE c.kind # "range"
      BY <1>7, <1>14, <3>2
    <3>3. QED
      BY <3>1, <3>2
  <2>5. QED
    BY <2>1, <2>2, <2>3, <2>4 DEF Host
<1>28. Account(i, k, h, s, e)'
  <2>1. SameReads(i)
    BY <1>24, MarksAndReads
  <2>2. Trace(i, k)'
    BY <1>1, <1>6 DEF Trace, Traced
  <2>3. SameDevice(i)
    BY <1>1, <1>11, <1>12, <1>24, <2>1 DEF SameDevice, readerVars
  <2>4. Device(i, k, s, e)'
    BY <1>4, <1>6, <2>3, DeviceStays DEF Types
  <2>5. SameInner(i)
    <3>1. \A u \in Threads : ~(pc'[u] \in {"inner", "op", "run"} /\ call'[u].id = i)
      BY <1>17, <1>26 DEF Owns
    <3>2. QED
      BY <1>1, <1>11, <1>12, <1>24, <2>1, <3>1 DEF SameInner
  <2>6. Inner(i, k, s, e)'
    BY <1>6, <2>5, InnerStays
  <2>7. QED
    BY <1>27, <2>2, <2>4, <2>6 DEF Account
<1>29. Accounts'
  <2>1. Marked' \subseteq Marked \cup {i} /\ clock' \in Nat /\ clock' >= clock
    BY <1>1, <1>4 DEF Marked
  <2>2. QED
    BY <1>4, <1>25, <1>28, <2>1, AccountsChange
<1>30. QED
  BY <1>18, <1>19, <1>20, <1>22, <1>23, <1>29 DEF IndInv

-----------------------------------------------------------------------------
(* The operators of HCCL.                                                    *)

(* An operator takes a new id and writes the mark of its start, or fails to. *)
LEMMA InnerStartStep ==
  ASSUME IndInv, NEW t \in Threads, InnerStart(t)
  PROVE  IndInv'
<1>1. /\ pc[t] = "idle" /\ calls < MaxCalls /\ calls' = calls + 1 /\ gMarkId' = gMarkId + 1
      /\ UNCHANGED <<kindVars, domainVars, hostVars, markId2HcclOp, readerVars, timeVars,
                     records, given, leaked>>
  BY DEF InnerStart
<1>2. PICK x : x = gMarkId + 1
  OBVIOUS
<1>3. /\ Types /\ Channel /\ Accounts /\ gMarkId \in Nat /\ clock \in Nat
      /\ gMarkId' \in Nat /\ gMarkId' >= gMarkId
  BY <1>1 DEF IndInv, Types
<1>4. x \in Nat \ {0} /\ x \notin Marked /\ Marked' = Marked \cup {x} /\ x \notin DOMAIN truth
      /\ \A u \in Threads : ~Owns(u, x)
  <2>1. Marked' = Marked \cup {x}
    BY <1>1, <1>2, <1>3 DEF Marked
  <2>2. QED
    BY <1>2, <2>1, NewId
<1>5. PICK k \in Ops, stream \in BOOLEAN :
        /\ call' = [call EXCEPT ![t] = Call(k, ByName, stream, x)]
        /\ \/ /\ IF stream THEN ProfTrace(x, k, "start") ELSE NoTrace
              /\ Goto(t, "inner") /\ missed' = missed
           \/ /\ stream /\ Goto(t, "op") /\ NoTrace /\ missed' = missed \cup {x}
  BY <1>2 DEF InnerStart, NewMarkId
<1>6. PICK c : c = Call(k, ByName, stream, x)
  OBVIOUS
<1>7. /\ c \in CallSet /\ c.kind = k /\ c.id = x /\ c.stream = stream
      /\ c.quiet = disableDomains /\ c # NoCall
  <2>1. disableDomains \subseteq AllNames /\ Default \in AllNames
    BY <1>3 DEF Types, AllNames
  <2>2. c \in CallSet /\ c.kind = k /\ c.id = x /\ c.stream = stream /\ c.quiet = disableDomains
    BY <1>4, <1>6, <2>1 DEF Call, CallSet, None, ByName
  <2>3. QED
    BY <2>2, NoCallIsNone
<1>8. PICK p \in {"inner", "op"} :
        /\ Moves(t, p, c)
        /\ \/ p = "inner" /\ (IF stream THEN ProfTrace(x, k, "start") ELSE NoTrace)
           \/ p = "op" /\ NoTrace
  BY <1>5, <1>6 DEF Moves, Goto
<1>9. missed \subseteq missed' /\ k \in Calls \cup Ops /\ k \notin Calls /\ k # "mark"
  BY <1>5, OpsAreNoCalls DEF Calls
<1>10. /\ pc' \in [Threads -> Places] /\ call' \in [Threads -> CallSet \cup {NoCall}]
       /\ pc'[t] = p /\ call'[t] = c
       /\ \A u \in Threads \ {t} : pc'[u] = pc[u] /\ call'[u] = call[u]
  BY <1>3, <1>7, <1>8, MovesFacts DEF Places
<1>11. /\ channel' \in Seq(StepSet) /\ clock' \in {clock, clock + 1}
       /\ DOMAIN truth \subseteq DOMAIN truth' /\ DOMAIN truth' \subseteq DOMAIN truth \cup {x}
       /\ \A j \in DOMAIN truth : truth'[j] = truth[j]
       /\ \A j \in DOMAIN truth' : truth'[j] \in TraceSet
       /\ \A j \in Marked : \A f : Unread(j, f)' <=> Unread(j, f)
       /\ Channel'
       /\ Trace(x, k)' /\ NotEnded(x)' /\ (Unread(x, "start")' <=> Written(x, "start")')
       /\ p = "inner" => (stream <=> Traced(x)')
  <2>1. CASE NoTrace /\ (p = "inner" => ~stream)
    <3>1. Channel' /\ UNCHANGED <<channel, clock, truth>>
      BY <1>3, <2>1, NoTraceFacts
    <3>2. \A j, f : Unread(j, f)' <=> Unread(j, f)
      BY <3>1 DEF Unread
    <3>3. ~Traced(x)' /\ ~Unread(x, "start")
      BY <1>2, <1>4, <3>1, NewId DEF Traced
    <3>4. Trace(x, k)' /\ NotEnded(x)' /\ ~Written(x, "start")'
      BY <3>3 DEF Trace, NotEnded, Written
    <3>5. QED
      BY <1>3, <2>1, <3>1, <3>2, <3>3, <3>4 DEF Types
  <2>2. CASE p = "inner" /\ stream
    <3>1. ProfTrace(x, k, "start") /\ "start" \in Flags /\ x \in Nat
      BY <1>4, <1>8, <2>2 DEF Flags
    <3>2. ~Written(x, "start") /\ ~Traced(x)
      BY <1>4 DEF Written, Traced
    <3>3. /\ channel' \in Seq(StepSet) /\ clock' = clock + 1
          /\ DOMAIN truth' = DOMAIN truth \cup {x}
          /\ \A j \in DOMAIN truth : j # x => truth'[j] = truth[j]
          /\ truth'[x] \in TraceSet /\ truth'[x]["start"] = clock + 1
          /\ truth'[x].what = IF Traced(x) THEN truth[x].what ELSE k
          /\ \A f \in Flags : f # "start" =>
               truth'[x][f] = IF Traced(x) THEN truth[x][f] ELSE None
          /\ \A j, f : Unread(j, f)' <=> Unread(j, f) \/ (j = x /\ f = "start")
          /\ Channel'
      BY <1>3, <1>9, <3>1, <3>2, TraceFacts
    <3>4. /\ truth'[x].what = k /\ truth'[x]["end"] = None /\ truth'[x]["mark"] = None
      BY <3>2, <3>3 DEF Flags
    <3>5. Traced(x)' /\ NotEnded(x)'
      BY <3>3, <3>4 DEF Traced, NotEnded
    <3>6. Trace(x, k)'
      BY <1>3, <1>9, <3>3, <3>4 DEF Trace, None
    <3>7. Unread(x, "start")' <=> Written(x, "start")'
      BY <1>3, <3>3, <3>5 DEF Written, None
    <3>8. \A j \in DOMAIN truth' : truth'[j] \in TraceSet
      BY <1>3, <3>3 DEF Types
    <3>9. QED
      BY <1>4, <2>2, <3>3, <3>5, <3>6, <3>7, <3>8
  <2>3. QED
    BY <1>8, <2>1, <2>2
<1>12. Types'
  <2>1. clock' \in Nat /\ DOMAIN truth' \subseteq Marked'
    BY <1>3, <1>4, <1>11 DEF Types
  <2>2. UNCHANGED <<markId2Context, innerMarkIds>>
    BY <1>1 DEF hostVars
  <2>3. QED
    BY <1>1, <1>3, <1>10, <1>11, <2>1, <2>2, TypesOfTrace
<1>13. CallFits(t)' /\ Heard(t)'
  <2>1. disableDomains' = disableDomains /\ k # "end"
    BY <1>1, OpsAreNoCalls DEF domainVars
  <2>2. CallFits(t)'
    BY <1>4, <1>7, <1>10, <2>1 DEF CallFits
  <2>3. Heard(t)'
    BY <1>7, <1>9, <1>10, <2>1 DEF Heard, Calls
  <2>4. QED
    BY <2>2, <2>3
<1>14. (\A u \in Threads : CallFits(u)') /\ Silent'
  BY <1>1, <1>3, <1>10, <1>13, ThreadsFit
<1>15. Bounded'
  <2>1. Takes(p) = 0 /\ Takes(pc[t]) = 0 /\ Marks(p) = 1 /\ Marks(pc[t]) = 0 /\ p \in Places
    BY <1>1 DEF Takes, Marks, Places
  <2>2. calls \in Nat /\ pc' = [pc EXCEPT ![t] = p] /\ MaxCalls \in Nat /\ Bounded
    BY <1>8, MarkersAssumption DEF IndInv, Bounded, Moves
  <2>3. calls' \in Nat /\ calls' <= MaxCalls /\ gMarkId' \in Nat /\ clock' \in Nat
    BY <1>1, <1>3, <1>11, <2>2
  <2>4. gMarkId' + Takes(p) + calls <= gMarkId + Takes(pc[t]) + calls'
    BY <1>1, <1>3, <2>1, <2>2
  <2>5. clock' + Marks(p) + 2 * calls <= clock + Marks(pc[t]) + 2 * calls'
    <3>1. 2 * calls \in Nat /\ 2 * calls' = 2 * calls + 2
      BY <1>1, <2>2
    <3>2. clock' <= clock + 1 /\ clock' \in Nat
      BY <1>3, <1>11
    <3>3. clock' + 1 + 2 * calls <= clock + 0 + (2 * calls + 2)
      BY <1>3, <3>1, <3>2
    <3>4. QED
      BY <2>1, <3>1, <3>3
  <2>6. UNCHANGED timeVars
    BY <1>1
  <2>7. QED
    BY <1>3, <2>1, <2>2, <2>3, <2>4, <2>5, <2>6, BoundsMove
<1>16. \A id : Owns(t, id)' => id = x
  BY <1>7, <1>10 DEF Owns
<1>17. Owners'
  BY <1>4, <1>10, <1>16, OwnersMove
<1>18. \A id \in Marked : Same(id) /\ SameOwners(id)
  <2> SUFFICES ASSUME NEW id \in Marked PROVE Same(id) /\ SameOwners(id)
    OBVIOUS
  <2>1. id # x /\ ~Owns(t, id)'
    BY <1>4, <1>16
  <2>2. SameOwners(id)
    BY <1>10, <2>1 DEF SameOwners, Owns
  <2>3. SameMarks(id)
    BY <1>11, <2>1 DEF SameMarks, Traced
  <2>4. SameReader(id)
    BY <1>1 DEF SameReader, readerVars, hostVars
  <2>5. Same(id)
    BY <1>1, <1>9, <2>3, <2>4 DEF Same, hostVars, readerVars
  <2>6. QED
    BY <2>2, <2>5
<1>19. Account(x, k, 0, None, None)'
  <2>1. \A u \in Threads : pc'[u] \in {"record", "inner", "op", "run"} /\ call'[u].id = x =>
          u = t
    BY <1>4, <1>10 DEF Owns
  <2>2. \A u \in Threads : ~(pc'[u] = "record" /\ call'[u].id = x)
    BY <1>10, <2>1
  <2>3. \A u \in Threads : pc'[u] \in {"inner", "op", "run"} /\ call'[u].id = x =>
          k = call'[u].kind /\ (pc'[u] = "inner" => (call'[u].stream <=> Traced(x)'))
    BY <1>7, <1>10, <1>11, <2>1
  <2>4. PICK h \in Nat : h = 0
    OBVIOUS
  <2>5. Account(x, k, h, None, None)'
    BY <1>1, <1>2, <1>9, <1>11, <2>2, <2>3, NewAccount
  <2>6. QED
    BY <2>4, <2>5
<1>20. Accounts'
  <2>1. Account(x, k, 0, None, None)' /\ None \in Nat /\ k \in Calls \cup Ops
    BY <1>9, <1>19 DEF None
  <2>2. clock' \in Nat /\ clock' >= clock
    BY <1>3, <1>11
  <2>3. QED
    BY <1>3, <1>4, <1>18, <2>1, <2>2, AccountsChange
<1>21. QED
  BY <1>11, <1>12, <1>14, <1>15, <1>17, <1>20 DEF IndInv

(* What is said of the operator's marks and records stays.                   *)
LEMMA ReportedStays ==
  ASSUME NEW id, NEW k, NEW s, NEW e, Inner(id, k, s, e), SameReads(id), SameReader(id),
         id \in DOMAIN markId2HcclOp' <=> id \in DOMAIN markId2HcclOp,
         id \in DOMAIN markId2HcclOp => markId2HcclOp'[id] = markId2HcclOp[id],
         \A r : r.source = "hccl" /\ r.id = id => (r \in DOMAIN records' <=> r \in DOMAIN records),
         id \in missed => id \in missed'
  PROVE  /\ \A r \in DOMAIN records' : r.source = "hccl" /\ r.id = id =>
              k \in Ops /\ Done(id, "end")' /\ (id \in missed' \/ r = HcclRecord(id, k, s, e)')
         /\ k \in Ops /\ id \notin missed' =>
              /\ Done(id, "start")' /\ ~Done(id, "end")' =>
                   id \in DOMAIN markId2HcclOp' /\ markId2HcclOp'[id] = StartedOp(id, k, s)'
              /\ Done(id, "end")' =>
                   /\ id \notin DOMAIN markId2HcclOp'
                   /\ HcclRecord(id, k, s, e)' \in DOMAIN records'
<1>1. /\ Done(id, "start")' <=> Done(id, "start")
      /\ Done(id, "end")' <=> Done(id, "end")
  BY SameDone DEF Flags
<1>2. /\ Done(id, "start") => StartedOp(id, k, s)' = StartedOp(id, k, s)
      /\ Done(id, "end") => HcclRecord(id, k, s, e)' = HcclRecord(id, k, s, e)
  BY SameRecord
<1>3. \A r \in DOMAIN records' : r.source = "hccl" /\ r.id = id =>
        k \in Ops /\ Done(id, "end")' /\ (id \in missed' \/ r = HcclRecord(id, k, s, e)')
  BY <1>1, <1>2 DEF Inner
<1>4. HcclRecord(id, k, s, e).source = "hccl" /\ HcclRecord(id, k, s, e).id = id
  BY DEF HcclRecord
<1>5. k \in Ops /\ id \notin missed' =>
        /\ Done(id, "start")' /\ ~Done(id, "end")' =>
             id \in DOMAIN markId2HcclOp' /\ markId2HcclOp'[id] = StartedOp(id, k, s)'
        /\ Done(id, "end")' =>
             /\ id \notin DOMAIN markId2HcclOp'
             /\ HcclRecord(id, k, s, e)' \in DOMAIN records'
  BY <1>1, <1>2, <1>4 DEF Inner
<1>6. QED
  BY <1>3, <1>5

(* A thread goes on with its operator.                                       *)
LEMMA OpGoesOn ==
  ASSUME IndInv, NEW t \in Threads, NEW p \in {"op", "run"}, pc[t] \in {"inner", "op"},
         Goto(t, p), UNCHANGED <<kindVars, domainVars, gMarkId, markId2Context, readerVars>>,
         UNCHANGED <<timeVars, channel, clock, records, call, calls, given, truth, missed, leaked>>
  PROVE  /\ pc' \in [Threads -> Places] /\ pc'[t] = p
         /\ \A u \in Threads \ {t} : pc'[u] = pc[u] /\ call'[u] = call[u]
         /\ (\A u \in Threads : CallFits(u)') /\ Silent' /\ Bounded' /\ Owners' /\ Channel'
         /\ call[t] \in CallSet /\ call[t].id \in Marked /\ call[t].kind \in Ops
         /\ \A u \in Threads, id \in Marked : Owns(u, id) /\ id = call[t].id => u = t
         /\ \A id \in Marked : Owns(t, id)' => id = call[t].id
<1>1. pc' \in [Threads -> Places] /\ pc'[t] = p /\ \A u \in Threads \ {t} : pc'[u] = pc[u]
  BY DEF Goto, IndInv, Types, Places
<1>2. /\ call[t] \in CallSet /\ call[t].id \in Marked /\ call[t].kind \in Ops
      /\ call[t].quiet \subseteq disableDomains /\ call[t].kind \notin Calls
  BY OpsAreNoCalls DEF IndInv, CallFits, Silent, Heard
<1>3. CallFits(t)' /\ Heard(t)'
  <2>1. disableDomains' = disableDomains /\ Marked' = Marked /\ call[t].kind # "end"
    BY <1>2, OpsAreNoCalls DEF domainVars, Marked
  <2>2. call[t] # NoCall
    BY <1>2, NoCallIsNone
  <2>3. CallFits(t)'
    BY <1>1, <1>2, <2>1, <2>2 DEF CallFits
  <2>4. Heard(t)'
    BY <1>1, <1>2, <2>1 DEF Heard, Calls
  <2>5. QED
    BY <2>3, <2>4
<1>4. gMarkId \in Nat /\ clock \in Nat /\ calls \in Nat /\ calls <= MaxCalls /\ Types /\ Bounded
  BY DEF IndInv, Types, Bounded
<1>5. (\A u \in Threads : CallFits(u)') /\ Silent'
  BY <1>1, <1>3, <1>4, ThreadsFit
<1>6. Bounded'
  <2>1. Takes(p) = 0 /\ Takes(pc[t]) = 0 /\ Marks(p) = 1 /\ Marks(pc[t]) = 1 /\ p \in Places
    BY DEF Takes, Marks, Places
  <2>2. pc' = [pc EXCEPT ![t] = p]
    BY DEF Goto
  <2>3. /\ calls' \in Nat /\ calls' <= MaxCalls /\ UNCHANGED timeVars
        /\ gMarkId' \in Nat /\ clock' \in Nat
        /\ gMarkId' + Takes(p) + calls <= gMarkId + Takes(pc[t]) + calls'
        /\ clock' + Marks(p) + 2 * calls <= clock + Marks(pc[t]) + 2 * calls'
    BY <1>4, <2>1
  <2>4. QED
    BY <1>4, <2>1, <2>2, <2>3, BoundsMove
<1>7. \A u \in Threads : \A id : Owns(u, id)' <=> Owns(u, id)
  BY <1>1 DEF Owns
<1>8. Owners'
  BY <1>7 DEF IndInv, Owners, Marked
<1>9. Channel'
  BY DEF IndInv, Channel, Traced
<1>10. \A u \in Threads, id \in Marked : Owns(u, id) /\ id = call[t].id => u = t
  BY DEF IndInv, Owners, Owns
<1>11. \A id \in Marked : Owns(t, id)' => id = call[t].id
  BY DEF Owns
<1>12. QED
  BY <1>1, <1>2, <1>5, <1>6, <1>8, <1>9, <1>10, <1>11

(* An inner id is filed by the thread that has it.                           *)
LEMMA InnerFileStep ==
  ASSUME IndInv, NEW t \in Threads, InnerFile(t)
  PROVE  IndInv'
<1>1. /\ pc[t] = "inner" /\ Goto(t, "op")
      /\ innerMarkIds' = Put(innerMarkIds, call[t].id, call[t].stream)
      /\ UNCHANGED <<kindVars, domainVars, gMarkId, markId2Context, readerVars>>
      /\ UNCHANGED <<timeVars, channel, clock, records, call, calls, given, truth, missed, leaked>>
      /\ UNCHANGED markId2HcclOp
  BY DEF InnerFile
<1>2. /\ pc' \in [Threads -> Places] /\ pc'[t] = "op"
      /\ \A u \in Threads \ {t} : pc'[u] = pc[u] /\ call'[u] = call[u]
      /\ (\A u \in Threads : CallFits(u)') /\ Silent' /\ Bounded' /\ Owners' /\ Channel'
      /\ call[t] \in CallSet /\ call[t].id \in Marked /\ call[t].kind \in Ops
      /\ \A u \in Threads, id \in Marked : Owns(u, id) /\ id = call[t].id => u = t
      /\ \A id \in Marked : Owns(t, id)' => id = call[t].id
  BY <1>1, OpGoesOn
<1>3. PICK i \in Marked : i = call[t].id
  BY <1>2
<1>4. Types /\ Accounts /\ clock \in Nat
  BY DEF IndInv, Types
<1>5. PICK k \in Calls \cup Ops, h \in Nat, s \in Nat, e \in Nat : Account(i, k, h, s, e)
  BY <1>4 DEF Accounts
<1>6. Host(i, k, h) /\ Device(i, k, s, e) /\ Inner(i, k, s, e) /\ Trace(i, k)
  BY <1>5 DEF Account
<1>7. /\ k = call[t].kind /\ i \notin DOMAIN innerMarkIds /\ i \notin DOMAIN markId2HcclOp
      /\ NotEnded(i) /\ (call[t].stream <=> Traced(i)) /\ call[t].stream \in BOOLEAN
  BY <1>1, <1>2, <1>3, <1>6 DEF Inner, CallSet
<1>8. /\ DOMAIN innerMarkIds' = DOMAIN innerMarkIds \cup {i}
      /\ innerMarkIds'[i] = call[t].stream
      /\ \A j \in DOMAIN innerMarkIds : j # i => innerMarkIds'[j] = innerMarkIds[j]
  BY <1>1, <1>3 DEF Put
<1>9. Types'
  <2>1. DOMAIN innerMarkIds' \subseteq Marked /\ \A j \in DOMAIN innerMarkIds' : innerMarkIds'[j] \in BOOLEAN
    BY <1>3, <1>4, <1>7, <1>8 DEF Types
  <2>2. QED
    BY <1>1, <1>2, <1>4, <2>1 DEF Types, kindVars, domainVars, readerVars, timeVars, Marked
<1>10. \A j : SameMarks(j) /\ SameReader(j) /\ SameReads(j)
  <2>1. \A j : SameMarks(j)
    BY <1>1 DEF SameMarks, Traced, Unread
  <2>2. \A j : SameReader(j)
    BY <1>1, <1>8 DEF SameReader, readerVars
  <2>3. QED
    BY <2>1, <2>2, MarksAndReads
<1>11. \A j \in Marked \ {i} : Same(j) /\ SameOwners(j)
  <2> SUFFICES ASSUME NEW j \in Marked \ {i} PROVE Same(j) /\ SameOwners(j)
    OBVIOUS
  <2>1. SameOwners(j)
    BY <1>2, <1>3 DEF SameOwners, Owns
  <2>2. Same(j)
    BY <1>1, <1>8, <1>10 DEF Same, readerVars
  <2>3. QED
    BY <2>1, <2>2
<1>12. Account(i, k, h, s, e)'
  <2>1. Trace(i, k)'
    BY <1>1, <1>6 DEF Trace, Traced
  <2>2. Host(i, k, h)'
    <3>1. SameHost(i)
      BY <1>1, <1>2 DEF SameHost, Traced
    <3>2. QED
      BY <1>6, <3>1, HostStays
  <2>3. Device(i, k, s, e)'
    <3>1. SameDevice(i)
      BY <1>1, <1>10 DEF SameDevice, readerVars
    <3>2. QED
      BY <1>4, <1>6, <3>1, DeviceStays DEF Types
  <2>4. Inner(i, k, s, e)'
    <3>1. /\ \A r \in DOMAIN records' : r.source = "hccl" /\ r.id = i =>
               k \in Ops /\ Done(i, "end")' /\ (i \in missed' \/ r = HcclRecord(i, k, s, e)')
          /\ k \in Ops /\ i \notin missed' =>
               /\ Done(i, "start")' /\ ~Done(i, "end")' =>
                    i \in DOMAIN markId2HcclOp' /\ markId2HcclOp'[i] = StartedOp(i, k, s)'
               /\ Done(i, "end")' =>
                    /\ i \notin DOMAIN markId2HcclOp'
                    /\ HcclRecord(i, k, s, e)' \in DOMAIN records'
      BY <1>1, <1>6, <1>10, ReportedStays
    <3>2. i \in DOMAIN innerMarkIds' => k \in Ops /\ (innerMarkIds'[i] <=> Traced(i)')
      BY <1>1, <1>2, <1>7, <1>8 DEF Traced
    <3>3. i \notin DOMAIN markId2HcclOp' /\ NotEnded(i)'
      BY <1>1, <1>7 DEF NotEnded, Traced
    <3>4. \A u \in Threads : pc'[u] \in {"inner", "op", "run"} /\ call'[u].id = i => u = t
      BY <1>2, <1>3 DEF Owns
    <3>5. pc'[t] = "op" /\ call'[t].kind = k
      BY <1>1, <1>2, <1>7
    <3>6. \A u \in Threads : pc'[u] \in {"inner", "op", "run"} /\ call'[u].id = i =>
            /\ k = call'[u].kind /\ NotEnded(i)'
            /\ pc'[u] = "inner" => i \notin DOMAIN innerMarkIds' /\ (call'[u].stream <=> Traced(i)')
            /\ pc'[u] # "run" => i \notin DOMAIN markId2HcclOp'
      BY <3>3, <3>4, <3>5
    <3>7. QED
      BY <3>1, <3>2, <3>3, <3>6 DEF Inner
  <2>5. QED
    BY <2>1, <2>2, <2>3, <2>4 DEF Account
<1>13. Accounts'
  <2>1. Marked' \subseteq Marked \cup {i} /\ clock' \in Nat /\ clock' >= clock
    BY <1>1, <1>4 DEF Marked
  <2>2. QED
    BY <1>4, <1>11, <1>12, <2>1, AccountsChange
<1>14. QED
  BY <1>2, <1>9, <1>13 DEF IndInv

(* The operator is filed after its inner id, and before its end.             *)
LEMMA RecordHcclOpStep ==
  ASSUME IndInv, NEW t \in Threads, RecordHcclOp(t)
  PROVE  IndInv'
<1>1. /\ pc[t] = "op" /\ Goto(t, "run")
      /\ markId2HcclOp' = Put(markId2HcclOp, call[t].id, Desc(call[t].kind))
      /\ UNCHANGED <<kindVars, domainVars, gMarkId, markId2Context, readerVars>>
      /\ UNCHANGED <<timeVars, channel, clock, records, call, calls, given, truth, missed, leaked>>
      /\ UNCHANGED innerMarkIds
  BY DEF RecordHcclOp, hostVars
<1>2. /\ pc' \in [Threads -> Places] /\ pc'[t] = "run"
      /\ \A u \in Threads \ {t} : pc'[u] = pc[u] /\ call'[u] = call[u]
      /\ (\A u \in Threads : CallFits(u)') /\ Silent' /\ Bounded' /\ Owners' /\ Channel'
      /\ call[t] \in CallSet /\ call[t].id \in Marked /\ call[t].kind \in Ops
      /\ \A u \in Threads, id \in Marked : Owns(u, id) /\ id = call[t].id => u = t
      /\ \A id \in Marked : Owns(t, id)' => id = call[t].id
  BY <1>1, OpGoesOn
<1>3. PICK i \in Marked : i = call[t].id
  BY <1>2
<1>4. Types /\ Accounts /\ clock \in Nat
  BY DEF IndInv, Types
<1>5. PICK k \in Calls \cup Ops, h \in Nat, s \in Nat, e \in Nat : Account(i, k, h, s, e)
  BY <1>4 DEF Accounts
<1>6. Host(i, k, h) /\ Device(i, k, s, e) /\ Inner(i, k, s, e) /\ Trace(i, k)
  BY <1>5 DEF Account
<1>7. k = call[t].kind /\ i \notin DOMAIN markId2HcclOp /\ NotEnded(i)
  BY <1>1, <1>3, <1>6 DEF Inner
<1>8. PICK d : d = Desc(k)
  OBVIOUS
<1>9. d \in OpSet /\ d.opName = k /\ d.rankSize = Desc(k).rankSize /\ d.end = None
  BY <1>2, <1>7, <1>8 DEF Desc, OpSet, None, Ranks
<1>10. /\ DOMAIN markId2HcclOp' = DOMAIN markId2HcclOp \cup {i}
       /\ markId2HcclOp'[i] = d
       /\ \A j \in DOMAIN markId2HcclOp : j # i => markId2HcclOp'[j] = markId2HcclOp[j]
  BY <1>1, <1>3, <1>7, <1>8 DEF Put
<1>11. Types'
  <2>1. /\ DOMAIN markId2HcclOp' \subseteq Marked
        /\ \A j \in DOMAIN markId2HcclOp' : markId2HcclOp'[j] \in OpSet
    BY <1>3, <1>4, <1>9, <1>10 DEF Types
  <2>2. QED
    BY <1>1, <1>2, <1>4, <2>1 DEF Types, kindVars, domainVars, readerVars, timeVars, Marked
<1>12. \A j : SameMarks(j) /\ SameReader(j) /\ SameReads(j)
  <2>1. \A j : SameMarks(j)
    BY <1>1 DEF SameMarks, Traced, Unread
  <2>2. \A j : SameReader(j)
    BY <1>1 DEF SameReader, readerVars
  <2>3. QED
    BY <2>1, <2>2, MarksAndReads
<1>13. \A j \in Marked \ {i} : Same(j) /\ SameOwners(j)
  <2> SUFFICES ASSUME NEW j \in Marked \ {i} PROVE Same(j) /\ SameOwners(j)
    OBVIOUS
  <2>1. SameOwners(j)
    BY <1>2, <1>3 DEF SameOwners, Owns
  <2>2. Same(j)
    BY <1>1, <1>10, <1>12 DEF Same, readerVars
  <2>3. QED
    BY <2>1, <2>2
<1>14. Account(i, k, h, s, e)'
  <2>1. Trace(i, k)'
    BY <1>1, <1>6 DEF Trace, Traced
  <2>2. Host(i, k, h)'
    <3>1. SameHost(i)
      BY <1>1, <1>2 DEF SameHost, Traced
    <3>2. QED
      BY <1>6, <3>1, HostStays
  <2>3. Device(i, k, s, e)'
    <3>1. SameDevice(i)
      BY <1>1, <1>12 DEF SameDevice, readerVars
    <3>2. QED
      BY <1>4, <1>6, <3>1, DeviceStays DEF Types
  <2>4. Inner(i, k, s, e)'
    <3>1. ~Done(i, "end")
      BY <1>7 DEF Done, Read, Written, NotEnded
    <3>2. i \notin missed => ~Done(i, "start")
      BY <1>2, <1>6, <1>7, <3>1 DEF Inner
    <3>3. (Done(i, "start")' <=> Done(i, "start")) /\ (Done(i, "end")' <=> Done(i, "end"))
      BY <1>12, SameDone DEF Flags
    <3>4. i \in DOMAIN innerMarkIds' => k \in Ops /\ (innerMarkIds'[i] <=> Traced(i)')
      BY <1>1, <1>6 DEF Inner, Traced
    <3>5. NotEnded(i)'
      BY <1>1, <1>7 DEF NotEnded, Traced
    <3>6. \A u \in Threads : pc'[u] \in {"inner", "op", "run"} /\ call'[u].id = i => u = t
      BY <1>2, <1>3 DEF Owns
    <3>7. pc'[t] = "run" /\ call'[t].kind = k
      BY <1>1, <1>2, <1>7
    <3>8. \A u \in Threads : pc'[u] \in {"inner", "op", "run"} /\ call'[u].id = i =>
            /\ k = call'[u].kind /\ NotEnded(i)'
            /\ pc'[u] = "inner" => i \notin DOMAIN innerMarkIds' /\ (call'[u].stream <=> Traced(i)')
            /\ pc'[u] # "run" => i \notin DOMAIN markId2HcclOp'
      BY <3>5, <3>6, <3>7
    <3>9. \A r \in DOMAIN records' : ~(r.source = "hccl" /\ r.id = i)
      BY <1>1, <1>6, <3>1 DEF Inner
    <3>10. /\ k \in Ops /\ markId2HcclOp'[i].opName = k
           /\ markId2HcclOp'[i].rankSize = Desc(k).rankSize /\ markId2HcclOp'[i].end = None
      BY <1>2, <1>7, <1>9, <1>10
    <3>11. missed' = missed
      BY <1>1
    <3>12. QED
      BY <3>1, <3>2, <3>3, <3>4, <3>8, <3>9, <3>10, <3>11 DEF Inner
  <2>5. QED
    BY <2>1, <2>2, <2>3, <2>4 DEF Account
<1>15. Accounts'
  <2>1. Marked' \subseteq Marked \cup {i} /\ clock' \in Nat /\ clock' >= clock
    BY <1>1, <1>4 DEF Marked
  <2>2. QED
    BY <1>4, <1>13, <1>14, <2>1, AccountsChange
<1>16. QED
  BY <1>2, <1>11, <1>15 DEF IndInv

(* The end of an operator is written at most once.                           *)
LEMMA InnerEndStep ==
  ASSUME IndInv, NEW t \in Threads, InnerEnd(t)
  PROVE  IndInv'
<1>1. /\ pc[t] = "run" /\ Leave(t)
      /\ UNCHANGED <<kindVars, domainVars, gMarkId, hostVars, markId2HcclOp, readerVars>>
      /\ UNCHANGED <<timeVars, records, calls, given, leaked>>
  BY DEF InnerEnd
<1>2. CASE NoTrace /\ missed \subseteq missed'
  BY <1>1, <1>2, LeaveStep DEF NoTrace
<1>3. CASE /\ call[t].id \in DOMAIN innerMarkIds /\ innerMarkIds[call[t].id]
           /\ ProfTrace(call[t].id, call[t].kind, "end") /\ UNCHANGED missed
  <2>1. /\ Types /\ Channel /\ Accounts /\ gMarkId \in Nat /\ clock \in Nat
        /\ call[t] \in CallSet /\ call[t].kind \in Ops /\ call[t].id \in Marked
    BY <1>1 DEF IndInv, Types, CallFits
  <2>2. PICK i \in Marked : i = call[t].id
    BY <2>1
  <2>3. PICK k \in Calls \cup Ops, h \in Nat, s \in Nat, e \in Nat : Account(i, k, h, s, e)
    BY <2>1 DEF Accounts
  <2>4. Host(i, k, h) /\ Device(i, k, s, e) /\ Inner(i, k, s, e) /\ Trace(i, k)
    BY <2>3 DEF Account
  <2>5. k = call[t].kind /\ NotEnded(i) /\ Traced(i) /\ k # "mark" /\ k # "range"
    <3>1. k = call[t].kind /\ NotEnded(i) /\ Traced(i)
      BY <1>1, <1>3, <2>2, <2>4 DEF Inner
    <3>2. QED
      BY <2>1, <3>1, OpsAreNoCalls DEF Calls
  <2>6. /\ channel' \in Seq(StepSet) /\ clock' = clock + 1 /\ Channel'
        /\ DOMAIN truth' = DOMAIN truth
        /\ \A j \in DOMAIN truth' : truth'[j] \in TraceSet
        /\ \A j \in DOMAIN truth : j # i => truth'[j] = truth[j]
        /\ \A j, f : j # i => (Unread(j, f)' <=> Unread(j, f))
        /\ SameReads(i) /\ Trace(i, k)'
    <3>1. ProfTrace(i, k, "end")
      BY <1>3, <2>2, <2>5
    <3>2. QED
      BY <2>1, <2>4, <2>5, <3>1, EndWritten
  <2>7. Moves(t, "idle", NoCall)
    BY <1>1, LeaveMoves
  <2>8. /\ pc' \in [Threads -> Places] /\ call' \in [Threads -> CallSet \cup {NoCall}]
        /\ pc'[t] = "idle" /\ call'[t] = NoCall
        /\ \A u \in Threads \ {t} : pc'[u] = pc[u] /\ call'[u] = call[u]
    BY <2>1, <2>7, MovesFacts DEF Places
  <2>9. clock' \in Nat /\ clock' >= clock
    BY <2>1, <2>6
  <2>10. Types'
    <3>1. DOMAIN truth \subseteq DOMAIN truth' /\ DOMAIN truth' \subseteq Marked'
      BY <1>1, <2>1, <2>6 DEF Types, Marked
    <3>2. gMarkId' \in Nat /\ gMarkId' >= gMarkId /\ UNCHANGED <<markId2Context, innerMarkIds>>
      BY <1>1, <2>1 DEF hostVars
    <3>3. QED
      BY <1>1, <2>1, <2>6, <2>8, <2>9, <3>1, <3>2, TypesOfTrace
  <2>11. (\A u \in Threads : CallFits(u)') /\ Silent'
    BY <1>1, <2>1, <2>8, IdleFits, ThreadsFit
  <2>12. Bounded'
    <3>1. Marks(pc[t]) = 1 /\ pc' = [pc EXCEPT ![t] = "idle"] /\ Bounded
      BY <1>1, <2>7 DEF Marks, Moves, IndInv
    <3>2. QED
      BY <1>1, <2>1, <2>6, <3>1, BoundsSpend
  <2>13. \A j : ~Owns(t, j)'
    BY <2>8 DEF Owns
  <2>14. Owners'
    BY <2>8, <2>13, OwnersMove
  <2>15. \A u \in Threads : ~Owns(u, i)'
    <3>1. Owns(t, i)
      BY <1>1, <2>2 DEF Owns
    <3>2. QED
      BY <2>8, <2>13, <3>1 DEF IndInv, Owners, Owns
  <2>16. \A j \in Marked \ {i} : Same(j) /\ SameOwners(j)
    <3> SUFFICES ASSUME NEW j \in Marked \ {i} PROVE Same(j) /\ SameOwners(j)
      OBVIOUS
    <3>1. SameOwners(j)
      BY <2>8, <2>13 DEF SameOwners, Owns
    <3>2. SameMarks(j) /\ SameReader(j)
      BY <1>1, <2>6, OtherMarksStay DEF Traced, readerVars, hostVars
    <3>3. Same(j)
      BY <1>1, <1>3, <3>2 DEF Same, readerVars, hostVars
    <3>4. QED
      BY <3>1, <3>3
  <2>17. Account(i, k, h, s, e)'
    <3>1. SameReader(i)
      BY <1>1 DEF SameReader, readerVars, hostVars
    <3>2. Host(i, k, h)'
      <4>1. i \notin given' /\ i \notin DOMAIN markId2Context'
        BY <1>1, <2>1, <2>4, <2>5 DEF Host, hostVars, Types
      <4>2. \A u \in Threads : ~(pc'[u] = "record" /\ call'[u].id = i)
        BY <2>15 DEF Owns
      <4>3. \A r \in DOMAIN records' : ~(r.source = "host" /\ r.id = i)
        BY <1>1, <2>1, <2>4, <2>5, OpsAreNoCalls DEF Host
      <4>4. QED
        BY <4>1, <4>2, <4>3 DEF Host
    <3>3. Device(i, k, s, e)'
      <4>1. SameDevice(i)
        BY <1>1, <2>6, <3>1 DEF SameDevice, readerVars
      <4>2. QED
        BY <2>1, <2>4, <4>1, DeviceStays DEF Types
    <3>4. Inner(i, k, s, e)'
      <4>1. SameInner(i)
        BY <1>1, <1>3, <2>6, <2>15, <3>1 DEF SameInner, Owns, hostVars, Traced
      <4>2. QED
        BY <2>4, <4>1, InnerStays
    <3>5. QED
      BY <2>6, <3>2, <3>3, <3>4 DEF Account
  <2>18. Accounts'
    <3>1. Marked' \subseteq Marked \cup {i}
      BY <1>1 DEF Marked
    <3>2. QED
      BY <2>1, <2>9, <2>16, <2>17, <3>1, AccountsChange
  <2>19. QED
    BY <2>6, <2>10, <2>11, <2>12, <2>14, <2>18 DEF IndInv
<1>4. QED
  BY <1>2, <1>3 DEF InnerEnd

-----------------------------------------------------------------------------
(* The reader of the marks.                                                  *)

(* The oldest mark is taken; what is still unread was written after it.      *)
LEMMA HeadFacts ==
  ASSUME Types, Channel, channel # <<>>, channel' = Tail(channel), truth' = truth, clock' = clock,
         NEW m, m = Head(channel)
  PROVE  /\ m \in StepSet /\ Traced(m.id) /\ m.count = truth[m.id][m.flag] /\ m.count \in 1 .. clock
         /\ Unread(m.id, m.flag)
         /\ channel' \in Seq(StepSet) /\ Channel'
         /\ \A j, f : Unread(j, f)' <=> Unread(j, f) /\ ~(j = m.id /\ f = m.flag)
         /\ \A j, f : Unread(j, f) => truth[j][f] \in Nat /\ truth[j][f] >= m.count
<1>1. channel \in Seq(StepSet) /\ clock \in Nat
  BY DEF Types
<1>2. /\ Len(channel) \in Nat /\ Len(channel) >= 1 /\ DOMAIN channel = 1 .. Len(channel)
      /\ m = channel[1] /\ m \in StepSet
      /\ channel' \in Seq(StepSet) /\ DOMAIN channel' = 1 .. Len(channel) - 1
      /\ \A i \in 1 .. Len(channel) - 1 : channel'[i] = channel[i + 1]
  BY <1>1
<1>3. /\ \A i \in 1 .. Len(channel) :
           /\ Traced(channel[i].id)
           /\ channel[i].count = truth[channel[i].id][channel[i].flag]
           /\ channel[i].count \in 1 .. clock
      /\ \A i, j \in 1 .. Len(channel) : i < j => channel[i].count < channel[j].count
  BY <1>2 DEF Channel
<1>4. /\ Traced(m.id) /\ m.count = truth[m.id][m.flag] /\ m.count \in 1 .. clock
      /\ Unread(m.id, m.flag)
  BY <1>2, <1>3 DEF Unread
<1>5. Channel'
  <2>1. \A i \in DOMAIN channel' : i + 1 \in 1 .. Len(channel) /\ channel'[i] = channel[i + 1]
    BY <1>2
  <2>2. \A i \in DOMAIN channel' :
          /\ channel'[i].id \in DOMAIN truth'
          /\ channel'[i].count = truth'[channel'[i].id][channel'[i].flag]
          /\ channel'[i].count \in 1 .. clock'
    BY <1>3, <2>1 DEF Traced
  <2>3. \A i, j \in DOMAIN channel' : i < j => channel'[i].count < channel'[j].count
    <3> SUFFICES ASSUME NEW i \in DOMAIN channel', NEW j \in DOMAIN channel', i < j
                 PROVE  channel'[i].count < channel'[j].count
      OBVIOUS
    <3>1. i + 1 < j + 1
      BY <1>2
    <3>2. QED
      BY <1>3, <2>1, <3>1
  <2>4. QED
    BY <2>2, <2>3 DEF Channel, Traced
<1>6. \A j, f : Unread(j, f)' <=> Unread(j, f) /\ ~(j = m.id /\ f = m.flag)
  <2> SUFFICES ASSUME NEW j, NEW f
               PROVE  Unread(j, f)' <=> Unread(j, f) /\ ~(j = m.id /\ f = m.flag)
    OBVIOUS
  <2>1. ASSUME Unread(j, f)'
        PROVE  Unread(j, f) /\ ~(j = m.id /\ f = m.flag)
    <3>1. PICK i \in 1 .. Len(channel) - 1 : channel[i + 1].id = j /\ channel[i + 1].flag = f
      BY <1>2, <2>1 DEF Unread
    <3>2. i + 1 \in 1 .. Len(channel) /\ 1 \in 1 .. Len(channel) /\ 1 < i + 1
      BY <1>2
    <3>3. m.count < channel[i + 1].count /\ channel[i + 1].count = truth[j][f]
      BY <1>2, <1>3, <3>1, <3>2
    <3>4. m.count \in Nat /\ channel[i + 1].count \in Nat
      BY <1>1, <1>3, <1>4, <3>2
    <3>5. ~(j = m.id /\ f = m.flag)
      BY <1>4, <3>3, <3>4
    <3>6. QED
      BY <1>2, <3>1, <3>2, <3>5 DEF Unread
  <2>2. ASSUME Unread(j, f), ~(j = m.id /\ f = m.flag)
        PROVE  Unread(j, f)'
    <3>1. PICK i \in 1 .. Len(channel) : channel[i].id = j /\ channel[i].flag = f
      BY <1>2, <2>2 DEF Unread
    <3>2. i # 1
      BY <1>2, <2>2, <3>1
    <3>3. PICK n \in 1 .. Len(channel) - 1 : i = n + 1
      BY <1>2, <3>2
    <3>4. QED
      BY <1>2, <3>1, <3>3 DEF Unread
  <2>3. QED
    BY <2>1, <2>2
<1>7. \A j, f : Unread(j, f) => truth[j][f] \in Nat /\ truth[j][f] >= m.count
  <2> SUFFICES ASSUME NEW j, NEW f, Unread(j, f)
               PROVE  truth[j][f] \in Nat /\ truth[j][f] >= m.count
    OBVIOUS
  <2>1. PICK i \in 1 .. Len(channel) : channel[i].id = j /\ channel[i].flag = f
    BY <1>2 DEF Unread
  <2>2. channel[i].count = truth[j][f] /\ channel[i].count \in 1 .. clock
    BY <1>3, <2>1
  <2>3. CASE i = 1
    BY <1>1, <1>2, <2>2, <2>3
  <2>4. CASE i # 1
    <3>1. 1 < i /\ 1 \in 1 .. Len(channel)
      BY <1>2, <2>4
    <3>2. m.count < channel[i].count
      BY <1>2, <1>3, <3>1
    <3>3. QED
      BY <1>1, <1>4, <2>2, <3>2
  <2>5. QED
    BY <2>3, <2>4
<1>8. QED
  BY <1>2, <1>4, <1>5, <1>6, <1>7

(* A step of the reader moves no thread.                                     *)
LEMMA ReaderMoves ==
  ASSUME IndInv, UNCHANGED <<kindVars, domainVars, gMarkId, hostVars, timeVars>>,
         UNCHANGED <<clock, callVars, calls, given, truth, leaked>>
  PROVE  /\ (\A t \in Threads : CallFits(t)') /\ Bounded' /\ Silent' /\ Owners'
         /\ \A id : SameOwners(id)
<1>1. \A t \in Threads : CallFits(t)'
  BY DEF IndInv, CallFits, domainVars, callVars, Marked
<1>2. Bounded'
  BY DEF IndInv, Bounded, callVars, timeVars, Pending, Working
<1>3. Silent'
  BY DEF IndInv, Silent, Heard, domainVars, callVars
<1>4. Owners' /\ \A id : SameOwners(id)
  BY DEF IndInv, Owners, Owns, SameOwners, callVars, Marked
<1>5. QED
  BY <1>1, <1>2, <1>3, <1>4

(* The times at which a mark is converted.                                   *)
LEMMA RealTimeType ==
  ASSUME NEW count \in Nat, NEW time \in Nat
  PROVE  RealTime(count, time) \in Nat
<1>1. Offset \in Nat
  BY MarkersAssumption DEF Offset
<1>2. time * Offset \in Nat
  BY <1>1
<1>3. QED
  BY <1>2 DEF RealTime

(* The reader takes the next mark and its time information.                  *)
LEMMA ReportMarkDataStep ==
  ASSUME IndInv, ReportMarkData
  PROVE  IndInv'
<1>1. /\ reader = NoMark /\ channel # <<>> /\ channel' = Tail(channel)
      /\ UNCHANGED <<kindVars, domainVars, gMarkId, hostVars, timeVars>>
      /\ UNCHANGED <<clock, callVars, calls, given, truth, leaked>>
      /\ UNCHANGED <<markId2HcclOp, records, missed>>
  BY DEF ReportMarkData
<1>2. Types /\ Channel /\ Accounts /\ clock \in Nat /\ devTime \in Nat
  BY DEF IndInv, Types
<1>3. /\ (\A t \in Threads : CallFits(t)') /\ Bounded' /\ Silent' /\ Owners'
      /\ \A id : SameOwners(id)
  BY <1>1, ReaderMoves
<1>4. PICK m : m = Head(channel)
  OBVIOUS
<1>5. /\ m \in StepSet /\ Traced(m.id) /\ m.count = truth[m.id][m.flag] /\ m.count \in 1 .. clock
      /\ Unread(m.id, m.flag)
      /\ channel' \in Seq(StepSet) /\ Channel'
      /\ \A j, f : Unread(j, f)' <=> Unread(j, f) /\ ~(j = m.id /\ f = m.flag)
      /\ \A j, f : Unread(j, f) => truth[j][f] \in Nat /\ truth[j][f] >= m.count
  BY <1>1, <1>2, <1>4, HeadFacts
<1>6. PICK i \in Marked, flag \in Flags, n \in Nat : i = m.id /\ flag = m.flag /\ n = m.count
  BY <1>2, <1>5 DEF StepSet, Types, Traced
<1>7. PICK T : T = TimeOf(i)
  OBVIOUS
<1>8. /\ reader' = [id |-> i, flag |-> flag, time |-> RealTime(n, T), inner |-> FALSE]
      /\ deviceMarkId2Context' =
           IF i \in DOMAIN deviceMarkId2Context THEN Without(deviceMarkId2Context, i)
           ELSE IF devTime # None /\ flag # "mark" THEN Put(deviceMarkId2Context, i, devTime)
           ELSE deviceMarkId2Context
  BY <1>4, <1>6, <1>7 DEF ReportMarkData
<1>9. /\ T \in Nat /\ RealTime(n, T) \in Nat
      /\ i \in DOMAIN deviceMarkId2Context => T = deviceMarkId2Context[i]
      /\ i \notin DOMAIN deviceMarkId2Context => T = devTime
  <2>1. /\ T \in Nat
        /\ i \in DOMAIN deviceMarkId2Context => T = deviceMarkId2Context[i]
        /\ i \notin DOMAIN deviceMarkId2Context => T = devTime
    BY <1>2, <1>7 DEF TimeOf, Types
  <2>2. QED
    BY <2>1, RealTimeType
<1>10. /\ reader' # NoMark /\ reader' \in ReaderSet /\ reader'.id = i /\ reader'.flag = flag
       /\ reader'.time = RealTime(n, T) /\ ~reader'.inner
  <2>1. reader' # NoMark
    BY <1>8, NoMarkIsNone
  <2>2. QED
    BY <1>8, <1>9, <2>1 DEF ReaderSet, Marked
<1>11. /\ \A j : j # i =>
            /\ j \in DOMAIN deviceMarkId2Context' <=> j \in DOMAIN deviceMarkId2Context
            /\ j \in DOMAIN deviceMarkId2Context => deviceMarkId2Context'[j] = deviceMarkId2Context[j]
       /\ i \in DOMAIN deviceMarkId2Context => i \notin DOMAIN deviceMarkId2Context'
       /\ i \notin DOMAIN deviceMarkId2Context =>
            /\ i \in DOMAIN deviceMarkId2Context' <=> devTime # None /\ flag # "mark"
            /\ i \in DOMAIN deviceMarkId2Context' => deviceMarkId2Context'[i] = devTime
  <2>1. CASE i \in DOMAIN deviceMarkId2Context
    BY <1>8, <2>1 DEF Without
  <2>2. CASE i \notin DOMAIN deviceMarkId2Context
    BY <1>8, <2>2 DEF Put
  <2>3. QED
    BY <2>1, <2>2
<1>12. Types'
  <2>1. /\ DOMAIN deviceMarkId2Context' \subseteq DOMAIN truth'
        /\ \A j \in DOMAIN deviceMarkId2Context' : deviceMarkId2Context'[j] \in Nat \ {None}
    <3> SUFFICES ASSUME NEW j \in DOMAIN deviceMarkId2Context'
                 PROVE  j \in DOMAIN truth' /\ deviceMarkId2Context'[j] \in Nat \ {None}
      OBVIOUS
    <3>1. CASE j = i
      BY <1>1, <1>2, <1>5, <1>6, <1>11, <3>1 DEF Traced
    <3>2. CASE j # i
      BY <1>1, <1>2, <1>11, <3>2 DEF Types
    <3>3. QED
      BY <3>1, <3>2
  <2>2. reader' \in ReaderSet /\ reader'.id \in DOMAIN truth'
    BY <1>1, <1>5, <1>6, <1>10 DEF Traced
  <2>3. QED
    BY <1>1, <1>2, <1>5, <2>1, <2>2 DEF Types, kindVars, domainVars, hostVars, timeVars, callVars, Marked
<1>13. \A j \in Marked \ {i} : Same(j) /\ SameOwners(j)
  <2> SUFFICES ASSUME NEW j \in Marked \ {i} PROVE Same(j) /\ SameOwners(j)
    OBVIOUS
  <2>1. SameMarks(j)
    BY <1>1, <1>5, <1>6 DEF SameMarks, Traced
  <2>2. SameReader(j)
    BY <1>1, <1>10 DEF SameReader
  <2>3. Same(j)
    BY <1>1, <1>11, <2>1, <2>2 DEF Same, hostVars
  <2>4. QED
    BY <1>3, <2>3
<1>14. PICK k \in Calls \cup Ops, h \in Nat, s \in Nat, e \in Nat : Account(i, k, h, s, e)
  BY <1>2 DEF Accounts
<1>15. Host(i, k, h) /\ Device(i, k, s, e) /\ Inner(i, k, s, e) /\ Trace(i, k)
  BY <1>14 DEF Account
<1>16. /\ Written(i, flag) /\ Unread(i, flag) /\ ~Read(i, flag) /\ ~Unread(i, flag)'
       /\ Traced(i) /\ truth[i] \in TraceSet /\ truth[i][flag] = n
  <2>1. Written(i, flag) /\ Unread(i, flag)
    BY <1>2, <1>5, <1>6, WhatIsUnread
  <2>2. QED
    BY <1>2, <1>5, <1>6, <2>1 DEF Read, Traced, Types
<1>17. /\ \A f : Written(i, f)' <=> Written(i, f)
       /\ \A f : Read(i, f)' <=> Read(i, f) \/ f = flag
       /\ \A f : InHand(i, f)' <=> f = flag
       /\ \A f : ~InHand(i, f)
       /\ \A f : Done(i, f)' <=> Done(i, f)
  <2>1. \A f : Written(i, f)' <=> Written(i, f)
    BY <1>1 DEF Written, Traced
  <2>2. \A f : Read(i, f)' <=> Read(i, f) \/ f = flag
    BY <1>5, <1>6, <1>16, <2>1 DEF Read
  <2>3. \A f : (InHand(i, f)' <=> f = flag) /\ ~InHand(i, f)
    BY <1>1, <1>10 DEF InHand
  <2>4. \A f : Done(i, f)' <=> Done(i, f)
    BY <1>16, <2>2, <2>3 DEF Done
  <2>5. QED
    BY <2>1, <2>2, <2>3, <2>4
(* Of the mark of a start or a lone mark nothing was read before; that of    *)
(* an end comes after that of its start.                                     *)
<1>18. /\ flag = "mark" <=> k = "mark"
       /\ flag # "end" => \A f \in Flags : ~Read(i, f)
       /\ flag = "end" => Read(i, "start") /\ ~Read(i, "end") /\ ~Unread(i, "start")
       /\ flag # "mark" => ~Read(i, "mark")
       /\ flag = "mark" => ~Read(i, "start")' /\ ~Read(i, "end")'
  <2>1. /\ truth[i].start \in Nat /\ truth[i].end \in Nat /\ truth[i].mark \in Nat
        /\ truth[i].end # None => truth[i].start < truth[i].end
        /\ IF k = "mark" THEN truth[i].mark # None /\ truth[i].start = None /\ truth[i].end = None
                         ELSE truth[i].mark = None /\ truth[i].start # None
    BY <1>15, <1>16 DEF Trace, TraceSet
  <2>2. /\ Written(i, "start") <=> truth[i].start # None
        /\ Written(i, "end") <=> truth[i].end # None
        /\ Written(i, "mark") <=> truth[i].mark # None
    BY <1>16 DEF Written
  <2>3. flag = "mark" <=> k = "mark"
    BY <1>16, <2>1, <2>2 DEF Flags
  <2>4. flag = "mark" => \A f \in Flags : ~Read(i, f)
    BY <1>16, <2>1, <2>2, <2>3 DEF Flags, Read
  <2>5. flag = "start" => \A f \in Flags : ~Read(i, f)
    BY <1>15, <1>16, <2>1, <2>2, <2>3 DEF Flags, Read, Device
  <2>6. flag = "end" => Read(i, "start") /\ ~Read(i, "end") /\ ~Unread(i, "start")
    <3> SUFFICES ASSUME flag = "end"
                 PROVE  Read(i, "start") /\ ~Read(i, "end") /\ ~Unread(i, "start")
      OBVIOUS
    <3>1. Written(i, "start") /\ truth[i].start < truth[i].end /\ truth[i].end = n
      BY <1>16, <2>1, <2>2, <2>3
    <3>2. ~Unread(i, "start")
      BY <1>5, <1>6, <2>1, <3>1
    <3>3. QED
      BY <1>16, <3>1, <3>2 DEF Read
  <2>7. flag # "mark" => ~Read(i, "mark")
    BY <2>1, <2>2, <2>3 DEF Read
  <2>8. flag = "mark" => ~Read(i, "start")' /\ ~Read(i, "end")'
    BY <1>17, <2>4 DEF Flags
  <2>9. QED
    BY <2>3, <2>4, <2>5, <2>6, <2>7, <2>8 DEF Flags
<1>19. PICK S \in Nat, E \in Nat :
         /\ flag # "end" => S = T /\ E = T
         /\ flag = "end" => S = s /\ E = T
  BY <1>9 DEF Flags
<1>20. Device(i, k, S, E)'
  <2>1. \A r \in DOMAIN records' : r.source = "device" /\ r.id = i =>
          /\ r.flag \in Flags /\ Done(i, r.flag)'
          /\ r = DeviceMark(i, r.flag, S, E)'
    <3> SUFFICES ASSUME NEW r \in DOMAIN records, r.source = "device", r.id = i
                 PROVE  /\ r.flag \in Flags /\ Done(i, r.flag)'
                        /\ r = DeviceMark(i, r.flag, S, E)'
      BY <1>1
    <3>1. r.flag \in Flags /\ Done(i, r.flag) /\ r = DeviceMark(i, r.flag, s, e)
      BY <1>15 DEF Device
    <3>2. Read(i, r.flag)
      BY <3>1 DEF Done
    <3>3. flag = "end" /\ r.flag = "start" /\ S = s
      BY <1>18, <1>19, <3>1, <3>2 DEF Flags
    <3>4. DeviceMark(i, "start", S, E)' = DeviceMark(i, "start", s, e)
      BY <1>1, <3>3 DEF DeviceMark, DeviceTime, With, RealTime, Offset
    <3>5. QED
      BY <1>17, <3>1, <3>3, <3>4
  <2>2. reader'.id = i => /\ Read(i, reader.flag)'
                          /\ reader'.time = DeviceTime(i, reader.flag, S, E)'
                          /\ reader'.inner => i \in DOMAIN innerMarkIds'
    <3>1. DeviceTime(i, flag, S, E)' = RealTime(n, T)
      BY <1>1, <1>16, <1>19 DEF DeviceTime, With, RealTime, Offset
    <3>2. Read(i, flag)'
      BY <1>17
    <3>3. QED
      BY <1>10, <3>1, <3>2
  <2>3. k = "mark" \/ Unread(i, "start")' => i \notin DOMAIN deviceMarkId2Context'
    <3>1. CASE k = "mark"
      BY <1>11, <1>15, <1>18, <3>1 DEF Device
    <3>2. CASE k # "mark"
      BY <1>5, <1>6, <1>16, <1>18, <3>2 DEF Flags
    <3>3. QED
      BY <3>1, <3>2
  <2>4. Unread(i, "start")' => ~Read(i, "end")'
    BY <1>5, <1>6, <1>16, <1>17, <1>18 DEF Flags
  <2>5. Read(i, "start")' /\ ~Read(i, "end")' =>
          /\ i \in DOMAIN deviceMarkId2Context' <=> S # None
          /\ S # None => deviceMarkId2Context'[i] = S
    <3> SUFFICES ASSUME Read(i, "start")', ~Read(i, "end")'
                 PROVE  /\ i \in DOMAIN deviceMarkId2Context' <=> S # None
                        /\ S # None => deviceMarkId2Context'[i] = S
      OBVIOUS
    <3>1. flag = "start"
      BY <1>17, <1>18 DEF Flags
    <3>2. i \notin DOMAIN deviceMarkId2Context
      BY <1>15, <1>16, <3>1 DEF Device
    <3>3. QED
      BY <1>9, <1>11, <1>19, <3>1, <3>2
  <2>6. Read(i, "end")' /\ S # None => i \notin DOMAIN deviceMarkId2Context' /\ E = S
    <3> SUFFICES ASSUME Read(i, "end")', S # None
                 PROVE  i \notin DOMAIN deviceMarkId2Context' /\ E = S
      OBVIOUS
    <3>1. flag = "end" /\ S = s
      BY <1>17, <1>18, <1>19 DEF Flags
    <3>2. i \in DOMAIN deviceMarkId2Context /\ deviceMarkId2Context[i] = s
      BY <1>15, <1>18, <3>1 DEF Device
    <3>3. QED
      BY <1>9, <1>11, <1>19, <3>1, <3>2
  <2>7. QED
    BY <2>1, <2>2, <2>3, <2>4, <2>5, <2>6 DEF Device
<1>21. Inner(i, k, S, E)'
  <2>1. /\ i \in DOMAIN innerMarkIds' => k \in Ops /\ (innerMarkIds'[i] <=> Traced(i)')
        /\ i \in DOMAIN markId2HcclOp' =>
             /\ k \in Ops
             /\ markId2HcclOp'[i].opName = k /\ markId2HcclOp'[i].rankSize = Desc(k).rankSize
             /\ markId2HcclOp'[i].end = None
        /\ \A t \in Threads : pc'[t] \in {"inner", "op", "run"} /\ call'[t].id = i =>
             /\ k = call'[t].kind /\ NotEnded(i)'
             /\ pc'[t] = "inner" => i \notin DOMAIN innerMarkIds' /\ (call'[t].stream <=> Traced(i)')
             /\ pc'[t] # "run" => i \notin DOMAIN markId2HcclOp'
    BY <1>1, <1>15 DEF Inner, NotEnded, Traced, hostVars, callVars
  <2>2. ~Done(i, "end") /\ ~Done(i, "end")'
    BY <1>17, <1>18 DEF Done, Flags
  <2>3. \A r \in DOMAIN records' : ~(r.source = "hccl" /\ r.id = i)
    BY <1>1, <1>15, <2>2 DEF Inner
  <2>4. k \in Ops /\ i \notin missed' /\ Done(i, "start")' =>
          i \in DOMAIN markId2HcclOp' /\ markId2HcclOp'[i] = StartedOp(i, k, S)'
    <3> SUFFICES ASSUME k \in Ops, i \notin missed, Done(i, "start")
                 PROVE  i \in DOMAIN markId2HcclOp' /\ markId2HcclOp'[i] = StartedOp(i, k, S)'
      BY <1>1, <1>17
    <3>1. i \in DOMAIN markId2HcclOp /\ markId2HcclOp[i] = StartedOp(i, k, s)
      BY <1>15, <2>2 DEF Inner
    <3>2. flag = "end" /\ S = s
      BY <1>18, <1>19 DEF Done, Flags
    <3>3. DeviceTime(i, "start", S, S)' = DeviceTime(i, "start", s, s)
      BY <1>1, <3>2 DEF DeviceTime, With, RealTime, Offset
    <3>4. StartedOp(i, k, S)' = StartedOp(i, k, s)
      BY <3>3 DEF StartedOp
    <3>5. QED
      BY <1>1, <3>1, <3>4
  <2>5. QED
    BY <2>1, <2>2, <2>3, <2>4 DEF Inner
<1>22. Account(i, k, h, S, E)'
  <2>1. Trace(i, k)'
    BY <1>1, <1>15 DEF Trace, Traced
  <2>2. SameHost(i)
    BY <1>1 DEF SameHost, Traced, hostVars, callVars
  <2>3. QED
    BY <1>15, <1>20, <1>21, <2>1, <2>2, HostStays DEF Account
<1>23. Accounts'
  <2>1. Marked' \subseteq Marked \cup {i} /\ clock' \in Nat /\ clock' >= clock
    BY <1>1, <1>2 DEF Marked
  <2>2. QED
    BY <1>2, <1>13, <1>22, <2>1, AccountsChange
<1>24. QED
  BY <1>3, <1>5, <1>12, <1>23 DEF IndInv

(* A mark of the user is recorded; one of an operator is handed on.          *)
LEMMA RecordDeviceMarkStep ==
  ASSUME IndInv, RecordDeviceMark
  PROVE  IndInv'
<1>1. /\ reader # NoMark /\ ~reader.inner
      /\ UNCHANGED <<kindVars, domainVars, gMarkId, hostVars, timeVars>>
      /\ UNCHANGED <<clock, callVars, calls, given, truth, leaked>>
      /\ UNCHANGED <<markId2HcclOp, deviceMarkId2Context, channel>>
  BY DEF RecordDeviceMark
<1>2. Types /\ Channel /\ Accounts /\ clock \in Nat /\ marker \in BOOLEAN /\ reader \in ReaderSet
  BY <1>1 DEF IndInv, Types
<1>3. /\ (\A t \in Threads : CallFits(t)') /\ Bounded' /\ Silent' /\ Owners'
      /\ \A id : SameOwners(id)
  BY <1>1, ReaderMoves
<1>4. Channel'
  BY <1>1, <1>2 DEF Channel, Traced
<1>5. \A j : SameMarks(j)
  BY <1>1 DEF SameMarks, Traced, Unread
<1>6. PICK i \in Marked : i = reader.id
  BY <1>1, <1>2 DEF Types
<1>7. PICK flag \in Flags : flag = reader.flag
  BY <1>2 DEF ReaderSet
<1>8. CASE i \in DOMAIN innerMarkIds
  <2>1. reader' = [reader EXCEPT !.inner = TRUE] /\ UNCHANGED <<records, missed>>
    BY <1>6, <1>8 DEF RecordDeviceMark
  <2>2. /\ reader' \in ReaderSet /\ reader' # NoMark /\ reader'.id = i
        /\ reader'.flag = reader.flag /\ reader'.time = reader.time
    BY <1>2, <1>6, <2>1, NoMarkIsNone DEF ReaderSet
  <2>3. \A j : SameReader(j)
    BY <1>1, <1>6, <1>8, <2>2 DEF SameReader, hostVars
  <2>4. Types'
    <3>1. reader'.id \in DOMAIN truth'
      BY <1>1, <1>2, <1>6, <2>2 DEF Types
    <3>2. QED
      BY <1>1, <1>2, <2>1, <2>2, <3>1 DEF Types, kindVars, domainVars, hostVars, timeVars, callVars, Marked
  <2>5. \A j : Same(j)
    BY <1>1, <1>5, <2>1, <2>3 DEF Same, hostVars
  <2>6. Accounts'
    <3>1. clock' \in Nat /\ clock' >= clock /\ gMarkId' = gMarkId
      BY <1>1, <1>2
    <3>2. QED
      BY <1>2, <1>3, <2>5, <3>1, AccountsStay
  <2>7. QED
    BY <1>3, <1>4, <2>4, <2>6 DEF IndInv
<1>9. CASE i \notin DOMAIN innerMarkIds
  <2>1. PICK k \in Calls \cup Ops, h \in Nat, s \in Nat, e \in Nat : Account(i, k, h, s, e)
    BY <1>2 DEF Accounts
  <2>2. Host(i, k, h) /\ Device(i, k, s, e) /\ Inner(i, k, s, e) /\ Trace(i, k)
    BY <2>1 DEF Account
  <2>3. /\ Read(i, flag) /\ reader.time = DeviceTime(i, flag, s, e)
        /\ InHand(i, flag) /\ ~Done(i, flag)
    <3>1. Read(i, flag) /\ reader.time = DeviceTime(i, flag, s, e)
      BY <1>1, <1>6, <1>7, <2>2 DEF Device
    <3>2. InHand(i, flag)
      BY <1>1, <1>6, <1>7 DEF InHand
    <3>3. QED
      BY <3>1, <3>2 DEF Done
  <2>4. PICK r : r = [id |-> i, source |-> "device", flag |-> flag, time |-> reader.time]
    OBVIOUS
  <2>5. /\ Record(marker, r) /\ reader' = NoMark
        /\ missed' = missed \cup ({i} \cap {j \in DOMAIN truth : truth[j].what \in Ops})
    BY <1>6, <1>7, <1>9, <2>4 DEF RecordDeviceMark
  <2>6. r.source = "device" /\ r.id = i /\ r.flag = flag /\ r = DeviceMark(i, flag, s, e)
    BY <2>3, <2>4 DEF DeviceMark
  <2>7. r \notin DOMAIN records
    BY <2>2, <2>3, <2>6 DEF Device
  <2>8. /\ IsABag(records')
        /\ \A q \in DOMAIN records' :
             q.source \in {"host", "device", "hccl"} /\ q.id \in Marked /\ records'[q] = 1
        /\ \A q : q \in DOMAIN records' <=> q \in DOMAIN records \/ (marker /\ q = r)
    BY <1>2, <2>5, <2>6, <2>7, RecordFacts
  <2>9. Types'
    BY <1>1, <1>2, <2>5, <2>8 DEF Types, kindVars, domainVars, hostVars, timeVars, callVars, Marked
  <2>10. \A j \in Marked \ {i} : Same(j) /\ SameOwners(j)
    <3> SUFFICES ASSUME NEW j \in Marked \ {i} PROVE Same(j) /\ SameOwners(j)
      OBVIOUS
    <3>1. SameReader(j)
      BY <1>6, <2>5 DEF SameReader
    <3>2. \A q : q.id = j => (q \in DOMAIN records' <=> q \in DOMAIN records)
      BY <2>6, <2>8
    <3>3. j \in missed => j \in missed'
      BY <2>5
    <3>4. Same(j)
      BY <1>1, <1>5, <3>1, <3>2, <3>3 DEF Same, hostVars
    <3>5. QED
      BY <1>3, <3>4
  <2>11. SameReads(i)
    BY <1>5, MarksAndReads
  <2>12. \A f \in Flags : /\ Read(i, f)' <=> Read(i, f)
                          /\ Done(i, f)' <=> Done(i, f) \/ f = flag
    <3>1. \A f : ~InHand(i, f)' /\ (InHand(i, f) <=> f = flag)
      BY <1>1, <1>6, <1>7, <2>5 DEF InHand
    <3>2. \A f \in Flags : Read(i, f)' <=> Read(i, f)
      BY <2>11 DEF SameReads
    <3>3. QED
      BY <2>3, <3>1, <3>2 DEF Done
  <2>13. \A f : /\ DeviceMark(i, f, s, e)' = DeviceMark(i, f, s, e)
                /\ HcclRecord(i, k, s, e)' = HcclRecord(i, k, s, e)
    <3>1. \A f, x, y : DeviceTime(i, f, x, y)' = DeviceTime(i, f, x, y)
      BY <1>1 DEF DeviceTime, With, RealTime, Offset
    <3>2. StartedOp(i, k, s)' = StartedOp(i, k, s)
      BY <3>1 DEF StartedOp
    <3>3. EndedOp(i, k, s, e)' = EndedOp(i, k, s, e)
      BY <3>1, <3>2 DEF EndedOp
    <3>4. QED
      BY <3>1, <3>3 DEF DeviceMark, HcclRecord
  <2>14. Device(i, k, s, e)'
    <3>1. \A q \in DOMAIN records' : q.source = "device" /\ q.id = i =>
            /\ q.flag \in Flags /\ Done(i, q.flag)'
            /\ q = DeviceMark(i, q.flag, s, e)'
      <4> SUFFICES ASSUME NEW q \in DOMAIN records', q.source = "device", q.id = i
                   PROVE  /\ q.flag \in Flags /\ Done(i, q.flag)'
                          /\ q = DeviceMark(i, q.flag, s, e)'
        OBVIOUS
      <4>1. CASE q \in DOMAIN records
        <5>1. q.flag \in Flags /\ Done(i, q.flag) /\ q = DeviceMark(i, q.flag, s, e)
          BY <2>2, <4>1 DEF Device
        <5>2. QED
          BY <2>12, <2>13, <5>1
      <4>2. CASE q = r
        BY <2>6, <2>12, <2>13, <4>2
      <4>3. QED
        BY <2>8, <4>1, <4>2
    <3>2. reader' = NoMark
      BY <2>5
    <3>3. /\ Unread(i, "start")' <=> Unread(i, "start")
          /\ Read(i, "start")' <=> Read(i, "start")
          /\ Read(i, "end")' <=> Read(i, "end")
      BY <2>11 DEF SameReads, Flags
    <3>4. deviceMarkId2Context' = deviceMarkId2Context
      BY <1>1
    <3>5. QED
      BY <2>2, <3>1, <3>2, <3>3, <3>4 DEF Device
  <2>15. Inner(i, k, s, e)'
    <3>1. /\ i \in DOMAIN innerMarkIds' => k \in Ops /\ (innerMarkIds'[i] <=> Traced(i)')
          /\ i \in DOMAIN markId2HcclOp' =>
               /\ k \in Ops
               /\ markId2HcclOp'[i].opName = k /\ markId2HcclOp'[i].rankSize = Desc(k).rankSize
               /\ markId2HcclOp'[i].end = None
          /\ \A t \in Threads : pc'[t] \in {"inner", "op", "run"} /\ call'[t].id = i =>
               /\ k = call'[t].kind /\ NotEnded(i)'
               /\ pc'[t] = "inner" => i \notin DOMAIN innerMarkIds' /\ (call'[t].stream <=> Traced(i)')
               /\ pc'[t] # "run" => i \notin DOMAIN markId2HcclOp'
      BY <1>1, <2>2 DEF Inner, NotEnded, Traced, hostVars, callVars
    <3>2. i \in missed => i \in missed'
      BY <2>5
    <3>3. \A q \in DOMAIN records' : q.source = "hccl" /\ q.id = i =>
            k \in Ops /\ Done(i, "end")' /\ (i \in missed' \/ q = HcclRecord(i, k, s, e)')
      <4> SUFFICES ASSUME NEW q \in DOMAIN records', q.source = "hccl", q.id = i
                   PROVE  k \in Ops /\ Done(i, "end")' /\ (i \in missed' \/ q = HcclRecord(i, k, s, e)')
        OBVIOUS
      <4>1. q \in DOMAIN records
        BY <2>6, <2>8
      <4>2. k \in Ops /\ Done(i, "end") /\ (i \in missed \/ q = HcclRecord(i, k, s, e))
        BY <2>2, <4>1 DEF Inner
      <4>3. QED
        BY <2>12, <2>13, <3>2, <4>2 DEF Flags
    <3>4. k \in Ops => i \in missed'
      BY <2>2, <2>3, <2>5 DEF Trace, Traced, Read, Written
    <3>5. QED
      BY <3>1, <3>3, <3>4 DEF Inner
  <2>16. Account(i, k, h, s, e)'
    <3>1. Trace(i, k)'
      BY <1>1, <2>2 DEF Trace, Traced
    <3>2. SameHost(i)
      BY <1>1, <2>6, <2>8 DEF SameHost, Traced, hostVars, callVars
    <3>3. QED
      BY <2>2, <2>14, <2>15, <3>1, <3>2, HostStays DEF Account
  <2>17. Accounts'
    <3>1. Marked' \subseteq Marked \cup {i} /\ clock' \in Nat /\ clock' >= clock
      BY <1>1, <1>2 DEF Marked
    <3>2. QED
      BY <1>2, <2>10, <2>16, <3>1, AccountsChange
  <2>18. QED
    BY <1>3, <1>4, <2>9, <2>17 DEF IndInv
<1>10. QED
  BY <1>8, <1>9

(* The reader has the mark of an operator whose start, or end, it is.        *)
LEMMA OpInHand ==
  ASSUME IndInv, reader # NoMark, reader.inner, NEW i \in Marked, i = reader.id,
         NEW k \in Calls \cup Ops, NEW h, NEW s, NEW e, Account(i, k, h, s, e)
  PROVE  /\ k \in Ops /\ reader.flag \in {"start", "end"} /\ reader.time \in Nat
         /\ Read(i, reader.flag) /\ ~Done(i, reader.flag)
         /\ reader.time = DeviceTime(i, reader.flag, s, e)
         /\ \A f : InHand(i, f) <=> f = reader.flag
         /\ reader.flag = "end" => Done(i, "start") /\ ~NotEnded(i)
<1>1. Device(i, k, s, e) /\ Inner(i, k, s, e) /\ Trace(i, k) /\ reader \in ReaderSet
  BY DEF Account, IndInv, Types
<1>2. PICK flag \in Flags : flag = reader.flag
  BY <1>1 DEF ReaderSet
<1>3. /\ Read(i, flag) /\ reader.time = DeviceTime(i, flag, s, e)
      /\ i \in DOMAIN innerMarkIds
  BY <1>1, <1>2 DEF Device
<1>4. k \in Ops /\ k # "mark"
  BY <1>1, <1>3, OpsAreNoCalls DEF Inner, Calls
<1>5. \A f : InHand(i, f) <=> f = flag
  BY <1>2 DEF InHand
<1>6. ~Done(i, flag)
  BY <1>5 DEF Done
<1>7. /\ Traced(i) /\ truth[i].mark = None /\ truth[i].start # None
  BY <1>1, <1>3, <1>4 DEF Trace, Read, Written
<1>8. flag \in {"start", "end"}
  BY <1>3, <1>7 DEF Read, Written, Flags
<1>9. flag = "end" => Done(i, "start") /\ ~NotEnded(i)
  <2> SUFFICES ASSUME flag = "end" PROVE Done(i, "start") /\ ~NotEnded(i)
    OBVIOUS
  <2>1. ~Unread(i, "start")
    BY <1>1, <1>3 DEF Device
  <2>2. Read(i, "start")
    BY <1>7, <2>1 DEF Read, Written
  <2>3. ~NotEnded(i)
    BY <1>3 DEF Read, Written, NotEnded
  <2>4. QED
    BY <1>5, <2>2, <2>3 DEF Done
<1>10. reader.time \in Nat
  BY <1>1 DEF ReaderSet
<1>11. QED
  BY <1>2, <1>3, <1>4, <1>5, <1>6, <1>8, <1>9, <1>10

(* The start fills in the operator; the end records it and forgets it.       *)
LEMMA RecordHcclMarkerStep ==
  ASSUME IndInv, RecordHcclMarker
  PROVE  IndInv'
<1>1. /\ reader # NoMark /\ reader.inner /\ reader' = NoMark
      /\ UNCHANGED <<kindVars, domainVars, gMarkId, hostVars, timeVars>>
      /\ UNCHANGED <<clock, callVars, calls, given, truth, leaked>>
      /\ UNCHANGED <<deviceMarkId2Context, channel>>
  BY DEF RecordHcclMarker
<1>2. Types /\ Channel /\ Accounts /\ clock \in Nat /\ hccl \in BOOLEAN
  BY DEF IndInv, Types
<1>3. /\ (\A t \in Threads : CallFits(t)') /\ Bounded' /\ Silent' /\ Owners'
      /\ \A id : SameOwners(id)
  BY <1>1, ReaderMoves
<1>4. Channel'
  BY <1>1, <1>2 DEF Channel, Traced
<1>5. \A j : SameMarks(j) /\ SameReads(j)
  <2>1. \A j : SameMarks(j)
    BY <1>1 DEF SameMarks, Traced, Unread
  <2>2. QED
    BY <2>1, MarksAndReads
<1>6. PICK i \in Marked : i = reader.id
  BY <1>1, <1>2 DEF Types
<1>7. PICK k \in Calls \cup Ops, h \in Nat, s \in Nat, e \in Nat : Account(i, k, h, s, e)
  BY <1>2 DEF Accounts
<1>8. Host(i, k, h) /\ Device(i, k, s, e) /\ Inner(i, k, s, e) /\ Trace(i, k)
  BY <1>7 DEF Account
<1>9. PICK flag \in {"start", "end"} :
        /\ flag = reader.flag /\ k \in Ops /\ reader.time \in Nat
        /\ Read(i, flag) /\ ~Done(i, flag)
        /\ reader.time = DeviceTime(i, flag, s, e)
        /\ \A f : InHand(i, f) <=> f = flag
        /\ flag = "end" => Done(i, "start") /\ ~NotEnded(i)
  BY <1>1, <1>6, <1>7, OpInHand
<1>10. \A f \in Flags : /\ Read(i, f)' <=> Read(i, f)
                        /\ Done(i, f)' <=> Done(i, f) \/ f = flag
  <2>1. \A f : ~InHand(i, f)'
    BY <1>1 DEF InHand
  <2>2. \A f \in Flags : Read(i, f)' <=> Read(i, f)
    BY <1>5 DEF SameReads
  <2>3. QED
    BY <1>9, <2>1, <2>2 DEF Done
<1>11. /\ StartedOp(i, k, s)' = StartedOp(i, k, s)
       /\ HcclRecord(i, k, s, e)' = HcclRecord(i, k, s, e)
       /\ \A f : DeviceMark(i, f, s, e)' = DeviceMark(i, f, s, e)
  <2>1. \A f, x, y : DeviceTime(i, f, x, y)' = DeviceTime(i, f, x, y)
    BY <1>1 DEF DeviceTime, With, RealTime, Offset
  <2>2. StartedOp(i, k, s)' = StartedOp(i, k, s)
    BY <2>1 DEF StartedOp
  <2>3. EndedOp(i, k, s, e)' = EndedOp(i, k, s, e)
    BY <2>1, <2>2 DEF EndedOp
  <2>4. QED
    BY <2>1, <2>2, <2>3 DEF DeviceMark, HcclRecord
(* What each of the three cases leaves: the operators, the records of other  *)
(* sources, and what is said of the operator in hand.                        *)
<1>12. /\ DOMAIN markId2HcclOp' \subseteq DOMAIN markId2HcclOp
       /\ \A j \in DOMAIN markId2HcclOp' : markId2HcclOp'[j] \in OpSet
       /\ \A j : j # i =>
            /\ j \in DOMAIN markId2HcclOp' <=> j \in DOMAIN markId2HcclOp
            /\ j \in DOMAIN markId2HcclOp => markId2HcclOp'[j] = markId2HcclOp[j]
       /\ i \in DOMAIN markId2HcclOp' =>
            /\ markId2HcclOp'[i].opName = k /\ markId2HcclOp'[i].rankSize = Desc(k).rankSize
            /\ markId2HcclOp'[i].end = None
       /\ missed \subseteq missed'
       /\ IsABag(records')
       /\ \A q \in DOMAIN records' :
            q.source \in {"host", "device", "hccl"} /\ q.id \in Marked /\ records'[q] = 1
       /\ \A q : ~(q.source = "hccl" /\ q.id = i) => (q \in DOMAIN records' <=> q \in DOMAIN records)
       /\ \A q \in DOMAIN records' : q.source = "hccl" /\ q.id = i =>
            Done(i, "end")' /\ (i \in missed' \/ q = HcclRecord(i, k, s, e))
       /\ i \notin missed' =>
            /\ Done(i, "start")' /\ ~Done(i, "end")' =>
                 i \in DOMAIN markId2HcclOp' /\ markId2HcclOp'[i] = StartedOp(i, k, s)
            /\ Done(i, "end")' =>
                 /\ i \notin DOMAIN markId2HcclOp'
                 /\ HcclRecord(i, k, s, e) \in DOMAIN records'
  <2>1. /\ IsABag(records)
        /\ \A q \in DOMAIN records :
             q.source \in {"host", "device", "hccl"} /\ q.id \in Marked /\ records[q] = 1
        /\ \A j \in DOMAIN markId2HcclOp : markId2HcclOp[j] \in OpSet
    BY <1>2 DEF Types
  <2>2. i \in DOMAIN markId2HcclOp =>
          /\ markId2HcclOp[i].opName = k /\ markId2HcclOp[i].rankSize = Desc(k).rankSize
          /\ markId2HcclOp[i].end = None
    BY <1>8 DEF Inner
  <2>3. \A q \in DOMAIN records : q.source = "hccl" /\ q.id = i =>
          Done(i, "end") /\ (i \in missed \/ q = HcclRecord(i, k, s, e))
    BY <1>8 DEF Inner
  <2>4. i \notin missed =>
          /\ Done(i, "start") /\ ~Done(i, "end") =>
               i \in DOMAIN markId2HcclOp /\ markId2HcclOp[i] = StartedOp(i, k, s)
          /\ Done(i, "end") =>
               /\ i \notin DOMAIN markId2HcclOp
               /\ HcclRecord(i, k, s, e) \in DOMAIN records
    BY <1>8, <1>9 DEF Inner
  <2>5. /\ Done(i, "start")' <=> Done(i, "start") \/ flag = "start"
        /\ Done(i, "end")' <=> Done(i, "end") \/ flag = "end"
    BY <1>10 DEF Flags
  <2>6. CASE /\ i \notin DOMAIN markId2HcclOp /\ missed' = missed \cup {i}
             /\ UNCHANGED <<markId2HcclOp, records>>
    BY <2>1, <2>3, <2>5, <2>6
  <2>7. CASE /\ i \in DOMAIN markId2HcclOp /\ flag = "start"
             /\ markId2HcclOp' = [markId2HcclOp EXCEPT ![i].start = reader.time,
                                                      ![i].onDevice = TRUE]
             /\ UNCHANGED <<records, missed>>
    <3>1. PICK op : op = [markId2HcclOp[i] EXCEPT !.start = reader.time, !.onDevice = TRUE]
      OBVIOUS
    <3>2. /\ op \in OpSet /\ op.opName = k /\ op.rankSize = Desc(k).rankSize /\ op.end = None
          /\ op.start = reader.time /\ op.onDevice = TRUE
      BY <1>9, <2>1, <2>2, <2>7, <3>1 DEF OpSet
    <3>3. /\ DOMAIN markId2HcclOp' = DOMAIN markId2HcclOp /\ markId2HcclOp'[i] = op
          /\ \A j \in DOMAIN markId2HcclOp : j # i => markId2HcclOp'[j] = markId2HcclOp[j]
      BY <2>7, <3>1
    <3>4. op = StartedOp(i, k, s)
      <4>1. PICK n \in Nat : n = reader.time
        BY <1>9
      <4>2. n = DeviceTime(i, "start", s, s)
        BY <1>9, <2>7, <4>1 DEF DeviceTime, With
      <4>3. PICK d : d = Desc(k)
        OBVIOUS
      <4>4. d \in OpSet /\ d.opName = k /\ d.rankSize = Desc(k).rankSize /\ d.end = None
        BY <1>9, <4>3 DEF Desc, OpSet, None, Ranks
      <4>5. PICK x : x = StartedOp(i, k, s)
        OBVIOUS
      <4>6. x = [d EXCEPT !.start = n, !.onDevice = TRUE]
        BY <4>2, <4>3, <4>5 DEF StartedOp
      <4>7. /\ x \in OpSet /\ x.opName = d.opName /\ x.rankSize = d.rankSize /\ x.end = d.end
            /\ x.start = n /\ x.onDevice = TRUE
        BY <4>1, <4>4, <4>6 DEF OpSet
      <4>8. op = x
        BY <3>2, <4>1, <4>4, <4>7 DEF OpSet
      <4>9. QED
        BY <4>5, <4>8
    <3>5. ~Done(i, "end")' \/ i \in missed
      BY <2>4, <2>5, <2>7
    <3>6. QED
      BY <2>1, <2>3, <2>5, <2>7, <3>2, <3>3, <3>4, <3>5
  <2>8. CASE /\ i \in DOMAIN markId2HcclOp /\ flag = "end"
             /\ \E op : /\ op = [markId2HcclOp[i] EXCEPT !.end = reader.time]
                        /\ Record(hccl, [id |-> i, source |-> "hccl", op |-> op,
                                         bandWidth |-> BandWidth(op)])
             /\ ForgetOp(i)
             /\ missed' = IF hccl THEN missed ELSE missed \cup {i}
    <3>1. PICK op : /\ op = [markId2HcclOp[i] EXCEPT !.end = reader.time]
                    /\ Record(hccl, [id |-> i, source |-> "hccl", op |-> op,
                                     bandWidth |-> BandWidth(op)])
      BY <2>8
    <3>2. PICK r : r = [id |-> i, source |-> "hccl", op |-> op, bandWidth |-> BandWidth(op)]
      OBVIOUS
    <3>3. r.source = "hccl" /\ r.id = i /\ Record(hccl, r)
      BY <3>1, <3>2
    <3>4. ~Done(i, "end") /\ Done(i, "start")
      BY <1>9, <2>8
    <3>5. r \notin DOMAIN records
      BY <2>3, <3>3, <3>4
    <3>6. /\ IsABag(records')
          /\ \A q \in DOMAIN records' :
               q.source \in {"host", "device", "hccl"} /\ q.id \in Marked /\ records'[q] = 1
          /\ \A q : q \in DOMAIN records' <=> q \in DOMAIN records \/ (hccl /\ q = r)
      BY <1>2, <3>3, <3>5, RecordFacts
    <3>7. i \notin missed => r = HcclRecord(i, k, s, e)
      <4> SUFFICES ASSUME i \notin missed PROVE r = HcclRecord(i, k, s, e)
        OBVIOUS
      <4>1. markId2HcclOp[i] = StartedOp(i, k, s)
        BY <2>4, <3>4
      <4>2. op = EndedOp(i, k, s, e)
        BY <1>9, <2>8, <3>1, <4>1 DEF EndedOp
      <4>3. QED
        BY <3>2, <4>2 DEF HcclRecord
    <3>8. /\ DOMAIN markId2HcclOp' = DOMAIN markId2HcclOp \ {i}
          /\ \A j \in DOMAIN markId2HcclOp' : markId2HcclOp'[j] = markId2HcclOp[j]
      BY <2>8 DEF ForgetOp, Without
    <3>9. /\ missed \subseteq missed' /\ (~hccl => i \in missed')
          /\ i \notin missed' => i \notin missed /\ hccl
      BY <1>2, <2>8
    <3>10. \A q \in DOMAIN records' : q.source = "hccl" /\ q.id = i =>
             i \in missed' \/ q = HcclRecord(i, k, s, e)
      BY <2>3, <3>6, <3>7, <3>9
    <3>11. i \notin missed' => HcclRecord(i, k, s, e) \in DOMAIN records'
      BY <3>6, <3>7, <3>9
    <3>12. Done(i, "end")'
      BY <2>5, <2>8
    <3>13. QED
      BY <2>1, <3>3, <3>6, <3>8, <3>9, <3>10, <3>11, <3>12
  <2>9. QED
    BY <1>6, <1>9, <2>6, <2>7, <2>8 DEF RecordHcclMarker
<1>13. Types'
  <2>1. DOMAIN markId2HcclOp' \subseteq Marked
    BY <1>2, <1>12 DEF Types
  <2>2. QED
    BY <1>1, <1>2, <1>12, <2>1 DEF Types, kindVars, domainVars, hostVars, timeVars, callVars, Marked
<1>14. \A j \in Marked \ {i} : Same(j) /\ SameOwners(j)
  <2> SUFFICES ASSUME NEW j \in Marked \ {i} PROVE Same(j) /\ SameOwners(j)
    OBVIOUS
  <2>1. SameReader(j)
    BY <1>1, <1>6 DEF SameReader
  <2>2. \A q : q.id = j => (q \in DOMAIN records' <=> q \in DOMAIN records)
    BY <1>12
  <2>3. Same(j)
    BY <1>1, <1>5, <1>12, <2>1, <2>2 DEF Same, hostVars
  <2>4. QED
    BY <1>3, <2>3
<1>15. Device(i, k, s, e)'
  <2>1. \A q \in DOMAIN records' : q.source = "device" /\ q.id = i =>
          /\ q.flag \in Flags /\ Done(i, q.flag)'
          /\ q = DeviceMark(i, q.flag, s, e)'
    <3> SUFFICES ASSUME NEW q \in DOMAIN records', q.source = "device", q.id = i
                 PROVE  /\ q.flag \in Flags /\ Done(i, q.flag)'
                        /\ q = DeviceMark(i, q.flag, s, e)'
      OBVIOUS
    <3>1. q \in DOMAIN records
      BY <1>12
    <3>2. q.flag \in Flags /\ Done(i, q.flag) /\ q = DeviceMark(i, q.flag, s, e)
      BY <1>8, <3>1 DEF Device
    <3>3. QED
      BY <1>10, <1>11, <3>2
  <2>2. /\ Unread(i, "start")' <=> Unread(i, "start")
        /\ Read(i, "start")' <=> Read(i, "start")
        /\ Read(i, "end")' <=> Read(i, "end")
    BY <1>5 DEF SameReads, Flags
  <2>3. reader' = NoMark /\ deviceMarkId2Context' = deviceMarkId2Context
    BY <1>1
  <2>4. QED
    BY <1>8, <2>1, <2>2, <2>3 DEF Device
<1>16. Inner(i, k, s, e)'
  <2>1. i \in DOMAIN innerMarkIds' => k \in Ops /\ (innerMarkIds'[i] <=> Traced(i)')
    BY <1>1, <1>8 DEF Inner, Traced, hostVars
  <2>2. \A t \in Threads : pc'[t] \in {"inner", "op", "run"} /\ call'[t].id = i =>
          /\ k = call'[t].kind /\ NotEnded(i)'
          /\ pc'[t] = "inner" => i \notin DOMAIN innerMarkIds' /\ (call'[t].stream <=> Traced(i)')
          /\ pc'[t] # "run" => i \notin DOMAIN markId2HcclOp'
    BY <1>1, <1>8, <1>12 DEF Inner, NotEnded, Traced, hostVars, callVars
  <2>3. QED
    BY <1>9, <1>11, <1>12, <2>1, <2>2 DEF Inner
<1>17. Account(i, k, h, s, e)'
  <2>1. Trace(i, k)'
    BY <1>1, <1>8 DEF Trace, Traced
  <2>2. SameHost(i)
    BY <1>1, <1>12 DEF SameHost, Traced, hostVars, callVars
  <2>3. QED
    BY <1>8, <1>15, <1>16, <2>1, <2>2, HostStays DEF Account
<1>18. Accounts'
  <2>1. Marked' \subseteq Marked \cup {i} /\ clock' \in Nat /\ clock' >= clock
    BY <1>1, <1>2 DEF Marked
  <2>2. QED
    BY <1>2, <1>14, <1>17, <2>1, AccountsChange
<1>19. QED
  BY <1>3, <1>4, <1>13, <1>18 DEF IndInv

-----------------------------------------------------------------------------
(* Every step preserves the invariant.                                       *)

(* Every step keeps the invariant.                                           *)
LEMMA NextStep == IndInv /\ [Next]_vars => IndInv'
<1> SUFFICES ASSUME IndInv, [Next]_vars PROVE IndInv'
  OBVIOUS
<1>1. CASE DomainCall \/ Switch \/ Synchronise
  BY <1>1, DomainCallStep, SwitchStep, SynchroniseStep
<1>2. ASSUME NEW t \in Threads,
             Enter(t) \/ CheckDomain(t) \/ GetDomainNameByHandle(t)
      PROVE  IndInv'
  BY <1>2, EnterStep, CheckDomainStep, GetDomainNameStep
<1>3. ASSUME NEW t \in Threads, StartTrace(t) \/ EndTrace(t) \/ RecordMark(t)
      PROVE  IndInv'
  BY <1>3, StartTraceStep, EndTraceStep, RecordMarkStep
<1>4. ASSUME NEW t \in Threads,
             InnerStart(t) \/ InnerFile(t) \/ RecordHcclOp(t) \/ InnerEnd(t)
      PROVE  IndInv'
  BY <1>4, InnerStartStep, InnerFileStep, RecordHcclOpStep, InnerEndStep
<1>5. CASE ReportMarkData \/ RecordDeviceMark \/ RecordHcclMarker
  BY <1>5, ReportMarkDataStep, RecordDeviceMarkStep, RecordHcclMarkerStep
<1>6. CASE UNCHANGED vars
  <2>1. /\ UNCHANGED <<kindVars, domainVars, gMarkId, hostVars, markId2HcclOp, readerVars>>
        /\ UNCHANGED <<timeVars, channel, clock, records, callVars, calls>>
        /\ UNCHANGED <<given, truth, missed, leaked>>
    BY <1>6 DEF vars
  <2>2. pc' = pc /\ call' = call
    BY <2>1 DEF callVars
  <2>3. Types'
    BY <2>1 DEF IndInv, Types, kindVars, domainVars, hostVars, readerVars, timeVars, callVars, Marked
  <2>4. (\A t \in Threads : CallFits(t)') /\ Bounded' /\ Silent'
    BY <2>1, ReaderMoves
  <2>5. Owners' /\ Channel' /\ Accounts'
    BY <2>1, <2>2, IdsStay DEF SameCall
  <2>6. QED
    BY <2>3, <2>4, <2>5 DEF IndInv
<1>7. QED
  BY <1>1, <1>2, <1>3, <1>4, <1>5, <1>6 DEF Next

(* The invariant, from which all that follows is read off.                   *)
THEOREM Inductive == Spec => []IndInv
<1>1. QED
  BY InitHolds, NextStep, PTL DEF Spec

(* Every variable keeps its type, and the ids of ranges and of operators     *)
(* are apart (mstx_parser.cpp).                                              *)
THEOREM TypeCorrect == Spec => []TypeOK
<1>1. IndInv => TypeOK
  <2> SUFFICES ASSUME IndInv PROVE TypeOK
    OBVIOUS
  <2>1. Types /\ Bounded /\ Channel /\ Accounts
    BY DEF IndInv
  <2>2. gMarkId \in 0 .. MaxCalls
    <3>1. gMarkId \in Nat /\ Cardinality(Pending) \in Nat /\ calls \in Nat /\ MaxCalls \in Nat
      BY <2>1, FS_CardinalityType, MarkersAssumption DEF Types, Bounded
    <3>2. QED
      BY <2>1, <3>1 DEF Bounded
  <2>3. Marked \subseteq Ids
    BY <2>2, MarkersAssumption DEF Marked, Ids
  <2>4. \A d \in DOMAIN domains : domains[d].name \in Names \cup {Default}
    <3> SUFFICES ASSUME NEW d \in DOMAIN domains PROVE domains[d].name \in AllNames
      BY DEF AllNames
    <3>1. domains[d] \in DomainSet
      BY <2>1 DEF Types
    <3>2. QED
      BY <3>1 DEF DomainSet
  <2>5. DOMAIN innerMarkIds \cap DOMAIN markId2Context = {}
    <3> SUFFICES ASSUME NEW id \in DOMAIN innerMarkIds, id \in DOMAIN markId2Context PROVE FALSE
      OBVIOUS
    <3>1. id \in Marked /\ id \in given
      BY <2>1 DEF Types
    <3>2. PICK k \in Calls \cup Ops, h \in Nat, s \in Nat, e \in Nat : Account(id, k, h, s, e)
      BY <2>1, <3>1 DEF Accounts
    <3>3. k = "range" /\ k \in Ops
      BY <3>1, <3>2 DEF Account, Host, Inner
    <3>4. QED
      BY <3>3, OpsAreNoCalls DEF Calls
  <2>6. hostTime \in 0 .. MaxSyncs + 1 /\ devTime \in 0 .. MaxSyncs + 1
    BY <2>1, MarkersAssumption DEF Types, Bounded
  <2>7. \A i \in DOMAIN channel : channel[i].id \in Ids /\ channel[i].count \in 1 .. clock
    BY <2>1, <2>3 DEF Types, Channel, Traced
  <2>8. /\ DOMAIN markId2Context \subseteq Ids /\ DOMAIN deviceMarkId2Context \subseteq Ids
        /\ DOMAIN innerMarkIds \subseteq Ids /\ DOMAIN markId2HcclOp \subseteq Ids
    BY <2>1, <2>3 DEF Types
  <2>9. {marker, hccl} \subseteq BOOLEAN /\ disableDomains \subseteq Names \cup {Default} /\ IsABag(records)
    BY <2>1 DEF Types, AllNames
  <2>10. QED
    BY <2>2, <2>4, <2>5, <2>6, <2>7, <2>8, <2>9 DEF TypeOK
<1>2. QED
  BY <1>1, Inductive, PTL

(* A domain disabled before a call began, and ever since, stays silent       *)
(* (mstx_inject.cpp).                                                        *)
THEOREM DisabledStaySilent == Spec => []DisabledIsSilent
<1>1. IndInv => DisabledIsSilent
  BY DEF IndInv, Silent, DisabledIsSilent
<1>2. QED
  BY <1>1, Inductive, PTL

-----------------------------------------------------------------------------
(* The bytes that an operator moves.                                         *)

(* The sum over a sequence of four.                                          *)
LEMMA SumOfFour ==
  ASSUME NEW q, Len(q) = 4, NEW a \in Nat, NEW b \in Nat, NEW c \in Nat, NEW d \in Nat,
         q[1] = a, q[2] = b, q[3] = c, q[4] = d
  PROVE  Sum(q) = a + b + c + d
<1> DEFINE S(f) == f = [n \in 0 .. 4 |-> IF n = 0 THEN 0 ELSE f[n - 1] + q[n]]
           g == [n \in 0 .. 4 |-> IF n = 0 THEN 0 ELSE IF n = 1 THEN a ELSE IF n = 2 THEN a + b
                                  ELSE IF n = 3 THEN a + b + c ELSE a + b + c + d]
           sum == CHOOSE f : S(f)
<1>1. S(g)
  <2>1. \A n \in 0 .. 4 : n \in {0, 1, 2, 3, 4}
    OBVIOUS
  <2>2. \A n \in 0 .. 4 : g[n] = IF n = 0 THEN 0 ELSE g[n - 1] + q[n]
    BY <2>1
  <2>3. QED
    BY <2>2
<1>2. S(sum)
  BY <1>1
<1>3. Sum(q) = sum[4]
  BY DEF Sum
<1> HIDE DEF sum
<1>4. \A n \in 0 .. 4 : sum[n] = IF n = 0 THEN 0 ELSE sum[n - 1] + q[n]
  BY <1>2
<1>5. sum[0] = 0 /\ sum[1] = a
  BY <1>4
<1>6. sum[2] = a + b
  BY <1>4, <1>5
<1>7. sum[3] = a + b + c
  BY <1>4, <1>6
<1>8. sum[4] = a + b + c + d
  BY <1>4, <1>7
<1>9. QED
  BY <1>3, <1>8

(* The sum over a sequence of two.                                           *)
LEMMA SumOfTwo ==
  ASSUME NEW q, Len(q) = 2, NEW a \in Nat, NEW b \in Nat, q[1] = a, q[2] = b
  PROVE  Sum(q) = a + b
<1> DEFINE S(f) == f = [n \in 0 .. 2 |-> IF n = 0 THEN 0 ELSE f[n - 1] + q[n]]
           g == [n \in 0 .. 2 |-> IF n = 0 THEN 0 ELSE IF n = 1 THEN a ELSE a + b]
           sum == CHOOSE f : S(f)
<1>1. S(g)
  <2>1. \A n \in 0 .. 2 : n \in {0, 1, 2}
    OBVIOUS
  <2>2. \A n \in 0 .. 2 : g[n] = IF n = 0 THEN 0 ELSE g[n - 1] + q[n]
    BY <2>1
  <2>3. QED
    BY <2>2
<1>2. S(sum)
  BY <1>1
<1>3. Sum(q) = sum[2]
  BY DEF Sum
<1> HIDE DEF sum
<1>4. \A n \in 0 .. 2 : sum[n] = IF n = 0 THEN 0 ELSE sum[n - 1] + q[n]
  BY <1>2
<1>5. sum[0] = 0 /\ sum[1] = a
  BY <1>4
<1>6. sum[2] = a + b
  BY <1>4, <1>5
<1>7. QED
  BY <1>3, <1>6

(* Each class of operators is described with what its bytes are made of.     *)
LEMMA BytesAreExact == BytesExact
<1> SUFFICES ASSUME NEW op \in AllOps \ {"HcclScatter"}
             PROVE  Bytes(Desc(op)) = TrueBytes(op)
  BY DEF BytesExact
<1>1. PICK n : n = IF op \in Ranked \cup {"HcclAlltoAllV"} THEN Ranks ELSE 0
  OBVIOUS
<1>2. PICK d : d = Desc(op)
  OBVIOUS
<1>3. d.opName = op /\ d.rankSize = n
  BY <1>1, <1>2 DEF Desc
<1>4. CASE op \in P2p
  <2>1. Bytes(d) = P2pBytes(d)
    BY <1>3, <1>4 DEF Bytes, P2p, Ranked
  <2>2. QED
    BY <1>2, <1>4, <2>1 DEF P2pBytes, TrueBytes, P2p, Ranked
<1>5. CASE op \in Ranked
  <2>1. Bytes(d) = CollectiveBytes(d)
    BY <1>3, <1>5 DEF Bytes, P2p, Ranked
  <2>2. n = Ranks
    BY <1>1, <1>5
  <2>3. QED
    BY <1>2, <1>3, <1>5, <2>1, <2>2 DEF CollectiveBytes, TrueBytes, P2p, Ranked
<1>6. CASE op = "HcclAlltoAllV"
  <2>1. Bytes(d) = All2AllVBytes(d) /\ n = 4
    BY <1>1, <1>3, <1>6 DEF Bytes, P2p, Ranked, Ranks
  <2>2. Sum(SubSeq(Counts.send, 1, 4)) = 7
    <3>1. PICK q : q = SubSeq(Counts.send, 1, 4)
      OBVIOUS
    <3>2. Len(q) = 4 /\ q[1] = 1 /\ q[2] = 2 /\ q[3] = 3 /\ q[4] = 1
      BY <3>1 DEF Counts
    <3>3. Sum(q) = 1 + 2 + 3 + 1
      BY <3>2, SumOfFour
    <3>4. QED
      BY <3>1, <3>3
  <2>3. Sum(SubSeq(Counts.recv, 1, 4)) = 8
    <3>1. PICK q : q = SubSeq(Counts.recv, 1, 4)
      OBVIOUS
    <3>2. Len(q) = 4 /\ q[1] = 2 /\ q[2] = 2 /\ q[3] = 3 /\ q[4] = 1
      BY <3>1 DEF Counts
    <3>3. Sum(q) = 2 + 2 + 3 + 1
      BY <3>2, SumOfFour
    <3>4. QED
      BY <3>1, <3>3
  <2>4. All2AllVBytes(d) = Size * 8
    BY <1>3, <2>1, <2>2, <2>3 DEF All2AllVBytes, Size
  <2>5. QED
    BY <1>2, <1>6, <2>1, <2>4 DEF TrueBytes, P2p, Ranked
<1>7. CASE op = "HcclBatchSendRecv"
  <2>1. Bytes(d) = BatchBytes(d)
    BY <1>3, <1>7 DEF Bytes, P2p, Ranked
  <2>2. PICK q : q = [i \in DOMAIN Items |-> Size * Items[i]]
    OBVIOUS
  <2>3. Len(q) = 2 /\ q[1] = 10 /\ q[2] = 4
    BY <2>2 DEF Items, Size
  <2>4. Sum(q) = 10 + 4
    BY <2>3, SumOfTwo
  <2>5. BatchBytes(d) = Size * 7
    BY <2>2, <2>4 DEF BatchBytes, Size
  <2>6. QED
    BY <1>2, <1>7, <2>1, <2>5 DEF TrueBytes, P2p, Ranked
<1>8. QED
  BY <1>4, <1>5, <1>6, <1>7 DEF AllOps

(* They depend on the function and on the ranks that it asked for only.      *)
LEMMA SameBytes ==
  ASSUME NEW c, NEW d, c.opName = d.opName, c.rankSize = d.rankSize
  PROVE  Bytes(c) = Bytes(d)
<1>1. /\ P2pBytes(c) = P2pBytes(d) /\ BatchBytes(c) = BatchBytes(d)
      /\ CollectiveBytes(c) = CollectiveBytes(d) /\ All2AllVBytes(c) = All2AllVBytes(d)
  BY DEF P2pBytes, BatchBytes, CollectiveBytes, All2AllVBytes
<1>2. QED
  BY <1>1 DEF Bytes

(* A set without a second element.                                           *)
LEMMA AtMostOne ==
  ASSUME NEW S, NEW x, S \subseteq {x}
  PROVE  Cardinality(S) <= 1
<1>1. IsFiniteSet({x}) /\ Cardinality({x}) = 1
  BY FS_Singleton
<1>2. Cardinality(S) <= Cardinality({x})
  BY <1>1, FS_Subset
<1>3. QED
  BY <1>1, <1>2

(* A time that is beyond the counter was converted with time information.    *)
LEMMA TimedBeyond ==
  ASSUME IndInv, NEW n \in Nat, n <= clock, NEW time \in Nat
  PROVE  /\ Offset \in Nat
         /\ RealTime(n, time) > Offset => time # None
<1>1. /\ clock \in Nat /\ calls \in Nat /\ MaxCalls \in Nat /\ calls <= MaxCalls
      /\ Cardinality(Working) \in Nat /\ clock + Cardinality(Working) <= 2 * calls
  BY FS_CardinalityType, MarkersAssumption DEF IndInv, Types, Bounded
<1>2. n < Offset /\ Offset \in Nat
  BY <1>1 DEF Offset
<1>3. RealTime(n, None) = n
  BY <1>2 DEF RealTime, None
<1>4. QED
  BY <1>2, <1>3

(* Two times converted alike are as far apart as the counts.                 *)
LEMMA SameDistance ==
  ASSUME NEW m \in Nat, NEW n \in Nat, NEW time \in Nat
  PROVE  /\ RealTime(n, time) \in Nat /\ RealTime(m, time) \in Nat
         /\ RealTime(n, time) - RealTime(m, time) = n - m
         /\ RealTime(n, time) <= RealTime(m, time) <=> n <= m
<1>1. Offset \in Nat
  BY MarkersAssumption DEF Offset
<1>2. PICK o \in Nat : o = time * Offset
  BY <1>1
<1>3. RealTime(n, time) = n + o /\ RealTime(m, time) = m + o
  BY <1>2 DEF RealTime
<1>4. QED
  BY <1>3

(* Each operator whose marks are read after it is filed is recorded once,    *)
(* with its own bytes and its true duration, and then forgotten              *)
(* (hccl_reporter.cpp, hccl_calculator.cpp).                                 *)
THEOREM OperatorsAreExact == Spec => []HcclExact
<1>1. IndInv => HcclExact
  <2> SUFFICES ASSUME IndInv, NEW id \in DOMAIN truth, truth[id].what \in Ops, id \notin missed
               PROVE  /\ Cardinality(Of("hccl", id)) <= 1
                      /\ \A r \in Of("hccl", id) :
                           /\ records[r] = 1 /\ r.op.onDevice
                           /\ r.op.start > Offset =>
                                /\ r.bandWidth = <<Bytes(Desc(truth[id].what)),
                                                   truth[id].end - truth[id].start>>
                                /\ id \notin DOMAIN deviceMarkId2Context
                      /\ (/\ truth[id].end # None
                          /\ \A i \in DOMAIN channel : channel[i].id # id
                          /\ reader = NoMark \/ reader.id # id) =>
                           Of("hccl", id) # {} /\ id \notin DOMAIN markId2HcclOp
    BY BytesAreExact DEF HcclExact
  <2>1. Types /\ Accounts /\ id \in Marked /\ Traced(id) /\ truth[id] \in TraceSet
    BY DEF IndInv, Types, Traced
  <2>2. PICK k \in Calls \cup Ops, h \in Nat, s \in Nat, e \in Nat : Account(id, k, h, s, e)
    BY <2>1 DEF Accounts
  <2>3. Trace(id, k) /\ Device(id, k, s, e) /\ Inner(id, k, s, e)
    BY <2>2 DEF Account
  <2>4. k = truth[id].what /\ k \in Ops
    BY <2>1, <2>3 DEF Trace
  <2>5. PICK m \in Nat, n \in Nat : m = truth[id].start /\ n = truth[id].end
    BY <2>1 DEF TraceSet
  <2>6. m <= clock /\ n <= clock /\ (n # None => m < n)
    BY <2>1, <2>3, <2>5 DEF Trace
  <2>7. \A r \in Of("hccl", id) :
          /\ records[r] = 1 /\ Done(id, "end") /\ r = HcclRecord(id, k, s, e)
    BY <2>1, <2>3 DEF Of, Inner, Types
  <2>8. Cardinality(Of("hccl", id)) <= 1
    BY <2>7, AtMostOne
  <2>9. PICK op : op = EndedOp(id, k, s, e)
    OBVIOUS
  <2>10. /\ op.opName = k /\ op.rankSize = Desc(k).rankSize /\ op.onDevice = TRUE
         /\ op.start = RealTime(m, s) /\ op.end = RealTime(n, e)
    <3>1. PICK d : d = Desc(k)
      OBVIOUS
    <3>2. d \in OpSet /\ d.opName = k
      BY <2>4, <3>1 DEF Desc, OpSet, None, Ranks
    <3>3. PICK a : a = RealTime(m, s)
      OBVIOUS
    <3>4. PICK b : b = RealTime(n, e)
      OBVIOUS
    <3>5. StartedOp(id, k, s) = [d EXCEPT !.start = a, !.onDevice = TRUE]
      BY <2>5, <3>1, <3>3 DEF StartedOp, DeviceTime, With
    <3>6. op = [StartedOp(id, k, s) EXCEPT !.end = b]
      BY <2>5, <2>9, <3>4 DEF EndedOp, DeviceTime, With
    <3>7. op = [[d EXCEPT !.start = a, !.onDevice = TRUE] EXCEPT !.end = b]
      BY <3>5, <3>6
    <3>8. /\ op.opName = d.opName /\ op.rankSize = d.rankSize /\ op.onDevice = TRUE
          /\ op.start = a /\ op.end = b
      BY <3>2, <3>7 DEF OpSet
    <3>9. QED
      BY <3>1, <3>2, <3>3, <3>4, <3>8
  <2>11. \A r \in Of("hccl", id) :
           /\ records[r] = 1 /\ r.op.onDevice
           /\ r.op.start > Offset =>
                /\ r.bandWidth = <<Bytes(Desc(truth[id].what)),
                                   truth[id].end - truth[id].start>>
                /\ id \notin DOMAIN deviceMarkId2Context
    <3> SUFFICES ASSUME NEW r \in Of("hccl", id)
                 PROVE  /\ records[r] = 1 /\ r.op.onDevice
                        /\ r.op.start > Offset =>
                             /\ r.bandWidth = <<Bytes(Desc(k)), n - m>>
                             /\ id \notin DOMAIN deviceMarkId2Context
      BY <2>4, <2>5
    <3>1. /\ records[r] = 1 /\ Done(id, "end") /\ r.op = op /\ r.bandWidth = BandWidth(op)
      BY <2>7, <2>9 DEF HcclRecord
    <3>2. ASSUME r.op.start > Offset
          PROVE  /\ r.bandWidth = <<Bytes(Desc(k)), n - m>>
                 /\ id \notin DOMAIN deviceMarkId2Context
      <4>1. s # None
        BY <2>6, <2>10, <3>1, <3>2, TimedBeyond
      <4>2. id \notin DOMAIN deviceMarkId2Context /\ e = s /\ n # None
        BY <2>3, <2>5, <3>1, <4>1 DEF Device, Done, Read, Written
      <4>3. /\ RealTime(n, s) - RealTime(m, s) = n - m
            /\ ~(RealTime(n, s) <= RealTime(m, s))
        <5>1. m < n
          BY <2>6, <4>2
        <5>2. /\ RealTime(n, s) - RealTime(m, s) = n - m
              /\ RealTime(n, s) <= RealTime(m, s) <=> n <= m
          BY SameDistance
        <5>3. QED
          BY <5>1, <5>2
      <4>4. Bytes(op) = Bytes(Desc(k))
        <5>1. PICK d : d = Desc(k)
          OBVIOUS
        <5>2. d.opName = k
          BY <5>1 DEF Desc
        <5>3. QED
          BY <2>10, <5>1, <5>2, SameBytes
      <4>5. BandWidth(op) = <<Bytes(op), n - m>>
        BY <2>10, <4>2, <4>3 DEF BandWidth
      <4>6. QED
        BY <3>1, <4>2, <4>4, <4>5
    <3>3. QED
      BY <2>10, <3>1, <3>2
  <2>12. ASSUME truth[id].end # None, \A i \in DOMAIN channel : channel[i].id # id,
                reader = NoMark \/ reader.id # id
         PROVE  Of("hccl", id) # {} /\ id \notin DOMAIN markId2HcclOp
    <3>1. Done(id, "end")
      BY <2>1, <2>12 DEF Done, Read, Written, Unread, InHand
    <3>2. id \notin DOMAIN markId2HcclOp /\ HcclRecord(id, k, s, e) \in DOMAIN records
      BY <2>3, <2>4, <3>1 DEF Inner
    <3>3. HcclRecord(id, k, s, e).source = "hccl" /\ HcclRecord(id, k, s, e).id = id
      BY DEF HcclRecord
    <3>4. QED
      BY <3>2, <3>3 DEF Of
  <2>13. QED
    BY <2>8, <2>11, <2>12
<1>2. QED
  BY <1>1, Inductive, PTL
-----------------------------------------------------------------------------
(* The monitor of the Python user.                                           *)

(* Which records can come at all: one of each mark, and a mark of its own    *)
(* has an id of its own.                                                     *)
Distinct(R) ==
  /\ \A p \in R : p.flag \in Flags
  /\ \A p, q \in R : unique_id(p) = unique_id(q) =>
       /\ p.flag = q.flag => p = q
       /\ p.flag = "mark" => q.flag = "mark"

Entry(S, key) == [flag \in {"start", "end"} |-> {r \in Half(S, flag) : unique_id(r) = key}]
Pairs(S)  == {p \in Half(S, "start") \X Half(S, "end") : unique_id(p[1]) = unique_id(p[2])}
Kept(S)   == {unique_id(r) : r \in S} \ {unique_id(p[1]) : p \in Pairs(S)}
Ranges(S) == {assemble_start_end(p[1], p[2]) : p \in Pairs(S)}

(* The parts of what is expected, by name.                                   *)
LEMMA ExpectedIs ==
  ASSUME NEW S
  PROVE  Expected(S) = [data_dict |-> [key \in Kept(S) |-> Entry(S, key)],
                        marks     |-> SetToBag(Half(S, "mark")),
                        ranges    |-> SetToBag(Ranges(S))]
  BY DEF Expected, Entry, Pairs, Kept, Ranges

(* Before any record the monitor is empty.                                   *)
LEMMA NothingCame == Expected({}) = NoRecords
<1>1. \A flag : Half({}, flag) = {}
  BY DEF Half
<1>2. Pairs({}) = {}
  BY <1>1 DEF Pairs
<1>3. Kept({}) = {} /\ Ranges({}) = {}
  BY <1>2 DEF Kept, Ranges
<1>4. SetToBag({}) = EmptyBag
  BY DEF EmptyBag
<1>5. [key \in {} |-> Entry({}, key)] = <<>>
  OBVIOUS
<1>6. Expected({}) = [data_dict |-> [key \in {} |-> Entry({}, key)],
                      marks |-> SetToBag({}), ranges |-> SetToBag({})]
  BY <1>1, <1>3, ExpectedIs
<1>7. QED
  BY <1>4, <1>5, <1>6 DEF NoRecords

(* An element more makes a bag with one element more.                        *)
LEMMA BagOfOneMore ==
  ASSUME NEW S, NEW x, x \notin S
  PROVE  SetToBag(S) (+) SetToBag({x}) = SetToBag(S \cup {x})
  BY DEF SetToBag, (+)

(* Membership in terms of the records themselves.                            *)
LEMMA PairsAre ==
  ASSUME NEW S, NEW s, NEW e
  PROVE  <<s, e>> \in Pairs(S) <=>
           /\ s \in S /\ e \in S /\ s.flag = "start" /\ e.flag = "end"
           /\ unique_id(s) = unique_id(e)
  BY DEF Pairs, Half

(* A pair has two ends.                                                      *)
LEMMA PairsOf ==
  ASSUME NEW S, NEW p \in Pairs(S)
  PROVE  p = <<p[1], p[2]>>
  BY DEF Pairs

(* A key is kept while a record of it came and not both ends of its range.   *)
LEMMA KeptAre ==
  ASSUME NEW S, NEW key
  PROVE  key \in Kept(S) <=>
           /\ \E r \in S : unique_id(r) = key
           /\ ~\E s, e \in S : /\ s.flag = "start" /\ e.flag = "end"
                               /\ unique_id(s) = key /\ unique_id(e) = key
<1>1. key \in {unique_id(p[1]) : p \in Pairs(S)} <=>
        \E s, e \in S : /\ s.flag = "start" /\ e.flag = "end"
                        /\ unique_id(s) = key /\ unique_id(e) = key
  <2>1. ASSUME NEW p \in Pairs(S), unique_id(p[1]) = key
        PROVE  \E s, e \in S : /\ s.flag = "start" /\ e.flag = "end"
                               /\ unique_id(s) = key /\ unique_id(e) = key
    BY <2>1, PairsOf, PairsAre
  <2>2. ASSUME NEW s \in S, NEW e \in S, s.flag = "start", e.flag = "end",
               unique_id(s) = key, unique_id(e) = key
        PROVE  \E p \in Pairs(S) : unique_id(p[1]) = key
    <3>1. <<s, e>> \in Pairs(S)
      BY <2>2, PairsAre
    <3>2. <<s, e>>[1] = s
      OBVIOUS
    <3>3. QED
      BY <2>2, <3>1, <3>2
  <2>3. QED
    BY <2>1, <2>2
<1>2. QED
  BY <1>1 DEF Kept

(* An entry has what came of each end.                                       *)
LEMMA EntryIs ==
  ASSUME NEW S, NEW key
  PROVE  /\ Entry(S, key).start = {r \in S : r.flag = "start" /\ unique_id(r) = key}
         /\ Entry(S, key).end   = {r \in S : r.flag = "end" /\ unique_id(r) = key}
  BY DEF Entry, Half

(* One record more, whatever came before it.                                 *)
LEMMA OneMore ==
  ASSUME NEW R, Distinct(R), NEW came \in SUBSET R, NEW r \in R \ came
  PROVE  append_data(Expected(came), r) = Expected(came \cup {r})
<1> DEFINE T   == came \cup {r}
           key == unique_id(r)
           D   == [k \in Kept(came) |-> Entry(came, k)]
           old == IF key \in DOMAIN D THEN D[key] ELSE NoEnds
           ends == IF r.flag = "mark" THEN old ELSE [old EXCEPT ![r.flag] = {r}]
           dict == IF Complete(ends) THEN Without(D, key) ELSE Put(D, key, ends)
           marks == IF r.flag = "mark" THEN SetToBag(Half(came, "mark")) (+) Once(r)
                                       ELSE SetToBag(Half(came, "mark"))
           new == {assemble_start_end(s, e) : s \in ends.start, e \in ends.end}
           ranges == IF Complete(ends) THEN SetToBag(Ranges(came)) (+) SetToBag(new)
                                       ELSE SetToBag(Ranges(came))
<1>1. /\ r.flag \in Flags
      /\ \A q \in came : unique_id(q) = key =>
           q.flag \in Flags /\ q.flag # r.flag /\ q.flag # "mark" /\ r.flag # "mark"
  BY DEF Distinct
<1>2. \A k : k # key => Entry(T, k) = Entry(came, k) /\ (k \in Kept(T) <=> k \in Kept(came))
  <2> SUFFICES ASSUME NEW k, k # key
               PROVE  Entry(T, k) = Entry(came, k) /\ (k \in Kept(T) <=> k \in Kept(came))
    OBVIOUS
  <2>1. Entry(T, k) = Entry(came, k)
    BY DEF Entry, Half
  <2>2. k \in Kept(T) <=> k \in Kept(came)
    BY KeptAre
  <2>3. QED
    BY <2>1, <2>2
<1>3. key \in Kept(T) <=> ~Complete(Entry(T, key))
  BY KeptAre, EntryIs DEF Complete
<1>4. old = Entry(came, key)
  <2>1. CASE key \in Kept(came)
    BY <2>1
  <2>2. CASE key \notin Kept(came)
    <3>1. ~\E q \in came : unique_id(q) = key
      BY <1>1, <2>2, KeptAre DEF Flags
    <3>2. Entry(came, key) = NoEnds
      BY <3>1 DEF Entry, NoEnds, Half
    <3>3. QED
      BY <2>2, <3>2
  <2>3. QED
    BY <2>1, <2>2
<1>5. ends = Entry(T, key)
  <2>1. CASE r.flag = "mark"
    BY <1>4, <2>1 DEF Entry, Half
  <2>2. CASE r.flag # "mark"
    <3>1. ends = [Entry(came, key) EXCEPT ![r.flag] = {r}]
      BY <1>4, <2>2
    <3>2. \A flag \in {"start", "end"} : flag # r.flag =>
            {q \in Half(T, flag) : unique_id(q) = key} = {q \in Half(came, flag) : unique_id(q) = key}
      BY DEF Half
    <3>3. {q \in Half(T, r.flag) : unique_id(q) = key} = {r}
      BY <1>1 DEF Half
    <3>4. QED
      BY <1>1, <2>2, <3>1, <3>2, <3>3 DEF Entry, Flags
  <2>3. QED
    BY <2>1, <2>2
<1>6. dict = [k \in Kept(T) |-> Entry(T, k)]
  <2>1. CASE Complete(ends)
    <3>1. Kept(T) = Kept(came) \ {key}
      BY <1>2, <1>3, <1>5, <2>1
    <3>2. QED
      BY <1>2, <2>1, <3>1 DEF Without
  <2>2. CASE ~Complete(ends)
    <3>1. Kept(T) = Kept(came) \cup {key}
      BY <1>2, <1>3, <1>5, <2>2
    <3>2. QED
      BY <1>2, <1>5, <2>2, <3>1 DEF Put
  <2>3. QED
    BY <2>1, <2>2
<1> HIDE DEF D, old, ends
<1>7. marks = SetToBag(Half(T, "mark"))
  <2>1. CASE r.flag = "mark"
    <3>1. Half(T, "mark") = Half(came, "mark") \cup {r} /\ r \notin Half(came, "mark")
      BY <2>1 DEF Half
    <3>2. QED
      BY <2>1, <3>1, BagOfOneMore DEF Once
  <2>2. CASE r.flag # "mark"
    <3>1. Half(T, "mark") = Half(came, "mark")
      BY <2>2 DEF Half
    <3>2. QED
      BY <2>2, <3>1
  <2>3. QED
    BY <2>1, <2>2
<1>8. ranges = SetToBag(Ranges(T))
  <2>1. CASE Complete(ends)
    <3>1. PICK a \in T, b \in T : /\ a.flag = "start" /\ b.flag = "end"
                                  /\ unique_id(a) = key /\ unique_id(b) = key
      BY <1>5, <2>1, EntryIs DEF Complete
    <3>2. T \subseteq R /\ \A q \in T : unique_id(q) = key =>
            (q.flag = "start" => q = a) /\ (q.flag = "end" => q = b)
      BY <3>1 DEF Distinct
    <3>3. ends.start = {a} /\ ends.end = {b}
      BY <1>5, <3>1, <3>2, EntryIs
    <3>4. new = {assemble_start_end(a, b)}
      BY <3>3
    <3>5. \A p \in Pairs(came) : unique_id(p[1]) # key
      <4> SUFFICES ASSUME NEW p \in Pairs(came), unique_id(p[1]) = key
                   PROVE  FALSE
        OBVIOUS
      <4>1. /\ p[1] \in came /\ p[2] \in came /\ p[1].flag = "start" /\ p[2].flag = "end"
            /\ unique_id(p[2]) = key
        BY PairsOf, PairsAre
      <4>2. QED
        BY <1>1, <4>1 DEF Flags
    <3>6. Pairs(T) = Pairs(came) \cup {<<a, b>>}
      <4>1. Pairs(came) \subseteq Pairs(T)
        BY DEF Pairs, Half
      <4>2. <<a, b>> \in Pairs(T)
        BY <3>1, PairsAre
      <4>3. ASSUME NEW p \in Pairs(T), p \notin Pairs(came)
            PROVE  p = <<a, b>>
        <5>1. /\ p = <<p[1], p[2]>> /\ p[1] \in T /\ p[2] \in T
              /\ p[1].flag = "start" /\ p[2].flag = "end" /\ unique_id(p[1]) = unique_id(p[2])
          BY PairsOf, PairsAre
        <5>2. ~(p[1] \in came /\ p[2] \in came)
          BY <4>3, <5>1, PairsAre
        <5>3. unique_id(p[1]) = key
          BY <5>1, <5>2
        <5>4. p[1] = a /\ p[2] = b
          BY <3>2, <5>1, <5>3
        <5>5. QED
          BY <5>1, <5>4
      <4>4. QED
        BY <4>1, <4>2, <4>3
    <3>7. Ranges(T) = Ranges(came) \cup {assemble_start_end(a, b)}
      <4>1. <<a, b>>[1] = a /\ <<a, b>>[2] = b
        OBVIOUS
      <4>2. QED
        BY <3>6, <4>1 DEF Ranges
    <3>8. assemble_start_end(a, b) \notin Ranges(came)
      <4> SUFFICES ASSUME NEW p \in Pairs(came),
                          assemble_start_end(a, b) = assemble_start_end(p[1], p[2])
                   PROVE  FALSE
        BY DEF Ranges
      <4>1. a.id = p[1].id /\ a.source = p[1].source
        BY DEF assemble_start_end
      <4>2. QED
        BY <3>1, <3>5, <4>1 DEF unique_id
    <3> HIDE DEF new
    <3>9. PICK x : x = assemble_start_end(a, b)
      OBVIOUS
    <3>10. SetToBag(Ranges(came)) (+) SetToBag({x}) = SetToBag(Ranges(came) \cup {x})
      BY <3>8, <3>9, BagOfOneMore
    <3>11. QED
      BY <2>1, <3>4, <3>7, <3>9, <3>10
  <2>2. CASE ~Complete(ends)
    <3>1. Pairs(T) = Pairs(came)
      <4>1. Pairs(came) \subseteq Pairs(T)
        BY DEF Pairs, Half
      <4>2. ASSUME NEW p \in Pairs(T)
            PROVE  p \in Pairs(came)
        <5>1. /\ p = <<p[1], p[2]>> /\ p[1] \in T /\ p[2] \in T
              /\ p[1].flag = "start" /\ p[2].flag = "end" /\ unique_id(p[1]) = unique_id(p[2])
          BY PairsOf, PairsAre
        <5>2. CASE p[1] \in came /\ p[2] \in came
          BY <5>1, <5>2, PairsAre
        <5>3. CASE ~(p[1] \in came /\ p[2] \in came)
          <6>1. unique_id(p[1]) = key /\ unique_id(p[2]) = key
            BY <5>1, <5>3
          <6>2. p[1] \in Entry(T, key).start /\ p[2] \in Entry(T, key).end
            BY <5>1, <6>1, EntryIs
          <6>3. QED
            BY <1>5, <2>2, <6>2 DEF Complete
        <5>4. QED
          BY <5>2, <5>3
      <4>3. QED
        BY <4>1, <4>2
    <3>2. Ranges(T) = Ranges(came)
      BY <3>1 DEF Ranges
    <3>3. QED
      BY <2>2, <3>2
  <2>3. QED
    BY <2>1, <2>2
<1>9. PICK m : m = Expected(came)
  OBVIOUS
<1>10. m.data_dict = D /\ m.marks = SetToBag(Half(came, "mark")) /\ m.ranges = SetToBag(Ranges(came))
  BY <1>9, ExpectedIs DEF D
<1>11. append_data(m, r) = [data_dict |-> dict, marks |-> marks, ranges |-> ranges]
  BY <1>10 DEF append_data, ends, old, D
<1> HIDE DEF dict, marks, ranges
<1>12. append_data(m, r) = [data_dict |-> [k \in Kept(T) |-> Entry(T, k)],
                            marks     |-> SetToBag(Half(T, "mark")),
                            ranges    |-> SetToBag(Ranges(T))]
  BY <1>6, <1>7, <1>8, <1>11
<1>13. append_data(m, r) = Expected(T)
  BY <1>12, ExpectedIs
<1>14. QED
  BY <1>9, <1>13

(* So the monitor is right about every set of distinct records.              *)
LEMMA AnyOrder ==
  ASSUME NEW R, Distinct(R)
  PROVE  PairedInAnyOrder(R)
  BY NothingCame, OneMore DEF PairedInAnyOrder

-----------------------------------------------------------------------------
(* Both ends of a range are recorded once, with one time information.        *)
LEMMA RangeTimes == IndInv => RangesTimed
<1> SUFFICES ASSUME IndInv, NEW id \in Ids
             PROVE  /\ \A r \in Of("host", id) \cup Of("device", id) : records[r] = 1
                    /\ \A flag \in {"start", "end", "mark"}, source \in {"host", "device"} :
                         Cardinality(Flagged(source, id, flag)) <= 1
                    /\ \A x \in Flagged("host", id, "start"), y \in Flagged("host", id, "end") :
                         x.time = y.time
                    /\ \A x \in Flagged("device", id, "start"), y \in Flagged("device", id, "end") :
                         x.time > Offset => y.time - x.time = truth[id].end - truth[id].start
  BY DEF RangesTimed
<1>1. Types
  BY DEF IndInv
<1>2. CASE id \notin Marked
  <2>1. \A source, flag : Of(source, id) = {} /\ Flagged(source, id, flag) = {}
    BY <1>1, <1>2 DEF Types, Of, Flagged
  <2>2. Cardinality({}) <= 1
    BY FS_EmptySet
  <2>3. QED
    BY <2>1, <2>2
<1>3. CASE id \in Marked
  <2>1. PICK k \in Calls \cup Ops, h \in Nat, s \in Nat, e \in Nat : Account(id, k, h, s, e)
    BY <1>3 DEF IndInv, Accounts
  <2>2. Trace(id, k) /\ Host(id, k, h) /\ Device(id, k, s, e)
    BY <2>1 DEF Account
  <2>3. \A r \in Of("host", id) : records[r] = 1 /\ r = HostMark(id, r.flag, h)
    BY <1>1, <2>2 DEF Of, Types, Host
  <2>4. \A r \in Of("device", id) :
          records[r] = 1 /\ Done(id, r.flag) /\ r = DeviceMark(id, r.flag, s, e)
    BY <1>1, <2>2 DEF Of, Types, Device
  <2>5. ASSUME NEW flag \in {"start", "end", "mark"}, NEW source \in {"host", "device"}
        PROVE  Cardinality(Flagged(source, id, flag)) <= 1
    <3>1. CASE source = "host"
      <4>1. Flagged("host", id, flag) \subseteq {HostMark(id, flag, h)}
        BY <2>3 DEF Flagged
      <4>2. QED
        BY <3>1, <4>1, AtMostOne
    <3>2. CASE source = "device"
      <4>1. Flagged("device", id, flag) \subseteq {DeviceMark(id, flag, s, e)}
        BY <2>4 DEF Flagged
      <4>2. QED
        BY <3>2, <4>1, AtMostOne
    <3>3. QED
      BY <3>1, <3>2
  <2>6. ASSUME NEW x \in Flagged("host", id, "start"), NEW y \in Flagged("host", id, "end")
        PROVE  x.time = y.time
    <3>1. x = HostMark(id, "start", h) /\ y = HostMark(id, "end", h)
      BY <2>3 DEF Flagged
    <3>2. QED
      BY <3>1 DEF HostMark
  <2>7. ASSUME NEW x \in Flagged("device", id, "start"), NEW y \in Flagged("device", id, "end"),
               x.time > Offset
        PROVE  y.time - x.time = truth[id].end - truth[id].start
    <3>1. /\ Done(id, "start") /\ x = DeviceMark(id, "start", s, e)
          /\ Done(id, "end") /\ y = DeviceMark(id, "end", s, e)
      BY <2>4 DEF Flagged
    <3>2. Traced(id) /\ truth[id] \in TraceSet
      BY <1>1, <3>1 DEF Done, Read, Written, Traced, Types
    <3>3. PICK m \in Nat, n \in Nat : m = truth[id].start /\ n = truth[id].end
      BY <3>2 DEF TraceSet
    <3>4. m <= clock
      BY <2>2, <3>2, <3>3 DEF Trace
    <3>5. x.time = RealTime(m, s) /\ y.time = RealTime(n, e)
      BY <3>1, <3>3 DEF DeviceMark, DeviceTime, With
    <3>6. s # None
      BY <2>7, <3>4, <3>5, TimedBeyond
    <3>7. e = s
      BY <2>2, <3>1, <3>6 DEF Device, Done
    <3>8. RealTime(n, s) - RealTime(m, s) = n - m
      BY SameDistance
    <3>9. QED
      BY <3>3, <3>5, <3>7, <3>8
  <2>8. \A r \in Of("host", id) \cup Of("device", id) : records[r] = 1
    BY <2>3, <2>4
  <2>9. QED
    BY <2>5, <2>6, <2>7, <2>8
<1>4. QED
  BY <1>2, <1>3

(* The records that the monitor may be given.                                *)
LEMMA RecordsDistinct == IndInv => Distinct({r \in DOMAIN records : r.source # "hccl"})
<1> SUFFICES ASSUME IndInv PROVE Distinct({r \in DOMAIN records : r.source # "hccl"})
  OBVIOUS
<1> DEFINE R == {r \in DOMAIN records : r.source # "hccl"}
<1>1. \A r \in R : r \in DOMAIN records /\ r.source \in {"host", "device"} /\ r.id \in Marked
  BY DEF IndInv, Types
<1>2. ASSUME NEW p \in R
      PROVE  p.flag \in Flags
  <2>1. PICK k \in Calls \cup Ops, h \in Nat, s \in Nat, e \in Nat : Account(p.id, k, h, s, e)
    BY <1>1 DEF IndInv, Accounts
  <2>2. Host(p.id, k, h) /\ Device(p.id, k, s, e)
    BY <2>1 DEF Account
  <2>3. QED
    BY <1>1, <2>2 DEF Host, Device
<1>3. ASSUME NEW p \in R, NEW q \in R, unique_id(p) = unique_id(q)
      PROVE  /\ p.flag = q.flag => p = q
             /\ p.flag = "mark" => q.flag = "mark"
  <2>1. p.id = q.id /\ p.source = q.source
    BY <1>3 DEF unique_id
  <2>2. PICK k \in Calls \cup Ops, h \in Nat, s \in Nat, e \in Nat : Account(p.id, k, h, s, e)
    BY <1>1 DEF IndInv, Accounts
  <2>3. Trace(p.id, k) /\ Host(p.id, k, h) /\ Device(p.id, k, s, e)
    BY <2>2 DEF Account
  <2>4. CASE p.source = "host"
    <3>1. /\ p = HostMark(p.id, p.flag, h) /\ (p.flag = "mark" <=> k = "mark")
          /\ q = HostMark(p.id, q.flag, h) /\ (q.flag = "mark" <=> k = "mark")
      BY <1>1, <2>1, <2>3, <2>4 DEF Host
    <3>2. QED
      BY <3>1
  <2>5. CASE p.source = "device"
    <3>1. /\ p = DeviceMark(p.id, p.flag, s, e) /\ Done(p.id, p.flag)
          /\ q = DeviceMark(p.id, q.flag, s, e) /\ Done(p.id, q.flag) /\ q.flag \in Flags
      BY <1>1, <2>1, <2>3, <2>5 DEF Device
    <3>2. /\ Traced(p.id) /\ truth[p.id][p.flag] # None /\ truth[p.id][q.flag] # None
      BY <3>1 DEF Done, Read, Written
    <3>3. ASSUME p.flag = "mark", q.flag # "mark"
          PROVE  FALSE
      <4>1. truth[p.id].mark # None /\ (truth[p.id].start # None \/ truth[p.id].end # None)
        BY <3>1, <3>2, <3>3 DEF Flags
      <4>2. QED
        BY <2>3, <3>2, <4>1 DEF Trace
    <3>4. QED
      BY <3>1, <3>3
  <2>6. QED
    BY <1>1, <2>4, <2>5
<1>4. QED
  BY <1>2, <1>3 DEF Distinct

(* Ranges and marks are recorded exactly, and the monitor makes of them,     *)
(* in whatever order they come, each range once (mstx_parser.cpp,            *)
(* mstx_monitor.py).                                                         *)
THEOREM RangesAreExact == Spec => []RangeExact
<1>1. IndInv => RangeExact
  BY RangeTimes, RecordsDistinct, AnyOrder DEF RangeExact
<1>2. QED
  BY <1>1, Inductive, PTL
=============================================================================
