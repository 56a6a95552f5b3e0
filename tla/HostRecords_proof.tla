-------------------------- MODULE HostRecords_proof --------------------------
(***************************************************************************)
(* Proofs about HostRecords for every number of threads, addresses, sizes, *)
(* kinds and ids: a record has the correlation id, the address and the     *)
(* bytes of its call, and follows the external ids of its thread.  The end *)
(* of the module is about HostTime: the conversion of counters is exact.   *)
(***************************************************************************)
EXTENDS HostRecords, SequenceTheorems, TLAPS

Places == {"idle", "entered", "called", "done"}
ArgSet == [fn : AllFns, addr : Addrs \cup {Null}, bytes : Sizes \cup {0},
           copyKind : CopyKinds \cup {"NONE"}]
CallSet == [arg : ArgSet, id : Nat, addr : Addrs \cup {Null}, bytes : Sizes \cup {0},
            ok : BOOLEAN, nested : BOOLEAN, external : SUBSET (ExtKinds \X ExtIds),
            alone : SUBSET ExtKinds]
Blocks  == [bytes : Sizes \cup {0}, returned : BOOLEAN]

(* The types, as far as the provers need them of every variable.            *)
Types ==
  /\ enabled \subseteq Kinds
  /\ correlationId \in Nat \ {0}
  /\ DOMAIN threadCorrelationIdInfo \subseteq Threads
  /\ \A t \in DOMAIN threadCorrelationIdInfo :
       threadCorrelationIdInfo[t] \in 1 .. correlationId - 1
  /\ DOMAIN externalCorrelationMap \subseteq ExtKinds
  /\ \A k \in DOMAIN externalCorrelationMap :
       externalCorrelationMap[k] \in Seq(ExtIds) \ {<<>>}
  /\ DOMAIN addrBytesInfo \subseteq Addrs \cup {Null}
  /\ DOMAIN heap \subseteq Addrs
  /\ \A a \in DOMAIN heap : heap[a] \in Blocks
  /\ \A r \in records : r.kind \in Kinds /\ r.correlationId \in 1 .. correlationId - 1
  /\ pc \in [Threads -> Places]
  /\ call \in [Threads -> CallSet \cup {NoCall}]
  /\ \A t \in Threads : (pc[t] = "idle") = (call[t] = NoCall)
  /\ own \in [Threads -> [ExtKinds -> Seq(ExtIds)]]
  /\ users \in [ExtKinds -> SUBSET Threads]

Busy(t) == pc[t] # "idle"

(* No two calls under way have one id, and the records that name it are of   *)
(* this call; the thread finds it unless another call was made within.       *)
Ids ==
  /\ \A t \in Threads : Busy(t) =>
       /\ call[t].id \in 1 .. correlationId - 1
       /\ \A u \in Threads : Busy(u) /\ call[u].id = call[t].id => u = t
  /\ \A t \in Threads : pc[t] = "entered" =>
       /\ ~call[t].nested
       /\ \A r \in records : r.kind = "EXTERNAL_CORRELATION" => r.correlationId # call[t].id
  /\ \A t \in Threads : pc[t] \in {"called", "done"} =>
       /\ t \in DOMAIN threadCorrelationIdInfo
       /\ call[t].nested \/ threadCorrelationIdInfo[t] = call[t].id

(* The stack of a kind that no other thread uses is the thread's own.        *)
OwnStack(t, k) ==
  IF k \in DOMAIN externalCorrelationMap THEN externalCorrelationMap[k] = own[t][k]
                                         ELSE own[t][k] = <<>>
Stacks ==
  \A t \in Threads, k \in ExtKinds : users[k] \subseteq {t} => OwnStack(t, k)

IsAlloc(t)   == call[t].arg.fn \in Allocs
IsRelease(t) == call[t].arg.fn \in Releases

(* The call that has a block which is not its user's: it has allocated it    *)
(* and not yet returned, or was given it back and has not freed it.          *)
Allocated(t, a) == pc[t] = "done" /\ IsAlloc(t) /\ call[t].ok /\ call[t].addr = a
Returning(t, a) == Busy(t) /\ IsRelease(t) /\ (pc[t] # "done" \/ ~call[t].ok)
                     /\ call[t].addr = a
Holds(t, a)     == Allocated(t, a) \/ Returning(t, a)

(* The call that has freed a block and has still to report it.               *)
Released(t, a) == pc[t] = "done" /\ IsRelease(t) /\ call[t].ok /\ call[t].addr = a

(* A block is its user's or one call's.                                      *)
Holders ==
  /\ \A t \in Threads : pc[t] \in {"entered", "called"} => call[t].ok
  /\ \A t \in Threads, a \in Addrs \cup {Null} : Holds(t, a) =>
       /\ a \in DOMAIN heap /\ ~heap[a].returned
       /\ \A u \in Threads : Holds(u, a) => u = t
       /\ Allocated(t, a) => heap[a].bytes = call[t].bytes

(* What the table says of an address that is not blurred: of a block whose   *)
(* allocation was reported, and of one whose release is still to be.         *)
Entry(a, bytes) == a \in DOMAIN addrBytesInfo /\ addrBytesInfo[a] = bytes

EntryOf(a) ==
  /\ a \in DOMAIN heap =>
       Entry(a, heap[a].bytes) \/ \E t \in Threads : Allocated(t, a)
  /\ \A t \in Threads : Released(t, a) =>
       /\ Entry(a, call[t].bytes)
       /\ \A u \in Threads : Released(u, a) => u = t
       /\ a \in DOMAIN heap => \E u \in Threads : Allocated(u, a)

Entries == \A a \in (Addrs \cup {Null}) \ blurred : EntryOf(a)

IndInv ==
  Types /\ Ids /\ Stacks /\ Holders /\ Entries /\ MemoryExact /\ ExternalIds

USE DEF Busy, Holds, EntryOf

-----------------------------------------------------------------------------
(* What the helpers of the model do to functions and stacks.                *)

(* Put changes a map at one key, which it may add.                           *)
LEMMA PutFacts ==
  ASSUME NEW f, NEW x, NEW y
  PROVE  /\ DOMAIN Put(f, x, y) = DOMAIN f \cup {x}
         /\ Put(f, x, y)[x] = y
         /\ \A z \in DOMAIN f : z # x => Put(f, x, y)[z] = f[z]
  BY DEF Put

(* Without takes one key from a map.                                         *)
LEMMA WithoutFacts ==
  ASSUME NEW f, NEW x
  PROVE  /\ DOMAIN Without(f, x) = DOMAIN f \ {x}
         /\ \A z \in DOMAIN f \ {x} : Without(f, x)[z] = f[z]
  BY DEF Without

(* The front of a stack and its last element.                                *)
LEMMA FrontFacts ==
  ASSUME NEW S, NEW s \in Seq(S), s # <<>>
  PROVE  /\ Len(s) \in Nat \ {0} /\ Last(s) \in S
         /\ Front(s) \in Seq(S) /\ Len(Front(s)) = Len(s) - 1
         /\ Front(s) = <<>> <=> Len(s) = 1
<1>1. Len(s) \in Nat \ {0}
  BY EmptySeq, LenProperties
<1>2. Last(s) \in S
  BY <1>1, ElementOfSeq DEF Last
<1>3. \A i \in 1 .. Len(s) - 1 : s[i] \in S
  BY <1>1, ElementOfSeq
<1>4. Front(s) \in Seq(S) /\ Len(Front(s)) = Len(s) - 1
  <2>1. PICK n \in Nat : n = Len(s) - 1
    BY <1>1
  <2>2. SubSeq(s, 1, n) \in Seq(S) /\ Len(SubSeq(s, 1, n)) = n
    BY <1>3, <2>1, SubSeqProperties
  <2>3. QED
    BY <2>1, <2>2 DEF Front
<1>5. Front(s) = <<>> <=> Len(Front(s)) = 0
  BY <1>4, EmptySeq
<1>6. QED
  BY <1>1, <1>2, <1>4, <1>5

-----------------------------------------------------------------------------
(* Frames: what holds on as long as a step leaves some things alone.        *)

(* Blocks and entries, when no call gets or reports a block.                 *)
LEMMA BlocksStay ==
  ASSUME Holders, Entries, UNCHANGED <<heap, addrBytesInfo, blurred>>,
         \A t \in Threads : pc'[t] \in {"entered", "called"} => call'[t].ok,
         \A t \in Threads, a \in Addrs \cup {Null} :
           /\ Allocated(t, a)' <=> Allocated(t, a)
           /\ Returning(t, a)' <=> Returning(t, a)
           /\ Released(t, a)' <=> Released(t, a)
           /\ Allocated(t, a) \/ Released(t, a) => call'[t].bytes = call[t].bytes
  PROVE  Holders' /\ Entries'
<1>1. Holders'
  BY DEF Holders
<1>2. Entries'
  BY DEF Entries, Entry
<1>3. QED
  BY <1>1, <1>2

(* The records of memory.                                                    *)
Exact(r) ==
  /\ r.of.nested \/ r.correlationId = r.of.id
  /\ r.sure => /\ r.bytes = r.of.bytes
               /\ r.kind = "MEMORY" => r.address = r.of.addr
  /\ r.kind \in {"MEMCPY", "MEMSET"} => (r.streamId = NoStream) = (r.of.arg.fn \notin Async)

(* Memory records stay exact when those that are added are.                  *)
LEMMA ExactStays ==
  ASSUME MemoryExact, NEW S, records' = records \cup S,
         \A r \in S : r.kind # "EXTERNAL_CORRELATION" => Exact(r)
  PROVE  MemoryExact'
  BY DEF MemoryExact, Exact

(* The external ids of one call.                                             *)
External(t) ==
  {<<r.externalKind, r.externalId>> :
     r \in {r \in records : /\ r.kind = "EXTERNAL_CORRELATION"
                            /\ r.correlationId = call[t].id
                            /\ r.externalKind \in call[t].alone}}

(* The external records of a call stay when those that are added are of      *)
(* other calls.                                                              *)
LEMMA ExternalStays ==
  ASSUME NEW S, records' = records \cup S, NEW t \in Threads,
         call'[t].id = call[t].id, call'[t].alone = call[t].alone,
         \A r \in S : r.kind = "EXTERNAL_CORRELATION" => r.correlationId # call[t].id
  PROVE  External(t)' = External(t)
  BY DEF External

(* ExternalIds, thread by thread.                                            *)
LEMMA ExternalIdsMeans ==
  ExternalIds <=> \A t \in Threads : pc[t] \in {"called", "done"} => External(t) = call[t].external
  BY DEF ExternalIds, External

(* What is in the set of a call's external records.                          *)
LEMMA ExternalRecordsKnown ==
  ASSUME NEW id
  PROVE  \A r \in ExternalRecords(id) : r.kind = "EXTERNAL_CORRELATION" /\ r.correlationId = id
  BY DEF ExternalRecords

-----------------------------------------------------------------------------
(* The steps that leave the calls alone.                                     *)

(* At the start nothing is recorded, pushed or allocated.                    *)
LEMMA InitHolds == Init => IndInv
<1> SUFFICES ASSUME Init PROVE IndInv
  OBVIOUS
<1>1. Types
  BY EmptySeq DEF Init, Types, Places
<1>2. Ids /\ Holders /\ Entries
  BY DEF Init, Ids, Holders, Entries, Allocated, Returning, Released
<1>3. Stacks
  BY DEF Init, Stacks, OwnStack
<1>4. MemoryExact /\ ExternalIds
  BY DEF Init, MemoryExact, ExternalIds
<1>5. QED
  BY <1>1, <1>2, <1>3, <1>4 DEF IndInv

(* A kind is switched, or nothing happens.                                   *)
LEMMA OutsideStep ==
  ASSUME IndInv, enabled' \subseteq Kinds,
         UNCHANGED <<idVars, externalCorrelationMap, own, users, memVars, heap, records, callVars>>
  PROVE  IndInv'
<1>1. Types'
  BY DEF IndInv, Types, idVars, callVars, memVars
<1>2. Ids'
  BY DEF IndInv, Ids, idVars, callVars
<1>3. Stacks'
  BY DEF IndInv, Stacks, OwnStack
<1>4. Holders' /\ Entries'
  <2>1. UNCHANGED <<heap, addrBytesInfo, blurred, pc, call>>
    BY DEF memVars, callVars
  <2>2. QED
    BY <2>1 DEF IndInv, Holders, Entries, Entry, Allocated, Returning, Released, IsAlloc, IsRelease
<1>5. MemoryExact' /\ ExternalIds'
  BY DEF IndInv, MemoryExact, ExternalIds, callVars
<1>6. QED
  BY <1>1, <1>2, <1>3, <1>4, <1>5 DEF IndInv

(* Switching the kinds of records keeps the invariant.                       *)
LEMMA SwitchStep == IndInv /\ Switch => IndInv'
<1> SUFFICES ASSUME IndInv, Switch PROVE IndInv'
  OBVIOUS
<1>1. enabled' \subseteq Kinds
  BY DEF IndInv, Types, Switch, SymDiff
<1>2. QED
  BY <1>1, OutsideStep DEF Switch, extVars

(* A push or a pop changes one stack, of which a thread is a user then.      *)
LEMMA StackStep ==
  ASSUME IndInv, NEW t \in Threads, NEW k \in ExtKinds,
         NEW mine \in Seq(ExtIds), NEW map,
         own' = [own EXCEPT ![t][k] = mine],
         users' = [users EXCEPT ![k] = @ \cup {t}],
         externalCorrelationMap' = map,
         DOMAIN map \subseteq ExtKinds,
         \A j \in ExtKinds \ {k} :
           j \in DOMAIN map <=> j \in DOMAIN externalCorrelationMap,
         \A j \in DOMAIN map \ {k} : map[j] = externalCorrelationMap[j],
         k \in DOMAIN map => map[k] \in Seq(ExtIds) \ {<<>>},
         OwnStack(t, k) => IF k \in DOMAIN map THEN map[k] = mine ELSE mine = <<>>,
         UNCHANGED <<enabled, idVars, memVars, heap, records, callVars>>
  PROVE  IndInv'
<1>1. UNCHANGED <<enabled, correlationId, threadCorrelationIdInfo, heap, addrBytesInfo, blurred,
                  records, pc, call>>
  BY DEF idVars, memVars, callVars
<1>2. own \in [Threads -> [ExtKinds -> Seq(ExtIds)]] /\ users \in [ExtKinds -> SUBSET Threads]
  BY DEF IndInv, Types
<1>3. /\ own' \in [Threads -> [ExtKinds -> Seq(ExtIds)]] /\ users' \in [ExtKinds -> SUBSET Threads]
      /\ own'[t][k] = mine
      /\ \A u \in Threads, j \in ExtKinds : u # t \/ j # k => own'[u][j] = own[u][j]
      /\ users'[k] = users[k] \cup {t}
      /\ \A j \in ExtKinds \ {k} : users'[j] = users[j]
  BY <1>2
<1>4. Types'
  BY <1>1, <1>3 DEF IndInv, Types
<1>5. Stacks'
  <2> SUFFICES ASSUME NEW u \in Threads, NEW j \in ExtKinds, users'[j] \subseteq {u}
               PROVE  OwnStack(u, j)'
    BY DEF Stacks
  <2>1. CASE j # k
    BY <1>3, <2>1 DEF IndInv, Stacks, OwnStack
  <2>2. CASE j = k
    <3>1. u = t /\ users[k] \subseteq {t}
      BY <1>3, <2>2
    <3>2. QED
      BY <1>3, <2>2, <3>1 DEF IndInv, Stacks, OwnStack
  <2>3. QED
    BY <2>1, <2>2
<1>6. Ids' /\ MemoryExact' /\ ExternalIds'
  BY <1>1 DEF IndInv, Ids, MemoryExact, ExternalIds
<1>7. Holders' /\ Entries'
  BY <1>1 DEF IndInv, Holders, Entries, Entry, Allocated, Returning, Released, IsAlloc, IsRelease
<1>8. QED
  BY <1>4, <1>5, <1>6, <1>7 DEF IndInv

(* A push adds to the stack of its own thread only.                          *)
LEMMA PushStep ==
  ASSUME IndInv, NEW t \in Threads, PushExternalCorrelationId(t)
  PROVE  IndInv'
<1>1. PICK k \in ExtKinds, i \in ExtIds :
        /\ externalCorrelationMap' =
             Put(externalCorrelationMap, k,
                 IF k \in DOMAIN externalCorrelationMap
                 THEN Append(externalCorrelationMap[k], i) ELSE <<i>>)
        /\ own' = [own EXCEPT ![t][k] = Append(@, i)]
        /\ users' = [users EXCEPT ![k] = @ \cup {t}]
  BY DEF PushExternalCorrelationId
<1>2. /\ DOMAIN externalCorrelationMap \subseteq ExtKinds
      /\ k \in DOMAIN externalCorrelationMap => externalCorrelationMap[k] \in Seq(ExtIds)
      /\ own[t][k] \in Seq(ExtIds)
  BY DEF IndInv, Types
<1>3. PICK new : new = IF k \in DOMAIN externalCorrelationMap
                       THEN Append(externalCorrelationMap[k], i) ELSE <<i>>
  OBVIOUS
<1>4. PICK mine : mine = Append(own[t][k], i)
  OBVIOUS
<1>5. PICK map : map = Put(externalCorrelationMap, k, new)
  OBVIOUS
<1>6. new \in Seq(ExtIds) \ {<<>>} /\ mine \in Seq(ExtIds)
  BY <1>2, <1>3, <1>4, AppendProperties
<1>7. OwnStack(t, k) => new = mine
  <2>1. Append(<<>>, i) = <<i>>
    OBVIOUS
  <2>2. QED
    BY <2>1, <1>3, <1>4 DEF OwnStack
<1>8. /\ DOMAIN map = DOMAIN externalCorrelationMap \cup {k}
      /\ map[k] = new
      /\ \A j \in DOMAIN map \ {k} : map[j] = externalCorrelationMap[j]
  BY <1>5 DEF Put
<1>9. UNCHANGED <<enabled, idVars, memVars, heap, records, callVars>>
  BY DEF PushExternalCorrelationId
<1>10. /\ externalCorrelationMap' = map /\ own' = [own EXCEPT ![t][k] = mine]
       /\ users' = [users EXCEPT ![k] = @ \cup {t}]
  BY <1>1, <1>3, <1>4, <1>5
<1>11. /\ DOMAIN map \subseteq ExtKinds
       /\ map[k] \in Seq(ExtIds) /\ map[k] # <<>>
       /\ OwnStack(t, k) => IF k \in DOMAIN map THEN map[k] = mine ELSE mine = <<>>
  BY <1>2, <1>6, <1>7, <1>8
<1>12. QED
  BY <1>6, <1>8, <1>9, <1>10, <1>11, StackStep

(* A pop takes from the stack of its own thread only.                        *)
LEMMA PopStep ==
  ASSUME IndInv, NEW t \in Threads, PopExternalCorrelationId(t)
  PROVE  IndInv'
<1>1. PICK k \in DOMAIN externalCorrelationMap :
        /\ externalCorrelationMap' = PopStack(externalCorrelationMap, k)
        /\ own' = [own EXCEPT ![t][k] = IF @ = <<>> THEN @ ELSE Front(@)]
        /\ users' = [users EXCEPT ![k] = @ \cup {t}]
  BY DEF PopExternalCorrelationId
<1>2. /\ DOMAIN externalCorrelationMap \subseteq ExtKinds /\ k \in ExtKinds
      /\ externalCorrelationMap[k] \in Seq(ExtIds) /\ externalCorrelationMap[k] # <<>>
      /\ own[t][k] \in Seq(ExtIds)
  BY DEF IndInv, Types
<1>3. PICK map : map = PopStack(externalCorrelationMap, k)
  OBVIOUS
<1>4. PICK mine : mine = IF own[t][k] = <<>> THEN own[t][k] ELSE Front(own[t][k])
  OBVIOUS
<1>5. mine \in Seq(ExtIds)
  BY <1>2, <1>4, FrontFacts
<1>6. PICK rest : rest = Front(externalCorrelationMap[k])
  OBVIOUS
<1>7. /\ DOMAIN map = IF Len(externalCorrelationMap[k]) = 1 THEN DOMAIN externalCorrelationMap \ {k}
                      ELSE DOMAIN externalCorrelationMap
      /\ \A j \in DOMAIN map \ {k} : map[j] = externalCorrelationMap[j]
      /\ k \in DOMAIN map => map[k] = rest
  <2>1. CASE Len(externalCorrelationMap[k]) = 1
    <3>1. map = Without(externalCorrelationMap, k)
      BY <1>3, <2>1 DEF PopStack
    <3>2. QED
      BY <2>1, <3>1 DEF Without
  <2>2. CASE Len(externalCorrelationMap[k]) # 1
    <3>1. map = Put(externalCorrelationMap, k, rest)
      BY <1>3, <1>6, <2>2 DEF PopStack
    <3>2. QED
      BY <2>2, <3>1 DEF Put
  <2>3. QED
    BY <2>1, <2>2
<1>8. /\ rest \in Seq(ExtIds)
      /\ rest = <<>> <=> Len(externalCorrelationMap[k]) = 1
  BY <1>2, <1>6, FrontFacts
<1>9. OwnStack(t, k) => IF k \in DOMAIN map THEN map[k] = mine ELSE mine = <<>>
  BY <1>2, <1>4, <1>6, <1>7, <1>8 DEF OwnStack
<1>10. UNCHANGED <<enabled, idVars, memVars, heap, records, callVars>>
  BY DEF PopExternalCorrelationId
<1>11. /\ externalCorrelationMap' = map /\ own' = [own EXCEPT ![t][k] = mine]
       /\ users' = [users EXCEPT ![k] = @ \cup {t}]
  BY <1>1, <1>3, <1>4
<1>12. QED
  BY <1>2, <1>5, <1>7, <1>8, <1>9, <1>10, <1>11, StackStep

-----------------------------------------------------------------------------
(* The steps of a call.                                                      *)

(* A step that moves the call of one thread leaves the others' calls         *)
(* alone.                                                                    *)
LEMMA CallMoves ==
  ASSUME IndInv, NEW t \in Threads, NEW c \in CallSet \cup {NoCall}, NEW p \in Places,
         call' = [call EXCEPT ![t] = c], pc' = [pc EXCEPT ![t] = p],
         (p = "idle") = (c = NoCall)
  PROVE  /\ pc' \in [Threads -> Places] /\ call' \in [Threads -> CallSet \cup {NoCall}]
         /\ \A u \in Threads : (pc'[u] = "idle") = (call'[u] = NoCall)
         /\ pc'[t] = p /\ call'[t] = c
         /\ \A u \in Threads \ {t} : pc'[u] = pc[u] /\ call'[u] = call[u]
  BY DEF IndInv, Types

(* A call under way is a record.                                             *)
LEMMA CallTypes ==
  ASSUME IndInv, NEW t \in Threads, pc[t] # "idle"
  PROVE  call[t] \in CallSet
  BY DEF IndInv, Types

(* NoCall is no call.                                                        *)
LEMMA NoCallIsNone == NoCall \notin CallSet
  BY DEF NoCall, CallSet

(* The arguments of a call are in its set, and a block to be released is     *)
(* one that the program has.                                                 *)
LEMMA ArgsKnown ==
  ASSUME IndInv, NEW arg \in Args
  PROVE  /\ arg \in ArgSet
         /\ arg.fn \in Releases => arg.addr \in DOMAIN heap /\ heap[arg.addr].returned
<1>1. /\ Fns \subseteq AllFns /\ DOMAIN heap \subseteq Addrs
      /\ Releases \cap (Allocs \cup Memsets \cup SyncCopies \cup AsyncCopies \cup HostCalls
                          \cup PhysicalCalls \cup Launches) = {}
  BY HostRecordsAssumption DEF IndInv, Types, Releases, Allocs, Memsets, SyncCopies, AsyncCopies,
     HostCalls, PhysicalCalls, Launches
<1>2. \/ \E f \in Fns \cap (Allocs \cup Memsets), n \in Sizes :
           arg = [fn |-> f, addr |-> Null, bytes |-> n, copyKind |-> "NONE"]
      \/ \E f \in Fns \cap (SyncCopies \cup AsyncCopies), n \in Sizes, c \in CopyKinds :
           arg = [fn |-> f, addr |-> Null, bytes |-> n, copyKind |-> c]
      \/ \E f \in Fns \cap Releases, a \in {a \in DOMAIN heap : heap[a].returned} :
           arg = [fn |-> f, addr |-> a, bytes |-> 0, copyKind |-> "NONE"]
      \/ \E f \in Fns \cap (HostCalls \cup PhysicalCalls \cup Launches) :
           arg = [fn |-> f, addr |-> Null, bytes |-> 0, copyKind |-> "NONE"]
  BY DEF Args
<1>3. QED
  BY <1>1, <1>2 DEF ArgSet

(* Entering a traced function takes an id that no call has, and a block to   *)
(* be released is no longer the program's.                                   *)
LEMMA EnterStep ==
  ASSUME IndInv, NEW t \in Threads, Enter(t)
  PROVE  IndInv'
<1>1. PICK arg \in Args :
        /\ call' = [call EXCEPT ![t] = [arg |-> arg, id |-> correlationId, addr |-> arg.addr,
                                    bytes |-> arg.bytes, ok |-> TRUE, nested |-> FALSE,
                                    external |-> {}, alone |-> {}]]
        /\ heap' = IF arg.fn \in Releases THEN [heap EXCEPT ![arg.addr].returned = FALSE] ELSE heap
  BY DEF Enter
<1>2. /\ pc[t] = "idle" /\ pc' = [pc EXCEPT ![t] = "entered"]
      /\ correlationId' = correlationId + 1
      /\ UNCHANGED <<enabled, threadCorrelationIdInfo, externalCorrelationMap, own, users,
                     addrBytesInfo, blurred, records>>
  BY DEF Enter, extVars, memVars
<1>3. PICK c : c = [arg |-> arg, id |-> correlationId, addr |-> arg.addr, bytes |-> arg.bytes,
                    ok |-> TRUE, nested |-> FALSE, external |-> {}, alone |-> {}]
  OBVIOUS
<1>4. arg \in ArgSet /\ (arg.fn \in Releases => arg.addr \in DOMAIN heap /\ heap[arg.addr].returned)
  BY ArgsKnown
<1>5. correlationId \in Nat \ {0}
  BY DEF IndInv, Types
<1>6. /\ c \in CallSet /\ c # NoCall
      /\ c.arg = arg /\ c.id = correlationId /\ c.addr = arg.addr /\ c.ok /\ ~c.nested
  <2>1. arg.addr \in Addrs \cup {Null} /\ arg.bytes \in Sizes \cup {0}
    BY <1>4 DEF ArgSet
  <2>2. {} \in SUBSET (ExtKinds \X ExtIds) /\ {} \in SUBSET ExtKinds
    OBVIOUS
  <2>3. c \in CallSet
    BY <1>3, <1>4, <1>5, <2>1, <2>2 DEF CallSet
  <2>4. QED
    BY <1>3, <2>3, NoCallIsNone
<1>7. /\ pc' \in [Threads -> Places] /\ call' \in [Threads -> CallSet \cup {NoCall}]
      /\ \A u \in Threads : (pc'[u] = "idle") = (call'[u] = NoCall)
      /\ pc'[t] = "entered" /\ call'[t] = c
      /\ \A u \in Threads \ {t} : pc'[u] = pc[u] /\ call'[u] = call[u]
  <2>1. call' = [call EXCEPT ![t] = c] /\ "entered" \in Places
    BY <1>1, <1>3 DEF Places
  <2>2. QED
    BY <1>2, <1>6, <2>1, CallMoves
<1>8. /\ DOMAIN heap' = DOMAIN heap
      /\ \A a \in DOMAIN heap : heap'[a] \in Blocks /\ heap'[a].bytes = heap[a].bytes
      /\ \A a \in DOMAIN heap : a # arg.addr \/ arg.fn \notin Releases => heap'[a] = heap[a]
      /\ arg.fn \in Releases => ~heap'[arg.addr].returned
  <2>1. \A a \in DOMAIN heap : heap[a] \in Blocks
    BY DEF IndInv, Types
  <2>2. QED
    BY <1>1, <1>4, <2>1 DEF Blocks
<1>9. Types'
  BY <1>2, <1>5, <1>7, <1>8 DEF IndInv, Types
<1>10. Ids'
  BY <1>2, <1>5, <1>6, <1>7 DEF IndInv, Types, Ids
<1>11. Stacks'
  BY <1>2 DEF IndInv, Stacks, OwnStack
<1>12. /\ \A u \in Threads, a \in Addrs \cup {Null} :
            /\ u # t => /\ Allocated(u, a)' <=> Allocated(u, a)
                        /\ Returning(u, a)' <=> Returning(u, a)
                        /\ Released(u, a)' <=> Released(u, a)
            /\ ~Allocated(t, a)' /\ ~Released(t, a)' /\ ~Allocated(t, a) /\ ~Released(t, a)
            /\ Returning(t, a)' <=> arg.fn \in Releases /\ a = arg.addr
  BY <1>2, <1>6, <1>7 DEF Allocated, Returning, Released, IsAlloc, IsRelease
<1>13. Holders'
  BY <1>4, <1>6, <1>7, <1>8, <1>12 DEF IndInv, Holders
<1>14. Entries'
  BY <1>2, <1>7, <1>8, <1>12 DEF IndInv, Entries, Entry
<1>15. MemoryExact' /\ ExternalIds'
  BY <1>2, <1>7 DEF IndInv, MemoryExact, ExternalIds
<1>16. QED
  BY <1>9, <1>10, <1>11, <1>13, <1>14, <1>15 DEF IndInv

(* A thread's place and call, when a step changes only these two of it.      *)
LEMMA SameBlocks ==
  ASSUME IndInv, UNCHANGED <<heap, addrBytesInfo, blurred>>, NEW t \in Threads,
         NEW c \in CallSet, NEW p \in Places,
         pc[t] # "idle", p # "idle", call'[t] = c, pc'[t] = p,
         \A u \in Threads \ {t} : pc'[u] = pc[u] /\ call'[u] = call[u],
         c.arg = call[t].arg, c.addr = call[t].addr, c.bytes = call[t].bytes, c.ok = call[t].ok,
         pc[t] # "done", p = "done" => c.arg.fn \notin Allocs \cup Releases
  PROVE  Holders' /\ Entries'
<1>1. pc[t] \in {"entered", "called"} /\ call[t].ok
  BY DEF IndInv, Types, Holders, Places
<1>2. \A u \in Threads : call'[u].bytes = call[u].bytes
  OBVIOUS
<1>3. \A u \in Threads : pc'[u] \in {"entered", "called"} => call'[u].ok
  BY <1>1 DEF IndInv, Holders
<1>4. \A u \in Threads, a \in Addrs \cup {Null} :
        /\ Allocated(u, a)' <=> Allocated(u, a)
        /\ Returning(u, a)' <=> Returning(u, a)
        /\ Released(u, a)' <=> Released(u, a)
  <2> SUFFICES ASSUME NEW u \in Threads, NEW a \in Addrs \cup {Null}
               PROVE  /\ Allocated(u, a)' <=> Allocated(u, a)
                      /\ Returning(u, a)' <=> Returning(u, a)
                      /\ Released(u, a)' <=> Released(u, a)
    OBVIOUS
  <2>1. CASE u # t
    BY <2>1 DEF Allocated, Returning, Released, IsAlloc, IsRelease
  <2>2. CASE u = t
    BY <1>1, <2>2 DEF Allocated, Returning, Released, IsAlloc, IsRelease
  <2>3. QED
    BY <2>1, <2>2
<1>5. QED
  BY <1>2, <1>3, <1>4, BlocksStay DEF IndInv

(* The external ids that are reported are those the thread would have had    *)
(* pushed, were the stacks its own.                                          *)
LEMMA ReportedIds ==
  ASSUME IndInv, NEW t \in Threads, NEW alone \in SUBSET ExtKinds,
         \A k \in alone : users[k] \subseteq {t}
  PROVE  /\ {<<k, Last(own[t][k])>> : k \in {k \in alone : own[t][k] # <<>>}}
              \in SUBSET (ExtKinds \X ExtIds)
         /\ {<<k, Last(externalCorrelationMap[k])>> :
               k \in {k \in DOMAIN externalCorrelationMap : k \in alone}}
            = {<<k, Last(own[t][k])>> : k \in {k \in alone : own[t][k] # <<>>}}
<1>1. \A k \in ExtKinds : own[t][k] \in Seq(ExtIds)
  BY DEF IndInv, Types
<1>2. \A k \in ExtKinds : own[t][k] # <<>> => Last(own[t][k]) \in ExtIds
  BY <1>1, FrontFacts
<1>3. \A k \in alone : /\ k \in DOMAIN externalCorrelationMap <=> own[t][k] # <<>>
                       /\ own[t][k] # <<>> => externalCorrelationMap[k] = own[t][k]
  BY DEF IndInv, Types, Stacks, OwnStack
<1>4. QED
  BY <1>2, <1>3

(* Reporting writes what is on top of the stacks, and the call remembers     *)
(* which of them were its thread's alone.                                    *)
LEMMA ReportStep ==
  ASSUME IndInv, NEW t \in Threads, ReportExternalCorrelationId(t)
  PROVE  IndInv'
<1>1. PICK alone : alone = {k \in ExtKinds : users[k] \subseteq {t}}
  OBVIOUS
<1>2. PICK ext : ext = IF "EXTERNAL_CORRELATION" \notin enabled THEN {}
                       ELSE {<<k, Last(own[t][k])>> : k \in {k \in alone : own[t][k] # <<>>}}
  OBVIOUS
<1>3. PICK id : id = call[t].id
  OBVIOUS
<1>4. PICK S : S = ExternalRecords(id)
  OBVIOUS
<1>5. /\ pc[t] = "entered" /\ pc' = [pc EXCEPT ![t] = "called"]
      /\ call' = [call EXCEPT ![t] = [@ EXCEPT !.alone = alone, !.external = ext]]
      /\ records' = records \cup S
      /\ threadCorrelationIdInfo' = Put(threadCorrelationIdInfo, t, id)
      /\ UNCHANGED <<enabled, correlationId, externalCorrelationMap, own, users, heap,
                     addrBytesInfo, blurred>>
  BY <1>1, <1>2, <1>3, <1>4 DEF ReportExternalCorrelationId, extVars, memVars
<1>6. PICK c : c = [call[t] EXCEPT !.alone = alone, !.external = ext]
  OBVIOUS
<1>7. ext \in SUBSET (ExtKinds \X ExtIds)
  BY <1>1, <1>2, ReportedIds
<1>8. call[t] \in CallSet /\ id \in 1 .. correlationId - 1 /\ correlationId \in Nat
  BY <1>3, <1>5, CallTypes DEF IndInv, Ids, Types
<1>9. /\ c \in CallSet /\ c # NoCall
      /\ c.arg = call[t].arg /\ c.id = id /\ c.addr = call[t].addr
      /\ c.bytes = call[t].bytes /\ c.ok = call[t].ok /\ c.nested = call[t].nested
      /\ c.alone = alone /\ c.external = ext
  <2>1. PICK d \in CallSet : d = call[t]
    BY <1>8
  <2>2. c = [d EXCEPT !.alone = alone, !.external = ext] /\ alone \in SUBSET ExtKinds
    BY <1>1, <1>6, <2>1
  <2>3. c \in CallSet
    BY <1>7, <2>2 DEF CallSet
  <2>4. /\ c.arg = d.arg /\ c.id = d.id /\ c.addr = d.addr /\ c.bytes = d.bytes
        /\ c.ok = d.ok /\ c.nested = d.nested /\ c.alone = alone /\ c.external = ext
    BY <2>2 DEF CallSet
  <2>5. QED
    BY <1>3, <2>1, <2>3, <2>4, NoCallIsNone
<1>10. /\ pc' \in [Threads -> Places] /\ call' \in [Threads -> CallSet \cup {NoCall}]
       /\ \A u \in Threads : (pc'[u] = "idle") = (call'[u] = NoCall)
       /\ pc'[t] = "called" /\ call'[t] = c
       /\ \A u \in Threads \ {t} : pc'[u] = pc[u] /\ call'[u] = call[u]
  <2>1. call' = [call EXCEPT ![t] = c] /\ "called" \in Places
    BY <1>5, <1>6 DEF Places
  <2>2. QED
    BY <1>5, <1>9, <2>1, CallMoves
<1>11. \A r \in S : r.kind = "EXTERNAL_CORRELATION" /\ r.correlationId = id
  BY <1>4, ExternalRecordsKnown
<1>12. /\ DOMAIN threadCorrelationIdInfo' = DOMAIN threadCorrelationIdInfo \cup {t}
       /\ threadCorrelationIdInfo'[t] = id
       /\ \A u \in DOMAIN threadCorrelationIdInfo : u # t =>
            threadCorrelationIdInfo'[u] = threadCorrelationIdInfo[u]
  BY <1>5 DEF Put
<1>13. Types'
  BY <1>5, <1>8, <1>10, <1>11, <1>12 DEF IndInv, Types, Kinds
<1>14. Ids'
  BY <1>5, <1>8, <1>9, <1>10, <1>11, <1>12, <1>3 DEF IndInv, Ids
<1>15. Stacks'
  BY <1>5 DEF IndInv, Stacks, OwnStack
<1>16. Holders' /\ Entries'
  <2>1. /\ UNCHANGED <<heap, addrBytesInfo, blurred>> /\ "called" \in Places
        /\ pc[t] # "idle" /\ pc[t] # "done"
    BY <1>5 DEF Places
  <2>2. /\ c.arg = call[t].arg /\ c.addr = call[t].addr
        /\ c.bytes = call[t].bytes /\ c.ok = call[t].ok /\ c \in CallSet
    BY <1>9
  <2>3. /\ call'[t] = c /\ pc'[t] = "called"
        /\ \A u \in Threads \ {t} : pc'[u] = pc[u] /\ call'[u] = call[u]
    BY <1>10
  <2>4. QED
    BY <2>1, <2>2, <2>3, SameBlocks
<1>17. MemoryExact'
  BY <1>5, <1>11, ExactStays DEF IndInv
<1>18. ExternalIds'
  <2> SUFFICES ASSUME NEW u \in Threads, pc'[u] \in {"called", "done"}
               PROVE  External(u)' = call'[u].external
    BY ExternalIdsMeans DEF External, ExternalIds
  <2>1. CASE u # t
    <3>1. call[u].id # id /\ pc[u] \in {"called", "done"} /\ call'[u] = call[u]
      BY <1>3, <1>5, <1>10, <2>1 DEF IndInv, Ids
    <3>2. External(u)' = External(u)
      BY <1>5, <1>11, <3>1, ExternalStays
    <3>3. QED
      BY <3>1, <3>2, ExternalIdsMeans DEF IndInv
  <2>2. CASE u = t
    <3>1. External(t)' = {<<r.externalKind, r.externalId>> : r \in {r \in S : r.externalKind \in alone}}
      <4>1. \A r \in records : r.kind = "EXTERNAL_CORRELATION" => r.correlationId # id
        BY <1>3, <1>5 DEF IndInv, Ids
      <4>2. {r \in records' : /\ r.kind = "EXTERNAL_CORRELATION"
                              /\ r.correlationId = call'[t].id
                              /\ r.externalKind \in call'[t].alone}
              = {r \in S : r.externalKind \in alone}
        <5>1. call'[t].id = id /\ call'[t].alone = alone
          BY <1>9, <1>10
        <5>2. \A r : r \in records' <=> r \in records \/ r \in S
          BY <1>5
        <5>3. QED
          BY <4>1, <5>1, <5>2, <1>11
      <4>3. QED
        BY <4>2 DEF External
    <3>2. CASE "EXTERNAL_CORRELATION" \notin enabled
      BY <1>2, <1>4, <1>9, <1>10, <2>2, <3>1, <3>2 DEF ExternalRecords
    <3>3. CASE "EXTERNAL_CORRELATION" \in enabled
      <4>1. {<<r.externalKind, r.externalId>> : r \in {r \in S : r.externalKind \in alone}}
              = {<<k, Last(externalCorrelationMap[k])>> :
                   k \in {k \in DOMAIN externalCorrelationMap : k \in alone}}
        <5>1. \A r \in S : \E k \in DOMAIN externalCorrelationMap :
                r.externalKind = k /\ r.externalId = Last(externalCorrelationMap[k])
          BY <1>4, <3>3 DEF ExternalRecords
        <5>2. \A k \in DOMAIN externalCorrelationMap : \E r \in S :
                r.externalKind = k /\ r.externalId = Last(externalCorrelationMap[k])
          <6> SUFFICES ASSUME NEW k \in DOMAIN externalCorrelationMap
                       PROVE  \E r \in S : /\ r.externalKind = k
                                            /\ r.externalId = Last(externalCorrelationMap[k])
            OBVIOUS
          <6>1. PICK r : r = [kind |-> "EXTERNAL_CORRELATION", correlationId |-> id, externalKind |-> k,
                              externalId |-> Last(externalCorrelationMap[k])]
            OBVIOUS
          <6>2. r \in S
            BY <1>4, <3>3, <6>1 DEF ExternalRecords
          <6>3. QED
            BY <6>1, <6>2
        <5>3. QED
          BY <5>1, <5>2
      <4>2. @ = ext
        BY <1>1, <1>2, <3>3, ReportedIds
      <4>3. QED
        BY <1>9, <1>10, <2>2, <3>1, <4>1, <4>2
    <3>4. QED
      BY <3>2, <3>3
  <2>3. QED
    BY <2>1, <2>2
<1>19. QED
  BY <1>13, <1>14, <1>15, <1>16, <1>17, <1>18 DEF IndInv

(* A nested call takes an id of its own and reports the stacks under it.     *)
LEMMA NestedStep ==
  ASSUME IndInv, NEW t \in Threads, NestedCall(t)
  PROVE  IndInv'
<1>1. PICK S : S = ExternalRecords(correlationId)
  OBVIOUS
<1>2. PICK c : c = [call[t] EXCEPT !.nested = TRUE]
  OBVIOUS
<1>3. /\ pc[t] = "called" /\ pc' = pc
      /\ call' = [call EXCEPT ![t] = c]
      /\ records' = records \cup S
      /\ threadCorrelationIdInfo' = Put(threadCorrelationIdInfo, t, correlationId)
      /\ correlationId' = correlationId + 1
      /\ UNCHANGED <<enabled, externalCorrelationMap, own, users, heap, addrBytesInfo, blurred>>
  BY <1>1, <1>2 DEF NestedCall, extVars, memVars
<1>4. call[t] \in CallSet /\ correlationId \in Nat \ {0}
  BY <1>3, CallTypes DEF IndInv, Types
<1>5. /\ c \in CallSet /\ c # NoCall
      /\ c.arg = call[t].arg /\ c.id = call[t].id /\ c.addr = call[t].addr
      /\ c.bytes = call[t].bytes /\ c.ok = call[t].ok /\ c.nested
      /\ c.alone = call[t].alone /\ c.external = call[t].external
  BY <1>2, <1>4, NoCallIsNone DEF CallSet
<1>6. /\ pc' \in [Threads -> Places] /\ call' \in [Threads -> CallSet \cup {NoCall}]
      /\ \A u \in Threads : (pc'[u] = "idle") = (call'[u] = NoCall)
      /\ pc'[t] = "called" /\ call'[t] = c
      /\ \A u \in Threads \ {t} : pc'[u] = pc[u] /\ call'[u] = call[u]
  <2>1. pc' = [pc EXCEPT ![t] = "called"] /\ "called" \in Places
    BY <1>3 DEF IndInv, Types, Places
  <2>2. QED
    BY <1>3, <1>5, <2>1, CallMoves
<1>7. \A r \in S : r.kind = "EXTERNAL_CORRELATION" /\ r.correlationId = correlationId
  BY <1>1, ExternalRecordsKnown
<1>8. /\ DOMAIN threadCorrelationIdInfo' = DOMAIN threadCorrelationIdInfo \cup {t}
      /\ threadCorrelationIdInfo'[t] = correlationId
      /\ \A u \in DOMAIN threadCorrelationIdInfo : u # t =>
           threadCorrelationIdInfo'[u] = threadCorrelationIdInfo[u]
  BY <1>3 DEF Put
<1>9. Types'
  BY <1>3, <1>4, <1>6, <1>7, <1>8 DEF IndInv, Types, Kinds
<1>10. Ids'
  <2>1. /\ \A u \in Threads : pc'[u] = pc[u] /\ call'[u].id = call[u].id
        /\ \A u \in Threads : pc'[u] = "entered" => call'[u] = call[u]
        /\ \A u \in Threads : call'[u].nested \/ (call'[u] = call[u] /\ u # t)
    BY <1>3, <1>5, <1>6
  <2>2. \A u \in Threads : Busy(u) => call[u].id \in 1 .. correlationId - 1
    BY DEF IndInv, Ids
  <2>3. \A u \in Threads : Busy(u)' =>
          /\ call'[u].id \in 1 .. correlationId' - 1
          /\ \A v \in Threads : Busy(v)' /\ call'[v].id = call'[u].id => v = u
    BY <1>3, <1>4, <2>1, <2>2 DEF IndInv, Ids
  <2>4. \A u \in Threads : pc'[u] = "entered" =>
          /\ ~call'[u].nested
          /\ \A r \in records' : r.kind = "EXTERNAL_CORRELATION" => r.correlationId # call'[u].id
    BY <1>3, <1>4, <1>7, <2>1, <2>2 DEF IndInv, Ids
  <2>5. \A u \in Threads : pc'[u] \in {"called", "done"} =>
          /\ u \in DOMAIN threadCorrelationIdInfo'
          /\ call'[u].nested \/ threadCorrelationIdInfo'[u] = call'[u].id
    BY <1>8, <2>1 DEF IndInv, Ids
  <2>6. QED
    BY <2>3, <2>4, <2>5 DEF Ids
<1>11. Stacks'
  BY <1>3 DEF IndInv, Stacks, OwnStack
<1>12. Holders' /\ Entries'
  <2>1. /\ UNCHANGED <<heap, addrBytesInfo, blurred>> /\ "called" \in Places
        /\ pc[t] # "idle" /\ pc[t] # "done"
    BY <1>3 DEF Places
  <2>2. /\ c.arg = call[t].arg /\ c.addr = call[t].addr
        /\ c.bytes = call[t].bytes /\ c.ok = call[t].ok /\ c \in CallSet
    BY <1>5
  <2>3. /\ call'[t] = c /\ pc'[t] = "called"
        /\ \A u \in Threads \ {t} : pc'[u] = pc[u] /\ call'[u] = call[u]
    BY <1>6
  <2>4. QED
    BY <2>1, <2>2, <2>3, SameBlocks
<1>13. MemoryExact'
  BY <1>3, <1>7, ExactStays DEF IndInv
<1>14. ExternalIds'
  <2> SUFFICES ASSUME NEW u \in Threads, pc'[u] \in {"called", "done"}
               PROVE  External(u)' = call'[u].external
    BY ExternalIdsMeans DEF External, ExternalIds
  <2>1. /\ call'[u].id = call[u].id /\ call'[u].alone = call[u].alone
        /\ call'[u].external = call[u].external /\ pc[u] \in {"called", "done"}
    BY <1>3, <1>5, <1>6
  <2>2. call[u].id \in 1 .. correlationId - 1
    BY <2>1 DEF IndInv, Ids
  <2>3. External(u)' = External(u)
    BY <1>3, <1>4, <1>7, <2>1, <2>2, ExternalStays
  <2>4. QED
    BY <2>1, <2>3, ExternalIdsMeans DEF IndInv
<1>15. QED
  BY <1>9, <1>10, <1>11, <1>12, <1>13, <1>14 DEF IndInv

(* What the runtime's function leaves alone, whatever it does to memory.     *)
LEMMA RuntimeStep ==
  ASSUME IndInv, NEW t \in Threads, NEW c \in CallSet, pc[t] = "called",
         call' = [call EXCEPT ![t] = c], pc' = [pc EXCEPT ![t] = "done"],
         c.arg = call[t].arg, c.id = call[t].id, c.nested = call[t].nested,
         c.alone = call[t].alone, c.external = call[t].external,
         UNCHANGED <<enabled, idVars, extVars, memVars, records>>,
         DOMAIN heap' \subseteq Addrs, \A a \in DOMAIN heap' : heap'[a] \in Blocks
  PROVE  /\ Types' /\ Ids' /\ Stacks' /\ MemoryExact' /\ ExternalIds'
         /\ pc'[t] = "done" /\ call'[t] = c
         /\ \A u \in Threads \ {t} : pc'[u] = pc[u] /\ call'[u] = call[u]
<1>1. UNCHANGED <<enabled, correlationId, threadCorrelationIdInfo, externalCorrelationMap, own, users,
                  addrBytesInfo, blurred, records>>
  BY DEF idVars, extVars, memVars
<1>2. /\ pc' \in [Threads -> Places] /\ call' \in [Threads -> CallSet \cup {NoCall}]
      /\ \A u \in Threads : (pc'[u] = "idle") = (call'[u] = NoCall)
      /\ pc'[t] = "done" /\ call'[t] = c
      /\ \A u \in Threads \ {t} : pc'[u] = pc[u] /\ call'[u] = call[u]
  <2>1. "done" \in Places
    BY DEF Places
  <2>2. QED
    BY <2>1, CallMoves, NoCallIsNone
<1>3. Types'
  BY <1>1, <1>2 DEF IndInv, Types
<1>4. Ids'
  BY <1>1, <1>2 DEF IndInv, Ids
<1>5. Stacks'
  BY <1>1 DEF IndInv, Stacks, OwnStack
<1>6. MemoryExact'
  BY <1>1 DEF IndInv, MemoryExact
<1>7. ExternalIds'
  <2> SUFFICES ASSUME NEW u \in Threads, pc'[u] \in {"called", "done"}
               PROVE  External(u)' = call'[u].external
    BY ExternalIdsMeans DEF External, ExternalIds
  <2>1. /\ call'[u].id = call[u].id /\ call'[u].alone = call[u].alone
        /\ call'[u].external = call[u].external /\ pc[u] \in {"called", "done"}
    BY <1>2
  <2>2. External(u)' = External(u)
    BY <1>1, <2>1 DEF External
  <2>3. QED
    BY <2>1, <2>2, ExternalIdsMeans DEF IndInv
<1>8. QED
  BY <1>2, <1>3, <1>4, <1>5, <1>6, <1>7

(* A call that neither allocates nor releases.                               *)
LEMMA PerformStep ==
  ASSUME IndInv, NEW t \in Threads, Perform(t)
  PROVE  IndInv'
<1>1. /\ pc[t] = "called" /\ pc' = [pc EXCEPT ![t] = "done"]
      /\ call[t].arg.fn \notin Allocs \cup Releases
      /\ UNCHANGED <<enabled, idVars, extVars, memVars, heap, records, call>>
  BY DEF Perform
<1>2. PICK c : c = call[t]
  OBVIOUS
<1>3. c \in CallSet /\ call' = [call EXCEPT ![t] = c]
  BY <1>1, <1>2, CallTypes DEF IndInv, Types
<1>4. DOMAIN heap' \subseteq Addrs /\ \A a \in DOMAIN heap' : heap'[a] \in Blocks
  BY <1>1 DEF IndInv, Types
<1>5. /\ Types' /\ Ids' /\ Stacks' /\ MemoryExact' /\ ExternalIds'
      /\ pc'[t] = "done" /\ call'[t] = c
      /\ \A u \in Threads \ {t} : pc'[u] = pc[u] /\ call'[u] = call[u]
  BY <1>1, <1>2, <1>3, <1>4, RuntimeStep
<1>6. Holders' /\ Entries'
  <2>1. /\ UNCHANGED <<heap, addrBytesInfo, blurred>> /\ "done" \in Places
        /\ pc[t] # "idle" /\ pc[t] # "done"
    BY <1>1 DEF memVars, Places
  <2>2. /\ c.arg = call[t].arg /\ c.addr = call[t].addr
        /\ c.bytes = call[t].bytes /\ c.ok = call[t].ok
        /\ c.arg.fn \notin Allocs \cup Releases
    BY <1>1, <1>2
  <2>3. QED
    BY <1>3, <1>5, <2>1, <2>2, SameBlocks
<1>7. QED
  BY <1>5, <1>6 DEF IndInv

(* Who has and who has freed a block, when one thread's call moves.          *)
LEMMA OthersKeep ==
  ASSUME NEW t \in Threads, \A u \in Threads \ {t} : pc'[u] = pc[u] /\ call'[u] = call[u]
  PROVE  \A u \in Threads \ {t}, a \in Addrs \cup {Null} :
           /\ Allocated(u, a)' <=> Allocated(u, a)
           /\ Returning(u, a)' <=> Returning(u, a)
           /\ Released(u, a)' <=> Released(u, a)
  BY DEF Allocated, Returning, Released, IsAlloc, IsRelease

(* An allocation that fails leaves any address behind; one that succeeds     *)
(* is on the heap with its size.                                             *)
LEMMA AllocateStep ==
  ASSUME IndInv, NEW t \in Threads, Allocate(t)
  PROVE  IndInv'
<1>1. /\ pc[t] = "called" /\ pc' = [pc EXCEPT ![t] = "done"]
      /\ call[t].arg.fn \in Allocs
      /\ UNCHANGED <<enabled, idVars, extVars, memVars, records>>
      /\ UNCHANGED <<addrBytesInfo, blurred>>
  BY DEF Allocate, memVars
<1>2. /\ call[t] \in CallSet /\ call[t].ok /\ call[t].arg.fn \notin Releases
      /\ DOMAIN heap \subseteq Addrs /\ \A a \in DOMAIN heap : heap[a] \in Blocks
  BY <1>1, CallTypes DEF IndInv, Types, Holders, Allocs, Releases
<1>3. CASE \E a \in Addrs \ DOMAIN heap :
             /\ heap' = Put(heap, a, [bytes |-> call[t].bytes, returned |-> FALSE])
             /\ call' = [call EXCEPT ![t].addr = a]
  <2>1. PICK a \in Addrs \ DOMAIN heap :
          /\ heap' = Put(heap, a, [bytes |-> call[t].bytes, returned |-> FALSE])
          /\ call' = [call EXCEPT ![t].addr = a]
    BY <1>3
  <2>2. PICK c : c = [call[t] EXCEPT !.addr = a]
    OBVIOUS
  <2>3. /\ c \in CallSet /\ c.arg = call[t].arg /\ c.id = call[t].id /\ c.nested = call[t].nested
        /\ c.alone = call[t].alone /\ c.external = call[t].external
        /\ c.addr = a /\ c.ok /\ c.bytes = call[t].bytes /\ call[t].bytes \in Sizes \cup {0}
        /\ call' = [call EXCEPT ![t] = c]
    BY <1>2, <2>1, <2>2 DEF CallSet
  <2>4. /\ DOMAIN heap' = DOMAIN heap \cup {a}
        /\ heap'[a] \in Blocks /\ heap'[a].bytes = c.bytes /\ ~heap'[a].returned
        /\ \A b \in DOMAIN heap : heap'[b] = heap[b]
    BY <2>1, <2>3 DEF Put, Blocks
  <2>5. /\ Types' /\ Ids' /\ Stacks' /\ MemoryExact' /\ ExternalIds'
        /\ pc'[t] = "done" /\ call'[t] = c
        /\ \A u \in Threads \ {t} : pc'[u] = pc[u] /\ call'[u] = call[u]
    <3>1. DOMAIN heap' \subseteq Addrs /\ \A b \in DOMAIN heap' : heap'[b] \in Blocks
      BY <1>2, <2>4
    <3>2. QED
      BY <1>1, <2>3, <3>1, RuntimeStep
  <2>6. /\ \A b \in Addrs \cup {Null} : Allocated(t, b)' <=> b = a
        /\ \A b \in Addrs \cup {Null} : ~Returning(t, b)' /\ ~Released(t, b)'
                                        /\ ~Allocated(t, b) /\ ~Returning(t, b) /\ ~Released(t, b)
    BY <1>1, <1>2, <2>3, <2>5 DEF Allocated, Returning, Released, IsAlloc, IsRelease
  <2>7. \A u \in Threads \ {t}, b \in Addrs \cup {Null} :
          /\ Allocated(u, b)' <=> Allocated(u, b)
          /\ Returning(u, b)' <=> Returning(u, b)
          /\ Released(u, b)' <=> Released(u, b)
    BY <2>5, OthersKeep
  <2>8. Holders'
    BY <2>3, <2>4, <2>5, <2>6, <2>7 DEF IndInv, Holders
  <2>9. Entries'
    BY <1>1, <2>4, <2>5, <2>6, <2>7 DEF IndInv, Entries, Entry
  <2>10. QED
    BY <2>5, <2>8, <2>9 DEF IndInv
<1>4. CASE /\ \E a \in Addrs \cup {Null} : call' = [call EXCEPT ![t].addr = a, ![t].ok = FALSE]
           /\ UNCHANGED heap
  <2>1. PICK a \in Addrs \cup {Null} : call' = [call EXCEPT ![t].addr = a, ![t].ok = FALSE]
    BY <1>4
  <2>2. PICK c : c = [call[t] EXCEPT !.addr = a, !.ok = FALSE]
    OBVIOUS
  <2>3. /\ c \in CallSet /\ c.arg = call[t].arg /\ c.id = call[t].id /\ c.nested = call[t].nested
        /\ c.alone = call[t].alone /\ c.external = call[t].external /\ ~c.ok
        /\ call' = [call EXCEPT ![t] = c]
    BY <1>2, <2>1, <2>2 DEF CallSet
  <2>4. /\ Types' /\ Ids' /\ Stacks' /\ MemoryExact' /\ ExternalIds'
        /\ pc'[t] = "done" /\ call'[t] = c
        /\ \A u \in Threads \ {t} : pc'[u] = pc[u] /\ call'[u] = call[u]
    BY <1>1, <1>2, <1>4, <2>3, RuntimeStep
  <2>5. \A b \in Addrs \cup {Null} :
          /\ ~Allocated(t, b)' /\ ~Returning(t, b)' /\ ~Released(t, b)'
          /\ ~Allocated(t, b) /\ ~Returning(t, b) /\ ~Released(t, b)
    BY <1>1, <1>2, <2>3, <2>4 DEF Allocated, Returning, Released, IsAlloc, IsRelease
  <2>6. /\ \A u \in Threads : pc'[u] \in {"entered", "called"} => call'[u].ok
        /\ \A u \in Threads \ {t} : call'[u].bytes = call[u].bytes
    BY <2>4 DEF IndInv, Holders
  <2>7. Holders' /\ Entries'
    BY <1>1, <1>4, <2>4, <2>5, <2>6, OthersKeep, BlocksStay DEF IndInv
  <2>8. QED
    BY <2>4, <2>7 DEF IndInv
<1>5. QED
  BY <1>3, <1>4 DEF Allocate

(* A release remembers the size its block was allocated with.                *)
LEMMA ReleaseStep ==
  ASSUME IndInv, NEW t \in Threads, Release(t)
  PROVE  IndInv'
<1>1. PICK a : a = call[t].addr
  OBVIOUS
<1>2. /\ pc[t] = "called" /\ pc' = [pc EXCEPT ![t] = "done"]
      /\ call[t].arg.fn \in Releases
      /\ heap' = Without(heap, a) \/ heap' = heap
      /\ call' = [call EXCEPT ![t].bytes = heap[a].bytes, ![t].ok = heap' # heap]
      /\ UNCHANGED <<enabled, idVars, extVars, memVars, records>>
      /\ UNCHANGED <<addrBytesInfo, blurred>>
  BY <1>1 DEF Release, memVars
<1>3. /\ call[t] \in CallSet /\ call[t].arg.fn \notin Allocs /\ a \in Addrs \cup {Null}
      /\ DOMAIN heap \subseteq Addrs /\ \A b \in DOMAIN heap : heap[b] \in Blocks
  BY <1>1, <1>2, CallTypes DEF IndInv, Types, Allocs, Releases, CallSet
<1>4. /\ \A b \in Addrs \cup {Null} : ~Allocated(t, b) /\ ~Released(t, b)
      /\ \A b \in Addrs \cup {Null} : Returning(t, b) <=> b = a
  BY <1>1, <1>2 DEF Allocated, Returning, Released, IsAlloc, IsRelease
<1>5. /\ a \in DOMAIN heap /\ ~heap[a].returned
      /\ \A u \in Threads : Holds(u, a) => u = t
  BY <1>3, <1>4 DEF IndInv, Holders
<1>6. PICK ok \in BOOLEAN : ok = (heap' # heap)
  OBVIOUS
<1>7. PICK c : c = [call[t] EXCEPT !.bytes = heap[a].bytes, !.ok = ok]
  OBVIOUS
<1>8. /\ c \in CallSet /\ c.arg = call[t].arg /\ c.id = call[t].id /\ c.nested = call[t].nested
      /\ c.alone = call[t].alone /\ c.external = call[t].external
      /\ c.addr = a /\ c.ok = ok /\ c.bytes = heap[a].bytes
      /\ call' = [call EXCEPT ![t] = c]
  <2>1. heap[a].bytes \in Sizes \cup {0}
    BY <1>3, <1>5 DEF Blocks
  <2>2. call' = [call EXCEPT ![t] = c]
    BY <1>2, <1>6, <1>7
  <2>3. QED
    BY <1>1, <1>3, <1>6, <1>7, <2>1, <2>2 DEF CallSet
<1>9. IF ok THEN DOMAIN heap' = DOMAIN heap \ {a} /\ \A b \in DOMAIN heap \ {a} : heap'[b] = heap[b]
            ELSE heap' = heap
  BY <1>2, <1>6 DEF Without
<1>10. /\ Types' /\ Ids' /\ Stacks' /\ MemoryExact' /\ ExternalIds'
       /\ pc'[t] = "done" /\ call'[t] = c
       /\ \A u \in Threads \ {t} : pc'[u] = pc[u] /\ call'[u] = call[u]
  <2>1. DOMAIN heap' \subseteq Addrs /\ \A b \in DOMAIN heap' : heap'[b] \in Blocks
    BY <1>3, <1>9
  <2>2. QED
    BY <1>2, <1>8, <2>1, RuntimeStep
<1>11. \A b \in Addrs \cup {Null} :
         /\ ~Allocated(t, b)'
         /\ Returning(t, b)' <=> b = a /\ ~ok
         /\ Released(t, b)' <=> b = a /\ ok
  BY <1>2, <1>3, <1>8, <1>10 DEF Allocated, Returning, Released, IsAlloc, IsRelease
<1>12. \A u \in Threads \ {t}, b \in Addrs \cup {Null} :
         /\ Allocated(u, b)' <=> Allocated(u, b)
         /\ Returning(u, b)' <=> Returning(u, b)
         /\ Released(u, b)' <=> Released(u, b)
  BY <1>10, OthersKeep
<1>13. Holders'
  BY <1>4, <1>5, <1>9, <1>10, <1>11, <1>12 DEF IndInv, Holders
<1>14. Entries'
  <2> SUFFICES ASSUME NEW b \in (Addrs \cup {Null}) \ blurred
               PROVE  EntryOf(b)'
    BY <1>2 DEF Entries
  <2>1. EntryOf(b)
    BY DEF IndInv, Entries
  <2>2. CASE b # a
    <3>1. b \in DOMAIN heap' <=> b \in DOMAIN heap
      BY <1>9, <2>2
    <3>2. b \in DOMAIN heap => heap'[b] = heap[b]
      BY <1>9, <2>2
    <3>3. ASSUME NEW u \in Threads
          PROVE  /\ Allocated(u, b)' <=> Allocated(u, b)
                 /\ Released(u, b)' <=> Released(u, b)
                 /\ Released(u, b) => call'[u].bytes = call[u].bytes
      <4>1. CASE u = t
        BY <1>4, <1>11, <2>2, <4>1
      <4>2. CASE u # t
        <5>1. call'[u] = call[u]
          BY <1>10, <4>2
        <5>2. QED
          BY <1>12, <4>2, <5>1
      <4>3. QED
        BY <4>1, <4>2
    <3>4. \A n : Entry(b, n)' <=> Entry(b, n)
      BY <1>2 DEF Entry
    <3>5. (b \in DOMAIN heap => Entry(b, heap[b].bytes) \/ \E u \in Threads : Allocated(u, b))'
      BY <2>1, <3>1, <3>2, <3>3, <3>4
    <3>6. ASSUME NEW u \in Threads, Released(u, b)'
          PROVE  /\ Entry(b, call[u].bytes)'
                 /\ \A v \in Threads : Released(v, b)' => v = u
                 /\ b \in DOMAIN heap' => \E v \in Threads : Allocated(v, b)'
      BY <2>1, <3>1, <3>3, <3>4, <3>6
    <3>7. QED
      BY <3>5, <3>6
  <2>3. CASE b = a
    <3>1. \A u \in Threads : ~Allocated(u, a)
      BY <1>3, <1>4, <1>5
    <3>2. Entry(a, c.bytes) /\ \A u \in Threads : ~Released(u, a)
      BY <1>5, <1>8, <2>1, <2>3, <3>1
    <3>3. \A u \in Threads : ~Allocated(u, a)' /\ (Released(u, a)' => u = t /\ ok)
      BY <1>3, <1>11, <1>12, <3>1, <3>2
    <3>4. a \in DOMAIN heap' => ~ok /\ heap'[a] = heap[a]
      BY <1>9
    <3>5. Entry(a, c.bytes)'
      BY <1>2, <3>2, <1>10 DEF Entry
    <3>6. QED
      BY <1>8, <1>10, <2>3, <3>3, <3>4, <3>5 DEF Entry
  <2>4. QED
    BY <2>2, <2>3
<1>15. QED
  BY <1>10, <1>13, <1>14 DEF IndInv

-----------------------------------------------------------------------------
(* The steps that end a call.                                                *)

(* What a call leaves alone that ends, with records or without.              *)
LEMMA ReturnStep ==
  ASSUME IndInv, NEW t \in Threads, NEW S, pc[t] = "done",
         pc' = [pc EXCEPT ![t] = "idle"], call' = [call EXCEPT ![t] = NoCall],
         records' = records \cup S,
         \A r \in S : /\ r.kind \in Kinds \ {"EXTERNAL_CORRELATION"}
                      /\ r.correlationId \in 1 .. correlationId - 1
                      /\ Exact(r),
         UNCHANGED <<enabled, idVars, extVars>>,
         DOMAIN addrBytesInfo' \subseteq Addrs \cup {Null},
         DOMAIN heap' \subseteq Addrs, \A a \in DOMAIN heap' : heap'[a] \in Blocks
  PROVE  /\ Types' /\ Ids' /\ Stacks' /\ MemoryExact' /\ ExternalIds'
         /\ pc'[t] = "idle" /\ call'[t] = NoCall
         /\ \A u \in Threads \ {t} : pc'[u] = pc[u] /\ call'[u] = call[u]
<1>1. UNCHANGED <<enabled, correlationId, threadCorrelationIdInfo, externalCorrelationMap, own, users>>
  BY DEF idVars, extVars
<1>2. /\ pc' \in [Threads -> Places] /\ call' \in [Threads -> CallSet \cup {NoCall}]
      /\ \A u \in Threads : (pc'[u] = "idle") = (call'[u] = NoCall)
      /\ pc'[t] = "idle" /\ call'[t] = NoCall
      /\ \A u \in Threads \ {t} : pc'[u] = pc[u] /\ call'[u] = call[u]
  BY DEF IndInv, Types, Places
<1>3. Types'
  BY <1>1, <1>2 DEF IndInv, Types
<1>4. Ids'
  <2>1. \A u \in Threads : Busy(u)' => u # t /\ Busy(u) /\ pc'[u] = pc[u] /\ call'[u] = call[u]
    BY <1>2
  <2>2. \A u \in Threads : Busy(u)' =>
          /\ call'[u].id \in 1 .. correlationId' - 1
          /\ \A v \in Threads : Busy(v)' /\ call'[v].id = call'[u].id => v = u
    BY <1>1, <2>1 DEF IndInv, Ids
  <2>3. \A u \in Threads : pc'[u] = "entered" =>
          /\ ~call'[u].nested
          /\ \A r \in records' : r.kind = "EXTERNAL_CORRELATION" => r.correlationId # call'[u].id
    BY <2>1 DEF IndInv, Ids
  <2>4. \A u \in Threads : pc'[u] \in {"called", "done"} =>
          /\ u \in DOMAIN threadCorrelationIdInfo'
          /\ call'[u].nested \/ threadCorrelationIdInfo'[u] = call'[u].id
    BY <1>1, <2>1 DEF IndInv, Ids
  <2>5. QED
    BY <2>2, <2>3, <2>4 DEF Ids
<1>5. Stacks'
  BY <1>1 DEF IndInv, Stacks, OwnStack
<1>6. MemoryExact'
  BY ExactStays DEF IndInv
<1>7. ExternalIds'
  <2> SUFFICES ASSUME NEW u \in Threads, pc'[u] \in {"called", "done"}
               PROVE  External(u)' = call'[u].external
    BY ExternalIdsMeans DEF External, ExternalIds
  <2>1. u # t /\ call'[u] = call[u] /\ pc[u] \in {"called", "done"}
    BY <1>2
  <2>2. External(u)' = External(u)
    BY <2>1, ExternalStays
  <2>3. QED
    BY <2>1, <2>2, ExternalIdsMeans DEF IndInv
<1>8. QED
  BY <1>2, <1>3, <1>4, <1>5, <1>6, <1>7

(* The id that a record is given is that of its call, or of one made within. *)
LEMMA IdOfCall ==
  ASSUME IndInv, NEW t \in Threads, pc[t] = "done"
  PROVE  /\ GetCorrelationId(t) \in 1 .. correlationId - 1
         /\ call[t].nested \/ GetCorrelationId(t) = call[t].id
  BY DEF IndInv, Ids, Types, GetCorrelationId

(* A copy or set of memory is recorded as it was called.                     *)
LEMMA LeaveStep ==
  ASSUME IndInv, NEW t \in Threads, Leave(t)
  PROVE  IndInv'
<1>1. PICK S :
        S = CASE call[t].arg.fn \in SyncCopies \cup AsyncCopies /\ "MEMCPY" \in enabled ->
                   {ReportMemcpyActivity(t)}
              [] call[t].arg.fn \in Memsets /\ "MEMSET" \in enabled -> {ReportMemsetActivity(t)}
              [] OTHER -> {}
  OBVIOUS
<1>2. /\ pc[t] = "done" /\ call[t].arg.fn \notin Allocs \cup Releases
      /\ records' = records \cup S
      /\ pc' = [pc EXCEPT ![t] = "idle"] /\ call' = [call EXCEPT ![t] = NoCall]
      /\ UNCHANGED <<enabled, idVars, extVars, memVars, heap>>
      /\ UNCHANGED <<addrBytesInfo, blurred>>
  BY <1>1 DEF Leave, memVars
<1>3. \A r \in S : r = ReportMemcpyActivity(t) \/ r = ReportMemsetActivity(t)
  BY <1>1
<1>4. \A r \in S : /\ r.kind \in Kinds \ {"EXTERNAL_CORRELATION"}
                   /\ r.correlationId \in 1 .. correlationId - 1
                   /\ Exact(r)
  <2>1. \A r : r = ReportMemcpyActivity(t) =>
          /\ r.kind = "MEMCPY" /\ r.correlationId = GetCorrelationId(t) /\ r.of = call[t]
          /\ r.bytes = call[t].bytes
          /\ r.streamId = IF call[t].arg.fn \in Async THEN Stream ELSE NoStream
    BY DEF ReportMemcpyActivity
  <2>2. \A r : r = ReportMemsetActivity(t) =>
          /\ r.kind = "MEMSET" /\ r.correlationId = GetCorrelationId(t) /\ r.of = call[t]
          /\ r.bytes = call[t].bytes
          /\ r.streamId = IF call[t].arg.fn \in Async THEN Stream ELSE NoStream
    BY DEF ReportMemsetActivity
  <2>3. QED
    BY <1>2, <1>3, <2>1, <2>2, IdOfCall DEF Kinds, Exact, Stream, NoStream
<1>5. /\ Types' /\ Ids' /\ Stacks' /\ MemoryExact' /\ ExternalIds'
      /\ pc'[t] = "idle" /\ call'[t] = NoCall
      /\ \A u \in Threads \ {t} : pc'[u] = pc[u] /\ call'[u] = call[u]
  <2>1. /\ DOMAIN addrBytesInfo' \subseteq Addrs \cup {Null}
        /\ DOMAIN heap' \subseteq Addrs /\ \A a \in DOMAIN heap' : heap'[a] \in Blocks
    BY <1>2 DEF IndInv, Types
  <2>2. QED
    BY <1>2, <1>4, <2>1, ReturnStep
<1>6. Holders' /\ Entries'
  <2>1. \A b \in Addrs \cup {Null} :
          /\ ~Allocated(t, b)' /\ ~Returning(t, b)' /\ ~Released(t, b)'
          /\ ~Allocated(t, b) /\ ~Returning(t, b) /\ ~Released(t, b)
    BY <1>2, <1>5 DEF Allocated, Returning, Released, IsAlloc, IsRelease
  <2>2. /\ \A u \in Threads : pc'[u] \in {"entered", "called"} => call'[u].ok
        /\ \A u \in Threads \ {t} : call'[u].bytes = call[u].bytes
    BY <1>5 DEF IndInv, Holders
  <2>3. UNCHANGED <<heap, addrBytesInfo, blurred>>
    BY <1>2
  <2>4. QED
    BY <1>5, <2>1, <2>2, <2>3, OthersKeep, BlocksStay DEF IndInv
<1>7. QED
  BY <1>5, <1>6 DEF IndInv

(* The record of an allocation or a release, and the entry of its address.   *)
LEMMA ReportMemoryStep ==
  ASSUME IndInv, NEW t \in Threads, ReportMemoryActivity(t)
  PROVE  IndInv'
<1>1. PICK a : a = call[t].addr
  OBVIOUS
<1>2. PICK on \in BOOLEAN : on <=> "MEMORY" \in enabled
  <2>1. CASE "MEMORY" \in enabled
    <3>1. WITNESS TRUE \in BOOLEAN
    <3>2. QED
      BY <2>1
  <2>2. CASE "MEMORY" \notin enabled
    <3>1. WITNESS FALSE \in BOOLEAN
    <3>2. QED
      BY <2>2
  <2>3. QED
    BY <2>1, <2>2
<1>3. PICK size : size = IF IsAlloc(t) THEN call[t].bytes
                         ELSE IF a \in DOMAIN addrBytesInfo THEN addrBytesInfo[a] ELSE 0
  OBVIOUS
<1>4. PICK sure \in BOOLEAN : sure = (call[t].ok /\ (IsAlloc(t) \/ a \notin blurred))
  OBVIOUS
<1>5. PICK new : new = MemoryRecord(t, size, sure)
  OBVIOUS
<1>6. PICK S : S = IF on THEN {new} ELSE {}
  OBVIOUS
<1>7. /\ pc[t] = "done" /\ call[t].arg.fn \in Allocs \cup Releases
      /\ addrBytesInfo' = IF ~on THEN addrBytesInfo
                          ELSE IF IsAlloc(t) THEN Put(addrBytesInfo, a, call[t].bytes)
                                             ELSE Without(addrBytesInfo, a)
      /\ records' = records \cup S
      /\ blurred' = Blur(t)
      /\ heap' = IF IsAlloc(t) = call[t].ok THEN [heap EXCEPT ![a].returned = TRUE] ELSE heap
      /\ pc' = [pc EXCEPT ![t] = "idle"] /\ call' = [call EXCEPT ![t] = NoCall]
      /\ UNCHANGED <<enabled, idVars, extVars>>
  BY <1>1, <1>2, <1>3, <1>4, <1>5, <1>6 DEF ReportMemoryActivity, Track, IsAlloc
<1>8. /\ call[t] \in CallSet /\ call[t].ok \in BOOLEAN /\ a \in Addrs \cup {Null}
      /\ IsAlloc(t) <=> ~IsRelease(t)
      /\ DOMAIN heap \subseteq Addrs /\ \A b \in DOMAIN heap : heap[b] \in Blocks
      /\ DOMAIN addrBytesInfo \subseteq Addrs \cup {Null}
  BY <1>1, <1>7, CallTypes DEF IndInv, Types, Allocs, Releases, CallSet, IsAlloc, IsRelease
<1>9. /\ \A b \in Addrs \cup {Null} :
           /\ Allocated(t, b) <=> b = a /\ IsAlloc(t) /\ call[t].ok
           /\ Returning(t, b) <=> b = a /\ ~IsAlloc(t) /\ ~call[t].ok
           /\ Released(t, b) <=> b = a /\ ~IsAlloc(t) /\ call[t].ok
  BY <1>1, <1>7, <1>8 DEF Allocated, Returning, Released
<1>10. IsAlloc(t) = call[t].ok =>
         /\ a \in DOMAIN heap
         /\ \A u \in Threads : Holds(u, a) => u = t
         /\ IsAlloc(t) => heap[a].bytes = call[t].bytes
  BY <1>8, <1>9 DEF IndInv, Holders, IsAlloc
<1>11. /\ DOMAIN heap' = DOMAIN heap
       /\ \A b \in DOMAIN heap : heap'[b] \in Blocks /\ heap'[b].bytes = heap[b].bytes
       /\ \A b \in DOMAIN heap : b # a \/ IsAlloc(t) # call[t].ok => heap'[b] = heap[b]
  <2>1. CASE IsAlloc(t) = call[t].ok
    BY <1>7, <1>8, <1>10, <2>1 DEF Blocks
  <2>2. CASE IsAlloc(t) # call[t].ok
    BY <1>7, <1>8, <2>2
  <2>3. QED
    BY <2>1, <2>2
<1>12. /\ \A b : b # a => (b \in DOMAIN addrBytesInfo' <=> b \in DOMAIN addrBytesInfo)
       /\ \A b \in DOMAIN addrBytesInfo : b # a => addrBytesInfo'[b] = addrBytesInfo[b]
       /\ ~on => addrBytesInfo' = addrBytesInfo
       /\ on /\ IsAlloc(t) => a \in DOMAIN addrBytesInfo' /\ addrBytesInfo'[a] = call[t].bytes
       /\ DOMAIN addrBytesInfo' \subseteq Addrs \cup {Null}
  <2>1. CASE on /\ IsAlloc(t)
    BY <1>7, <1>8, <2>1 DEF Put
  <2>2. CASE on /\ ~IsAlloc(t)
    BY <1>7, <1>8, <2>2 DEF Without
  <2>3. CASE ~on
    BY <1>7, <1>8, <2>3
  <2>4. QED
    BY <2>1, <2>2, <2>3
<1>13. \A r \in S : /\ r.kind \in Kinds \ {"EXTERNAL_CORRELATION"}
                    /\ r.correlationId \in 1 .. correlationId - 1
                    /\ Exact(r)
  <2>1. /\ new.kind = "MEMORY" /\ new.correlationId = GetCorrelationId(t) /\ new.of = call[t]
        /\ new.address = a /\ new.bytes = size /\ new.sure = sure
    BY <1>1, <1>5 DEF MemoryRecord
  <2>2. sure => size = call[t].bytes
    <3>1. CASE IsAlloc(t)
      BY <1>3, <3>1
    <3>2. CASE ~IsAlloc(t) /\ sure
      <4>1. a \in (Addrs \cup {Null}) \ blurred /\ Released(t, a)
        BY <1>4, <1>8, <1>9, <3>2
      <4>2. Entry(a, call[t].bytes)
        BY <4>1 DEF IndInv, Entries
      <4>3. QED
        BY <1>3, <3>2, <4>2 DEF Entry
    <3>3. QED
      BY <3>1, <3>2
  <2>3. Exact(new)
    BY <1>1, <1>7, <2>1, <2>2, IdOfCall DEF Exact
  <2>4. new.kind \in Kinds \ {"EXTERNAL_CORRELATION"} /\ new.correlationId \in 1 .. correlationId - 1
    BY <1>7, <2>1, IdOfCall DEF Kinds
  <2>5. QED
    BY <1>6, <2>3, <2>4
<1>14. /\ Types' /\ Ids' /\ Stacks' /\ MemoryExact' /\ ExternalIds'
       /\ pc'[t] = "idle" /\ call'[t] = NoCall
       /\ \A u \in Threads \ {t} : pc'[u] = pc[u] /\ call'[u] = call[u]
  <2>1. DOMAIN heap' \subseteq Addrs /\ \A b \in DOMAIN heap' : heap'[b] \in Blocks
    BY <1>8, <1>11
  <2>2. QED
    BY <1>7, <1>12, <1>13, <2>1, ReturnStep
<1>15. /\ \A b \in Addrs \cup {Null} : ~Allocated(t, b)' /\ ~Returning(t, b)' /\ ~Released(t, b)'
       /\ \A u \in Threads \ {t}, b \in Addrs \cup {Null} :
            /\ Allocated(u, b)' <=> Allocated(u, b)
            /\ Returning(u, b)' <=> Returning(u, b)
            /\ Released(u, b)' <=> Released(u, b)
  <2>1. \A b \in Addrs \cup {Null} : ~Allocated(t, b)' /\ ~Returning(t, b)' /\ ~Released(t, b)'
    BY <1>14 DEF Allocated, Returning, Released
  <2>2. QED
    BY <1>14, <2>1, OthersKeep
<1>16. Holders'
  <2>1. \A u \in Threads : pc'[u] \in {"entered", "called"} => call'[u].ok
    BY <1>14 DEF IndInv, Holders
  <2>2. ASSUME NEW u \in Threads, NEW b \in Addrs \cup {Null}, Holds(u, b)'
        PROVE  /\ b \in DOMAIN heap' /\ ~heap'[b].returned
               /\ \A v \in Threads : Holds(v, b)' => v = u
               /\ Allocated(u, b)' => heap'[b].bytes = call'[u].bytes
    <3>1. u # t /\ Holds(u, b) /\ (Allocated(u, b)' => Allocated(u, b)) /\ call'[u] = call[u]
      BY <1>14, <1>15, <2>2
    <3>2. /\ b \in DOMAIN heap /\ ~heap[b].returned
          /\ \A v \in Threads : Holds(v, b) => v = u
          /\ Allocated(u, b) => heap[b].bytes = call[u].bytes
      BY <3>1 DEF IndInv, Holders
    <3>3. b # a \/ IsAlloc(t) # call[t].ok
      BY <1>10, <3>1
    <3>4. QED
      BY <1>11, <1>15, <3>1, <3>2, <3>3
  <2>3. QED
    BY <2>1, <2>2 DEF Holders
<1>17. Entries'
  <2> SUFFICES ASSUME NEW b \in (Addrs \cup {Null}) \ blurred'
               PROVE  EntryOf(b)'
    BY DEF Entries
  <2>1. CASE b # a
    <3>1. b \notin blurred
      BY <1>1, <1>7, <2>1 DEF Blur
    <3>2. EntryOf(b)
      BY <3>1 DEF IndInv, Entries
    <3>3. ASSUME NEW u \in Threads
          PROVE  /\ Allocated(u, b)' <=> Allocated(u, b)
                 /\ Released(u, b)' <=> Released(u, b)
                 /\ Released(u, b) => call'[u] = call[u]
      BY <1>9, <1>14, <1>15, <2>1
    <3>4. \A n : Entry(b, n)' <=> Entry(b, n)
      BY <1>12, <2>1 DEF Entry
    <3>5. (b \in DOMAIN heap => Entry(b, heap[b].bytes) \/ \E u \in Threads : Allocated(u, b))'
      BY <1>11, <2>1, <3>2, <3>3, <3>4
    <3>6. ASSUME NEW u \in Threads, Released(u, b)'
          PROVE  /\ Entry(b, call[u].bytes)'
                 /\ \A v \in Threads : Released(v, b)' => v = u
                 /\ b \in DOMAIN heap' => \E v \in Threads : Allocated(v, b)'
      BY <1>11, <3>2, <3>3, <3>4, <3>6
    <3>7. QED
      BY <3>5, <3>6
  <2>2. CASE b = a /\ ~on
    <3>1. blurred' = blurred /\ ~(IsAlloc(t) /\ call[t].ok)
      BY <1>1, <1>2, <1>7, <2>2 DEF Blur, IsAlloc
    <3>2. EntryOf(a)
      BY <2>2, <3>1 DEF IndInv, Entries
    <3>3. ASSUME NEW u \in Threads
          PROVE  /\ Allocated(u, a)' <=> Allocated(u, a)
                 /\ Released(u, a)' => Released(u, a) /\ call'[u] = call[u]
      BY <1>8, <1>9, <1>14, <1>15, <3>1
    <3>4. \A n : Entry(a, n)' <=> Entry(a, n)
      BY <1>12, <2>2 DEF Entry
    <3>5. (a \in DOMAIN heap => Entry(a, heap[a].bytes) \/ \E u \in Threads : Allocated(u, a))'
      BY <1>11, <3>2, <3>3, <3>4
    <3>6. ASSUME NEW u \in Threads, Released(u, a)'
          PROVE  /\ Entry(a, call[u].bytes)'
                 /\ \A v \in Threads : Released(v, a)' => v = u
                 /\ a \in DOMAIN heap' => \E v \in Threads : Allocated(v, a)'
      BY <1>11, <3>2, <3>3, <3>4, <3>6
    <3>7. QED
      BY <2>2, <3>5, <3>6
  <2>3. CASE b = a /\ on /\ IsAlloc(t)
    <3>1. call[t].ok /\ ~ReleasedUnreported(a, t)
      BY <1>1, <1>2, <1>7, <2>3 DEF Blur, IsAlloc
    <3>2. \A u \in Threads : ~Released(u, a)'
      BY <1>8, <1>15, <3>1 DEF ReleasedUnreported, Released, IsRelease
    <3>3. Entry(a, heap[a].bytes)'
      BY <1>8, <1>10, <1>11, <1>12, <2>3, <3>1 DEF Entry
    <3>4. QED
      BY <2>3, <3>2, <3>3
  <2>4. CASE b = a /\ on /\ ~IsAlloc(t)
    <3>1. call[t].ok /\ blurred' = blurred
      BY <1>1, <1>2, <1>7, <2>4 DEF Blur, IsAlloc
    <3>2. EntryOf(a) /\ Released(t, a)
      BY <1>8, <1>9, <2>4, <3>1 DEF IndInv, Entries
    <3>3. \A u \in Threads : ~Released(u, a)'
      BY <1>8, <1>15, <3>2
    <3>4. a \in DOMAIN heap' => \E u \in Threads : Allocated(u, a)'
      <4>1. ~Allocated(t, a)
        BY <1>8, <1>9, <2>4
      <4>2. QED
        BY <1>8, <1>11, <1>15, <3>2, <4>1
    <3>5. QED
      BY <2>4, <3>3, <3>4
  <2>5. QED
    BY <2>1, <2>2, <2>3, <2>4
<1>18. QED
  BY <1>14, <1>16, <1>17 DEF IndInv

-----------------------------------------------------------------------------
(* Every step keeps the inductive invariant.                                 *)
LEMMA NextStep == IndInv /\ [Next]_vars => IndInv'
<1> SUFFICES ASSUME IndInv, [Next]_vars PROVE IndInv'
  OBVIOUS
<1>1. CASE UNCHANGED vars
  <2>1. /\ UNCHANGED <<idVars, externalCorrelationMap, own, users, memVars, heap, records, callVars>>
        /\ enabled' = enabled
    BY <1>1 DEF vars, extVars
  <2>2. enabled' \subseteq Kinds
    BY <2>1 DEF IndInv, Types
  <2>3. QED
    BY <2>1, <2>2, OutsideStep
<1>2. CASE Switch
  BY <1>2, SwitchStep
<1>3. ASSUME NEW t \in Threads,
             \/ PushExternalCorrelationId(t) \/ PopExternalCorrelationId(t)
             \/ Enter(t) \/ ReportExternalCorrelationId(t) \/ NestedCall(t)
             \/ Allocate(t) \/ Release(t) \/ Perform(t)
             \/ ReportMemoryActivity(t) \/ Leave(t)
      PROVE  IndInv'
  BY <1>3, PushStep, PopStep, EnterStep, ReportStep, NestedStep, AllocateStep, ReleaseStep,
     PerformStep, ReportMemoryStep, LeaveStep
<1>4. QED
  BY <1>1, <1>2, <1>3 DEF Next

(* The inductive invariant, which the theorems below are parts of.           *)
THEOREM Inductive == Spec => []IndInv
  BY InitHolds, NextStep, PTL DEF Spec

(* TypeOK holds of the records, ids and stacks for any number of threads: a  *)
(* kind that ReportExternalCorrelationId finds in the map has a top.         *)
THEOREM TypeCorrect == Spec => []TypeOK
<1>1. IndInv => TypeOK
  BY DEF IndInv, Types, TypeOK, Places
<1>2. QED
  BY <1>1, Inductive, PTL

(* The records of memory calls have the id, the address and the bytes of     *)
(* their calls, whatever the threads do between the runtime's function and   *)
(* the destructor that records it, outside the cases that Blur names.        *)
THEOREM MemoryRecordsAreExact == Spec => []MemoryExact
<1>1. IndInv => MemoryExact
  BY DEF IndInv
<1>2. QED
  BY <1>1, Inductive, PTL

(* The record of a call is preceded by the external ids that its thread has  *)
(* pushed, for the kinds that only this thread uses.                         *)
THEOREM ExternalIdsPrecede == Spec => []ExternalIds
<1>1. IndInv => ExternalIds
  BY DEF IndInv
<1>2. QED
  BY <1>1, Inductive, PTL

-----------------------------------------------------------------------------
(* The conversion of counters to times: that quotient and remainder are      *)
(* scaled apart loses nothing, and nothing on the way overflows when the     *)
(* result fits, for words of every size.                                     *)

Half == WordSize \div 2

(* A word has as many numbers below zero as not.                             *)
LEMMA HalfOfWord == Half \in Nat /\ Half + Half <= WordSize /\ WordSize <= Half + Half + 1
  BY WordAssumption DEF Half

(* What div and mod mean, for negative numbers too.                          *)
LEMMA Division ==
  ASSUME NEW x \in Int, NEW y \in Nat \ {0}
  PROVE  /\ x \div y \in Int /\ x % y \in Nat /\ x % y < y
         /\ x = (x \div y) * y + (x % y)
  OBVIOUS

(* Quotient and remainder are the only ones.                                 *)
LEMMA Divided ==
  ASSUME NEW y \in Nat \ {0}, NEW q \in Int, NEW r \in 0..(y - 1), NEW x \in Int,
         x = q * y + r
  PROVE  x \div y = q /\ x % y = r
<1> DEFINE p == x \div y
           s == x % y
<1>1. p \in Int /\ s \in Nat /\ s < y /\ x = p * y + s
  BY Division
<1> HIDE DEF p, s
<1>2. (p - q) * y = r - s
  <2>1. (p - q) * y = p * y - q * y
    BY <1>1
  <2> DEFINE a == p * y
             b == q * y
  <2>2. a \in Int /\ b \in Int
    BY <1>1
  <2>3. a + s = b + r /\ (p - q) * y = a - b
    BY <1>1, <2>1
  <2> HIDE DEF a, b
  <2>4. QED
    BY <1>1, <2>2, <2>3
<1>3. ~(p - q >= 1)
  <2> SUFFICES ASSUME p - q >= 1 PROVE FALSE
    OBVIOUS
  <2>1. PICK d \in Nat : p - q = d + 1
    <3>1. p - q - 1 \in Nat /\ p - q = (p - q - 1) + 1
      BY <1>1
    <3>2. QED
      BY <3>1
  <2>2. (p - q) * y = d * y + y /\ d * y \in Nat
    BY <2>1
  <2>3. QED
    BY <1>1, <1>2, <2>2
<1>4. ~(q - p >= 1)
  <2> SUFFICES ASSUME q - p >= 1 PROVE FALSE
    OBVIOUS
  <2>1. PICK d \in Nat : q - p = d + 1
    <3>1. q - p - 1 \in Nat /\ q - p = (q - p - 1) + 1
      BY <1>1
    <3>2. QED
      BY <3>1
  <2>2. (q - p) * y = d * y + y /\ d * y \in Nat
    BY <2>1
  <2>3. (q - p) * y = s - r
    <3>1. (q - p) * y = -((p - q) * y)
      BY <1>1
    <3>2. QED
      BY <1>1, <1>2, <3>1
  <2>4. QED
    BY <1>1, <2>2, <2>3
<1>5. p = q
  BY <1>1, <1>3, <1>4
<1>6. s = r
  BY <1>1, <1>5
<1>7. QED
  BY <1>5, <1>6 DEF p, s

(* Numbers of less than half of a word's range are what they are.            *)
LEMMA SmallUnsigned ==
  ASSUME NEW x \in 0..(WordSize - 1)
  PROVE  Unsigned(x) = x
<1>1. x = 0 * WordSize + x
  BY WordAssumption
<1>2. QED
  BY <1>1, WordAssumption, Divided DEF Unsigned

(* A number that fits a signed word is itself.                               *)
LEMMA SmallSigned ==
  ASSUME NEW x \in Int, -Half < x, x < Half
  PROVE  Signed(x) = x
<1>1. CASE x >= 0
  <2>1. Unsigned(x) = x
    BY <1>1, HalfOfWord, WordAssumption, SmallUnsigned
  <2>2. QED
    BY <2>1 DEF Signed, Half
<1>2. CASE x < 0
  <2>1. x = (-1) * WordSize + (x + WordSize) /\ x + WordSize \in 0..(WordSize - 1)
    BY <1>2, HalfOfWord, WordAssumption
  <2>2. Unsigned(x) = x + WordSize
    BY <2>1, WordAssumption, Divided DEF Unsigned
  <2>3. ~(Unsigned(x) < Half) /\ Unsigned(x) - WordSize = x
    BY <2>2, HalfOfWord, WordAssumption
  <2>4. QED
    BY <2>3, Zenon DEF Signed, Half
<1>3. QED
  BY <1>1, <1>2

-----------------------------------------------------------------------------
(* Scaling quotient and remainder apart.                                     *)

(* For a distance that is not negative.                                      *)
LEMMA Apart ==
  ASSUME NEW d \in Nat, NEW f \in Nat \ {0}
  PROVE  LET q == d \div f
             r == d % f
         IN  /\ q \in Nat /\ r \in Nat /\ r * NsPerTick \in Nat /\ q * NsPerTick \in Nat
             /\ r * NsPerTick < f * NsPerTick
             /\ (d * NsPerTick) \div f = q * NsPerTick + ((r * NsPerTick) \div f)
             /\ (r * NsPerTick) \div f \in Nat
<1> DEFINE N == NsPerTick
           q == d \div f
           r == d % f
<1> USE HostTimeAssumption
<1>1. q \in Nat /\ r \in Nat /\ r < f /\ d = q * f + r
  OBVIOUS
<1> HIDE DEF q, r
<1>2. r * N \in Nat /\ q * N \in Nat /\ f * N \in Nat
  BY <1>1
<1>3. r * N < f * N
  <2>1. PICK e \in Nat : f = r + e + 1
    <3>1. f - r - 1 \in Nat /\ f = r + (f - r - 1) + 1
      BY <1>1
    <3>2. QED
      BY <3>1
  <2>2. f * N = r * N + e * N + N /\ e * N \in Nat
    BY <1>1, <2>1
  <2>3. QED
    BY <1>2, <2>2
<1> DEFINE a == r * N
           p == a \div f
           s == a % f
<1>4. p \in Nat /\ s \in 0..(f - 1) /\ a = p * f + s
  BY <1>2
<1>5. d * N = (q * N + p) * f + s
  <2> HIDE DEF p, s
  <2>1. d * N = (q * f) * N + r * N
    BY <1>1
  <2>2. (q * f) * N = (q * N) * f
    BY <1>1
  <2>3. (q * N + p) * f = (q * N) * f + p * f
    BY <1>1, <1>2, <1>4
  <2>4. p * f \in Nat /\ (q * N) * f \in Nat
    BY <1>2, <1>4
  <2>5. QED
    BY <1>4, <2>1, <2>2, <2>3, <2>4
<1> DEFINE x == d * N
           z == q * N + p
<1>6. x \in Int /\ z \in Int /\ x = z * f + s
  BY <1>2, <1>4, <1>5
<1>7. x \div f = z
  <2> HIDE DEF p, s, a, x, z
  <2>1. QED
    BY <1>4, <1>6, Divided
<1>8. QED
  BY <1>1, <1>2, <1>3, <1>4, <1>7 DEF q, r

(* For any distance: nothing overflows when the result and the factor fit.   *)
LEMMA ScaleIsExact ==
  ASSUME NEW d \in Int, NEW f \in Nat \ {0}, f * NsPerTick < Half,
         -Half < Quot(d * NsPerTick, f), Quot(d * NsPerTick, f) < Half
  PROVE  Scale(d, f) = Quot(d * NsPerTick, f) /\ Quot(d * NsPerTick, f) \in Int
<1> DEFINE N == NsPerTick
           m == IF d >= 0 THEN d ELSE -d
           q == m \div f
           r == m % f
           p == (r * N) \div f
           e == (m * N) \div f
<1> USE HostTimeAssumption
<1>0. m \in Nat
  OBVIOUS
<1> HIDE DEF m
<1>1. /\ q \in Nat /\ r \in Nat /\ r * N \in Nat /\ q * N \in Nat /\ r * N < f * N
      /\ e = q * N + p /\ p \in Nat /\ f * N \in Nat /\ m = q * f + r
  <2>1. f * N \in Nat
    OBVIOUS
  <2>2. m = q * f + r
    BY <1>0, Division
  <2>3. QED
    BY <1>0, <2>1, <2>2, Apart
<1>2. r * N < Half /\ Half \in Nat
  BY <1>1, HalfOfWord
<1>3. CASE d >= 0
  <2>1. m = d /\ Quot(d * N, f) = e /\ Quot(d, f) = q
    BY <1>3 DEF Quot, m
  <2> HIDE DEF q, r, p, e
  <2>2. Rem(d, f) = r
    BY <1>1, <2>1 DEF Rem
  <2>3. Signed(q * N) = q * N
    BY <1>1, <1>2, <2>1, SmallSigned
  <2>4. Signed(r * N) = r * N
    BY <1>1, <1>2, SmallSigned
  <2>5. Quot(r * N, f) = p
    BY <1>1 DEF Quot, p
  <2>6. Scale(d, f) = q * N + p
    BY <2>1, <2>2, <2>3, <2>4, <2>5 DEF Scale
  <2>7. QED
    BY <1>1, <2>1, <2>6
<1>4. CASE d < 0
  <2>1. m = -d /\ Quot(d * N, f) = -e /\ Quot(d, f) = -q
    <3>1. m = -d /\ ~(d >= 0)
      BY <1>4 DEF m
    <3>2. d * N < 0 /\ -(d * N) = m * N
      BY <1>4, <3>1
    <3>3. QED
      BY <3>1, <3>2 DEF Quot
  <2> HIDE DEF q, r, p, e
  <2>2. Rem(d, f) = -r
    <3>1. f * (-q) = -(q * f) /\ q * f \in Nat
      BY <1>1
    <3>2. QED
      BY <1>1, <2>1, <3>1 DEF Rem
  <2>3. Signed(-(q * N)) = -(q * N)
    BY <1>1, <1>2, <2>1, SmallSigned
  <2>4. Signed(-(r * N)) = -(r * N)
    BY <1>1, <1>2, SmallSigned
  <2>5. Quot(-(r * N), f) = -p
    <3>1. CASE r * N = 0
      <4>1. p = 0
        <5>1. 0 = 0 * f + 0
          OBVIOUS
        <5>2. 0 \div f = 0
          BY <5>1, Divided
        <5>3. QED
          BY <3>1, <5>2 DEF p
      <4>2. -(r * N) = r * N
        BY <1>1, <3>1
      <4>3. -p = p
        <5>1. p \in Nat
          BY <1>1
        <5>2. p <= 0 /\ p >= 0
          BY <4>1
        <5>3. QED
          BY <5>1, <5>2
      <4>4. r * N >= 0
        BY <1>1
      <4>5. QED
        BY <4>2, <4>3, <4>4 DEF Quot, p
    <3>2. CASE r * N # 0
      <4>1. ~(-(r * N) >= 0) /\ -(-(r * N)) = r * N
        BY <1>1, <3>2
      <4>2. QED
        BY <4>1 DEF Quot, p
    <3>3. QED
      BY <3>1, <3>2
  <2>6. (-q) * N = -(q * N) /\ (-r) * N = -(r * N)
    BY <1>1
  <2>7. Scale(d, f) = -(q * N) + (-p)
    BY <2>1, <2>2, <2>3, <2>4, <2>5, <2>6 DEF Scale
  <2>8. QED
    BY <1>1, <2>1, <2>7
<1>5. QED
  BY <1>3, <1>4

-----------------------------------------------------------------------------
(* The conversions.                                                          *)

Counters == 0..(Half - 1)

(* A sum that fits an unsigned word is itself.                               *)
LEMMA SumFits ==
  ASSUME NEW a \in Int, NEW b \in Int, a + b \in Counters
  PROVE  Unsigned(a + b) = a + b
  BY HalfOfWord, WordAssumption, SmallUnsigned DEF Counters

(* With the frequency of a clock that counts.                                *)
LEMMA CountedExact ==
  ASSUME NEW start \in Counters, NEW sysCnt \in Counters, NEW real \in Counters,
         NEW f \in Nat \ {0}, f * NsPerTick < Half, ExactTime(sysCnt, start, f, real) \in Counters,
         NEW info, info.freq = f, info.startSysCnt = start, info.startRealTime = real
  PROVE  CalculateRealTimeWithSysCnt(sysCnt, info) = ExactTime(sysCnt, start, f, real)
<1> DEFINE d == sysCnt - start
           e == Quot(d * NsPerTick, f)
<1>1. /\ Half \in Nat /\ d \in Int /\ -Half < d /\ d < Half
      /\ start \in Int /\ sysCnt \in Int /\ real \in Int
  BY HalfOfWord DEF Counters
<1>2. /\ Signed(start) = start /\ Signed(sysCnt) = sysCnt /\ Signed(real) = real
      /\ Signed(d) = d
  <2>1. /\ -Half < start /\ start < Half /\ -Half < sysCnt /\ sysCnt < Half
        /\ -Half < real /\ real < Half
    BY HalfOfWord DEF Counters
  <2>2. QED
    BY <1>1, <2>1, SmallSigned
<1>3. e \in Int
  <2>1. d * NsPerTick \in Int /\ -(d * NsPerTick) \in Int
    BY <1>1, HostTimeAssumption
  <2> DEFINE x == d * NsPerTick
  <2> HIDE DEF x
  <2>2. x \div f \in Int /\ (-x) \div f \in Int
    BY <2>1, Division DEF x
  <2>3. QED
    BY <2>2 DEF Quot, x
<1>4. ExactTime(sysCnt, start, f, real) = real + e
  BY DEF ExactTime
<1>5. -Half < e /\ e < Half /\ e + real \in Counters /\ real + e = e + real
  <2> HIDE DEF e
  <2>1. real \in 0..(Half - 1) /\ real + e \in 0..(Half - 1)
    BY <1>4 DEF Counters
  <2>2. real + e = e + real /\ -Half < e /\ e < Half
    BY <1>1, <1>3, <2>1
  <2>3. QED
    BY <1>4, <2>2
<1>6. Scale(d, f) = e
  BY <1>1, <1>5, ScaleIsExact
<1>7. CalculateRealTimeWithSysCnt(sysCnt, info) = Unsigned(e + real)
  BY <1>2, <1>6 DEF CalculateRealTimeWithSysCnt
<1>8. Unsigned(e + real) = e + real
  <2> HIDE DEF e
  <2>1. QED
    BY <1>1, <1>3, <1>5, SumFits
<1>9. QED
  BY <1>4, <1>5, <1>7, <1>8

(* Of a clock that counts nanoseconds already.                               *)
LEMMA MonotonicExact ==
  ASSUME NEW start \in Counters, NEW sysCnt \in Counters, NEW real \in Counters,
         ExactTime(sysCnt, start, 0, real) \in Counters,
         NEW info, info.startMonotonicRawNs = start, info.startRealTime = real
  PROVE  CalculateRealTimeWithMonotonicTime(sysCnt, info) = ExactTime(sysCnt, start, 0, real)
<1>1. /\ Half \in Nat /\ start \in Int /\ sysCnt \in Int /\ real \in Int
      /\ -Half < start /\ start < Half /\ -Half < sysCnt /\ sysCnt < Half
      /\ -Half < real /\ real < Half
  BY HalfOfWord DEF Counters
<1>2. Signed(start) = start /\ Signed(sysCnt) = sysCnt /\ Signed(real) = real
  BY <1>1, SmallSigned
<1>3. /\ ExactTime(sysCnt, start, 0, real) = real + (sysCnt - start)
      /\ real + (sysCnt - start) = (sysCnt - start) + real
  BY <1>1 DEF ExactTime
<1>4. Unsigned((sysCnt - start) + real) = (sysCnt - start) + real
  BY <1>1, <1>3, SumFits
<1>5. QED
  BY <1>2, <1>3, <1>4 DEF CalculateRealTimeWithMonotonicTime

(* The middle of two readings.                                               *)
LEMMA Middle ==
  ASSUME NEW real \in {0, WordSize \div 4}, Half # 0
  PROVE  real \in Counters /\ Unsigned(real + real) \div 2 = real
<1>1. /\ real \in Nat /\ real < Half /\ real + real < WordSize
  BY WordAssumption DEF Half
<1>2. Unsigned(real + real) = real + real
  BY <1>1, WordAssumption, SmallUnsigned
<1>3. QED
  BY <1>1, <1>2, HalfOfWord DEF Counters

(* Every conversion of a counter, of the host with or without a frequency    *)
(* and of a device, gives the exact time whenever that time fits             *)
(* (context_manager.cpp:196-238).                                            *)
THEOREM ConversionIsExact == ConversionExact
<1> SUFFICES ASSUME NEW on \in BOOLEAN, NEW freq \in Freqs \cup {Failed},
                    NEW real \in {0, WordSize \div 4},
                    NEW start \in Counters, NEW sysCnt \in Counters
             PROVE
    LET hostOn == on /\ freq > 0
        host   == InitHostTimeInfo(hostOn, freq, start, real, real)
        dev    == InitDevTimeInfo(freq, start, real, real)
        Fits(f) == /\ f * NsPerTick < WordSize \div 2
                   /\ ExactTime(sysCnt, start, f, real) \in 0 .. WordSize \div 2 - 1
    IN  /\ Fits(host.freq) =>
             GetRealTimeFromSysCnt(hostOn, sysCnt, host) = ExactTime(sysCnt, start, host.freq, real)
        /\ hostOn /\ dev.freq > 0 /\ Fits(dev.freq) =>
             GetRealTimeOfDevice(hostOn, sysCnt, dev) = ExactTime(sysCnt, start, dev.freq, real)
  BY DEF ConversionExact, Counters, Half
<1> DEFINE hostOn == on /\ freq > 0
           host   == InitHostTimeInfo(hostOn, freq, start, real, real)
           dev    == InitDevTimeInfo(freq, start, real, real)
           Fits(f) == f * NsPerTick < Half /\ ExactTime(sysCnt, start, f, real) \in Counters
<1>1. real \in Counters /\ Unsigned(real + real) \div 2 = real
  <2>1. Half # 0
    BY HalfOfWord DEF Counters
  <2>2. QED
    BY <2>1, Middle
<1>2. hostOn => freq \in Nat \ {0} /\ freq # Failed
  BY HostTimeAssumption DEF Failed
<1>3. /\ host # NoInfo /\ dev # NoInfo
      /\ host.startRealTime = real /\ dev.startRealTime = real
  BY <1>1 DEF InitHostTimeInfo, InitDevTimeInfo, NoInfo
<1>4. ASSUME Fits(host.freq)
      PROVE  GetRealTimeFromSysCnt(hostOn, sysCnt, host) = ExactTime(sysCnt, start, host.freq, real)
  <2>1. CASE hostOn
    <3>1. host.freq = freq /\ host.startSysCnt = start
      BY <1>2, <2>1 DEF InitHostTimeInfo, GetHostFreq
    <3>2. GetRealTimeFromSysCnt(hostOn, sysCnt, host) = CalculateRealTimeWithSysCnt(sysCnt, host)
      BY <1>2, <1>3, <2>1, <3>1 DEF GetRealTimeFromSysCnt, CalculateRealTime
    <3> HIDE DEF host
    <3>3. QED
      BY <1>1, <1>2, <1>3, <1>4, <2>1, <3>1, <3>2, CountedExact
  <2>2. CASE ~hostOn
    <3>1. host.freq = 0 /\ host.startMonotonicRawNs = start
      BY <2>2 DEF InitHostTimeInfo
    <3>2. GetRealTimeFromSysCnt(hostOn, sysCnt, host) = CalculateRealTimeWithMonotonicTime(sysCnt, host)
      BY <1>3, <2>2 DEF GetRealTimeFromSysCnt, CalculateRealTime
    <3> HIDE DEF host
    <3>3. QED
      BY <1>1, <1>3, <1>4, <3>1, <3>2, MonotonicExact
  <2>3. QED
    BY <2>1, <2>2
<1>5. ASSUME hostOn, dev.freq > 0, Fits(dev.freq)
      PROVE  GetRealTimeOfDevice(hostOn, sysCnt, dev) = ExactTime(sysCnt, start, dev.freq, real)
  <2>1. dev.freq = freq /\ dev.startSysCnt = start
    <3>1. start # Failed
      BY HalfOfWord DEF Counters, Failed
    <3>2. QED
      BY <1>2, <1>5, <3>1 DEF InitDevTimeInfo, GetDevFreq, GetDevStartSysCnt
  <2>2. GetRealTimeOfDevice(hostOn, sysCnt, dev) = CalculateRealTimeWithSysCnt(sysCnt, dev)
    BY <1>2, <1>3, <1>5, <2>1 DEF GetRealTimeOfDevice, CalculateRealTime
  <2> HIDE DEF dev
  <2>3. QED
    BY <1>1, <1>2, <1>3, <1>5, <2>1, <2>2, CountedExact
<1>6. QED
  BY <1>4, <1>5 DEF Counters, Half

(* Whenever a first call is made, the times of its records are the exact     *)
(* times of its counters, whatever these are (context_manager.cpp:196-238).  *)
THEOREM TimesAreExact == Spec => TimesExact
<1>1. [Next]_vars => [calls' > calls /\ calls + pushes + faults = 0 => ConversionExact]_vars
  BY ConversionIsExact
<1>2. QED
  BY <1>1, PTL DEF Spec, TimesExact
=============================================================================
