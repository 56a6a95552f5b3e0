------------------------ MODULE ActivityManager_proof ------------------------
(***************************************************************************)
(* Proofs about ActivityManager for every set of threads, every size and   *)
(* every bound; at the end, that it implements RecordDelivery.             *)
(***************************************************************************)
EXTENDS ActivityManager, TLAPS

(* Buffer numbers. *)
LEMMA BufferNumbers ==
  /\ Buffers \subseteq Nat
  /\ NoBuf \notin Buffers
  /\ \A n \in 0..MaxBufs : n < MaxBufs => n + 1 \in Buffers
  /\ \A n \in 0..MaxBufs, b \in Buffers : b > n <=> ~(b <= n)
  BY ConstantsAssumption DEF Buffers, NoBuf

(* Init has the types. *)
LEMMA TypeInit == Init => TypeOK
<1> SUFFICES ASSUME Init PROVE TypeOK
  OBVIOUS
<1>1. ApiType /\ LockType /\ CondType /\ QueueType /\ calls \in Nat
  BY DEF Init, ApiType, LockType, CondType, QueueType
<1>2. BufType
  BY ConstantsAssumption, BufferNumbers DEF Init, BufType
<1>3. FlushType
  BY DEF Init, FlushType
<1>4. CbType /\ PcType
  BY DEF Init, CbType, PcType, Threads
<1>5. QED
  BY <1>1, <1>2, <1>3, <1>4 DEF TypeOK

(* What leaves a group of variables alone keeps its types. *)
LEMMA TypeFrame ==
  /\ ApiType /\ UNCHANGED apiVars => ApiType'
  /\ BufType /\ UNCHANGED bufVars => BufType'
  /\ LockType /\ UNCHANGED lockVars => LockType'
  /\ CondType /\ UNCHANGED condVars => CondType'
  /\ FlushType /\ UNCHANGED flushVars => FlushType'
  /\ QueueType /\ UNCHANGED <<bufFull, co, work>> => QueueType'
  /\ CbType /\ UNCHANGED cb => CbType'
  /\ PcType /\ UNCHANGED pc => PcType'
<1>1. ApiType /\ UNCHANGED apiVars => ApiType'
  BY DEF ApiType, apiVars
<1>2. BufType /\ UNCHANGED bufVars => BufType'
  BY DEF BufType, bufVars
<1>3. LockType /\ UNCHANGED lockVars => LockType'
  BY DEF LockType, lockVars
<1>4. CondType /\ UNCHANGED condVars => CondType'
  BY DEF CondType, condVars
<1>5. FlushType /\ UNCHANGED flushVars => FlushType'
  BY DEF FlushType, flushVars
<1>6. QueueType /\ UNCHANGED <<bufFull, co, work>> => QueueType'
  BY DEF QueueType
<1>7. (CbType /\ UNCHANGED cb => CbType') /\ (PcType /\ UNCHANGED pc => PcType')
  BY DEF CbType, PcType
<1>8. QED
  BY <1>1, <1>2, <1>3, <1>4, <1>5, <1>6, <1>7

(* A step that creates a buffer keeps the types. *)
LEMMA NewBufferType ==
  ASSUME BufType, RecordInNewBuffer
  PROVE  BufType' /\ nbuf + 1 \in Buffers /\ nbuf' = nbuf + 1 /\ cur' = nbuf + 1
<1> USE BufferNumbers
<1>1. nbuf < MaxBufs /\ nbuf + 1 \in Buffers /\ nbuf' = nbuf + 1 /\ cur' = nbuf + 1
  BY DEF RecordInNewBuffer, BufType
<1>2. nbuf' \in 0..MaxBufs
  BY <1>1, ConstantsAssumption DEF BufType
<1>3. PICK s \in (IF registered THEN BufSizes ELSE {0}), r \in RecSizes :
        /\ size' = [size EXCEPT ![nbuf + 1] = s]
        /\ \/ /\ valid' = [valid EXCEPT ![nbuf + 1] = r]
              /\ recs' = [recs EXCEPT ![nbuf + 1] = {nrec + 1}]
              /\ nrec' = nrec + 1
              /\ UNCHANGED <<ndrop, drops>>
           \/ /\ ndrop' = ndrop + 1
              /\ drops' = drops \union {<<r, s>>}
              /\ UNCHANGED <<valid, recs, nrec>>
  BY DEF RecordInNewBuffer
<1>4. s \in Nat /\ r \in Nat
  BY ConstantsAssumption
<1>5. size' \in [Buffers -> Nat]
  BY <1>1, <1>3, <1>4 DEF BufType
<1>6. valid' \in [Buffers -> Nat]
  BY <1>1, <1>3, <1>4 DEF BufType
<1>7. recs' \in [Buffers -> SUBSET Nat]
  BY <1>1, <1>3, <1>4 DEF BufType
<1>8. nrec' \in Nat /\ ndrop' \in Nat /\ drops' \subseteq Nat \X Nat
  BY <1>3, <1>4 DEF BufType
<1>9. QED
  BY <1>1, <1>2, <1>5, <1>6, <1>7, <1>8 DEF BufType

(* A record copied into the current buffer, or dropped, keeps the types. *)
LEMMA AppendType ==
  ASSUME BufType, NEW p \in Producers, RecordAppend(p)
  PROVE  BufType'
<1>1. cur \in Buffers /\ size[cur] \in Nat /\ valid[cur] \in Nat
  BY DEF RecordAppend, BufType
<1>2. PICK r \in RecSizes :
        \/ /\ valid' = [valid EXCEPT ![cur] = @ + r]
           /\ recs' = [recs EXCEPT ![cur] = @ \union {nrec + 1}]
           /\ nrec' = nrec + 1
           /\ UNCHANGED <<ndrop, drops>>
        \/ /\ ndrop' = ndrop + 1
           /\ drops' = drops \union {<<r, size[cur]>>}
           /\ UNCHANGED <<valid, recs, nrec>>
  BY DEF RecordAppend
<1>3. r \in Nat
  BY ConstantsAssumption
<1>4. valid' \in [Buffers -> Nat]
  BY <1>1, <1>2, <1>3 DEF BufType
<1>5. recs' \in [Buffers -> SUBSET Nat]
  BY <1>1, <1>2 DEF BufType
<1>6. nrec' \in Nat /\ ndrop' \in Nat /\ drops' \subseteq Nat \X Nat
  BY <1>1, <1>2, <1>3 DEF BufType
<1>7. UNCHANGED <<cur, nbuf, size>>
  BY DEF RecordAppend
<1>8. QED
  BY <1>4, <1>5, <1>6, <1>7 DEF BufType

(* One step keeps the types. *)
LEMMA TypeStep ==
  ASSUME TypeOK, ControlInv, [Next]_vars
  PROVE  TypeOK'
<1>0. /\ ApiType /\ BufType /\ LockType /\ CondType /\ FlushType
      /\ QueueType /\ CbType /\ PcType /\ calls \in Nat
  BY DEF TypeOK
<1> USE <1>0, TypeFrame
<1>1. CASE Register \/ UnRegister
  <2>1. ApiType'
    BY <1>1 DEF Register, UnRegister, ApiType
  <2>2. QED
    BY <1>1, <2>1 DEF Register, UnRegister, TypeOK
<1>2. ASSUME NEW p \in Producers, RecordEnter(p)
      PROVE  TypeOK'
  <2>1. PcType' /\ calls' \in Nat
    BY <1>2 DEF RecordEnter, PcType, Threads
  <2>2. QED
    BY <1>2, <2>1 DEF RecordEnter, TypeOK
<1>3. ASSUME NEW p \in Producers, RecordFirst(p)
      PROVE  TypeOK'
  <2>1. PcType'
    BY <1>3 DEF RecordFirst, PcType, Threads
  <2>2. BufType'
    BY <1>3, NewBufferType DEF RecordFirst
  <2>3. QED
    BY <1>3, <2>1, <2>2 DEF RecordFirst, TypeOK
<1>4. ASSUME NEW p \in Producers, RecordAppend(p)
      PROVE  TypeOK'
  <2>1. PcType'
    BY <1>4 DEF RecordAppend, PcType, Threads
  <2>2. BufType'
    BY <1>4, AppendType
  <2>3. QED
    BY <1>4, <2>1, <2>2 DEF RecordAppend, TypeOK
<1>5. ASSUME NEW p \in Producers, RecordFull(p)
      PROVE  TypeOK'
  <2>1. PcType' /\ LockType'
    BY <1>5 DEF RecordFull, PcType, LockType, Threads
  <2>2. QED
    BY <1>5, <2>1 DEF RecordFull, TypeOK
<1>6. ASSUME NEW p \in Producers, RecordRotate(p)
      PROVE  TypeOK'
  <2>1. cur \in Buffers
    BY <1>6 DEF RecordRotate, ControlInv, ProducerControl, BufType
  <2>2. PcType' /\ LockType'
    BY <1>6 DEF RecordRotate, PcType, LockType, Threads
  <2>3. FlushType'
    BY <1>6, <2>1 DEF RecordRotate, FlushType
  <2>4. QueueType' /\ CondType'
    BY <1>6, <2>1 DEF RecordRotate, Enqueue, Notify, QueueType, CondType
  <2>5. cur' = NoBuf /\ UNCHANGED <<nbuf, size, valid, recs, nrec, ndrop, drops>> => BufType'
    BY DEF BufType
  <2>6. BufType'
    BY <1>6, <2>5, NewBufferType DEF RecordRotate
  <2>7. QED
    BY <1>6, <2>2, <2>3, <2>4, <2>6 DEF RecordRotate, TypeOK
<1>7. ASSUME NEW f \in Flushers, FlushStart(f)
      PROVE  TypeOK'
  <2>1. UNION {deque[g] : g \in {h \in Flushers : pc[h] = "uninit"}} \subseteq Buffers
    BY DEF FlushType
  <2>2. raced' \in [Flushers -> SUBSET Buffers]
    BY <1>7, <2>1 DEF FlushStart, FlushType
  <2>3. /\ due' \in [Flushers -> SUBSET Buffers] /\ deque' \in [Flushers -> SUBSET Buffers]
        /\ flushes' \in Nat
    BY <1>7 DEF FlushStart, TakeQueue, FlushType, QueueType
  <2>4. FlushType'
    BY <2>2, <2>3 DEF FlushType
  <2>5. PcType' /\ QueueType'
    BY <1>7 DEF FlushStart, TakeQueue, PcType, QueueType, Threads
  <2>6. QED
    BY <1>7, <2>4, <2>5 DEF FlushStart, TypeOK
<1>8. ASSUME NEW f \in Flushers, FlushUnInit(f)
      PROVE  TypeOK'
  <2>1. CbType'
    BY <1>8 DEF FlushUnInit, CbType
  <2>2. QED
    BY <1>8, <2>1 DEF FlushUnInit, TypeOK
<1>9. ASSUME NEW f \in Flushers, FlushUnInitEnd(f)
      PROVE  TypeOK'
  <2>1. CbType' /\ FlushType'
    BY <1>9 DEF FlushUnInitEnd, CbType, FlushType
  <2>2. QED
    BY <1>9, <2>1 DEF FlushUnInitEnd, TypeOK
<1>10. ASSUME NEW f \in Flushers, FlushLockCv(f)
       PROVE  TypeOK'
  <2>1. PcType' /\ LockType'
    BY <1>10 DEF FlushLockCv, PcType, LockType, Threads
  <2>2. QED
    BY <1>10, <2>1 DEF FlushLockCv, TypeOK
<1>11. ASSUME NEW f \in Flushers, FlushJoin(f)
       PROVE  TypeOK'
  <2>1. PcType' /\ LockType' /\ QueueType'
    BY <1>11 DEF FlushJoin, PcType, LockType, QueueType, Threads
  <2>2. QED
    BY <1>11, <2>1 DEF FlushJoin, TypeOK
<1>12. ASSUME NEW f \in Flushers, FlushCur(f)
       PROVE  TypeOK'
  <2>1. PcType' /\ LockType'
    BY <1>12 DEF FlushCur, PcType, LockType, Threads
  <2>2. BufType' /\ CbType' /\ FlushType'
    BY <1>12 DEF FlushCur, BufType, CbType, FlushType
  <2>3. QED
    BY <1>12, <2>1, <2>2 DEF FlushCur, TypeOK
<1>13. ASSUME NEW f \in Flushers, FlushCurEnd(f)
       PROVE  TypeOK'
  <2>1. PcType' /\ LockType'
    BY <1>13 DEF FlushCurEnd, PcType, LockType, Threads
  <2>2. CbType' /\ FlushType'
    BY <1>13 DEF FlushCurEnd, CbType, FlushType
  <2>3. QED
    BY <1>13, <2>1, <2>2 DEF FlushCurEnd, TypeOK
<1>14. ASSUME NEW f \in Flushers, FlushNoCur(f)
       PROVE  TypeOK'
  <2>1. PcType'
    BY <1>14 DEF FlushNoCur, PcType, Threads
  <2>2. QED
    BY <1>14, <2>1 DEF FlushNoCur, TypeOK
<1>15. ASSUME NEW f \in Flushers, FlushReturn(f)
       PROVE  TypeOK'
  <2>1. PcType' /\ FlushType'
    BY <1>15 DEF FlushReturn, PcType, FlushType, Threads
  <2>2. QED
    BY <1>15, <2>1 DEF FlushReturn, TypeOK
<1>16. ASSUME NEW on \in BOOLEAN, FlushPeriod(on)
       PROVE  TypeOK'
  <2>1. ApiType' /\ CondType'
    BY <1>16 DEF FlushPeriod, Notify, ApiType, CondType
  <2>2. QED
    BY <1>16, <2>1 DEF FlushPeriod, TypeOK
<1>17. ASSUME NEW b \in Buffers, Worker(b)
       PROVE  TypeOK'
  <2>1. CbType'
    BY <1>17 DEF Worker, WorkerUnInit, WorkerEnd, CbType
  <2>2. QED
    BY <1>17, <2>1 DEF Worker, WorkerUnInit, WorkerEnd, TypeOK
<1>18. CASE ConsumerEnter \/ ConsumerWake \/ ConsumerTimeout
  <2>1. /\ signalled' = FALSE
        /\ UNCHANGED <<bufVars, lockVars, apiVars, flushVars, cb, pc, calls>>
        /\ ConsumerServe \/ \E s \in BOOLEAN : ConsumerSleep(s)
    BY <1>18 DEF ConsumerEnter, ConsumerWake, ConsumerTimeout, CondType
  <2>2. CASE ConsumerServe
    BY <2>1, <2>2 DEF ConsumerServe, CondType, QueueType, TypeOK
  <2>3. CASE \E s \in BOOLEAN : ConsumerSleep(s)
    BY <2>1, <2>3 DEF ConsumerSleep, CondType, QueueType, TypeOK
  <2>4. QED
    BY <2>1, <2>2, <2>3
<1>19. CASE ConsumerExit
  <2>1. CondType' /\ QueueType'
    BY <1>19 DEF ConsumerExit, CondType, QueueType
  <2>2. QED
    BY <1>19, <2>1 DEF ConsumerExit, TypeOK
<1>20. CASE RegisterCallbacks \/ RegisterCallbacksEnd
  <2>1. ApiType' /\ CondType'
    BY <1>20 DEF RegisterCallbacks, RegisterCallbacksEnd, ApiType, CondType, condVars
  <2>2. QED
    BY <1>20, <2>1 DEF RegisterCallbacks, RegisterCallbacksEnd, TypeOK
<1>21. CASE Destroy \/ DestroyJoin
  <2>1. ApiType'
    BY <1>21 DEF Destroy, DestroyJoin, ApiType
  <2>2. QED
    BY <1>21, <2>1 DEF Destroy, DestroyJoin, TypeOK
<1>22. CASE DestroyNotify
  <2>1. ApiType' /\ CondType'
    BY <1>22 DEF DestroyNotify, Notify, ApiType, CondType
  <2>2. QED
    BY <1>22, <2>1 DEF DestroyNotify, TypeOK
<1>23. CASE DestroyEnd
  <2>1. ApiType' /\ QueueType'
    BY <1>23 DEF DestroyEnd, ApiType, QueueType
  <2>2. QED
    BY <1>23, <2>1 DEF DestroyEnd, TypeOK
<1>24. CASE UNCHANGED vars
  BY <1>24 DEF vars, TypeOK
<1>25. QED
  BY <1>1, <1>2, <1>3, <1>4, <1>5, <1>6, <1>7, <1>8, <1>9, <1>10, <1>11, <1>12, <1>13,
     <1>14, <1>15, <1>16, <1>17, <1>18, <1>19, <1>20, <1>21, <1>22, <1>23, <1>24
  DEF Next, Record, FlushAll, Run, Main, Terminated

-----------------------------------------------------------------------------
(* Nobody but a flusher or a producer is a thread, and nobody is both. *)
LEMMA ThreadKinds ==
  /\ \A p \in Producers : p \notin Flushers /\ p # NoOne /\ p \in Threads
  /\ \A f \in Flushers : f \notin Producers /\ f # NoOne /\ f \in Threads
  BY ConstantsAssumption DEF Threads

(* One step keeps the shape of the control. *)
LEMMA ControlStep ==
  ASSUME TypeOK, ControlInv, CallbackInv, OneHolder, [Next]_vars
  PROVE  ControlInv'
<1>0. PcType /\ CbType /\ FlushType /\ BufType /\ BufType' /\ QueueType
  BY TypeStep DEF TypeOK
<1> USE <1>0, ThreadKinds DEF ControlInv
<1>1. UNCHANGED <<pc, bufMtx, cvMtx, cur, deque, cb>> => ControlInv'
  BY DEF ProducerControl, FlusherControl
<1>2. ASSUME NEW p \in Producers, RecordEnter(p) \/ RecordAppend(p)
      PROVE  ControlInv'
  <2>1. UNCHANGED <<bufMtx, cvMtx, cur, deque, cb>> /\ pc'[p] # "rotate"
        /\ pc'[p] \in {"idle", "record", "rotate"}
        /\ \A t \in Threads : t # p => pc'[t] = pc[t]
    BY <1>2 DEF RecordEnter, RecordAppend, lockVars, bufVars, flushVars, PcType
  <2>2. QED
    BY <2>1 DEF ProducerControl, FlusherControl
<1>3. ASSUME NEW p \in Producers, RecordFirst(p)
      PROVE  ControlInv'
  <2>1. /\ bufMtx = NoOne /\ bufMtx' = bufMtx /\ UNCHANGED <<cvMtx, deque, cb>>
        /\ pc'[p] = "idle" /\ \A t \in Threads : t # p => pc'[t] = pc[t]
    BY <1>3 DEF RecordFirst, lockVars, flushVars, PcType
  <2>2. QED
    BY <2>1 DEF ProducerControl, FlusherControl
<1>4. ASSUME NEW p \in Producers, RecordFull(p)
      PROVE  ControlInv'
  <2>1. /\ bufMtx = NoOne /\ bufMtx' = p /\ UNCHANGED <<cur, cvMtx, deque, cb>> /\ cur # NoBuf
        /\ pc'[p] = "rotate" /\ \A t \in Threads : t # p => pc'[t] = pc[t]
    BY <1>4 DEF RecordFull, bufVars, flushVars, PcType
  <2>2. QED
    BY <2>1 DEF ProducerControl, FlusherControl
<1>5. ASSUME NEW p \in Producers, RecordRotate(p)
      PROVE  ControlInv'
  <2>1. /\ pc[p] = "rotate" /\ UNCHANGED <<cvMtx, deque, cb>>
        /\ pc'[p] = "idle" /\ \A t \in Threads : t # p => pc'[t] = pc[t]
    BY <1>5 DEF RecordRotate, PcType
  <2>2. bufMtx = p
    BY <2>1 DEF ProducerControl
  <2>3. QED
    BY <2>1, <2>2 DEF ProducerControl, FlusherControl
<1>6. ASSUME NEW f \in Flushers, FlushStart(f)
      PROVE  ControlInv'
  <2>1. /\ UNCHANGED <<bufMtx, cvMtx, cur, cb>> /\ pc'[f] = "uninit"
        /\ \A t \in Threads : t # f => pc'[t] = pc[t]
        /\ \A g \in Flushers : g # f => deque'[g] = deque[g]
    BY <1>6 DEF FlushStart, TakeQueue, lockVars, bufVars, PcType, FlushType
  <2>2. QED
    BY <2>1 DEF ProducerControl, FlusherControl
<1>7. ASSUME NEW f \in Flushers, FlushUnInit(f)
      PROVE  ControlInv'
  <2>1. /\ UNCHANGED <<bufMtx, cvMtx, cur, pc, deque>>
        /\ \A b \in Buffers : cb[b] = "running" => cb'[b] = "running"
    BY <1>7 DEF FlushUnInit, lockVars, bufVars, flushVars, CbType
  <2>2. QED
    BY <2>1 DEF ProducerControl, FlusherControl
<1>8. ASSUME NEW f \in Flushers, FlushUnInitEnd(f)
      PROVE  ControlInv'
  <2>1. PICK b \in deque[f] : cb' = [cb EXCEPT ![b] = "over"] /\ deque' = [deque EXCEPT ![f] = @ \ {b}]
    BY <1>8 DEF FlushUnInitEnd
  <2>2. UNCHANGED <<bufMtx, cvMtx, cur, pc>> /\ pc[f] = "uninit"
    BY <1>8 DEF FlushUnInitEnd, lockVars, bufVars
  <2>3. \A g \in Flushers : g # f => deque'[g] = deque[g] /\ b \notin deque[g]
    BY <2>1 DEF FlushType, OneHolder, DequesApart
  <2>4. ASSUME NEW g \in Flushers PROVE FlusherControl(g)'
    BY <2>1, <2>2, <2>3 DEF FlusherControl, CbType
  <2>5. QED
    BY <2>2, <2>4 DEF ProducerControl
<1>9. ASSUME NEW f \in Flushers, FlushLockCv(f)
      PROVE  ControlInv'
  <2>1. /\ UNCHANGED <<bufMtx, cur, deque, cb>> /\ cvMtx = NoOne /\ cvMtx' = f
        /\ deque[f] = {} /\ pc'[f] = "join" /\ \A t \in Threads : t # f => pc'[t] = pc[t]
    BY <1>9 DEF FlushLockCv, bufVars, flushVars, PcType
  <2>2. QED
    BY <2>1 DEF ProducerControl, FlusherControl
<1>10. ASSUME NEW f \in Flushers, FlushJoin(f)
       PROVE  ControlInv'
  <2>1. /\ UNCHANGED <<bufMtx, cur, deque, cb>> /\ pc[f] = "join"
        /\ pc'[f] = "last" /\ \A t \in Threads : t # f => pc'[t] = pc[t]
    BY <1>10 DEF FlushJoin, bufVars, flushVars, PcType
  <2>2. cvMtx = f /\ deque[f] = {}
    BY <2>1 DEF FlusherControl
  <2>3. QED
    BY <2>1, <2>2 DEF ProducerControl, FlusherControl
<1>11. ASSUME NEW f \in Flushers, FlushCur(f)
       PROVE  ControlInv'
  <2>1. /\ bufMtx = NoOne /\ bufMtx' = f /\ UNCHANGED cvMtx /\ cur \in Buffers
        /\ pc'[f] = "curcb" /\ \A t \in Threads : t # f => pc'[t] = pc[t]
        /\ deque'[f] = {cur} /\ \A g \in Flushers : g # f => deque'[g] = deque[g]
        /\ cb'[cur] = "running"
    BY <1>11 DEF FlushCur, PcType, FlushType, CbType, BufType
  <2>2. ASSUME NEW g \in Flushers PROVE FlusherControl(g)'
    BY <2>1 DEF FlusherControl
  <2>3. QED
    BY <2>1, <2>2 DEF ProducerControl
<1>12. ASSUME NEW f \in Flushers, FlushCurEnd(f)
       PROVE  ControlInv'
  <2>1. /\ pc[f] = "curcb" /\ bufMtx' = NoOne /\ UNCHANGED <<cvMtx, cur>>
        /\ pc'[f] = "done" /\ \A t \in Threads : t # f => pc'[t] = pc[t]
        /\ deque'[f] = {} /\ \A g \in Flushers : g # f => deque'[g] = deque[g]
    BY <1>12 DEF FlushCurEnd, bufVars, PcType, FlushType
  <2>2. bufMtx = f
    BY <2>1 DEF FlusherControl
  <2>3. ASSUME NEW g \in Flushers PROVE FlusherControl(g)'
    BY <2>1, <2>2 DEF FlusherControl
  <2>4. QED
    BY <2>1, <2>2, <2>3 DEF ProducerControl
<1>13. ASSUME NEW f \in Flushers, FlushNoCur(f) \/ FlushReturn(f)
       PROVE  ControlInv'
  <2>1. /\ pc[f] \in {"last", "done"} /\ UNCHANGED <<bufMtx, cvMtx, cur, deque, cb>>
        /\ pc'[f] \in {"done", "idle"} /\ \A t \in Threads : t # f => pc'[t] = pc[t]
    BY <1>13 DEF FlushNoCur, FlushReturn, bufVars, lockVars, flushVars, PcType
  <2>2. QED
    BY <2>1 DEF ProducerControl, FlusherControl
<1>14. ASSUME NEW b \in Buffers, Worker(b)
       PROVE  ControlInv'
  <2>1. UNCHANGED <<bufMtx, cvMtx, cur, pc, deque>>
    BY <1>14 DEF Worker, WorkerUnInit, WorkerEnd, bufVars, lockVars, flushVars
  <2>2. \A c \in Buffers : HeldByFlush(c) /\ cb[c] = "running" => cb'[c] = "running"
    <3>1. b \in work /\ \A c \in Buffers : c # b => cb'[c] = cb[c]
      BY <1>14 DEF Worker, WorkerUnInit, WorkerEnd, CbType
    <3>2. cb[b] # "over"
      BY <1>14 DEF Worker, WorkerUnInit, WorkerEnd
    <3>3. ~HeldByFlush(b)
      BY <3>1, <3>2 DEF OneHolder, HeldOnce, HeldByWorker
    <3>4. QED
      BY <3>1, <3>3
  <2>3. ASSUME NEW g \in Flushers PROVE FlusherControl(g)'
    BY <2>1, <2>2 DEF FlusherControl, HeldByFlush
  <2>4. QED
    BY <2>1, <2>3 DEF ProducerControl
<1>15. CASE \/ Register \/ UnRegister \/ Run \/ Main \/ UNCHANGED vars
            \/ \E on \in BOOLEAN : FlushPeriod(on)
  <2>1. UNCHANGED <<pc, bufMtx, cvMtx, cur, deque, cb>>
    BY <1>15 DEF Register, UnRegister, Run, Main, FlushPeriod, ConsumerEnter, ConsumerWake,
       ConsumerTimeout, ConsumerExit, RegisterCallbacks, RegisterCallbacksEnd, Destroy,
       DestroyNotify, DestroyJoin, DestroyEnd, vars, bufVars, lockVars, flushVars
  <2>2. QED
    BY <1>1, <2>1
<1>16. QED
  BY <1>2, <1>3, <1>4, <1>5, <1>6, <1>7, <1>8, <1>9, <1>10, <1>11, <1>12, <1>13, <1>14, <1>15
  DEF Next, Record, FlushAll, Terminated

-----------------------------------------------------------------------------
(* What a new buffer changes. *)
LEMMA NewBufferEffect ==
  ASSUME TypeOK, RecordInNewBuffer
  PROVE  /\ cur' \in Buffers /\ cur' > nbuf /\ cur' = nbuf'
         /\ \A b \in Buffers : b > nbuf' => b > nbuf /\ b # cur'
         /\ \A b \in Buffers : b <= nbuf' => b <= nbuf \/ b = cur'
         /\ \A b \in Buffers : b # cur' => recs'[b] = recs[b]
<1>1. BufType
  BY DEF TypeOK
<1>2. nbuf + 1 \in Buffers /\ nbuf' = nbuf + 1 /\ cur' = nbuf + 1
  BY <1>1, NewBufferType
<1>3. nbuf \in Nat /\ Buffers \subseteq Nat
  BY <1>1, BufferNumbers, ConstantsAssumption DEF BufType
<1>4. \A b \in Buffers : b # cur' => recs'[b] = recs[b]
  BY <1>1, <1>2 DEF RecordInNewBuffer, BufType
<1>5. \A n \in Nat, b \in Nat : /\ n + 1 > n /\ (b > n + 1 => b > n /\ b # n + 1)
                            /\ (b <= n + 1 => b <= n \/ b = n + 1)
  OBVIOUS
<1>6. \A b \in Buffers : b \in Nat
  BY <1>3
<1>7. cur' > nbuf
  BY <1>2, <1>3, <1>5
<1>8. ASSUME NEW b \in Buffers
      PROVE  (b > nbuf' => b > nbuf /\ b # cur') /\ (b <= nbuf' => b <= nbuf \/ b = cur')
  BY <1>2, <1>3, <1>5, <1>6
<1>9. QED
  BY <1>2, <1>4, <1>7, <1>8

(* A buffer that exists is not beyond nbuf, and nobody has one that is. *)
LEMMA Existing ==
  ASSUME TypeOK, CallbackInv
  PROVE  /\ \A b \in Buffers : b > nbuf <=> ~(b <= nbuf)
         /\ cur \in Buffers => cur <= nbuf
         /\ \A b \in Buffers : b \in co \/ b \in work \/ HeldByFlush(b) \/ cb[b] # "none" => b <= nbuf
<1>1. \A b \in Buffers : b > nbuf <=> ~(b <= nbuf)
  BY BufferNumbers DEF TypeOK, BufType
<1>2. QED
  BY <1>1 DEF CallbackInv

(* One step keeps CallbackInv. *)
LEMMA CallbackStep ==
  ASSUME TypeOK, ControlInv, CallbackInv, OneHolder, [Next]_vars
  PROVE  CallbackInv'
<1>0. /\ CbType /\ FlushType /\ BufType /\ QueueType /\ NoBuf \notin Buffers
      /\ \A b \in Buffers : b > nbuf <=> ~(b <= nbuf)
  BY BufferNumbers, Existing DEF TypeOK
<1> USE <1>0
<1>1. UNCHANGED <<cur, co, nbuf, cb, recs, work, deque>> => CallbackInv'
  BY DEF CallbackInv, HeldByFlush
<1>2. ASSUME NEW p \in Producers, RecordFirst(p)
      PROVE  CallbackInv'
  <2>1. UNCHANGED <<co, cb, work, deque>>
    BY <1>2 DEF RecordFirst, flushVars
  <2>2. CASE RecordInNewBuffer
    BY <2>1, <2>2, NewBufferEffect DEF CallbackInv, HeldByFlush
  <2>3. QED
    BY <1>1, <1>2, <2>1, <2>2 DEF RecordFirst, bufVars
<1>3. ASSUME NEW p \in Producers, RecordAppend(p)
      PROVE  CallbackInv'
  <2>1. UNCHANGED <<cur, nbuf, co, cb, work, deque>> /\ cur \in Buffers
    BY <1>3 DEF RecordAppend, flushVars, BufType
  <2>2. \A b \in Buffers : b # cur => recs'[b] = recs[b]
    BY <1>3, <2>1 DEF RecordAppend, BufType
  <2>3. QED
    BY <2>1, <2>2 DEF CallbackInv, HeldByFlush
<1>4. ASSUME NEW p \in Producers, RecordRotate(p)
      PROVE  CallbackInv'
  <2>1. co' = co \union {cur} /\ UNCHANGED <<cb, work, deque>>
    BY <1>4 DEF RecordRotate, Enqueue
  <2>2. CASE RecordInNewBuffer
    BY <2>1, <2>2, NewBufferEffect DEF CallbackInv, HeldByFlush
  <2>3. CASE cur' = NoBuf /\ UNCHANGED <<nbuf, recs>>
    BY <2>1, <2>3 DEF CallbackInv, HeldByFlush
  <2>4. QED
    BY <1>4, <2>2, <2>3 DEF RecordRotate
<1>5. ASSUME NEW f \in Flushers, FlushStart(f)
      PROVE  CallbackInv'
  <2>1. /\ co' = {} /\ UNCHANGED <<cur, nbuf, cb, recs, work>> /\ deque'[f] = co
        /\ \A g \in Flushers : g # f => deque'[g] = deque[g]
    BY <1>5 DEF FlushStart, TakeQueue, bufVars, FlushType
  <2>2. \A b \in Buffers : b > nbuf => ~HeldByFlush(b)'
    BY <2>1 DEF CallbackInv, HeldByFlush
  <2>3. QED
    BY <2>1, <2>2 DEF CallbackInv
<1>6. ASSUME NEW f \in Flushers, FlushUnInit(f)
      PROVE  CallbackInv'
  <2>1. PICK b \in deque[f] : cb' = [cb EXCEPT ![b] = "running"]
    BY <1>6 DEF FlushUnInit
  <2>2. b \in Buffers /\ HeldByFlush(b)
    BY DEF HeldByFlush, FlushType
  <2>3. b # cur /\ b \notin co /\ b <= nbuf
    BY <2>2 DEF OneHolder, HeldOnce, CallbackInv
  <2>4. UNCHANGED <<cur, co, nbuf, recs, work, deque>>
    BY <1>6 DEF FlushUnInit, bufVars, flushVars
  <2>5. QED
    BY <2>1, <2>2, <2>3, <2>4 DEF CallbackInv, HeldByFlush, CbType
<1>7. ASSUME NEW f \in Flushers, FlushUnInitEnd(f)
      PROVE  CallbackInv'
  <2>1. PICK b \in deque[f] : /\ cb' = [cb EXCEPT ![b] = "over"]
                              /\ deque' = [deque EXCEPT ![f] = @ \ {b}]
    BY <1>7 DEF FlushUnInitEnd
  <2>2. b \in Buffers /\ HeldByFlush(b)
    BY DEF HeldByFlush, FlushType
  <2>3. b # cur /\ b \notin co /\ b <= nbuf
    BY <2>2 DEF OneHolder, HeldOnce, CallbackInv
  <2>4. UNCHANGED <<cur, co, nbuf, recs, work>> /\ \A g \in Flushers : deque'[g] \subseteq deque[g]
    BY <1>7, <2>1 DEF FlushUnInitEnd, bufVars, FlushType
  <2>5. QED
    BY <2>1, <2>2, <2>3, <2>4 DEF CallbackInv, HeldByFlush, CbType
<1>8. ASSUME NEW f \in Flushers, FlushCur(f)
      PROVE  CallbackInv'
  <2>1. /\ cur \in Buffers /\ cur' = NoBuf /\ UNCHANGED <<co, nbuf, recs, work>>
        /\ \A b \in Buffers : b # cur => cb'[b] = cb[b]
        /\ deque'[f] = {cur} /\ \A g \in Flushers : g # f => deque'[g] = deque[g]
    BY <1>8 DEF FlushCur, BufType, CbType, FlushType
  <2>2. cur <= nbuf /\ cur \notin co
    BY <2>1 DEF CallbackInv, OneHolder, HeldOnce
  <2>3. \A b \in Buffers : b > nbuf => ~HeldByFlush(b)'
    BY <2>1, <2>2 DEF CallbackInv, HeldByFlush
  <2>4. QED
    BY <2>1, <2>2, <2>3 DEF CallbackInv
<1>9. ASSUME NEW f \in Flushers, FlushCurEnd(f)
      PROVE  CallbackInv'
  <2>1. /\ UNCHANGED <<cur, co, nbuf, recs, work>>
        /\ \A b \in Buffers : b \notin deque[f] => cb'[b] = cb[b]
        /\ \A g \in Flushers : deque'[g] \subseteq deque[g]
    BY <1>9 DEF FlushCurEnd, bufVars, FlushType
  <2>2. \A b \in deque[f] : b # cur /\ b \notin co /\ b <= nbuf
    BY DEF OneHolder, HeldOnce, CallbackInv, HeldByFlush, FlushType
  <2>3. QED
    BY <2>1, <2>2 DEF CallbackInv, HeldByFlush
<1>10. ASSUME NEW b \in Buffers, Worker(b)
       PROVE  CallbackInv'
  <2>1. /\ UNCHANGED <<cur, co, nbuf, recs, work, deque>> /\ b \in work /\ cb[b] # "over"
        /\ \A c \in Buffers : c # b => cb'[c] = cb[c]
    BY <1>10 DEF Worker, WorkerUnInit, WorkerEnd, bufVars, flushVars, CbType
  <2>2. b # cur /\ b \notin co /\ b <= nbuf
    BY <2>1 DEF OneHolder, HeldOnce, CallbackInv, HeldByWorker
  <2>3. QED
    BY <2>1, <2>2 DEF CallbackInv, HeldByFlush
<1>11. CASE ConsumerEnter \/ ConsumerWake \/ ConsumerTimeout
  <2>1. UNCHANGED <<cur, nbuf, cb, recs, deque>> /\ co' \subseteq co /\ work' \subseteq work \union co
    BY <1>11 DEF ConsumerEnter, ConsumerWake, ConsumerTimeout, ConsumerServe, ConsumerSleep,
       bufVars, flushVars
  <2>2. QED
    BY <2>1 DEF CallbackInv, HeldByFlush
<1>12. CASE ConsumerExit \/ DestroyEnd \/ \E f \in Flushers : FlushJoin(f)
  <2>1. UNCHANGED <<cur, nbuf, cb, recs, deque, co>> /\ work' = {}
    BY <1>12 DEF ConsumerExit, DestroyEnd, FlushJoin, bufVars, flushVars
  <2>2. QED
    BY <2>1 DEF CallbackInv, HeldByFlush
<1>13. CASE \/ Register \/ UnRegister \/ UNCHANGED vars
            \/ RegisterCallbacks \/ RegisterCallbacksEnd \/ Destroy \/ DestroyNotify \/ DestroyJoin
            \/ \E on \in BOOLEAN : FlushPeriod(on)
            \/ \E p \in Producers : RecordEnter(p) \/ RecordFull(p)
            \/ \E f \in Flushers : FlushLockCv(f) \/ FlushNoCur(f) \/ FlushReturn(f)
  <2>1. UNCHANGED <<cur, co, nbuf, cb, recs, work, deque>>
    BY <1>13 DEF Register, UnRegister, FlushPeriod, RegisterCallbacks, RegisterCallbacksEnd,
       Destroy, DestroyNotify, DestroyJoin, RecordEnter, RecordFull, FlushLockCv, FlushNoCur,
       FlushReturn, vars, bufVars, flushVars
  <2>2. QED
    BY <1>1, <2>1
<1>14. QED
  BY <1>2, <1>3, <1>4, <1>5, <1>6, <1>7, <1>8, <1>9, <1>10, <1>11, <1>12, <1>13
  DEF Next, Record, FlushAll, Run, Main, Terminated

-----------------------------------------------------------------------------
(* One step keeps OneHolder: each move of a buffer takes it from one holder  *)
(* and gives it to one other.                                                *)
LEMMA HolderStep ==
  ASSUME TypeOK, ControlInv, CallbackInv, OneHolder, [Next]_vars
  PROVE  OneHolder'
<1>0. /\ CbType /\ FlushType /\ BufType /\ QueueType /\ NoBuf \notin Buffers
      /\ DequesApart /\ \A b \in Buffers : HeldOnce(b)
      /\ \A b \in Buffers : b > nbuf <=> ~(b <= nbuf)
  BY BufferNumbers, Existing DEF TypeOK, OneHolder
<1> USE <1>0 DEF OneHolder
<1>a. UNCHANGED deque => DequesApart'
  BY DEF DequesApart
<1>1. UNCHANGED <<cur, co, nbuf, cb, work, deque>> => OneHolder'
  BY DEF HeldOnce, DequesApart, HeldByFlush, HeldByWorker
<1>2. ASSUME NEW p \in Producers, RecordFirst(p)
      PROVE  OneHolder'
  <2>1. UNCHANGED <<co, cb, work, deque>> /\ cur = NoBuf
    BY <1>2 DEF RecordFirst, flushVars
  <2>2. CASE RecordInNewBuffer
    BY <1>a, <2>1, <2>2, NewBufferEffect DEF HeldOnce, CallbackInv, HeldByFlush, HeldByWorker
  <2>3. QED
    BY <1>1, <1>2, <2>1, <2>2 DEF RecordFirst, bufVars
<1>3. ASSUME NEW p \in Producers, RecordAppend(p)
      PROVE  OneHolder'
  BY <1>1, <1>3 DEF RecordAppend, flushVars
<1>4. ASSUME NEW p \in Producers, RecordRotate(p)
      PROVE  OneHolder'
  <2>1. /\ co' = co \union {cur} /\ UNCHANGED <<cb, work, deque>> /\ cur \in Buffers
    BY <1>4 DEF RecordRotate, Enqueue, ControlInv, ProducerControl, BufType
  <2>2. cb[cur] = "none"
    BY <2>1 DEF CallbackInv
  <2>3. CASE RecordInNewBuffer
    BY <1>a, <2>1, <2>2, <2>3, NewBufferEffect
    DEF HeldOnce, CallbackInv, HeldByFlush, HeldByWorker
  <2>4. CASE cur' = NoBuf /\ UNCHANGED nbuf
    BY <1>a, <2>1, <2>2, <2>4 DEF HeldOnce, HeldByFlush, HeldByWorker
  <2>5. QED
    BY <1>4, <2>3, <2>4 DEF RecordRotate
<1>5. ASSUME NEW f \in Flushers, FlushStart(f)
      PROVE  OneHolder'
  <2>1. /\ co' = {} /\ UNCHANGED <<cur, nbuf, cb, work>> /\ deque'[f] = co
        /\ \A g \in Flushers : g # f => deque'[g] = deque[g]
        /\ pc[f] = "idle"
    BY <1>5 DEF FlushStart, TakeQueue, bufVars, FlushType
  <2>2. deque[f] = {}
    BY <2>1 DEF ControlInv, FlusherControl
  <2>3. \A b \in Buffers : HeldByFlush(b)' <=> b \in co \/ HeldByFlush(b)
    BY <2>1, <2>2 DEF HeldByFlush
  <2>4. \A g \in Flushers : co \intersect deque[g] = {}
    BY DEF HeldOnce, HeldByFlush, QueueType
  <2>5. DequesApart'
    BY <2>1, <2>4 DEF DequesApart
  <2>6. \A b \in Buffers : b \in co => cb[b] = "none"
    BY DEF CallbackInv
  <2>7. ASSUME NEW b \in Buffers PROVE HeldOnce(b)'
    BY <2>1, <2>3, <2>6 DEF HeldOnce, HeldByWorker
  <2>8. QED
    BY <2>5, <2>7
<1>6. ASSUME NEW f \in Flushers, FlushUnInit(f)
      PROVE  OneHolder'
  <2>1. PICK b \in deque[f] : cb' = [cb EXCEPT ![b] = "running"]
    BY <1>6 DEF FlushUnInit
  <2>2. b \in Buffers /\ HeldByFlush(b)
    BY DEF HeldByFlush, FlushType
  <2>3. cb[b] # "over"
    BY <2>2 DEF HeldOnce
  <2>4. \A c \in Buffers : cb'[c] = "over" <=> cb[c] = "over"
    BY <2>1, <2>2, <2>3 DEF CbType
  <2>5. UNCHANGED <<cur, co, nbuf, work, deque>>
    BY <1>6 DEF FlushUnInit, bufVars, flushVars
  <2>6. QED
    BY <1>a, <2>4, <2>5 DEF HeldOnce, HeldByFlush, HeldByWorker
<1>7. ASSUME NEW f \in Flushers, FlushUnInitEnd(f)
      PROVE  OneHolder'
  <2>1. PICK b \in deque[f] : /\ cb' = [cb EXCEPT ![b] = "over"]
                              /\ deque' = [deque EXCEPT ![f] = @ \ {b}]
    BY <1>7 DEF FlushUnInitEnd
  <2>2. b \in Buffers /\ HeldByFlush(b)
    BY DEF HeldByFlush, FlushType
  <2>3. UNCHANGED <<cur, co, nbuf, work>>
    BY <1>7 DEF FlushUnInitEnd, bufVars
  <2>4. /\ deque'[f] = deque[f] \ {b}
        /\ \A g \in Flushers : g # f => deque'[g] = deque[g] /\ b \notin deque[g]
    BY <2>1 DEF FlushType, DequesApart
  <2>5. DequesApart'
    BY <2>4 DEF DequesApart
  <2>6. \A c \in Buffers : HeldByFlush(c)' <=> HeldByFlush(c) /\ c # b
    BY <2>4 DEF HeldByFlush
  <2>7. cb'[b] = "over" /\ \A c \in Buffers : c # b => cb'[c] = cb[c]
    BY <2>1, <2>2 DEF CbType
  <2>8. ASSUME NEW c \in Buffers PROVE HeldOnce(c)'
    BY <2>2, <2>3, <2>6, <2>7 DEF HeldOnce, HeldByWorker
  <2>9. QED
    BY <2>5, <2>8
<1>8. ASSUME NEW f \in Flushers, FlushCur(f)
      PROVE  OneHolder'
  <2>1. /\ cur \in Buffers /\ cur' = NoBuf /\ UNCHANGED <<co, nbuf, work>> /\ pc[f] = "last"
        /\ cb'[cur] = "running" /\ \A b \in Buffers : b # cur => cb'[b] = cb[b]
        /\ deque'[f] = {cur} /\ \A g \in Flushers : g # f => deque'[g] = deque[g]
    BY <1>8 DEF FlushCur, BufType, CbType, FlushType
  <2>2. deque[f] = {}
    BY <2>1 DEF ControlInv, FlusherControl
  <2>3. \A b \in Buffers : HeldByFlush(b)' <=> b = cur \/ HeldByFlush(b)
    BY <2>1, <2>2 DEF HeldByFlush
  <2>4. \A g \in Flushers : cur \notin deque[g]
    BY <2>1 DEF HeldOnce, HeldByFlush
  <2>5. DequesApart'
    BY <2>1, <2>4 DEF DequesApart
  <2>6. cb[cur] = "none"
    BY <2>1 DEF CallbackInv
  <2>7. ASSUME NEW b \in Buffers PROVE HeldOnce(b)'
    BY <2>1, <2>3, <2>6 DEF HeldOnce, HeldByWorker
  <2>8. QED
    BY <2>5, <2>7
<1>9. ASSUME NEW f \in Flushers, FlushCurEnd(f)
      PROVE  OneHolder'
  <2>1. /\ UNCHANGED <<cur, co, nbuf, work>>
        /\ \A b \in Buffers : cb'[b] = IF b \in deque[f] THEN "over" ELSE cb[b]
        /\ deque'[f] = {} /\ \A g \in Flushers : g # f => deque'[g] = deque[g]
    BY <1>9 DEF FlushCurEnd, bufVars, FlushType
  <2>2. \A b \in Buffers : HeldByFlush(b)' <=> HeldByFlush(b) /\ b \notin deque[f]
    BY <2>1 DEF HeldByFlush, DequesApart
  <2>3. DequesApart'
    BY <2>1 DEF DequesApart
  <2>4. \A b \in deque[f] : HeldByFlush(b)
    BY DEF HeldByFlush
  <2>5. ASSUME NEW b \in Buffers PROVE HeldOnce(b)'
    BY <2>1, <2>2, <2>4 DEF HeldOnce, HeldByWorker
  <2>6. QED
    BY <2>3, <2>5
<1>10. ASSUME NEW b \in Buffers, Worker(b)
       PROVE  OneHolder'
  <2>1. /\ UNCHANGED <<cur, co, nbuf, work, deque>> /\ b \in work /\ cb[b] # "over"
        /\ \A c \in Buffers : c # b => cb'[c] = cb[c]
    BY <1>10 DEF Worker, WorkerUnInit, WorkerEnd, bufVars, flushVars, CbType
  <2>2. HeldByWorker(b)
    BY <2>1 DEF HeldByWorker
  <2>3. \A c \in Buffers : HeldByFlush(c)' <=> HeldByFlush(c)
    BY <2>1 DEF HeldByFlush
  <2>4. ASSUME NEW c \in Buffers PROVE HeldOnce(c)'
    BY <2>1, <2>2, <2>3 DEF HeldOnce, HeldByWorker
  <2>5. QED
    BY <1>a, <2>1, <2>4
<1>11. CASE ConsumerEnter \/ ConsumerWake \/ ConsumerTimeout
  <2>1. /\ UNCHANGED <<cur, nbuf, cb, deque>>
        /\ UNCHANGED <<co, work>> \/ (co' = {} /\ work' = work \union co)
    BY <1>11 DEF ConsumerEnter, ConsumerWake, ConsumerTimeout, ConsumerServe, ConsumerSleep,
       bufVars, flushVars
  <2>2. \A b \in Buffers : b \in co => cb[b] = "none"
    BY DEF CallbackInv
  <2>3. \A c \in Buffers : HeldByFlush(c)' <=> HeldByFlush(c)
    BY <2>1 DEF HeldByFlush
  <2>4. ASSUME NEW c \in Buffers PROVE HeldOnce(c)'
    BY <2>1, <2>2, <2>3 DEF HeldOnce, HeldByWorker
  <2>5. QED
    BY <1>a, <2>1, <2>4
<1>12. CASE ConsumerExit \/ DestroyEnd \/ \E f \in Flushers : FlushJoin(f)
  <2>1. UNCHANGED <<cur, nbuf, cb, deque, co>> /\ work' = {} /\ \A b \in work : cb[b] = "over"
    BY <1>12 DEF ConsumerExit, DestroyEnd, FlushJoin, AllOver, bufVars, flushVars
  <2>2. \A c \in Buffers : HeldByFlush(c)' <=> HeldByFlush(c)
    BY <2>1 DEF HeldByFlush
  <2>3. ASSUME NEW c \in Buffers PROVE HeldOnce(c)'
    BY <2>1, <2>2 DEF HeldOnce, HeldByWorker
  <2>4. QED
    BY <1>a, <2>1, <2>3
<1>13. CASE \/ Register \/ UnRegister \/ UNCHANGED vars
            \/ RegisterCallbacks \/ RegisterCallbacksEnd \/ Destroy \/ DestroyNotify \/ DestroyJoin
            \/ \E on \in BOOLEAN : FlushPeriod(on)
            \/ \E p \in Producers : RecordEnter(p) \/ RecordFull(p)
            \/ \E f \in Flushers : FlushLockCv(f) \/ FlushNoCur(f) \/ FlushReturn(f)
  <2>1. UNCHANGED <<cur, co, nbuf, cb, work, deque>>
    BY <1>13 DEF Register, UnRegister, FlushPeriod, RegisterCallbacks, RegisterCallbacksEnd,
       Destroy, DestroyNotify, DestroyJoin, RecordEnter, RecordFull, FlushLockCv, FlushNoCur,
       FlushReturn, vars, bufVars, flushVars
  <2>2. QED
    BY <1>1, <2>1
<1>14. QED
  BY <1>2, <1>3, <1>4, <1>5, <1>6, <1>7, <1>8, <1>9, <1>10, <1>11, <1>12, <1>13
  DEF Next, Record, FlushAll, Run, Main, Terminated

-----------------------------------------------------------------------------
(* One step keeps FlushInv: a buffer that a FlushAll must deliver stays      *)
(* within its reach or is recorded as raced.                                 *)
LEMMA FlushStep ==
  ASSUME TypeOK, ControlInv, CallbackInv, OneHolder, FlushInv, [Next]_vars
  PROVE  FlushInv'
<1>0. /\ CbType /\ FlushType /\ BufType /\ QueueType /\ PcType /\ NoBuf \notin Buffers
      /\ DequesApart /\ \A b \in Buffers : HeldOnce(b)
      /\ \A b \in Buffers : b > nbuf <=> ~(b <= nbuf)
  BY BufferNumbers, Existing DEF TypeOK, OneHolder
<1>d. \A f \in Flushers : due[f] \subseteq Buffers
  BY <1>0 DEF FlushType
<1> USE <1>0, <1>d, ThreadKinds DEF FlushInv
<1>1. UNCHANGED <<pc, cur, cb, work, deque, due, raced>> => FlushInv'
  BY DEF InReach
<1>2. ASSUME NEW p \in Producers, RecordEnter(p) \/ RecordFull(p) \/ RecordAppend(p)
      PROVE  FlushInv'
  <2>1. /\ UNCHANGED <<cur, cb, work, deque, due, raced>>
        /\ \A f \in Flushers : pc'[f] = pc[f]
    BY <1>2 DEF RecordEnter, RecordFull, RecordAppend, bufVars, flushVars, PcType
  <2>2. QED
    BY <2>1 DEF InReach
<1>3. ASSUME NEW p \in Producers, RecordFirst(p)
      PROVE  FlushInv'
  <2>1. /\ UNCHANGED <<cb, work, deque, due, raced>> /\ cur = NoBuf
        /\ \A f \in Flushers : pc'[f] = pc[f]
    BY <1>3 DEF RecordFirst, flushVars, PcType
  <2>2. QED
    BY <2>1 DEF InReach
<1>4. ASSUME NEW p \in Producers, RecordRotate(p)
      PROVE  FlushInv'
  <2>1. /\ UNCHANGED <<cb, work, deque, due>>
        /\ \A f \in Flushers : pc'[f] = pc[f]
        /\ \A f \in Flushers : raced'[f] = IF Flushing(f) THEN raced[f] \union {cur} ELSE raced[f]
    BY <1>4 DEF RecordRotate, PcType
  <2>2. ASSUME NEW f \in Flushers, pc'[f] # "idle", NEW b \in due'[f] \ raced'[f]
        PROVE  InReach(f, b)'
    <3>1. pc[f] # "idle" /\ b \in due[f] \ raced[f] /\ (Flushing(f) => b # cur)
      BY <2>1, <2>2
    <3>2. InReach(f, b)
      BY <3>1
    <3>3. b = cur => ~(pc[f] \in {"uninit", "join", "last"})
      BY <3>1 DEF Flushing
    <3>4. QED
      BY <2>1, <3>2, <3>3 DEF InReach
  <2>3. QED
    BY <2>2
<1>5. ASSUME NEW f \in Flushers, FlushStart(f)
      PROVE  FlushInv'
  <2>1. /\ UNCHANGED <<cur, nbuf, cb, work>> /\ pc[f] = "idle" /\ pc'[f] = "uninit"
        /\ deque'[f] = co
        /\ \A g \in Flushers : g # f => /\ pc'[g] = pc[g] /\ deque'[g] = deque[g]
                                        /\ due'[g] = due[g] /\ raced'[g] = raced[g]
    BY <1>5 DEF FlushStart, TakeQueue, bufVars, PcType, FlushType
  <2>2. due'[f] = {b \in Buffers : recs[b] # {} /\ cb[b] # "over"}
    BY <1>5 DEF FlushStart, FlushType
  <2>3. \A g \in Flushers : pc[g] = "uninit" => deque[g] \subseteq raced'[f]
    BY <1>5 DEF FlushStart, FlushType
  <2>4. deque[f] = {}
    BY <2>1 DEF ControlInv, FlusherControl
  <2>5. ASSUME NEW b \in due'[f] \ raced'[f] PROVE InReach(f, b)'
    <3>1. b \in Buffers /\ b <= nbuf /\ cb[b] # "over"
      BY <2>2 DEF CallbackInv
    <3>2. b = cur \/ b \in co \/ b \in work \/ HeldByFlush(b)
      BY <3>1 DEF HeldOnce, HeldByWorker
    <3>3. CASE HeldByFlush(b)
      <4>1. PICK g \in Flushers : b \in deque[g]
        BY <3>3 DEF HeldByFlush
      <4>2. pc[g] = "curcb" /\ g # f
        BY <2>3, <2>4, <4>1 DEF ControlInv, FlusherControl
      <4>3. QED
        BY <2>1, <4>1, <4>2 DEF InReach
    <3>4. QED
      BY <2>1, <3>2, <3>3 DEF InReach
  <2>6. ASSUME NEW g \in Flushers, g # f, pc'[g] # "idle", NEW b \in due'[g] \ raced'[g]
        PROVE  InReach(g, b)'
    <3>1. InReach(g, b)
      BY <2>1, <2>6
    <3>2. QED
      BY <2>1, <2>4, <2>6, <3>1 DEF InReach
  <2>7. QED
    BY <2>5, <2>6
<1>6. ASSUME NEW f \in Flushers, FlushUnInit(f)
      PROVE  FlushInv'
  <2>1. PICK b \in deque[f] : cb' = [cb EXCEPT ![b] = "running"]
    BY <1>6 DEF FlushUnInit
  <2>2. b \in Buffers /\ HeldByFlush(b)
    BY DEF HeldByFlush, FlushType
  <2>3. \A c \in Buffers : cb[c] = "over" => cb'[c] = "over"
    BY <2>1, <2>2 DEF CbType, HeldOnce
  <2>4. UNCHANGED <<pc, cur, work, deque, due, raced>>
    BY <1>6 DEF FlushUnInit, bufVars, flushVars
  <2>5. QED
    BY <2>3, <2>4 DEF InReach
<1>7. ASSUME NEW f \in Flushers, FlushUnInitEnd(f)
      PROVE  FlushInv'
  <2>1. PICK b \in deque[f] : /\ cb' = [cb EXCEPT ![b] = "over"]
                              /\ deque' = [deque EXCEPT ![f] = @ \ {b}]
    BY <1>7 DEF FlushUnInitEnd
  <2>2. UNCHANGED <<pc, cur, work, due, raced>>
    BY <1>7 DEF FlushUnInitEnd, bufVars
  <2>3. b \in Buffers /\ cb'[b] = "over" /\ \A c \in Buffers : c # b => cb'[c] = cb[c]
    BY <2>1 DEF CbType, FlushType
  <2>4. \A g \in Flushers, c \in Buffers : c \in deque[g] /\ c # b => c \in deque'[g]
    BY <2>1 DEF FlushType
  <2>5. ASSUME NEW g \in Flushers, NEW c \in Buffers, InReach(g, c)
        PROVE  InReach(g, c)'
    BY <2>2, <2>3, <2>4, <2>5 DEF InReach
  <2>6. QED
    BY <2>2, <2>5
<1>8. ASSUME NEW f \in Flushers, FlushLockCv(f)
      PROVE  FlushInv'
  <2>1. /\ UNCHANGED <<cur, cb, work, deque, due, raced>>
        /\ pc[f] = "uninit" /\ pc'[f] = "join"
        /\ \A g \in Flushers : g # f => pc'[g] = pc[g]
    BY <1>8 DEF FlushLockCv, bufVars, flushVars, PcType
  <2>2. ASSUME NEW g \in Flushers, NEW c \in Buffers, InReach(g, c)
        PROVE  InReach(g, c)'
    BY <2>1, <2>2 DEF InReach
  <2>3. QED
    BY <2>1, <2>2
<1>9. ASSUME NEW f \in Flushers, FlushJoin(f)
      PROVE  FlushInv'
  <2>1. /\ UNCHANGED <<cur, cb, deque, due, raced>> /\ \A b \in work : cb[b] = "over"
        /\ pc[f] = "join" /\ pc'[f] = "last"
        /\ \A g \in Flushers : g # f => pc'[g] = pc[g]
    BY <1>9 DEF FlushJoin, AllOver, bufVars, flushVars, PcType
  <2>2. ASSUME NEW g \in Flushers, NEW c \in Buffers, InReach(g, c)
        PROVE  InReach(g, c)'
    BY <2>1, <2>2 DEF InReach
  <2>3. QED
    BY <2>1, <2>2
<1>10. ASSUME NEW f \in Flushers, FlushCur(f)
       PROVE  FlushInv'
  <2>1. /\ cur \in Buffers /\ bufMtx = NoOne /\ UNCHANGED <<work, due, raced>>
        /\ pc[f] = "last" /\ pc'[f] = "curcb"
        /\ \A g \in Flushers : g # f => pc'[g] = pc[g] /\ deque'[g] = deque[g]
        /\ deque'[f] = {cur} /\ \A b \in Buffers : b # cur => cb'[b] = cb[b]
    BY <1>10 DEF FlushCur, BufType, CbType, FlushType, PcType
  <2>2. cb[cur] = "none" /\ deque[f] = {}
    BY <2>1 DEF CallbackInv, ControlInv, FlusherControl
  <2>3. \A g \in Flushers : pc[g] # "curcb"
    BY <2>1 DEF ControlInv, FlusherControl
  <2>4. ASSUME NEW g \in Flushers, NEW c \in Buffers, InReach(g, c)
        PROVE  InReach(g, c)'
    BY <2>1, <2>2, <2>3, <2>4 DEF InReach
  <2>5. QED
    BY <2>1, <2>4
<1>11. ASSUME NEW f \in Flushers, FlushCurEnd(f)
       PROVE  FlushInv'
  <2>1. /\ UNCHANGED <<cur, work, due, raced>> /\ pc[f] = "curcb" /\ pc'[f] = "done"
        /\ \A g \in Flushers : g # f => pc'[g] = pc[g] /\ deque'[g] = deque[g]
        /\ \A b \in Buffers : cb'[b] = IF b \in deque[f] THEN "over" ELSE cb[b]
    BY <1>11 DEF FlushCurEnd, bufVars, FlushType, PcType
  <2>2. ASSUME NEW g \in Flushers, NEW c \in Buffers, InReach(g, c)
        PROVE  InReach(g, c)'
    BY <2>1, <2>2 DEF InReach
  <2>3. QED
    BY <2>1, <2>2
<1>12. ASSUME NEW f \in Flushers, FlushNoCur(f)
       PROVE  FlushInv'
  <2>1. /\ cur = NoBuf /\ bufMtx = NoOne /\ UNCHANGED <<cur, cb, work, deque, due, raced>>
        /\ pc[f] = "last" /\ pc'[f] = "done"
        /\ \A g \in Flushers : g # f => pc'[g] = pc[g]
    BY <1>12 DEF FlushNoCur, bufVars, flushVars, PcType
  <2>2. \A g \in Flushers : pc[g] # "curcb"
    BY <2>1 DEF ControlInv, FlusherControl
  <2>3. ASSUME NEW g \in Flushers, NEW c \in Buffers, InReach(g, c)
        PROVE  InReach(g, c)'
    BY <2>1, <2>2, <2>3 DEF InReach
  <2>4. QED
    BY <2>1, <2>3
<1>13. ASSUME NEW f \in Flushers, FlushReturn(f)
       PROVE  FlushInv'
  <2>1. /\ UNCHANGED <<cur, cb, work, deque>> /\ pc[f] = "done" /\ pc'[f] = "idle"
        /\ \A g \in Flushers : g # f => /\ pc'[g] = pc[g]
                                        /\ due'[g] = due[g] /\ raced'[g] = raced[g]
    BY <1>13 DEF FlushReturn, bufVars, FlushType, PcType
  <2>2. ASSUME NEW g \in Flushers, g # f, NEW c \in Buffers, InReach(g, c)
        PROVE  InReach(g, c)'
    BY <2>1, <2>2 DEF InReach
  <2>3. QED
    BY <2>1, <2>2
<1>14. ASSUME NEW b \in Buffers, Worker(b)
       PROVE  FlushInv'
  <2>1. /\ UNCHANGED <<pc, cur, work, deque, due, raced>>
        /\ \A c \in Buffers : cb[c] = "over" => cb'[c] = "over"
    BY <1>14 DEF Worker, WorkerUnInit, WorkerEnd, bufVars, flushVars, CbType
  <2>2. QED
    BY <2>1 DEF InReach
<1>15. CASE ConsumerEnter \/ ConsumerWake \/ ConsumerTimeout
  <2>1. UNCHANGED <<pc, cur, cb, deque, due, raced>> /\ work \subseteq work'
    BY <1>15 DEF ConsumerEnter, ConsumerWake, ConsumerTimeout, ConsumerServe, ConsumerSleep,
       bufVars, flushVars
  <2>2. QED
    BY <2>1 DEF InReach
<1>16. CASE ConsumerExit \/ DestroyEnd
  <2>1. UNCHANGED <<pc, cur, cb, deque, due, raced>> /\ \A b \in work : cb[b] = "over"
    BY <1>16 DEF ConsumerExit, DestroyEnd, AllOver, bufVars, flushVars
  <2>2. QED
    BY <2>1 DEF InReach
<1>17. CASE \/ Register \/ UnRegister \/ UNCHANGED vars
            \/ RegisterCallbacks \/ RegisterCallbacksEnd \/ Destroy \/ DestroyNotify \/ DestroyJoin
            \/ \E on \in BOOLEAN : FlushPeriod(on)
  <2>1. UNCHANGED <<pc, cur, cb, work, deque, due, raced>>
    BY <1>17 DEF Register, UnRegister, FlushPeriod, RegisterCallbacks, RegisterCallbacksEnd,
       Destroy, DestroyNotify, DestroyJoin, vars, bufVars, flushVars
  <2>2. QED
    BY <1>1, <2>1
<1>18. QED
  BY <1>2, <1>3, <1>4, <1>5, <1>6, <1>7, <1>8, <1>9, <1>10, <1>11, <1>12, <1>13, <1>14,
     <1>15, <1>16, <1>17
  DEF Next, Record, FlushAll, Run, Main, Terminated

-----------------------------------------------------------------------------
(* One step keeps EndInv. *)
LEMMA EndStep ==
  ASSUME TypeOK, EndInv, [Next]_vars
  PROVE  EndInv'
<1>0. PcType /\ \A t \in Threads : t \in Producers \/ t \in Flushers
  BY DEF TypeOK, Threads
<1> USE <1>0, ThreadKinds DEF EndInv, ApiUp
<1>1. CASE UNCHANGED <<pc, main, work, consumer>>
  BY <1>1
<1>2. ASSUME NEW p \in Producers, RecordEnter(p)
      PROVE  EndInv'
  BY <1>2 DEF RecordEnter, apiVars, condVars
<1>3. ASSUME NEW p \in Producers, Record(p)
      PROVE  EndInv'
  <2>1. pc[p] # "idle" /\ UNCHANGED <<main, work, consumer>>
    BY <1>3 DEF Record, RecordFirst, RecordAppend, RecordFull, RecordRotate, apiVars, condVars
  <2>2. QED
    BY <2>1
<1>4. ASSUME NEW f \in Flushers, FlushStart(f)
      PROVE  EndInv'
  BY <1>4 DEF FlushStart, apiVars, condVars
<1>5. ASSUME NEW f \in Flushers, FlushAll(f)
      PROVE  EndInv'
  <2>1. pc[f] # "idle" /\ UNCHANGED <<main, consumer>>
    BY <1>5 DEF FlushAll, FlushUnInit, FlushUnInitEnd, FlushLockCv, FlushJoin, FlushCur,
       FlushCurEnd, FlushNoCur, FlushReturn, apiVars, condVars
  <2>2. QED
    BY <2>1
<1>6. CASE ConsumerEnter \/ ConsumerWake \/ ConsumerTimeout
  <2>1. consumer \notin {"off", "dead"} /\ UNCHANGED <<pc, main>>
    BY <1>6 DEF ConsumerEnter, ConsumerWake, ConsumerTimeout, apiVars
  <2>2. QED
    BY <2>1
<1>7. CASE ConsumerExit
  BY <1>7 DEF ConsumerExit, apiVars
<1>8. CASE RegisterCallbacks \/ RegisterCallbacksEnd
  <2>1. UNCHANGED pc /\ ApiUp /\ ApiUp' /\ main' \in {"starting", "registered"}
    BY <1>8 DEF RegisterCallbacks, RegisterCallbacksEnd
  <2>2. QED
    BY <2>1
<1>9. CASE Destroy
  <2>1. \A t \in Threads : pc'[t] = "idle"
    BY <1>9 DEF Destroy, Threads
  <2>2. QED
    BY <1>9, <2>1 DEF Destroy, condVars
<1>10. CASE DestroyNotify \/ DestroyJoin \/ DestroyEnd
  BY <1>10 DEF DestroyNotify, DestroyJoin, DestroyEnd, condVars
<1>11. CASE \/ Register \/ UnRegister \/ UNCHANGED vars
            \/ \E on \in BOOLEAN : FlushPeriod(on)
            \/ \E b \in Buffers : Worker(b)
  <2>1. UNCHANGED <<pc, main, work, consumer>>
    BY <1>11 DEF Register, UnRegister, FlushPeriod, Worker, WorkerUnInit, WorkerEnd, vars,
       apiVars, condVars
  <2>2. QED
    BY <1>1, <2>1
<1>12. QED
  BY <1>2, <1>3, <1>4, <1>5, <1>6, <1>7, <1>8, <1>9, <1>10, <1>11
  DEF Next, Run, Main, Terminated

-----------------------------------------------------------------------------
(* The inductive invariant holds in the initial states ... *)
LEMMA IndInit == Init => IndInv
<1> SUFFICES ASSUME Init PROVE IndInv
  OBVIOUS
<1> USE BufferNumbers, ThreadKinds
<1>1. TypeOK
  BY TypeInit
<1>2. \A b \in Buffers : ~(b <= nbuf)
  BY DEF Init, Buffers
<1>3. ControlInv
  BY DEF Init, ControlInv, ProducerControl, FlusherControl
<1>4. CallbackInv
  BY DEF Init, CallbackInv, HeldByFlush
<1>5. OneHolder
  BY <1>2 DEF Init, OneHolder, DequesApart, HeldOnce, HeldByFlush, HeldByWorker
<1>6. FlushInv
  BY DEF Init, FlushInv
<1>7. EndInv
  BY DEF Init, EndInv, ApiUp
<1>8. QED
  BY <1>1, <1>3, <1>4, <1>5, <1>6, <1>7 DEF IndInv

(* ... and every step keeps it. *)
LEMMA IndStep == IndInv /\ [Next]_vars => IndInv'
  BY TypeStep, ControlStep, CallbackStep, HolderStep, FlushStep, EndStep DEF IndInv

(* The inductive invariant holds in every behaviour. *)
THEOREM Inductive == Spec => []IndInv
  BY IndInit, IndStep, PTL DEF Spec

(* Type correctness. *)
THEOREM TypeCorrect == Spec => []TypeOK
<1>1. IndInv => TypeOK
  BY DEF IndInv
<1>2. QED
  BY <1>1, Inductive, PTL

(* No buffer is lost, none is shared and none is completed twice, whatever   *)
(* the number of producers, flushers and buffers.                            *)
THEOREM BuffersHaveOneHolder == Spec => []OneHolder
<1>1. IndInv => OneHolder
  BY DEF IndInv
<1>2. QED
  BY <1>1, Inductive, PTL

(* FlushAll delivers every buffer that no other thread took from it.  In the *)
(* state where it returns its deque is empty, the workers it could find are  *)
(* joined and the current buffer is gone.                                    *)
THEOREM FlushAllDelivers == Spec => []FlushDelivers
<1>1. IndInv => FlushDelivers
  BY DEF IndInv, FlushDelivers, FlushInv, InReach, ControlInv, FlusherControl
<1>2. QED
  BY <1>1, Inductive, PTL

(* After the destructor no completion callback runs: the workers are joined, *)
(* nobody is inside FlushAll, and whoever runs UnInit is one of the two.     *)
THEOREM DestructorIsQuiet == Spec => []QuietAfterDestroy
<1>1. ASSUME IndInv, main = "destroyed" PROVE consumer \in {"off", "dead"}
  BY <1>1 DEF IndInv, EndInv
<1>2. ASSUME IndInv, main = "destroyed", NEW b \in Buffers PROVE cb[b] # "running"
  <2>1. ~HeldByWorker(b)
    BY <1>2 DEF IndInv, EndInv, HeldByWorker
  <2>2. ~HeldByFlush(b)
    <3>1. ~ApiUp
      BY <1>2 DEF ApiUp
    <3>2. \A f \in Flushers : pc[f] = "idle"
      BY <1>2, <3>1, ThreadKinds DEF IndInv, EndInv
    <3>3. QED
      BY <1>2, <3>2 DEF IndInv, ControlInv, FlusherControl, HeldByFlush
  <2>3. cb[b] = "running" => b <= nbuf /\ b # cur /\ b \notin co
    BY <1>2, Existing DEF IndInv, CallbackInv
  <2>4. QED
    BY <1>2, <2>1, <2>2, <2>3 DEF IndInv, OneHolder, HeldOnce
<1>3. IndInv => QuietAfterDestroy
  BY <1>1, <1>2 DEF QuietAfterDestroy
<1>4. QED
  BY <1>3, Inductive, PTL

-----------------------------------------------------------------------------
(* One step keeps the flag up while the queue is not empty. *)
LEMMA FlagStep ==
  ASSUME QueuedIsFlagged, [Next]_vars
  PROVE  QueuedIsFlagged'
<1> USE DEF QueuedIsFlagged
<1>1. CASE UNCHANGED <<co, bufFull>>
  BY <1>1
<1>2. ASSUME NEW p \in Producers, RecordEnter(p) \/ Record(p)
      PROVE  QueuedIsFlagged'
  <2>1. UNCHANGED <<co, bufFull>> \/ bufFull' = TRUE
    BY <1>2 DEF RecordEnter, Record, RecordFirst, RecordAppend, RecordFull, RecordRotate, Enqueue
  <2>2. QED
    BY <2>1
<1>3. ASSUME NEW f \in Flushers, FlushStart(f) \/ FlushAll(f)
      PROVE  QueuedIsFlagged'
  <2>1. UNCHANGED <<co, bufFull>> \/ co' = {}
    BY <1>3 DEF FlushStart, TakeQueue, FlushAll, FlushUnInit, FlushUnInitEnd, FlushLockCv,
       FlushJoin, FlushCur, FlushCurEnd, FlushNoCur, FlushReturn
  <2>2. QED
    BY <2>1
<1>4. CASE ConsumerEnter \/ ConsumerWake \/ ConsumerTimeout
  <2>1. UNCHANGED <<co, bufFull>> \/ co' = {}
    BY <1>4 DEF ConsumerEnter, ConsumerWake, ConsumerTimeout, ConsumerServe, ConsumerSleep
  <2>2. QED
    BY <2>1
<1>5. CASE \/ Register \/ UnRegister \/ ConsumerExit \/ Main \/ UNCHANGED vars
           \/ \E on \in BOOLEAN : FlushPeriod(on)
           \/ \E b \in Buffers : Worker(b)
  <2>1. UNCHANGED <<co, bufFull>>
    BY <1>5 DEF Register, UnRegister, FlushPeriod, Worker, WorkerUnInit, WorkerEnd, vars,
       ConsumerExit, Main, RegisterCallbacks, RegisterCallbacksEnd, Destroy, DestroyNotify,
       DestroyJoin, DestroyEnd
  <2>2. QED
    BY <1>1, <2>1
<1>6. QED
  BY <1>2, <1>3, <1>4, <1>5 DEF Next, Run, Terminated

(* The wake-up flag is never behind the queue: FlushAll may lower the queue  *)
(* under the flag, and nobody raises the queue without it.                   *)
THEOREM FlagIsNeverBehind == Spec => []QueuedIsFlagged
<1>1. Init => QueuedIsFlagged
  BY DEF Init, QueuedIsFlagged
<1>2. QueuedIsFlagged /\ [Next]_vars => QueuedIsFlagged'
  BY FlagStep
<1>3. QED
  BY <1>1, <1>2, PTL DEF Spec

(* The arithmetic of the threshold: a record that finds the buffer less than *)
(* 80% full and still does not fit is larger than a fifth of it.             *)
LEMMA ThresholdArithmetic ==
  ASSUME NEW sz \in Nat, NEW v \in Nat, NEW r \in Nat \ {0}, ~Full(sz, v), ~Fits(sz, v, r)
  PROVE  5 * r > sz
  BY DEF Full, Fits

(* A record that does not fit into an empty buffer is larger than it. *)
LEMMA EmptyArithmetic ==
  ASSUME NEW sz \in Nat, NEW r \in Nat \ {0}, ~Fits(sz, 0, r)
  PROVE  5 * r > sz
  BY DEF Fits

(* One step drops only big records. *)
LEMMA DropStep ==
  ASSUME TypeOK, DropsAreBig, [Next]_vars
  PROVE  DropsAreBig'
<1>0. BufType /\ BufSizes \subseteq Nat /\ RecSizes \subseteq Nat \ {0}
  BY ConstantsAssumption DEF TypeOK
<1> USE <1>0 DEF DropsAreBig
<1>1. CASE UNCHANGED drops
  BY <1>1
<1>2. CASE RecordInNewBuffer
  <2>1. PICK s \in (IF registered THEN BufSizes ELSE {0}), r \in RecSizes :
          \/ UNCHANGED drops
          \/ ~Fits(s, 0, r) /\ drops' = drops \union {<<r, s>>}
    BY <1>2 DEF RecordInNewBuffer
  <2>2. s \in Nat /\ r \in Nat \ {0}
    OBVIOUS
  <2>3. ~Fits(s, 0, r) => 5 * r > s
    BY <2>2, EmptyArithmetic
  <2>4. QED
    BY <2>1, <2>3
<1>3. ASSUME NEW p \in Producers, RecordAppend(p)
      PROVE  DropsAreBig'
  <2>1. cur \in Buffers /\ size[cur] \in Nat /\ valid[cur] \in Nat
    BY <1>3 DEF RecordAppend, BufType
  <2>2. PICK r \in RecSizes :
          \/ UNCHANGED drops
          \/ ~Fits(size[cur], valid[cur], r) /\ drops' = drops \union {<<r, size[cur]>>}
    BY <1>3 DEF RecordAppend
  <2>3. ~Full(size[cur], valid[cur])
    BY <1>3 DEF RecordAppend
  <2>4. ~Fits(size[cur], valid[cur], r) => 5 * r > size[cur]
    BY <2>1, <2>3, ThresholdArithmetic
  <2>5. QED
    BY <2>2, <2>4
<1>4. ASSUME NEW p \in Producers, RecordEnter(p) \/ RecordFirst(p) \/ RecordFull(p) \/ RecordRotate(p)
      PROVE  DropsAreBig'
  <2>1. UNCHANGED drops \/ RecordInNewBuffer
    BY <1>4 DEF RecordEnter, RecordFirst, RecordFull, RecordRotate, bufVars
  <2>2. QED
    BY <1>1, <1>2, <2>1
<1>5. ASSUME NEW f \in Flushers, FlushStart(f) \/ FlushAll(f)
      PROVE  DropsAreBig'
  <2>1. UNCHANGED drops
    BY <1>5 DEF FlushStart, FlushAll, FlushUnInit, FlushUnInitEnd, FlushLockCv, FlushJoin,
       FlushCur, FlushCurEnd, FlushNoCur, FlushReturn, bufVars
  <2>2. QED
    BY <1>1, <2>1
<1>6. CASE \/ Register \/ UnRegister \/ Run \/ Main \/ UNCHANGED vars
           \/ \E on \in BOOLEAN : FlushPeriod(on)
           \/ \E b \in Buffers : Worker(b)
  <2>1. UNCHANGED drops
    BY <1>6 DEF Register, UnRegister, FlushPeriod, Worker, WorkerUnInit, WorkerEnd, vars,
       bufVars, Run, ConsumerEnter, ConsumerWake, ConsumerTimeout, ConsumerExit, Main,
       RegisterCallbacks, RegisterCallbacksEnd, Destroy, DestroyNotify, DestroyJoin, DestroyEnd
  <2>2. QED
    BY <1>1, <2>1
<1>7. QED
  BY <1>3, <1>4, <1>5, <1>6 DEF Next, Record, Terminated

(* The 80% threshold is enough: only a record larger than a fifth of the     *)
(* buffer it meets is ever dropped.                                          *)
THEOREM OnlyBigRecordsAreDropped == Spec => []DropsAreBig
<1>1. Init => DropsAreBig
  BY DEF Init, DropsAreBig
<1>2. TypeOK /\ DropsAreBig /\ [Next]_vars => DropsAreBig'
  BY DropStep
<1>3. QED
  BY <1>1, <1>2, TypeCorrect, PTL DEF Spec

-----------------------------------------------------------------------------
(* The refinement: the initial states map to initial states, and every     *)
(* step maps to a step of the abstract specification or to none.           *)

Phase == [b \in Buffers |-> PhaseOf(b)]

(* The mapping does not see a step that leaves these variables alone.  *)
LEMMA Unseen == UNCHANGED <<cur, nbuf, cb>> => UNCHANGED Phase
  BY DEF Phase, PhaseOf

(* The abstract steps, said of the variables of ActivityManager. *)
LEMMA AbstractSteps ==
  /\ Phase' = Delivery!Sealed /\ UNCHANGED <<nbuf, recs, nrec>> => Delivery!Seal
  /\ /\ nbuf < MaxBufs /\ nbuf' = nbuf + 1
     /\ Phase' = [Delivery!Sealed EXCEPT ![nbuf + 1] = "open"]
     /\ Delivery!Accept(nbuf + 1) \/ UNCHANGED <<recs, nrec>>
     => Delivery!OpenBatch
  /\ \A b \in Buffers :
       Phase[b] = "open" /\ Delivery!Accept(b) /\ UNCHANGED <<nbuf, Phase>> => Delivery!Append(b)
  /\ \A b \in Buffers :
       Phase[b] \in {"open", "sealed"} /\ Phase' = [Phase EXCEPT ![b] = "running"]
       /\ UNCHANGED <<nbuf, recs, nrec>> => Delivery!HandOver(b)
  /\ \A b \in Buffers :
       Phase[b] = "running" /\ Phase' = [Phase EXCEPT ![b] = "over"]
       /\ UNCHANGED <<nbuf, recs, nrec>> => Delivery!Consumed(b)
  /\ UNCHANGED <<nbuf, Phase, recs, nrec>> => UNCHANGED Delivery!dvars
  BY DEF Delivery!Seal, Delivery!OpenBatch, Delivery!Append, Delivery!HandOver,
     Delivery!Consumed, Delivery!dvars, Phase

(* Sealing is what the mapping shows of a cur_buf_ that goes away. *)
LEMMA SealedPhase ==
  ASSUME TypeOK, CallbackInv
  PROVE  Delivery!Sealed = [b \in Buffers |->
           IF b > nbuf THEN "unborn" ELSE IF cb[b] = "none" THEN "sealed" ELSE cb[b]]
<1>1. Delivery!Sealed = [b \in Buffers |-> IF PhaseOf(b) = "open" THEN "sealed" ELSE PhaseOf(b)]
  BY DEF Delivery!Sealed, Delivery!Batches, Buffers
<1>2. ASSUME NEW b \in Buffers
      PROVE  (IF PhaseOf(b) = "open" THEN "sealed" ELSE PhaseOf(b))
             = IF b > nbuf THEN "unborn" ELSE IF cb[b] = "none" THEN "sealed" ELSE cb[b]
  BY DEF PhaseOf, CallbackInv, TypeOK, CbType
<1>3. QED
  BY <1>1, <1>2

(* A new buffer opens a batch; the record that comes with it is accepted or  *)
(* dropped.  The buffer that was current, if any, has no callback yet.       *)
LEMMA NewBufferOpens ==
  ASSUME TypeOK, CallbackInv, RecordInNewBuffer, UNCHANGED cb
  PROVE  Delivery!OpenBatch
<1>0. BufType /\ CbType
  BY DEF TypeOK
<1>1. nbuf < MaxBufs /\ nbuf + 1 \in Buffers /\ nbuf' = nbuf + 1 /\ cur' = nbuf + 1
  BY <1>0, NewBufferType DEF RecordInNewBuffer
<1>2. ASSUME NEW b \in Buffers
      PROVE  PhaseOf(b)' = IF b = nbuf + 1 THEN "open" ELSE IF b > nbuf THEN "unborn"
                           ELSE IF cb[b] = "none" THEN "sealed" ELSE cb[b]
  <2>1. (b > nbuf' <=> b > nbuf /\ b # nbuf + 1) /\ ~(nbuf + 1 > nbuf')
    BY <1>0, <1>1, BufferNumbers, ConstantsAssumption DEF BufType
  <2>2. QED
    BY <1>1, <2>1 DEF PhaseOf
<1>3. Phase' = [Delivery!Sealed EXCEPT ![nbuf + 1] = "open"]
  BY <1>1, <1>2, SealedPhase DEF Phase
<1>4. Delivery!Accept(nbuf + 1) \/ UNCHANGED <<recs, nrec>>
  <2>1. recs[nbuf + 1] = {}
    BY <1>0, <1>1, BufferNumbers, ConstantsAssumption DEF CallbackInv, BufType
  <2>2. \/ UNCHANGED <<recs, nrec>>
        \/ nrec' = nrec + 1 /\ recs' = [recs EXCEPT ![nbuf + 1] = {nrec + 1}]
    BY DEF RecordInNewBuffer
  <2>3. nrec' = nrec + 1 /\ recs' = [recs EXCEPT ![nbuf + 1] = {nrec + 1}]
        => Delivery!Accept(nbuf + 1)
    BY <1>0, <1>1, <2>1 DEF Delivery!Accept, BufType
  <2>4. QED
    BY <2>2, <2>3
<1>5. QED
  BY <1>1, <1>3, <1>4, AbstractSteps

(* The callback of a buffer begins: it is handed over. *)
LEMMA HandedOver ==
  ASSUME TypeOK, NEW b \in Buffers, b <= nbuf, cb[b] = "none",
         cb' = [cb EXCEPT ![b] = "running"], UNCHANGED <<nbuf, recs, nrec>>,
         UNCHANGED cur \/ cur' = NoBuf, cur' # b, cur' = cur \/ cur = b
  PROVE  Delivery!HandOver(b)
<1>0. CbType /\ NoBuf \notin Buffers /\ ~(b > nbuf)
  BY BufferNumbers DEF TypeOK, BufType
<1>1. Phase[b] \in {"open", "sealed"}
  BY <1>0 DEF Phase, PhaseOf
<1>2. ASSUME NEW c \in Buffers PROVE PhaseOf(c)' = IF c = b THEN "running" ELSE PhaseOf(c)
  BY <1>0 DEF PhaseOf, CbType
<1>3. Phase' = [Phase EXCEPT ![b] = "running"]
  BY <1>2 DEF Phase
<1>4. QED
  BY <1>1, <1>3, AbstractSteps

(* The callback of a buffer returns: it is consumed. *)
LEMMA IsConsumed ==
  ASSUME TypeOK, NEW b \in Buffers, b <= nbuf, cb[b] = "running", b # cur,
         \A c \in Buffers : cb'[c] = IF c = b THEN "over" ELSE cb[c],
         UNCHANGED <<nbuf, recs, nrec, cur>>
  PROVE  Delivery!Consumed(b)
<1>0. ~(b > nbuf)
  BY BufferNumbers DEF TypeOK, BufType
<1>1. Phase[b] = "running"
  BY <1>0 DEF Phase, PhaseOf
<1>2. ASSUME NEW c \in Buffers PROVE PhaseOf(c)' = IF c = b THEN "over" ELSE PhaseOf(c)
  BY <1>0 DEF PhaseOf
<1>3. Phase' = [Phase EXCEPT ![b] = "over"]
  BY <1>2 DEF Phase
<1>4. QED
  BY <1>1, <1>3, AbstractSteps

(* Every step of the record path is an abstract step or none. *)
LEMMA StepRefines ==
  ASSUME IndInv, [Next]_vars
  PROVE  [Delivery!Next]_Delivery!dvars
<1>0. /\ TypeOK /\ ControlInv /\ CallbackInv /\ CbType /\ FlushType /\ BufType /\ QueueType
      /\ NoBuf \notin Buffers /\ \A b \in Buffers : HeldOnce(b)
      /\ Delivery!Batches = Buffers
  BY BufferNumbers DEF IndInv, TypeOK, OneHolder, Delivery!Batches, Buffers
<1> USE <1>0
<1>1. CASE UNCHANGED <<cur, nbuf, cb, recs, nrec>>
  BY <1>1, Unseen, AbstractSteps
<1>2. ASSUME NEW p \in Producers, RecordFirst(p)
      PROVE  [Delivery!Next]_Delivery!dvars
  <2>1. CASE RecordInNewBuffer
    BY <1>2, <2>1, NewBufferOpens DEF RecordFirst, Delivery!Next
  <2>2. QED
    BY <1>1, <1>2, <2>1 DEF RecordFirst, bufVars
<1>3. ASSUME NEW p \in Producers, RecordAppend(p)
      PROVE  [Delivery!Next]_Delivery!dvars
  <2>1. cur \in Buffers /\ UNCHANGED <<cur, nbuf, cb>>
    BY <1>3 DEF RecordAppend, BufType
  <2>2. Phase[cur] = "open"
    <3>1. ~(cur > nbuf)
      BY <2>1 DEF CallbackInv
    <3>2. QED
      BY <2>1, <3>1 DEF Phase, PhaseOf
  <2>3. Delivery!Accept(cur) \/ UNCHANGED <<recs, nrec>>
    BY <1>3 DEF RecordAppend, Delivery!Accept
  <2>4. QED
    BY <1>1, <2>1, <2>2, <2>3, Unseen, AbstractSteps DEF Delivery!Next
<1>4. ASSUME NEW p \in Producers, RecordRotate(p)
      PROVE  [Delivery!Next]_Delivery!dvars
  <2>1. UNCHANGED cb
    BY <1>4 DEF RecordRotate
  <2>2. CASE RecordInNewBuffer
    BY <2>1, <2>2, NewBufferOpens DEF Delivery!Next
  <2>3. CASE cur' = NoBuf /\ UNCHANGED <<nbuf, recs, nrec>>
    <3>1. Phase' = Delivery!Sealed
      BY <2>1, <2>3, SealedPhase DEF Phase, PhaseOf
    <3>2. QED
      BY <2>3, <3>1, AbstractSteps DEF Delivery!Next
  <2>4. QED
    BY <1>4, <2>2, <2>3 DEF RecordRotate
<1>5. ASSUME NEW f \in Flushers, FlushUnInit(f)
      PROVE  [Delivery!Next]_Delivery!dvars
  <2>1. PICK b \in deque[f] : cb' = [cb EXCEPT ![b] = "running"]
    BY <1>5 DEF FlushUnInit
  <2>2. b \in Buffers /\ HeldByFlush(b) /\ cb[b] # "running"
    BY <1>5 DEF HeldByFlush, FlushType, FlushUnInit
  <2>3. b <= nbuf /\ b # cur /\ cb[b] = "none"
    BY <2>2, Existing DEF HeldOnce, CbType
  <2>4. UNCHANGED <<nbuf, recs, nrec, cur>>
    BY <1>5 DEF FlushUnInit, bufVars
  <2>5. Delivery!HandOver(b)
    BY <2>1, <2>2, <2>3, <2>4, HandedOver
  <2>6. QED
    BY <2>2, <2>5 DEF Delivery!Next
<1>6. ASSUME NEW f \in Flushers, FlushUnInitEnd(f)
      PROVE  [Delivery!Next]_Delivery!dvars
  <2>1. PICK b \in deque[f] : cb[b] = "running" /\ cb' = [cb EXCEPT ![b] = "over"]
    BY <1>6 DEF FlushUnInitEnd
  <2>2. b \in Buffers /\ HeldByFlush(b)
    BY DEF HeldByFlush, FlushType
  <2>3. b <= nbuf /\ b # cur
    BY <2>2, Existing DEF HeldOnce
  <2>4. UNCHANGED <<nbuf, recs, nrec, cur>>
    BY <1>6 DEF FlushUnInitEnd, bufVars
  <2>5. \A c \in Buffers : cb'[c] = IF c = b THEN "over" ELSE cb[c]
    BY <2>1, <2>2 DEF CbType
  <2>6. Delivery!Consumed(b)
    BY <2>1, <2>2, <2>3, <2>4, <2>5, IsConsumed
  <2>7. QED
    BY <2>2, <2>6 DEF Delivery!Next
<1>7. ASSUME NEW f \in Flushers, FlushCur(f)
      PROVE  [Delivery!Next]_Delivery!dvars
  <2>1. /\ cur \in Buffers /\ cur' = NoBuf /\ cb' = [cb EXCEPT ![cur] = "running"]
        /\ UNCHANGED <<nbuf, recs, nrec>>
    BY <1>7 DEF FlushCur, BufType
  <2>2. cb[cur] = "none" /\ cur <= nbuf
    BY <2>1, Existing DEF CallbackInv
  <2>3. Delivery!HandOver(cur)
    BY <2>1, <2>2, HandedOver
  <2>4. QED
    BY <2>1, <2>3 DEF Delivery!Next
<1>8. ASSUME NEW f \in Flushers, FlushCurEnd(f)
      PROVE  [Delivery!Next]_Delivery!dvars
  <2>1. PICK b \in Buffers : deque[f] = {b} /\ cb[b] = "running"
    BY <1>8 DEF FlushCurEnd, ControlInv, FlusherControl
  <2>2. HeldByFlush(b)
    BY <2>1 DEF HeldByFlush
  <2>3. b <= nbuf /\ b # cur
    BY <2>2, Existing DEF HeldOnce
  <2>4. /\ UNCHANGED <<nbuf, recs, nrec, cur>>
        /\ \A c \in Buffers : cb'[c] = IF c = b THEN "over" ELSE cb[c]
    BY <1>8, <2>1 DEF FlushCurEnd, bufVars
  <2>5. Delivery!Consumed(b)
    BY <2>1, <2>3, <2>4, IsConsumed
  <2>6. QED
    BY <2>5 DEF Delivery!Next
<1>9. ASSUME NEW b \in Buffers, Worker(b)
      PROVE  [Delivery!Next]_Delivery!dvars
  <2>1. HeldByWorker(b) /\ UNCHANGED <<nbuf, recs, nrec, cur>>
    BY <1>9 DEF Worker, WorkerUnInit, WorkerEnd, HeldByWorker, bufVars
  <2>2. b <= nbuf /\ b # cur
    BY <2>1, Existing DEF HeldOnce, HeldByWorker
  <2>3. CASE WorkerUnInit(b)
    BY <2>1, <2>2, <2>3, HandedOver DEF WorkerUnInit, Delivery!Next
  <2>4. CASE WorkerEnd(b)
    <3>1. cb[b] = "running" /\ \A c \in Buffers : cb'[c] = IF c = b THEN "over" ELSE cb[c]
      BY <2>4 DEF WorkerEnd, CbType
    <3>2. Delivery!Consumed(b)
      BY <2>1, <2>2, <3>1, IsConsumed
    <3>3. QED
      BY <3>2 DEF Delivery!Next
  <2>5. QED
    BY <1>9, <2>3, <2>4 DEF Worker
<1>10. CASE \/ Register \/ UnRegister \/ Run \/ Main \/ UNCHANGED vars
            \/ \E on \in BOOLEAN : FlushPeriod(on)
            \/ \E p \in Producers : RecordEnter(p) \/ RecordFull(p)
            \/ \E f \in Flushers : \/ FlushStart(f) \/ FlushLockCv(f) \/ FlushJoin(f)
                                   \/ FlushNoCur(f) \/ FlushReturn(f)
  <2>1. UNCHANGED <<cur, nbuf, cb, recs, nrec>>
    BY <1>10 DEF Register, UnRegister, FlushPeriod, Run, ConsumerEnter, ConsumerWake,
       ConsumerTimeout, ConsumerExit, Main, RegisterCallbacks, RegisterCallbacksEnd, Destroy,
       DestroyNotify, DestroyJoin, DestroyEnd, RecordEnter, RecordFull, FlushStart, FlushLockCv,
       FlushJoin, FlushNoCur, FlushReturn, vars, bufVars
  <2>2. QED
    BY <1>1, <2>1
<1>11. QED
  BY <1>2, <1>3, <1>4, <1>5, <1>6, <1>7, <1>8, <1>9, <1>10
  DEF Next, Record, FlushAll, Terminated

(* The initial states are initial states of the abstract specification. *)
LEMMA InitRefines == Init => Delivery!Init
<1> SUFFICES ASSUME Init PROVE Delivery!Init
  OBVIOUS
<1>1. nbuf = 0 /\ nrec = 0 /\ recs = [b \in Buffers |-> {}]
  BY DEF Init
<1>2. \A b \in Buffers : b > nbuf
  BY <1>1 DEF Buffers
<1>3. Phase = [b \in Buffers |-> "unborn"]
  BY <1>2 DEF Phase, PhaseOf
<1>4. QED
  BY <1>1, <1>3 DEF Delivery!Init, Delivery!Batches, Buffers, Phase

(* The record path keeps the promise of the activity API: a batch that is    *)
(* sealed never changes again, and every batch is handed over at most once   *)
(* and by one thread.                                                        *)
THEOREM ImplementsRecordDelivery == Spec => DeliveryImplemented
<1>1. Spec => Delivery!Init
  BY InitRefines DEF Spec
<1>2. IndInv /\ [Next]_vars => [Delivery!Next]_Delivery!dvars
  BY StepRefines
<1>3. QED
  BY <1>1, <1>2, Inductive, PTL DEF Spec, Delivery!Spec, DeliveryImplemented
=============================================================================
