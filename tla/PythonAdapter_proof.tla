------------------------- MODULE PythonAdapter_proof -------------------------
(***************************************************************************)
(* Proofs about PythonAdapter for every number of threads, buffers, calls  *)
(* and records: started monitors are served, callbacks that run and        *)
(* buffers that are used are alive.                                        *)
(***************************************************************************)
EXTENDS PythonAdapter, FiniteSetTheorems, SequenceTheorems, TLAPS

(* Places of a call, and the functions they belong to.                       *)
SetUp  == {"subscribe", "clear", "size", "poolSize", "handles"}
Labels == SetUp \cup {"idle", "start", "stop", "last", "unsubscribe", "flush_all", "full", "join",
                      "flushed", "register", "unregister", "set_buffer_size"}
FnOf(l) ==
  CASE l \in SetUp \cup {"start"} -> "start"
    [] l \in {"stop", "last", "unsubscribe"} -> "stop"
    [] l \in {"flush_all", "full", "join", "flushed"} -> "flush_all"
    [] OTHER -> l

(* What a call has still to do.                                              *)
StartOf(k) == <<Fn("start", k), Fn("register", k)>>
StopOf(k)  == <<Fn("stop", k), Fn("flush_all", k), Fn("unregister", k)>>
Todos ==
  {<<>>, <<Fn("flush_all", NoOne)>>}
    \cup {<<Fn("set_buffer_size", n)>> : n \in BufferSizes}
    \cup UNION {{StartOf(k), <<Fn("register", k)>>, StopOf(k),
                 <<Fn("flush_all", k), Fn("unregister", k)>>, <<Fn("unregister", k)>>} : k \in Monitors}

Starting(t, k) == todo[t] = StartOf(k)
Stopping(t, k) == todo[t] = StopOf(k)

(* The types.                                                                *)
BufSet  == [buf : Bufs \cup {NoOne}, size : Nat, kinds : Seq(Monitors)]
JobSet  == [buf : BufSet, last : BOOLEAN, stage : {"wait", "walk", "in", "out"},
            obj : Nat \cup {NoOne}]
Allocs  == UNION {[S -> Nat] : S \in SUBSET Bufs}
PoolSet == [bufferSize : Nat, poolSize : Nat, alloced : Allocs, free : SUBSET Bufs]

Types ==
  /\ gil \in Agents \cup {NoOne} /\ mtx \in Threads \cup {NoOne}
  /\ bufferSize \in 1 .. MaxBufferSize
  /\ pool \in PoolSet
  /\ enabled \subseteq Monitors
  /\ refs \in Seq(Nat) /\ callback \in [Monitors -> Nat \cup {NoOne}]
  /\ cur \in BufSet /\ queue \in Seq(BufSet) /\ flushing \in [Threads -> Seq(BufSet)]
  /\ pos \in [Agents -> Nat] /\ job \in [Agents -> JobSet \cup {NoJob}]

(* The types that the users need.                                            *)
UserTypes ==
  /\ todo \in [Threads -> Todos] /\ pc \in [Threads -> Labels]
  /\ refCnt \in Nat /\ calls \in 0 .. MaxCalls
  /\ started \subseteq Monitors
  /\ subscribed \in BOOLEAN /\ handles \in BOOLEAN /\ unlucky \in BOOLEAN

(* A walk starts at the first record; a thread completes buffers only in     *)
(* FlushAll.                                                                 *)
Walks ==
  /\ \A x \in Agents : job[x] = NoJob \/ job[x].stage = "wait" => pos[x] = 0
  /\ \A t \in Threads : job[t] # NoJob => pc[t] \in {"full", "flushed"}

(* A monitor is started, or one call starts or stops it.                     *)
Shape ==
  /\ \A t \in Threads : pc[t] # "idle" => todo[t] # <<>> /\ Head(todo[t]).fn = FnOf(pc[t])
  /\ \A t \in Threads, k \in Monitors : Starting(t, k) \/ Stopping(t, k) =>
       /\ k \notin started
       /\ \A u \in Threads : Starting(u, k) \/ Stopping(u, k) => u = t

(* The monitors that are counted in refCnt_, and those that will be.         *)
Counts(t, k) == \/ Starting(t, k) /\ pc[t] \in SetUp
                \/ Stopping(t, k) /\ pc[t] \in {"idle", "stop"}
WillCount(t, k) == Starting(t, k) /\ pc[t] \in {"idle", "start"}
Counted == started \cup {k \in Monitors : \E t \in Threads : Counts(t, k)}
Pending == {k \in Monitors : \E t \in Threads : WillCount(t, k)}

Count == Cardinality(Counted) <= refCnt /\ Cardinality(Pending) + refCnt <= calls

(* One thread at most sets the library up; while there are users, it does or *)
(* the library has its subscriber.                                           *)
Subscribed ==
  /\ \A t, u \in Threads : pc[t] \in SetUp /\ pc[u] \in SetUp => t = u
  /\ ~unlucky =>
       /\ \A t \in Threads : pc[t] = "unsubscribe" => refCnt = 0
       /\ \A t \in Threads : pc[t] \in SetUp \ {"subscribe"} => subscribed
       /\ refCnt > 0 => (\E t \in Threads : pc[t] \in SetUp) \/ (subscribed /\ handles)

Users == Shape /\ Count /\ Subscribed

(* The pool has not more buffers than its size, and none until it has one.   *)
Pool ==
  /\ pool.free \subseteq DOMAIN pool.alloced
  /\ IsFiniteSet(DOMAIN pool.alloced)
  /\ pool.poolSize # 0 => Cardinality(DOMAIN pool.alloced) <= pool.poolSize
  /\ \A t \in Threads : pc[t] \in {"size", "poolSize"} =>
       pool.poolSize = 0 /\ DOMAIN pool.alloced = {}

(* An object has a reference for every run of it and every kind that has it. *)
Refs(o) == {<<"job", x>> : x \in {x \in Agents : job[x] # NoJob /\ job[x].obj = o}}
             \cup {<<"callback", k>> : k \in {k \in Monitors : callback[k] = o}}
Alive ==
  /\ \A o \in DOMAIN refs : IsFiniteSet(Refs(o)) /\ Cardinality(Refs(o)) <= refs[o]
  /\ \A x \in Agents : job[x] # NoJob =>
       /\ job[x].obj \in DOMAIN refs \cup {NoOne}
       /\ (job[x].obj = NoOne) = (job[x].stage \in {"wait", "walk"})
  /\ \A k \in Monitors : callback[k] \in DOMAIN refs \cup {NoOne}

(* A buffer is in one place.                                                 *)
InCur(b)         == cur.buf = b
InQueue(b, i)    == i \in DOMAIN queue /\ queue[i].buf = b
InFlush(b, t, i) == i \in DOMAIN flushing[t] /\ flushing[t][i].buf = b
InJob(b, x)      == job[x] # NoJob /\ job[x].buf.buf = b
InUse(b) == \/ InCur(b) \/ (\E i \in Nat : InQueue(b, i))
            \/ (\E t \in Threads, i \in Nat : InFlush(b, t, i)) \/ (\E x \in Agents : InJob(b, x))
OnePlace(b) ==
  /\ \A i, j \in Nat : InQueue(b, i) /\ InQueue(b, j) => i = j
  /\ \A t, u \in Threads, i, j \in Nat : InFlush(b, t, i) /\ InFlush(b, u, j) => t = u /\ i = j
  /\ \A x, y \in Agents : InJob(b, x) /\ InJob(b, y) => x = y
  /\ InCur(b) => \A i \in Nat : ~InQueue(b, i)
  /\ InCur(b) => \A t \in Threads, i \in Nat : ~InFlush(b, t, i)
  /\ InCur(b) => \A x \in Agents : ~InJob(b, x)
  /\ \A i, j \in Nat, t \in Threads : InQueue(b, i) => ~InFlush(b, t, j)
  /\ \A i \in Nat, x \in Agents : InQueue(b, i) => ~InJob(b, x)
  /\ \A i \in Nat, t \in Threads, x \in Agents : InFlush(b, t, i) => ~InJob(b, x)
Buffers ==
  \A b \in Bufs \ lost :
    OnePlace(b) /\ (InUse(b) => b \in DOMAIN pool.alloced \ pool.free)

IndInv == UserTypes /\ Users /\ Types /\ Walks /\ Pool /\ Alive /\ Buffers

-----------------------------------------------------------------------------
(* What a call does next, and then.                                          *)
LEMMA TodoFacts ==
  ASSUME NEW s \in Todos
  PROVE  /\ s # <<>> =>
              /\ Head(s).fn \in {"start", "stop", "register", "unregister", "flush_all", "set_buffer_size"}
              /\ Head(s).fn \in {"start", "stop", "register", "unregister"} => Head(s).arg \in Monitors
              /\ Head(s).fn = "set_buffer_size" => Head(s).arg \in BufferSizes
              /\ Head(s).fn = "start" => s = StartOf(Head(s).arg)
              /\ Head(s).fn = "stop" => s = StopOf(Head(s).arg)
              /\ Tail(s) \in Todos
              /\ \A k : Tail(s) # StartOf(k) /\ Tail(s) # StopOf(k)
         /\ \A k : s = StartOf(k) => s # <<>> /\ Head(s).fn = "start" /\ Head(s).arg = k
         /\ \A k : s = StopOf(k) => s # <<>> /\ Head(s).fn = "stop" /\ Head(s).arg = k
<1>1. CASE s = <<>>
  BY <1>1 DEF StartOf, StopOf, Fn
<1>2. CASE s = <<Fn("flush_all", NoOne)>>
  BY <1>2 DEF StartOf, StopOf, Fn, Todos
<1>3. CASE \E n \in BufferSizes : s = <<Fn("set_buffer_size", n)>>
  BY <1>3 DEF StartOf, StopOf, Fn, Todos
<1>4. CASE \E k \in Monitors : s = StartOf(k)
  BY <1>4 DEF StartOf, StopOf, Fn, Todos
<1>5. CASE \E k \in Monitors : s = <<Fn("register", k)>>
  BY <1>5 DEF StartOf, StopOf, Fn, Todos
<1>6. CASE \E k \in Monitors : s = StopOf(k)
  BY <1>6 DEF StartOf, StopOf, Fn, Todos
<1>7. CASE \E k \in Monitors : s = <<Fn("flush_all", k), Fn("unregister", k)>>
  BY <1>7 DEF StartOf, StopOf, Fn, Todos
<1>8. CASE \E k \in Monitors : s = <<Fn("unregister", k)>>
  BY <1>8 DEF StartOf, StopOf, Fn, Todos
<1>9. QED
  BY <1>1, <1>2, <1>3, <1>4, <1>5, <1>6, <1>7, <1>8 DEF Todos

-----------------------------------------------------------------------------
(* The users.                                                                *)

(* There are finitely many monitors.                                         *)
LEMMA FiniteMonitors ==
  /\ IsFiniteSet(Monitors)
  /\ \A S \in SUBSET Monitors : IsFiniteSet(S) /\ Cardinality(S) \in Nat
<1>1. IsFiniteSet({"KERNEL", "MARKER", "HCCL", "COMMUNICATION"})
  <2>1. IsFiniteSet({"KERNEL"} \cup {"MARKER"})
    BY FS_Singleton, FS_AddElement
  <2>2. IsFiniteSet(({"KERNEL"} \cup {"MARKER"}) \cup {"HCCL"})
    BY <2>1, FS_AddElement
  <2>3. IsFiniteSet((({"KERNEL"} \cup {"MARKER"}) \cup {"HCCL"}) \cup {"COMMUNICATION"})
    BY <2>2, FS_AddElement
  <2>4. (({"KERNEL"} \cup {"MARKER"}) \cup {"HCCL"}) \cup {"COMMUNICATION"}
          = {"KERNEL", "MARKER", "HCCL", "COMMUNICATION"}
    OBVIOUS
  <2>5. QED
    BY <2>3, <2>4
<1>2. Monitors \subseteq {"KERNEL", "MARKER", "HCCL", "COMMUNICATION"}
  BY PythonAdapterAssumption
<1>3. IsFiniteSet(Monitors)
  BY <1>1, <1>2, FS_Subset
<1>4. QED
  BY <1>3, FS_Subset, FS_CardinalityType

(* A set with one monitor more has one more at most.                         *)
LEMMA OneMore ==
  ASSUME NEW S \in SUBSET Monitors, NEW T \in SUBSET Monitors, NEW j, T \subseteq S \cup {j}
  PROVE  Cardinality(T) <= Cardinality(S) + 1
<1>1. IsFiniteSet(S) /\ Cardinality(S) \in Nat /\ Cardinality(T) \in Nat
  BY FiniteMonitors
<1>2. PICK U : U = S \cup {j}
  OBVIOUS
<1>3. IsFiniteSet(U) /\ Cardinality(U) <= Cardinality(S) + 1
  <2>1. CASE j \in S
    <3>1. U = S
      BY <1>2, <2>1
    <3>2. Cardinality(S) <= Cardinality(S) + 1
      BY <1>1
    <3>3. QED
      BY <1>1, <3>1, <3>2, Zenon
  <2>2. CASE j \notin S
    <3>1. IsFiniteSet(U) /\ Cardinality(U) = Cardinality(S) + 1
      BY <1>1, <1>2, <2>2, FS_AddElement, Zenon
    <3>2. QED
      BY <1>1, <3>1
  <2>3. QED
    BY <2>1, <2>2
<1>4. Cardinality(T) <= Cardinality(U) /\ Cardinality(U) \in Nat
  BY <1>2, <1>3, FS_Subset, FS_CardinalityType
<1>5. QED
  BY <1>1, <1>3, <1>4

(* A set with one monitor less has one less at least.                        *)
LEMMA OneLess ==
  ASSUME NEW S \in SUBSET Monitors, NEW T \in SUBSET Monitors, NEW j \in S, T \subseteq S \ {j}
  PROVE  Cardinality(T) + 1 <= Cardinality(S)
<1>1. IsFiniteSet(S) /\ Cardinality(S) \in Nat /\ Cardinality(T) \in Nat
  BY FiniteMonitors
<1>2. IsFiniteSet(S \ {j}) /\ Cardinality(S \ {j}) = Cardinality(S) - 1
  BY <1>1, FS_RemoveElement
<1>3. Cardinality(T) <= Cardinality(S \ {j})
  BY <1>2, FS_Subset
<1>4. QED
  BY <1>1, <1>2, <1>3

(* A step of one call leaves the counts alone when it counts nobody anew.    *)
LEMMA CountStays ==
  ASSUME UserTypes, Count, NEW n \in Nat, NEW m \in Nat, refCnt' = refCnt + n, calls' = calls + m,
         Counted' \subseteq Monitors, Pending' \subseteq Monitors,
         Cardinality(Counted') <= Cardinality(Counted) + n,
         Cardinality(Pending') + n <= Cardinality(Pending) + m
  PROVE  Count'
<1>1. Counted \subseteq Monitors /\ Pending \subseteq Monitors
  BY DEF UserTypes, Counted, Pending
<1>2. /\ Cardinality(Counted) \in Nat /\ Cardinality(Counted') \in Nat
      /\ Cardinality(Pending) \in Nat /\ Cardinality(Pending') \in Nat
  BY <1>1, FiniteMonitors
<1>3. refCnt \in Nat /\ calls \in Nat /\ refCnt' \in Nat /\ calls' \in Nat
  BY DEF UserTypes
<1>4. QED
  BY <1>2, <1>3 DEF Count

(* The count holds on when users only become fewer than it says.             *)
LEMMA CountFrame ==
  ASSUME UserTypes, Count, UNCHANGED <<refCnt, calls>>,
         started' \subseteq Monitors, Counted' \subseteq Counted, Pending' \subseteq Pending
  PROVE  Count'
<1>1. Counted \subseteq Monitors /\ Pending \subseteq Monitors
  BY DEF UserTypes, Counted, Pending
<1>2. Cardinality(Counted') <= Cardinality(Counted) /\ Cardinality(Pending') <= Cardinality(Pending)
  BY <1>1, FiniteMonitors, FS_Subset
<1>3. /\ Cardinality(Counted) \in Nat /\ Cardinality(Counted') \in Nat
      /\ Cardinality(Pending) \in Nat /\ Cardinality(Pending') \in Nat
      /\ refCnt \in Nat /\ calls \in Nat
  BY <1>1, FiniteMonitors DEF UserTypes
<1>4. QED
  BY <1>2, <1>3 DEF Count

(* A step within a function, to the next, or back from the last.             *)
LEMMA MoveStep ==
  ASSUME UserTypes, Users, NEW t \in Threads, NEW l \in Labels, NEW s \in Todos,
         pc' = [pc EXCEPT ![t] = l], todo' = [todo EXCEPT ![t] = s],
         UNCHANGED <<refCnt, calls, started, subscribed, handles, unlucky>>,
         l # "idle" => s # <<>> /\ Head(s).fn = FnOf(l),
         \A k \in Monitors : s = StartOf(k) \/ s = StopOf(k) => s = todo[t],
         l \in SetUp <=> pc[t] \in SetUp,
         \A k \in Monitors : s = StartOf(k) /\ l \in {"idle", "start"} => pc[t] \in {"idle", "start"},
         \A k \in Monitors : s = StopOf(k) /\ l \in {"idle", "stop"} => pc[t] \in {"idle", "stop"},
         l = "unsubscribe" => refCnt = 0,
         l \in SetUp /\ l # "subscribe" /\ ~unlucky => subscribed
  PROVE  Users' /\ UserTypes'
<1>1. /\ UserTypes'
      /\ pc'[t] = l /\ todo'[t] = s
      /\ \A u \in Threads \ {t} : pc'[u] = pc[u] /\ todo'[u] = todo[u]
  BY DEF UserTypes
<1>2. \A u \in Threads, k \in Monitors : Starting(u, k)' \/ Stopping(u, k)' => todo'[u] = todo[u]
  BY <1>1 DEF Starting, Stopping
<1>3. Shape'
  <2>1. \A u \in Threads : pc'[u] # "idle" => todo'[u] # <<>> /\ Head(todo'[u]).fn = FnOf(pc'[u])
    BY <1>1 DEF Users, Shape
  <2>2. \A u \in Threads, k \in Monitors : /\ Starting(u, k)' => Starting(u, k)
                                           /\ Stopping(u, k)' => Stopping(u, k)
    BY <1>2 DEF Starting, Stopping
  <2>3. QED
    BY <2>1, <2>2 DEF Users, Shape
<1>4. Count'
  <2>1. \A u \in Threads, k \in Monitors : /\ Counts(u, k)' => Counts(u, k)
                                           /\ WillCount(u, k)' => WillCount(u, k)
    <3> SUFFICES ASSUME NEW u \in Threads, NEW k \in Monitors
                 PROVE  /\ Counts(u, k)' => Counts(u, k)
                        /\ WillCount(u, k)' => WillCount(u, k)
      OBVIOUS
    <3>1. CASE u # t
      BY <1>1, <3>1 DEF Counts, WillCount, Starting, Stopping
    <3>2. CASE u = t
      BY <1>1, <3>2 DEF Counts, WillCount, Starting, Stopping
    <3>3. QED
      BY <3>1, <3>2
  <2>2. Counted' \subseteq Counted /\ Pending' \subseteq Pending
    BY <2>1 DEF Counted, Pending
  <2>3. QED
    BY <1>1, <2>2, CountFrame DEF Users, UserTypes
<1>5. Subscribed'
  <2>1. \A u \in Threads : pc'[u] \in SetUp <=> pc[u] \in SetUp
    BY <1>1
  <2>2. \A u \in Threads : pc'[u] = "unsubscribe" => pc[u] = "unsubscribe" \/ refCnt = 0
    BY <1>1
  <2>3. \A u \in Threads : pc'[u] \in SetUp \ {"subscribe"} /\ ~unlucky =>
          pc[u] \in SetUp \ {"subscribe"} \/ subscribed
    BY <1>1
  <2>4. QED
    BY <2>1, <2>2, <2>3 DEF Users, Subscribed
<1>6. QED
  BY <1>1, <1>3, <1>4, <1>5 DEF Users

(* What leaves all of that alone.                                            *)
UsersFrame ==
  UNCHANGED <<todo, pc, refCnt, calls, started, subscribed, handles, unlucky>>

(* A step that leaves the users' variables alone keeps their invariant.      *)
LEMMA UsersStay ==
  ASSUME UserTypes, Users, UsersFrame
  PROVE  UserTypes' /\ Users'
BY DEF UsersFrame, UserTypes, Users, Shape, Count, Counted, Pending, Counts, WillCount, Starting,
       Stopping, Subscribed

(* A call of a monitor begins: a start will be counted, a stop still is.     *)
LEMMA CallUsers ==
  ASSUME UserTypes, Users, NEW t \in Threads, Call(t)
  PROVE  UserTypes' /\ Users'
<1>1. /\ pc[t] = "idle" /\ todo[t] = <<>> /\ calls < MaxCalls
      /\ UNCHANGED <<refCnt, subscribed, handles, unlucky, pc>> /\ calls' = calls + 1
  BY DEF Call
<1>2. PICK s \in Todos :
        /\ todo' = [todo EXCEPT ![t] = s]
        /\ \/ /\ started' = started
              /\ \A k \in Monitors : s = StartOf(k) =>
                   /\ k \notin started
                   /\ \A u \in Threads : /\ Fn("register", k) \notin ToSet(todo[u])
                                         /\ Fn("unregister", k) \notin ToSet(todo[u])
              /\ \A k \in Monitors : s # StopOf(k)
           \/ \E k \in started : s = StopOf(k) /\ started' = started \ {k}
  <2>1. CASE \E k \in Monitors \ started :
               /\ \A u \in Threads : Fn("register", k) \notin ToSet(todo[u])
               /\ \A u \in Threads : Fn("unregister", k) \notin ToSet(todo[u])
               /\ todo' = [todo EXCEPT ![t] = <<Fn("start", k), Fn("register", k)>>]
               /\ UNCHANGED started
    <3>1. PICK k \in Monitors \ started :
            /\ \A u \in Threads : Fn("register", k) \notin ToSet(todo[u])
            /\ \A u \in Threads : Fn("unregister", k) \notin ToSet(todo[u])
            /\ todo' = [todo EXCEPT ![t] = <<Fn("start", k), Fn("register", k)>>]
            /\ UNCHANGED started
      BY <2>1
    <3>2. StartOf(k) \in Todos /\ \A j \in Monitors : StartOf(j) = StartOf(k) => j = k
      BY DEF Todos, StartOf, Fn
    <3>3. \A j \in Monitors : StartOf(k) # StopOf(j)
      BY DEF StartOf, StopOf, Fn
    <3>4. QED
      BY <3>1, <3>2, <3>3 DEF StartOf
  <2>2. CASE \E k \in started :
               /\ callback[k] # NoOne
               /\ todo' = [todo EXCEPT ![t] = <<Fn("stop", k), Fn("flush_all", k), Fn("unregister", k)>>]
               /\ started' = started \ {k}
    <3>1. PICK k \in started :
            /\ todo' = [todo EXCEPT ![t] = StopOf(k)]
            /\ started' = started \ {k}
      BY <2>2 DEF StopOf
    <3>2. StopOf(k) \in Todos
      BY DEF UserTypes, Todos
    <3>3. QED
      BY <3>1, <3>2
  <2>3. CASE todo' = [todo EXCEPT ![t] = <<Fn("flush_all", NoOne)>>] /\ UNCHANGED started
    <3>1. <<Fn("flush_all", NoOne)>> \in Todos
      BY DEF Todos
    <3>2. \A k : <<Fn("flush_all", NoOne)>> # StartOf(k) /\ <<Fn("flush_all", NoOne)>> # StopOf(k)
      BY DEF StartOf, StopOf
    <3>3. QED
      BY <2>3, <3>1, <3>2
  <2>4. CASE \E n \in BufferSizes :
               todo' = [todo EXCEPT ![t] = <<Fn("set_buffer_size", n)>>] /\ UNCHANGED started
    <3>1. PICK n \in BufferSizes :
            todo' = [todo EXCEPT ![t] = <<Fn("set_buffer_size", n)>>] /\ UNCHANGED started
      BY <2>4
    <3>2. <<Fn("set_buffer_size", n)>> \in Todos
      BY DEF Todos
    <3>3. \A k : <<Fn("set_buffer_size", n)>> # StartOf(k) /\ <<Fn("set_buffer_size", n)>> # StopOf(k)
      BY DEF StartOf, StopOf
    <3>4. QED
      BY <3>1, <3>2, <3>3
  <2>5. QED
    BY <2>1, <2>2, <2>3, <2>4 DEF Call
<1>3. /\ todo'[t] = s /\ \A u \in Threads \ {t} : todo'[u] = todo[u]
      /\ todo' \in [Threads -> Todos] /\ calls' \in 0 .. MaxCalls /\ started' \subseteq started
  BY <1>1, <1>2, PythonAdapterAssumption DEF UserTypes
<1>4. UserTypes'
  BY <1>1, <1>3 DEF UserTypes
<1>5. \A u \in Threads \ {t}, k \in Monitors :
        /\ Starting(u, k)' <=> Starting(u, k)
        /\ Stopping(u, k)' <=> Stopping(u, k)
  BY <1>3 DEF Starting, Stopping
<1>6. \A k \in Monitors : ~Starting(t, k) /\ ~Stopping(t, k)
  BY <1>1 DEF Starting, Stopping, StartOf, StopOf
<1>7. \A k \in Monitors, u \in Threads : s = StartOf(k) => ~Starting(u, k) /\ ~Stopping(u, k)
  <2> SUFFICES ASSUME NEW k \in Monitors, NEW u \in Threads, s = StartOf(k)
               PROVE  ~Starting(u, k) /\ ~Stopping(u, k)
    OBVIOUS
  <2>1. StartOf(k) # StopOf(k)
    BY DEF StartOf, StopOf, Fn
  <2>2. \/ \A v \in Threads : /\ Fn("register", k) \notin ToSet(todo[v])
                              /\ Fn("unregister", k) \notin ToSet(todo[v])
        \/ \E j \in started : s = StopOf(j)
    BY <1>2
  <2>3. \A j : StartOf(k) # StopOf(j)
    BY DEF StartOf, StopOf, Fn
  <2>4. /\ Fn("register", k) \notin ToSet(todo[u])
        /\ Fn("unregister", k) \notin ToSet(todo[u])
    BY <2>2, <2>3
  <2>5. Fn("register", k) \in ToSet(StartOf(k))
    BY DEF ToSet, StartOf
  <2>6. Fn("unregister", k) \in ToSet(StopOf(k))
    BY DEF ToSet, StopOf
  <2>7. QED
    BY <2>4, <2>5, <2>6 DEF Starting, Stopping
<1>8. Shape'
  <2>1. \A u \in Threads : pc'[u] # "idle" => todo'[u] # <<>> /\ Head(todo'[u]).fn = FnOf(pc'[u])
    BY <1>1, <1>3 DEF Users, Shape
  <2>2. ASSUME NEW u \in Threads, NEW k \in Monitors, Starting(u, k)' \/ Stopping(u, k)'
        PROVE  /\ k \notin started'
               /\ \A v \in Threads : Starting(v, k)' \/ Stopping(v, k)' => v = u
    <3>1. CASE s = StartOf(k)
      <4>1. \A j : s # StopOf(j)
        BY <3>1 DEF StartOf, StopOf, Fn
      <4>2. k \notin started'
        BY <1>2, <3>1, <4>1
      <4>3. \A v \in Threads \ {t} : ~Starting(v, k)' /\ ~Stopping(v, k)'
        BY <1>5, <1>7, <3>1
      <4>4. QED
        BY <2>2, <4>2, <4>3
    <3>2. CASE s = StopOf(k)
      <4>1. k \in started /\ started' = started \ {k}
        <5>1. \A j : StopOf(j) = StopOf(k) => j = k
          BY DEF StopOf, Fn
        <5>2. QED
          BY <1>2, <3>2, <5>1
      <4>2. \A v \in Threads : ~Starting(v, k) /\ ~Stopping(v, k)
        BY <4>1 DEF Users, Shape
      <4>3. QED
        BY <1>5, <2>2, <4>1, <4>2
    <3>3. CASE s # StartOf(k) /\ s # StopOf(k)
      <4>1. \A v \in Threads : Starting(v, k)' \/ Stopping(v, k)' =>
              v # t /\ (Starting(v, k) \/ Stopping(v, k))
        BY <1>3, <1>5, <3>3 DEF Starting, Stopping
      <4>2. QED
        BY <1>3, <2>2, <4>1 DEF Users, Shape
    <3>4. QED
      BY <3>1, <3>2, <3>3
  <2>3. QED
    BY <2>1, <2>2 DEF Shape
<1>9. Count'
  <2>1. \A u \in Threads \ {t}, k \in Monitors : /\ Counts(u, k)' <=> Counts(u, k)
                                                 /\ WillCount(u, k)' <=> WillCount(u, k)
    BY <1>1, <1>5 DEF Counts, WillCount
  <2>2. \A k \in Monitors : Counts(t, k)' => k \in started
    <3>1. \A k \in Monitors : Counts(t, k)' => s = StopOf(k)
      BY <1>1, <1>3 DEF Counts, Starting, Stopping, SetUp
    <3>2. \A j, k \in Monitors : StopOf(j) = StopOf(k) => j = k
      BY DEF StopOf, Fn
    <3>3. QED
      BY <1>2, <3>1, <3>2 DEF UserTypes
  <2>3. Counted' \subseteq Counted
    BY <1>3, <2>1, <2>2 DEF Counted
  <2>4. PICK j : \A k \in Monitors : WillCount(t, k)' => k = j
    <3>1. \A j, k \in Monitors : StartOf(j) = StartOf(k) => j = k
      BY DEF StartOf, Fn
    <3>2. QED
      BY <1>3, <3>1 DEF WillCount, Starting
  <2>5. Pending' \subseteq Pending \cup {j}
    BY <2>1, <2>4 DEF Pending
  <2>6. Counted \subseteq Monitors /\ Pending \subseteq Monitors /\ Pending' \subseteq Monitors
    BY DEF UserTypes, Counted, Pending
  <2>7. IsFiniteSet(Counted) /\ IsFiniteSet(Pending)
    BY <2>6, FiniteMonitors
  <2>8. Cardinality(Counted') <= Cardinality(Counted)
    BY <2>3, <2>7, FS_Subset
  <2>9. Cardinality(Pending') <= Cardinality(Pending) + 1
    BY <2>5, <2>6, OneMore
  <2>10. /\ refCnt' = refCnt + 0 /\ calls' = calls + 1
         /\ Cardinality(Counted') <= Cardinality(Counted) + 0
         /\ Cardinality(Pending') + 0 <= Cardinality(Pending) + 1
    <3>1. /\ Cardinality(Counted) \in Nat /\ Cardinality(Counted') \in Nat
          /\ Cardinality(Pending) \in Nat /\ Cardinality(Pending') \in Nat /\ refCnt \in Nat
      BY <2>3, <2>6, FiniteMonitors DEF UserTypes
    <3>2. QED
      BY <1>1, <2>8, <2>9, <3>1
  <2>11. Counted' \subseteq Monitors /\ Pending' \subseteq Monitors
    BY <2>3, <2>6
  <2>12. Count
    BY DEF Users
  <2>13. QED
    BY <2>10, <2>11, <2>12, CountStays
<1>10. Subscribed'
  BY <1>1 DEF Users, Subscribed
<1>11. QED
  BY <1>4, <1>8, <1>9, <1>10 DEF Users

(* The function that a call is in.                                           *)
LEMMA AtHead ==
  ASSUME UserTypes, Users, NEW t \in Threads, pc[t] # "idle"
  PROVE  /\ todo[t] \in Todos /\ todo[t] # <<>> /\ Head(todo[t]).fn = FnOf(pc[t])
         /\ FnOf(pc[t]) = "start" =>
              Head(todo[t]).arg \in Monitors /\ Starting(t, Head(todo[t]).arg)
         /\ FnOf(pc[t]) = "stop" =>
              Head(todo[t]).arg \in Monitors /\ Stopping(t, Head(todo[t]).arg)
         /\ \A k : Starting(t, k) => FnOf(pc[t]) = "start" /\ k = Head(todo[t]).arg
         /\ \A k : Stopping(t, k) => FnOf(pc[t]) = "stop" /\ k = Head(todo[t]).arg
         /\ Tail(todo[t]) \in Todos
         /\ \A k : Tail(todo[t]) # StartOf(k) /\ Tail(todo[t]) # StopOf(k)
<1>1. todo[t] \in Todos /\ todo[t] # <<>> /\ Head(todo[t]).fn = FnOf(pc[t])
  BY DEF UserTypes, Users, Shape
<1>2. QED
  BY <1>1, TodoFacts DEF Starting, Stopping

(* What one call's move leaves alone.                                        *)
LEMMA Moves ==
  ASSUME UserTypes, NEW t \in Threads, NEW l \in Labels, NEW s \in Todos,
         pc' = [pc EXCEPT ![t] = l], todo' = [todo EXCEPT ![t] = s]
  PROVE  /\ pc' \in [Threads -> Labels] /\ todo' \in [Threads -> Todos]
         /\ pc'[t] = l /\ todo'[t] = s
         /\ \A u \in Threads \ {t} : pc'[u] = pc[u] /\ todo'[u] = todo[u]
         /\ \A u \in Threads \ {t}, k \in Monitors :
              /\ Starting(u, k)' <=> Starting(u, k)
              /\ Stopping(u, k)' <=> Stopping(u, k)
              /\ Counts(u, k)' <=> Counts(u, k)
              /\ WillCount(u, k)' <=> WillCount(u, k)
<1>1. /\ pc' \in [Threads -> Labels] /\ todo' \in [Threads -> Todos]
      /\ pc'[t] = l /\ todo'[t] = s
      /\ \A u \in Threads \ {t} : pc'[u] = pc[u] /\ todo'[u] = todo[u]
  BY DEF UserTypes
<1>2. QED
  BY <1>1 DEF Starting, Stopping, Counts, WillCount

(* The one call of a monitor moves on within it, or is done with it.         *)
LEMMA ShapeMoves ==
  ASSUME UserTypes, Users, NEW t \in Threads, NEW l \in Labels, NEW s \in Todos,
         pc' = [pc EXCEPT ![t] = l], todo' = [todo EXCEPT ![t] = s],
         l # "idle" => s # <<>> /\ Head(s).fn = FnOf(l),
         \/ s = todo[t] /\ started' = started
         \/ /\ \A k \in Monitors : s # StartOf(k) /\ s # StopOf(k)
            /\ \A k \in started' \ started : Starting(t, k)
  PROVE  Shape'
<1>1. /\ pc'[t] = l /\ todo'[t] = s
      /\ \A u \in Threads \ {t} : pc'[u] = pc[u] /\ todo'[u] = todo[u]
      /\ \A u \in Threads \ {t}, k \in Monitors :
           /\ Starting(u, k)' <=> Starting(u, k)
           /\ Stopping(u, k)' <=> Stopping(u, k)
  BY Moves
<1>2. \A u \in Threads : pc'[u] # "idle" => todo'[u] # <<>> /\ Head(todo'[u]).fn = FnOf(pc'[u])
  BY <1>1 DEF Users, Shape
<1>3. CASE s = todo[t] /\ started' = started
  <2>1. \A u \in Threads, k \in Monitors : /\ Starting(u, k)' <=> Starting(u, k)
                                           /\ Stopping(u, k)' <=> Stopping(u, k)
    BY <1>1, <1>3 DEF Starting, Stopping
  <2>2. QED
    BY <1>2, <1>3, <2>1 DEF Users, Shape
<1>4. CASE /\ \A k \in Monitors : s # StartOf(k) /\ s # StopOf(k)
           /\ \A k \in started' \ started : Starting(t, k)
  <2>1. \A u \in Threads, k \in Monitors :
          Starting(u, k)' \/ Stopping(u, k)' => u # t /\ (Starting(u, k) \/ Stopping(u, k))
    BY <1>1, <1>4 DEF Starting, Stopping
  <2>2. \A u \in Threads, k \in Monitors : Starting(u, k)' \/ Stopping(u, k)' => k \notin started'
    BY <1>4, <2>1 DEF Users, Shape
  <2>3. QED
    BY <1>2, <2>1, <2>2 DEF Users, Shape
<1>5. QED
  BY <1>3, <1>4

(* A thread that sets the library up is counted.                             *)
LEMMA SetUpCounts ==
  ASSUME UserTypes, Users, NEW t \in Threads, pc[t] \in SetUp \/ pc[t] = "stop"
  PROVE  refCnt > 0
<1>1. PICK k \in Monitors : Counts(t, k)
  BY AtHead DEF Counts, FnOf, SetUp
<1>2. k \in Counted /\ Counted \in SUBSET Monitors
  BY <1>1 DEF Counted, UserTypes
<1>3. Cardinality({}) + 1 <= Cardinality(Counted) /\ Cardinality({}) = 0
  BY <1>2, OneLess, FS_EmptySet
<1>4. Cardinality(Counted) \in Nat /\ refCnt \in Nat
  BY <1>2, FiniteMonitors DEF UserTypes
<1>5. QED
  BY <1>3, <1>4 DEF Users, Count

(* The first user sets the library up.                                       *)
LEMMA CountUserUsers ==
  ASSUME UserTypes, Users, NEW t \in Threads, CountUser(t)
  PROVE  UserTypes' /\ Users'
<1>1. PICK k : k = Head(todo[t]).arg
  OBVIOUS
<1>2. /\ pc[t] = "start" /\ refCnt' = refCnt + 1
      /\ UNCHANGED <<calls, subscribed, handles>>
      /\ unlucky' = (unlucky \/ \E u \in Threads : pc[u] = "unsubscribe")
  BY DEF CountUser, Goto, Return
<1>3. /\ k \in Monitors /\ Starting(t, k) /\ todo[t] \in Todos /\ todo[t] # <<>>
      /\ Head(todo[t]).fn = "start" /\ Tail(todo[t]) \in Todos
      /\ \A j : Tail(todo[t]) # StartOf(j) /\ Tail(todo[t]) # StopOf(j)
      /\ \A j : Starting(t, j) => j = k
      /\ \A j : ~Stopping(t, j)
  BY <1>1, <1>2, AtHead DEF FnOf, SetUp
<1>4. PICK l \in Labels, s \in Todos :
        /\ pc' = [pc EXCEPT ![t] = l] /\ todo' = [todo EXCEPT ![t] = s]
        /\ \/ refCnt = 0 /\ l = "subscribe" /\ s = todo[t] /\ started' = started
           \/ refCnt # 0 /\ l = "idle" /\ s = Tail(todo[t]) /\ started' = started \cup {k}
  <2>1. CASE refCnt = 0
    <3>1. todo' = [todo EXCEPT ![t] = todo[t]] /\ pc' = [pc EXCEPT ![t] = "subscribe"]
          /\ "subscribe" \in Labels /\ started' = started
      BY <2>1 DEF CountUser, Goto, Labels, SetUp, UserTypes
    <3>2. QED
      BY <1>3, <2>1, <3>1
  <2>2. CASE refCnt # 0
    <3>1. todo' = [todo EXCEPT ![t] = Tail(todo[t])] /\ pc' = [pc EXCEPT ![t] = "idle"]
          /\ "idle" \in Labels /\ started' = started \cup {k}
      BY <1>1, <2>2 DEF CountUser, Return, Labels
    <3>2. QED
      BY <1>3, <2>2, <3>1
  <2>3. QED
    BY <2>1, <2>2
<1>5. /\ pc' \in [Threads -> Labels] /\ todo' \in [Threads -> Todos]
      /\ pc'[t] = l /\ todo'[t] = s
      /\ \A u \in Threads \ {t} : pc'[u] = pc[u] /\ todo'[u] = todo[u]
      /\ \A u \in Threads \ {t}, j \in Monitors : /\ Counts(u, j)' <=> Counts(u, j)
                                                  /\ WillCount(u, j)' <=> WillCount(u, j)
  BY <1>4, Moves
<1>6. UserTypes'
  <2>1. unlucky' \in BOOLEAN
    <3>1. (\E u \in Threads : pc[u] = "unsubscribe") \in BOOLEAN
      OBVIOUS
    <3>2. QED
      BY <1>2, <3>1 DEF UserTypes
  <2>2. QED
    BY <1>2, <1>3, <1>4, <1>5, <2>1 DEF UserTypes
<1>7. Shape'
  <2>1. l # "idle" => s # <<>> /\ Head(s).fn = FnOf(l)
    BY <1>3, <1>4 DEF FnOf, SetUp
  <2>2. \/ s = todo[t] /\ started' = started
        \/ /\ \A j \in Monitors : s # StartOf(j) /\ s # StopOf(j)
           /\ \A j \in started' \ started : Starting(t, j)
    BY <1>3, <1>4
  <2>3. QED
    BY <1>4, <2>1, <2>2, ShapeMoves
<1>8. Count'
  <2>1. \A j \in Monitors : ~WillCount(t, j)' /\ (Counts(t, j)' => j = k)
    BY <1>3, <1>4, <1>5 DEF WillCount, Counts, Starting, Stopping, SetUp
  <2>2. \A u \in Threads : WillCount(u, k) => u = t
    BY <1>3 DEF Users, Shape, WillCount
  <2>3. Pending' \subseteq Pending \ {k} /\ k \in Pending
    <3>1. WillCount(t, k)
      BY <1>2, <1>3 DEF WillCount
    <3>2. QED
      BY <1>3, <1>5, <2>1, <2>2, <3>1 DEF Pending
  <2>4. Counted' \subseteq Counted \cup {k}
    BY <1>4, <1>5, <2>1 DEF Counted
  <2>5. /\ Counted \in SUBSET Monitors /\ Pending \in SUBSET Monitors
        /\ Counted' \in SUBSET Monitors /\ Pending' \in SUBSET Monitors
    BY <1>3, <2>3, <2>4 DEF UserTypes, Counted, Pending
  <2>6. Cardinality(Counted') <= Cardinality(Counted) + 1
    BY <2>4, <2>5, OneMore
  <2>7. Cardinality(Pending') + 1 <= Cardinality(Pending)
    BY <2>3, <2>5, OneLess
  <2>8. Cardinality(Pending') + 1 <= Cardinality(Pending) + 0 /\ calls' = calls + 0
    BY <1>2, <2>5, <2>7, FiniteMonitors DEF UserTypes
  <2>9. QED
    BY <1>2, <2>5, <2>6, <2>8, CountStays DEF Users
<1>9. Subscribed'
  <2>1. CASE refCnt = 0
    <3>1. l = "subscribe"
      BY <1>4, <2>1
    <3>2. \A u \in Threads : pc[u] \notin SetUp
      BY <2>1, SetUpCounts
    <3>3. \A u \in Threads : pc'[u] \in SetUp => u = t /\ pc'[u] = "subscribe"
      BY <1>5, <3>1, <3>2
    <3>4. ~unlucky' => \A u \in Threads : pc'[u] # "unsubscribe"
      BY <1>2, <1>5, <3>1
    <3>5. pc'[t] \in SetUp
      BY <1>5, <3>1 DEF SetUp
    <3>6. QED
      BY <3>3, <3>4, <3>5 DEF Subscribed
  <2>2. CASE refCnt # 0
    <3>1. l = "idle" /\ refCnt > 0
      BY <1>4, <2>2 DEF UserTypes
    <3>2. \A u \in Threads : pc'[u] \in SetUp <=> pc[u] \in SetUp
      BY <1>2, <1>5, <3>1 DEF SetUp
    <3>3. ~unlucky' => ~unlucky /\ \A u \in Threads : pc'[u] # "unsubscribe"
      BY <1>2, <1>5, <3>1
    <3>4. \A u \in Threads : pc'[u] \in SetUp => pc'[u] = pc[u]
      BY <1>5, <3>1 DEF SetUp
    <3>5. QED
      BY <1>2, <3>1, <3>2, <3>3, <3>4 DEF Users, Subscribed
  <2>3. QED
    BY <2>1, <2>2
<1>10. QED
  BY <1>6, <1>7, <1>8, <1>9 DEF Users

(* A call goes on in its function, which neither counts nor sets anything.   *)
LEMMA GotoUsers ==
  ASSUME UserTypes, Users, NEW t \in Threads, NEW l \in Labels, Goto(t, l),
         pc[t] # "idle", l \notin {"idle", "start", "stop", "subscribe"}, FnOf(l) = FnOf(pc[t]),
         UNCHANGED <<refCnt, started, subscribed, handles, unlucky>>,
         l \in SetUp <=> pc[t] \in SetUp,
         l = "unsubscribe" => refCnt = 0,
         l \in SetUp /\ ~unlucky => subscribed
  PROVE  UserTypes' /\ Users'
<1>1. PICK s : s = todo[t]
  OBVIOUS
<1>2. /\ pc' = [pc EXCEPT ![t] = l] /\ todo' = [todo EXCEPT ![t] = s] /\ calls' = calls
      /\ s \in Todos
  BY <1>1 DEF Goto, UserTypes
<1>3. s # <<>> /\ Head(s).fn = FnOf(l)
  BY <1>1, AtHead
<1>4. QED
  BY <1>1, <1>2, <1>3, MoveStep

(* A call that returns from a place where it counts nothing keeps it.        *)
LEMMA ReturnUsers ==
  ASSUME UserTypes, Users, NEW t \in Threads, Return(t),
         pc[t] \notin {"idle", "start"} \cup SetUp,
         UNCHANGED <<refCnt, started, subscribed, handles, unlucky>>
  PROVE  UserTypes' /\ Users'
<1>1. PICK s : s = Tail(todo[t])
  OBVIOUS
<1>2. PICK l : l = "idle"
  OBVIOUS
<1>3. /\ pc' = [pc EXCEPT ![t] = l] /\ todo' = [todo EXCEPT ![t] = s] /\ calls' = calls
  BY <1>1, <1>2 DEF Return
<1>4. s \in Todos /\ \A k \in Monitors : s # StartOf(k) /\ s # StopOf(k)
  BY <1>1, AtHead
<1>5. l \in Labels /\ l \notin SetUp
  BY <1>2 DEF Labels, SetUp
<1>6. /\ l # "idle" => s # <<>> /\ Head(s).fn = FnOf(l)
      /\ l \in SetUp <=> pc[t] \in SetUp
      /\ l = "unsubscribe" => refCnt = 0
      /\ l \in SetUp /\ l # "subscribe" /\ ~unlucky => subscribed
  BY <1>2, <1>5
<1>7. /\ \A k \in Monitors : s = StartOf(k) \/ s = StopOf(k) => s = todo[t]
      /\ \A k \in Monitors : s = StartOf(k) /\ l \in {"idle", "start"} => pc[t] \in {"idle", "start"}
      /\ \A k \in Monitors : s = StopOf(k) /\ l \in {"idle", "stop"} => pc[t] \in {"idle", "stop"}
  BY <1>4
<1>8. QED
  BY <1>3, <1>4, <1>5, <1>6, <1>7, MoveStep

(* A call that begins is at its first place, and what it will count is as    *)
(* before.                                                                   *)
LEMMA BeginUsers ==
  ASSUME UserTypes, Users, NEW t \in Threads, Begin(t)
  PROVE  UserTypes' /\ Users'
<1>1. PICK s : s = todo[t]
  OBVIOUS
<1>2. PICK l : l = Head(todo[t]).fn
  OBVIOUS
<1>3. /\ pc[t] = "idle" /\ s # <<>> /\ s \in Todos
      /\ pc' = [pc EXCEPT ![t] = l] /\ todo' = [todo EXCEPT ![t] = s]
      /\ UNCHANGED <<refCnt, calls, started, subscribed, handles, unlucky>>
  BY <1>1, <1>2 DEF Begin, Goto, userVars, UserTypes
<1>4. l \in {"start", "stop", "register", "unregister", "flush_all", "set_buffer_size"}
  BY <1>1, <1>2, <1>3, TodoFacts
<1>5. l \in Labels /\ FnOf(l) = l /\ l \notin SetUp /\ l # "unsubscribe" /\ l # "idle" /\ pc[t] \notin SetUp
  BY <1>3, <1>4 DEF Labels, FnOf, SetUp
<1>6. QED
  BY <1>1, <1>2, <1>3, <1>5, MoveStep

(* The subscription succeeds, or the start fails.                            *)
LEMMA SubscribeUsers ==
  ASSUME UserTypes, Users, NEW t \in Threads, Subscribe(t)
  PROVE  UserTypes' /\ Users'
<1>1. pc[t] = "subscribe" /\ UNCHANGED <<refCnt, calls, handles, started>>
  BY DEF Subscribe, Goto, Fail
<1>2. PICK l \in Labels, s \in Todos :
        /\ pc' = [pc EXCEPT ![t] = l] /\ todo' = [todo EXCEPT ![t] = s]
        /\ \/ l = "clear" /\ s = todo[t] /\ subscribed' = TRUE /\ unlucky' = unlucky
           \/ l = "idle" /\ s = <<>> /\ unlucky' = TRUE /\ subscribed' = subscribed
  <2>1. CASE ~subscribed /\ subscribed' = TRUE /\ Goto(t, "clear") /\ UNCHANGED <<unlucky, faults>>
    <3>1. pc' = [pc EXCEPT ![t] = "clear"] /\ todo' = [todo EXCEPT ![t] = todo[t]]
          /\ "clear" \in Labels /\ todo[t] \in Todos
      BY <2>1 DEF Goto, Labels, SetUp, UserTypes
    <3>2. QED
      BY <2>1, <3>1
  <2>2. CASE unlucky' = TRUE /\ Fail(t) /\ UNCHANGED subscribed
    <3>1. pc' = [pc EXCEPT ![t] = "idle"] /\ todo' = [todo EXCEPT ![t] = <<>>]
          /\ "idle" \in Labels /\ <<>> \in Todos
      BY <2>2 DEF Fail, Labels, Todos
    <3>2. QED
      BY <2>2, <3>1
  <2>3. QED
    BY <2>1, <2>2 DEF Subscribe
<1>3. /\ pc' \in [Threads -> Labels] /\ todo' \in [Threads -> Todos]
      /\ pc'[t] = l /\ todo'[t] = s
      /\ \A u \in Threads \ {t} : pc'[u] = pc[u] /\ todo'[u] = todo[u]
      /\ \A u \in Threads \ {t}, j \in Monitors : /\ Counts(u, j)' <=> Counts(u, j)
                                                  /\ WillCount(u, j)' <=> WillCount(u, j)
  BY <1>2, Moves
<1>4. UserTypes'
  BY <1>1, <1>2, <1>3 DEF UserTypes
<1>5. Shape'
  <2>1. l # "idle" => s # <<>> /\ Head(s).fn = FnOf(l)
    BY <1>1, <1>2, AtHead DEF FnOf, SetUp
  <2>2. \/ s = todo[t] /\ started' = started
        \/ /\ \A j \in Monitors : s # StartOf(j) /\ s # StopOf(j)
           /\ \A j \in started' \ started : Starting(t, j)
    BY <1>1, <1>2 DEF StartOf, StopOf
  <2>3. QED
    BY <1>2, <2>1, <2>2, ShapeMoves
<1>6. Count'
  <2>1. \A j \in Monitors : ~WillCount(t, j)' /\ (Counts(t, j)' => Counts(t, j))
    <3>1. CASE l = "clear"
      BY <1>1, <1>2, <1>3, <3>1 DEF WillCount, Counts, Starting, Stopping, SetUp
    <3>2. CASE l = "idle"
      BY <1>2, <1>3, <3>2 DEF WillCount, Counts, Starting, Stopping, StartOf, StopOf
    <3>3. QED
      BY <1>2, <3>1, <3>2
  <2>2. Counted' \subseteq Counted /\ Pending' \subseteq Pending
    BY <1>1, <1>3, <2>1 DEF Counted, Pending
  <2>3. QED
    BY <1>1, <2>2, CountFrame DEF Users, UserTypes
<1>7. Subscribed'
  <2>1. \A u \in Threads : pc[u] \in SetUp => u = t
    BY <1>1 DEF Users, Subscribed, SetUp
  <2>2. \A u \in Threads : pc'[u] \in SetUp => u = t
    BY <1>3, <2>1
  <2>3. CASE l = "clear"
    <3>1. \A u \in Threads : pc'[u] = "unsubscribe" => pc[u] = "unsubscribe"
      BY <1>3, <2>3
    <3>2. pc'[t] \in SetUp
      BY <1>3, <2>3 DEF SetUp
    <3>3. QED
      BY <1>1, <1>2, <2>2, <2>3, <3>1, <3>2 DEF Users, Subscribed
  <2>4. CASE l = "idle"
    BY <1>2, <2>2, <2>4 DEF Subscribed
  <2>5. QED
    BY <1>2, <2>3, <2>4
<1>8. QED
  BY <1>4, <1>5, <1>6, <1>7 DEF Users

(* The library is set up, and the monitor is started.                        *)
LEMMA StartRegistersUsers ==
  ASSUME UserTypes, Users, NEW t \in Threads, StartRegisters(t)
  PROVE  UserTypes' /\ Users'
<1>1. PICK k : k = Head(todo[t]).arg
  OBVIOUS
<1>2. PICK l \in Labels : l = "idle"
  BY DEF Labels
<1>3. PICK s : s = Tail(todo[t])
  OBVIOUS
<1>4. /\ pc[t] = "handles" /\ UNCHANGED <<refCnt, calls, subscribed, unlucky>>
      /\ handles' = TRUE /\ started' = started \cup {k}
      /\ pc' = [pc EXCEPT ![t] = l] /\ todo' = [todo EXCEPT ![t] = s]
  BY <1>1, <1>2, <1>3 DEF StartRegisters, Return
<1>5. k \in Monitors /\ Starting(t, k) /\ s \in Todos
      /\ \A j : s # StartOf(j) /\ s # StopOf(j)
  BY <1>1, <1>3, <1>4, AtHead DEF FnOf, SetUp
<1>6. /\ pc' \in [Threads -> Labels] /\ todo' \in [Threads -> Todos]
      /\ pc'[t] = l /\ todo'[t] = s
      /\ \A u \in Threads \ {t} : pc'[u] = pc[u] /\ todo'[u] = todo[u]
      /\ \A u \in Threads \ {t}, j \in Monitors : /\ Counts(u, j)' <=> Counts(u, j)
                                                  /\ WillCount(u, j)' <=> WillCount(u, j)
  BY <1>4, <1>5, Moves
<1>7. UserTypes'
  BY <1>4, <1>5, <1>6 DEF UserTypes
<1>8. Shape'
  BY <1>2, <1>4, <1>5, ShapeMoves
<1>9. Count'
  <2>1. \A j \in Monitors : ~WillCount(t, j)' /\ ~Counts(t, j)'
    BY <1>5, <1>6 DEF WillCount, Counts, Starting, Stopping
  <2>2. k \in Counted
    BY <1>4, <1>5 DEF Counted, Counts, SetUp
  <2>3. Counted' \subseteq Counted /\ Pending' \subseteq Pending
    BY <1>4, <1>6, <2>1, <2>2 DEF Counted, Pending
  <2>4. QED
    BY <1>4, <1>7, <2>3, CountFrame DEF Users, UserTypes
<1>10. Subscribed'
  <2>1. ~unlucky => subscribed
    BY <1>4 DEF Users, Subscribed, SetUp
  <2>2. \A u \in Threads : pc'[u] \in SetUp \cup {"unsubscribe"} => u # t /\ pc'[u] = pc[u]
    BY <1>2, <1>6 DEF SetUp
  <2>3. QED
    BY <1>4, <2>1, <2>2 DEF Users, Subscribed
<1>11. QED
  BY <1>7, <1>8, <1>9, <1>10 DEF Users

(* A user is counted off, who was counted.                                   *)
LEMMA CountOffUsers ==
  ASSUME UserTypes, Users, NEW t \in Threads, CountOff(t)
  PROVE  UserTypes' /\ Users'
<1>1. PICK k : k = Head(todo[t]).arg
  OBVIOUS
<1>2. PICK l \in Labels : l = "last"
  BY DEF Labels
<1>3. PICK s : s = todo[t]
  OBVIOUS
<1>4. /\ pc[t] = "stop" /\ UNCHANGED <<calls, started, subscribed, handles, unlucky>>
      /\ pc' = [pc EXCEPT ![t] = l] /\ todo' = [todo EXCEPT ![t] = s]
  BY <1>2, <1>3 DEF CountOff, Goto, UserTypes
<1>5. refCnt > 0 /\ refCnt' = refCnt - 1
  <2>1. refCnt > 0
    BY <1>4, SetUpCounts
  <2>2. QED
    BY <2>1 DEF CountOff, UserTypes
<1>6. k \in Monitors /\ Stopping(t, k) /\ s \in Todos /\ s # <<>> /\ Head(s).fn = "stop"
      /\ \A j : ~Starting(t, j) /\ (Stopping(t, j) => j = k)
  BY <1>1, <1>3, <1>4, AtHead DEF FnOf, SetUp
<1>7. /\ pc' \in [Threads -> Labels] /\ todo' \in [Threads -> Todos]
      /\ pc'[t] = l /\ todo'[t] = s
      /\ \A u \in Threads \ {t} : pc'[u] = pc[u] /\ todo'[u] = todo[u]
      /\ \A u \in Threads \ {t}, j \in Monitors : /\ Counts(u, j)' <=> Counts(u, j)
                                                  /\ WillCount(u, j)' <=> WillCount(u, j)
  BY <1>4, <1>6, Moves
<1>8. UserTypes'
  BY <1>4, <1>5, <1>7 DEF UserTypes
<1>9. Shape'
  <2>1. Head(s).fn = FnOf(l)
    BY <1>2, <1>6 DEF FnOf, SetUp
  <2>2. QED
    BY <1>3, <1>4, <1>6, <2>1, ShapeMoves
<1>10. Count'
  <2>1. \A j \in Monitors : ~WillCount(t, j)' /\ ~Counts(t, j)'
    BY <1>2, <1>3, <1>6, <1>7 DEF WillCount, Counts, Starting, Stopping, SetUp
  <2>2. k \in Counted
    BY <1>4, <1>6 DEF Counted, Counts
  <2>3. k \notin started /\ \A u \in Threads : Counts(u, k) => u = t
    BY <1>6 DEF Users, Shape, Counts
  <2>4. Counted' \subseteq Counted \ {k} /\ Pending' \subseteq Pending
    BY <1>4, <1>7, <2>1, <2>3 DEF Counted, Pending
  <2>5. /\ Counted \in SUBSET Monitors /\ Pending \in SUBSET Monitors
        /\ Counted' \in SUBSET Monitors /\ Pending' \in SUBSET Monitors
    BY <2>4 DEF UserTypes, Counted, Pending
  <2>6. Cardinality(Counted') + 1 <= Cardinality(Counted)
    BY <2>2, <2>4, <2>5, OneLess
  <2>7. Cardinality(Pending') <= Cardinality(Pending)
    BY <2>4, <2>5, FiniteMonitors, FS_Subset
  <2>8. /\ Cardinality(Counted) \in Nat /\ Cardinality(Counted') \in Nat
        /\ Cardinality(Pending) \in Nat /\ Cardinality(Pending') \in Nat
        /\ refCnt \in Nat /\ calls \in Nat
    BY <2>5, FiniteMonitors DEF UserTypes
  <2>9. QED
    BY <1>4, <1>5, <2>6, <2>7, <2>8 DEF Users, Count
<1>11. Subscribed'
  <2>1. \A u \in Threads : pc'[u] \in SetUp \cup {"unsubscribe"} => u # t /\ pc'[u] = pc[u]
    BY <1>2, <1>7 DEF SetUp
  <2>2. \A u \in Threads : pc[u] \in SetUp => pc'[u] \in SetUp
    BY <1>4, <1>7 DEF SetUp
  <2>3. refCnt # 0
    BY <1>5 DEF UserTypes
  <2>4. QED
    BY <1>4, <1>5, <2>1, <2>2, <2>3 DEF Users, Subscribed
<1>12. QED
  BY <1>8, <1>9, <1>10, <1>11 DEF Users

(* The last user unsubscribes.                                               *)
LEMMA UnsubscribeUsers ==
  ASSUME UserTypes, Users, NEW t \in Threads, Unsubscribe(t)
  PROVE  UserTypes' /\ Users'
<1>1. PICK l \in Labels : l = "idle"
  BY DEF Labels
<1>2. /\ pc[t] = "unsubscribe" /\ UNCHANGED <<refCnt, calls, handles, started, unlucky>>
      /\ subscribed' = FALSE /\ pc' = [pc EXCEPT ![t] = l]
  BY <1>1 DEF Unsubscribe, Return, Fail
<1>3. PICK s \in Todos : /\ todo' = [todo EXCEPT ![t] = s]
                         /\ \A k \in Monitors : s # StartOf(k) /\ s # StopOf(k)
  <2>1. CASE Return(t)
    <3>1. Tail(todo[t]) \in Todos /\ \A k : Tail(todo[t]) # StartOf(k) /\ Tail(todo[t]) # StopOf(k)
      BY <1>2, AtHead
    <3>2. QED
      BY <2>1, <3>1 DEF Return
  <2>2. CASE Fail(t)
    <3>1. <<>> \in Todos /\ \A k : <<>> # StartOf(k) /\ <<>> # StopOf(k)
      BY DEF Todos, StartOf, StopOf
    <3>2. QED
      BY <2>2, <3>1 DEF Fail
  <2>3. QED
    BY <2>1, <2>2 DEF Unsubscribe
<1>4. /\ pc' \in [Threads -> Labels] /\ todo' \in [Threads -> Todos]
      /\ pc'[t] = l /\ todo'[t] = s
      /\ \A u \in Threads \ {t} : pc'[u] = pc[u] /\ todo'[u] = todo[u]
      /\ \A u \in Threads \ {t}, j \in Monitors : /\ Counts(u, j)' <=> Counts(u, j)
                                                  /\ WillCount(u, j)' <=> WillCount(u, j)
  BY <1>2, <1>3, Moves
<1>5. UserTypes'
  BY <1>2, <1>4 DEF UserTypes
<1>6. Shape'
  BY <1>1, <1>2, <1>3, ShapeMoves
<1>7. Count'
  <2>1. \A j \in Monitors : ~WillCount(t, j)' /\ ~Counts(t, j)'
    BY <1>3, <1>4 DEF WillCount, Counts, Starting, Stopping
  <2>2. Counted' \subseteq Counted /\ Pending' \subseteq Pending
    BY <1>2, <1>4, <2>1 DEF Counted, Pending
  <2>3. QED
    BY <1>2, <1>5, <2>2, CountFrame DEF Users, UserTypes
<1>8. Subscribed'
  <2>1. \A u \in Threads : pc'[u] \in SetUp \cup {"unsubscribe"} => u # t /\ pc'[u] = pc[u]
    BY <1>1, <1>4 DEF SetUp
  <2>2. ~unlucky => refCnt = 0
    BY <1>2 DEF Users, Subscribed
  <2>3. ~unlucky => \A u \in Threads : pc[u] \notin SetUp
    BY <2>2, SetUpCounts
  <2>4. QED
    BY <1>2, <2>1, <2>2, <2>3 DEF Users, Subscribed
<1>9. QED
  BY <1>5, <1>6, <1>7, <1>8 DEF Users

(* The steps of a call that go on or return.                                 *)
LEMMA OtherUsers ==
  ASSUME UserTypes, Users, NEW t \in Threads,
         \/ StartClears(t) \/ StartSetsSize(t) \/ StartSetsPool(t) \/ StopLooks(t)
         \/ FlushLocks(t) \/ FlushCompletes(t) \/ FlushJoins(t) \/ FlushClears(t)
         \/ SetBufferSize(t) \/ RegisterCallback(t) \/ UnregisterCallback(t)
  PROVE  UserTypes' /\ Users'
<1>1. UNCHANGED <<refCnt, started, subscribed, handles, unlucky>>
  BY DEF StartClears, StartSetsSize, StartSetsPool, StopLooks, FlushLocks, FlushCompletes, FlushJoins,
         FlushClears, SetBufferSize, RegisterCallback, UnregisterCallback, userVars
<1>2. pc[t] \in {"clear", "size", "poolSize"} /\ ~unlucky => subscribed
  BY DEF Users, Subscribed, SetUp
<1>3. CASE StartClears(t)
  <2>1. pc[t] = "clear" /\ Goto(t, "size")
    BY <1>3 DEF StartClears
  <2>2. QED
    BY <1>1, <1>2, <2>1, GotoUsers DEF Labels, SetUp, FnOf
<1>4. CASE StartSetsSize(t)
  <2>1. pc[t] = "size" /\ Goto(t, "poolSize")
    BY <1>4 DEF StartSetsSize
  <2>2. QED
    BY <1>1, <1>2, <2>1, GotoUsers DEF Labels, SetUp, FnOf
<1>5. CASE StartSetsPool(t)
  <2>1. pc[t] = "poolSize" /\ Goto(t, "handles")
    BY <1>5 DEF StartSetsPool
  <2>2. QED
    BY <1>1, <1>2, <2>1, GotoUsers DEF Labels, SetUp, FnOf
<1>6. CASE StopLooks(t)
  <2>1. pc[t] = "last" /\ ((refCnt = 0 /\ Goto(t, "unsubscribe")) \/ Return(t))
    BY <1>6 DEF StopLooks, IsLast
  <2>2. CASE refCnt = 0 /\ Goto(t, "unsubscribe")
    BY <1>1, <2>1, <2>2, GotoUsers DEF Labels, SetUp, FnOf
  <2>3. CASE Return(t)
    BY <1>1, <2>1, <2>3, ReturnUsers DEF SetUp
  <2>4. QED
    BY <2>1, <2>2, <2>3
<1>7. CASE FlushLocks(t)
  <2>1. pc[t] = "flush_all" /\ Goto(t, "full")
    BY <1>7 DEF FlushLocks
  <2>2. QED
    BY <1>1, <2>1, GotoUsers DEF Labels, SetUp, FnOf
<1>8. CASE FlushCompletes(t)
  <2>1. pc[t] = "full" /\ (Goto(t, "join") \/ UNCHANGED <<pc, todo, calls>>)
    BY <1>8 DEF FlushCompletes
  <2>2. CASE Goto(t, "join")
    BY <1>1, <2>1, <2>2, GotoUsers DEF Labels, SetUp, FnOf
  <2>3. CASE UNCHANGED <<pc, todo, calls>>
    BY <1>1, <2>3, UsersStay DEF UsersFrame
  <2>4. QED
    BY <2>1, <2>2, <2>3
<1>9. CASE FlushJoins(t)
  <2>1. pc[t] = "join" /\ Goto(t, "flushed")
    BY <1>9 DEF FlushJoins
  <2>2. QED
    BY <1>1, <2>1, GotoUsers DEF Labels, SetUp, FnOf
<1>10. CASE FlushClears(t) \/ SetBufferSize(t) \/ RegisterCallback(t) \/ UnregisterCallback(t)
  <2>1. /\ pc[t] \in {"flushed", "set_buffer_size", "register", "unregister"}
        /\ Return(t)
    BY <1>10 DEF FlushClears, SetBufferSize, RegisterCallback, UnregisterCallback
  <2>2. QED
    BY <1>1, <2>1, ReturnUsers DEF SetUp
<1>11. QED
  BY <1>3, <1>4, <1>5, <1>6, <1>7, <1>8, <1>9, <1>10

(* Every step keeps the invariant of the users.                              *)
LEMMA UsersStep ==
  ASSUME UserTypes, Users, [Next]_vars
  PROVE  UserTypes' /\ Users'
<1>1. CASE UNCHANGED vars \/ Record \/ TakeFull \/ \E x \in Agents : Complete(x)
  <2>1. UNCHANGED <<userVars, callVars>>
    BY <1>1 DEF vars, Record, TakeFull, Complete, AcquireGil, Consume, SwitchThread, CallbackReturns,
           Completed
  <2>2. UsersFrame
    BY <2>1 DEF userVars, callVars, UsersFrame
  <2>3. QED
    BY <2>2, UsersStay
<1>2. ASSUME NEW t \in Threads, Call(t) \/ Step(t)
      PROVE  UserTypes' /\ Users'
  BY <1>2, CallUsers, BeginUsers, CountUserUsers, SubscribeUsers, StartRegistersUsers, CountOffUsers,
     UnsubscribeUsers, OtherUsers DEF Step
<1>3. QED
  BY <1>1, <1>2 DEF Next

(* At the start nobody uses the adapter.                                     *)
LEMMA InitUsers == Init => UserTypes /\ Users
<1> SUFFICES ASSUME Init PROVE UserTypes /\ Users
  OBVIOUS
<1>1. UserTypes
  <2>1. <<>> \in Todos /\ "idle" \in Labels /\ 0 \in 0 .. MaxCalls
    BY PythonAdapterAssumption DEF Todos, Labels
  <2>2. QED
    BY <2>1 DEF Init, UserTypes
<1>2. \A t \in Threads, k \in Monitors : ~Starting(t, k) /\ ~Stopping(t, k)
  BY DEF Init, Starting, Stopping, StartOf, StopOf
<1>3. Shape /\ Subscribed
  BY <1>2 DEF Init, Shape, Subscribed, SetUp
<1>4. Counted = {} /\ Pending = {}
  BY <1>2 DEF Init, Counted, Pending, Counts, WillCount
<1>5. Count
  BY <1>4, FS_EmptySet DEF Init, Count
<1>6. QED
  BY <1>1, <1>3, <1>5 DEF Users

(* As long as a monitor is started there are users, for any number of        *)
(* threads, with the subscriber and the functions of the adapter.            *)
THEOREM StartedAreServed == Spec => []UsersAreServed
<1>1. Init => UserTypes /\ Users
  BY InitUsers
<1>2. UserTypes /\ Users => UsersAreServed
  <2> SUFFICES ASSUME UserTypes, Users, ~unlucky, started # {},
                      \A t \in Threads : pc[t] = "idle"
               PROVE  subscribed /\ handles /\ refCnt >= Cardinality(started)
    BY DEF UsersAreServed
  <2>1. started \subseteq Counted /\ Counted \in SUBSET Monitors
    BY DEF Counted, UserTypes
  <2>2. IsFiniteSet(Counted) /\ Cardinality(Counted) \in Nat /\ Cardinality(started) \in Nat
    BY <2>1, FiniteMonitors
  <2>3. Cardinality(started) <= Cardinality(Counted) /\ Cardinality(started) # 0
    BY <2>1, <2>2, FS_Subset, FS_EmptySet
  <2>4. refCnt >= Cardinality(started) /\ refCnt > 0
    BY <2>2, <2>3 DEF Users, Count, UserTypes
  <2>5. QED
    BY <2>4 DEF Users, Subscribed, SetUp
<1>3. QED
  BY <1>1, <1>2, UsersStep, PTL DEF Spec

-----------------------------------------------------------------------------
(* The types of the buffers, the pool and the callbacks.                     *)

(* NoJob is no job.                                                          *)
LEMMA NoJobIsNone == NoJob \notin JobSet
  BY DEF NoJob, JobSet

(* NoBuf has no buffer.                                                      *)
LEMMA NoBufKnown == NoBuf \in BufSet /\ NoBuf.buf = NoOne
<1>1. <<>> \in Seq(Monitors)
  BY EmptySeq
<1>2. QED
  BY <1>1 DEF NoBuf, BufSet

(* A new job waits and holds no callback.                                    *)
LEMMA NewJobKnown ==
  ASSUME NEW b \in BufSet, NEW last \in BOOLEAN
  PROVE  /\ NewJob(b, last) \in JobSet
         /\ NewJob(b, last).buf = b /\ NewJob(b, last).stage = "wait" /\ NewJob(b, last).obj = NoOne
         /\ NewJob(b, last) # NoJob
  BY DEF NewJob, JobSet, NoJob

(* A pool that was cleared has no buffers.                                   *)
LEMMA ClearedKnown ==
  /\ [bufferSize |-> 0, poolSize |-> 0, alloced |-> <<>>, free |-> {}] \in PoolSet
  /\ DOMAIN <<>> = {}
<1>1. DOMAIN <<>> = {}
  BY EmptySeq
<1>2. <<>> \in [{} -> Nat]
  BY EmptySeq
<1>3. <<>> \in Allocs
  BY <1>2 DEF Allocs
<1>4. QED
  BY <1>1, <1>3 DEF PoolSet

(* A request leaves the pool a pool.                                         *)
LEMMA RequestTypes ==
  ASSUME Types, NEW k \in Monitors, Request(k)
  PROVE  pool' \in PoolSet /\ cur' \in BufSet
<1>1. CASE \E b \in Bufs :
             /\ GetBuffer(b)
             /\ cur' = [buf |-> b, size |-> bufferSize, kinds |-> <<k>>]
  <2>1. PICK b \in Bufs :
          /\ GetBuffer(b)
          /\ cur' = [buf |-> b, size |-> bufferSize, kinds |-> <<k>>]
    BY <1>1
  <2>2. cur' \in BufSet
    <3>1. bufferSize \in Nat /\ <<k>> \in Seq(Monitors)
      BY PythonAdapterAssumption DEF Types
    <3>2. QED
      BY <2>1, <3>1 DEF BufSet
  <2>3. pool' \in PoolSet
    <3>1. CASE pool.free # {}
      BY <2>1, <3>1 DEF GetBuffer, Types, PoolSet
    <3>2. CASE pool.free = {}
      <4>1. PICK S \in SUBSET Bufs : pool.alloced \in [S -> Nat]
        BY DEF Types, PoolSet, Allocs
      <4>2. PICK f : f = [a \in DOMAIN pool.alloced \cup {b} |->
                            IF a = b THEN pool.bufferSize ELSE pool.alloced[a]]
        OBVIOUS
      <4>3. f \in [S \cup {b} -> Nat] /\ S \cup {b} \in SUBSET Bufs
        BY <4>1, <4>2 DEF Types, PoolSet
      <4>4. f \in Allocs
        BY <4>3 DEF Allocs
      <4>5. pool' = [pool EXCEPT !.alloced = f]
        BY <2>1, <3>2, <4>2 DEF GetBuffer
      <4>6. QED
        BY <4>4, <4>5 DEF Types, PoolSet
    <3>3. QED
      BY <3>1, <3>2
  <2>4. QED
    BY <2>2, <2>3
<1>2. CASE cur' = NoBuf /\ UNCHANGED pool
  BY <1>2, NoBufKnown DEF Types
<1>3. QED
  BY <1>1, <1>2 DEF Request

(* A record keeps the types.                                                 *)
LEMMA RecordTypes == Types /\ Record => Types'
<1> SUFFICES ASSUME Types, Record PROVE Types'
  OBVIOUS
<1>1. UNCHANGED <<gil, mtx, bufferSize, enabled, refs, callback, flushing, pos, job>>
  BY DEF Record, lockVars, cbVars, walkVars, callVars
<1>2. PICK k \in enabled :
        \/ cur.buf = NoOne /\ Request(k) /\ UNCHANGED queue
        \/ /\ cur' = [cur EXCEPT !.kinds = Append(@, k)]
           /\ UNCHANGED <<pool, queue>>
        \/ queue' = Append(queue, cur) /\ Request(k)
  BY DEF Record
<1>3. k \in Monitors
  BY DEF Types
<1>4. pool' \in PoolSet /\ cur' \in BufSet
  <2>1. CASE Request(k)
    BY <1>3, <2>1, RequestTypes
  <2>2. CASE cur' = [cur EXCEPT !.kinds = Append(@, k)] /\ UNCHANGED pool
    <3>1. PICK s : s = Append(cur.kinds, k)
      OBVIOUS
    <3>2. s \in Seq(Monitors)
      BY <1>3, <3>1, AppendProperties DEF Types, BufSet
    <3>3. QED
      BY <2>2, <3>1, <3>2 DEF Types, BufSet
  <2>3. QED
    BY <1>2, <2>1, <2>2
<1>5. queue' \in Seq(BufSet)
  <2>1. queue \in Seq(BufSet) /\ Append(queue, cur) \in Seq(BufSet)
    BY AppendProperties DEF Types
  <2>2. QED
    BY <1>2, <2>1
<1>6. QED
  BY <1>1, <1>4, <1>5 DEF Types

(* A new job of one agent keeps the jobs' type.                              *)
LEMMA JobTypes ==
  ASSUME Types, NEW x \in Agents, NEW j \in JobSet \cup {NoJob}, job' = [job EXCEPT ![x] = j]
  PROVE  job' \in [Agents -> JobSet \cup {NoJob}]
  BY DEF Types

(* Taking the full buffers keeps the types.                                  *)
LEMMA TakeFullTypes == Types /\ TakeFull => Types'
<1> SUFFICES ASSUME Types, TakeFull PROVE Types'
  OBVIOUS
<1>1. UNCHANGED <<gil, mtx, bufferSize, pool, enabled, refs, callback, cur, flushing, pos>>
  BY DEF TakeFull, lockVars, poolVars, cbVars, callVars
<1>2. queue \in Seq(BufSet) /\ queue # <<>>
  BY DEF Types, TakeFull
<1>3. Head(queue) \in BufSet /\ Tail(queue) \in Seq(BufSet)
  BY <1>2, HeadTailProperties
<1>4. PICK j : j = NewJob(Head(queue), FALSE)
  OBVIOUS
<1>5. j \in JobSet /\ job' = [job EXCEPT ![Worker] = j] /\ queue' = Tail(queue)
  BY <1>3, <1>4, NewJobKnown DEF TakeFull
<1>6. job' \in [Agents -> JobSet \cup {NoJob}]
  BY <1>5, JobTypes DEF Agents
<1>7. QED
  BY <1>1, <1>3, <1>5, <1>6 DEF Types

(* The completion of a buffer, step by step: what becomes of the job.        *)
LEMMA AcquireFacts ==
  ASSUME Types, NEW x \in Agents, AcquireGil(x)
  PROVE  /\ Types' /\ job[x] \in JobSet
         /\ \E j \in JobSet :
              /\ job' = [job EXCEPT ![x] = j] /\ j.buf = job[x].buf /\ j.obj = job[x].obj
              /\ \/ job[x].stage = "wait" /\ j.stage = "walk"
                 \/ job[x].stage = "out" /\ j.stage = "in"
<1>1. /\ UNCHANGED <<mtx, bufferSize, pool, enabled, refs, callback, cur, queue, flushing, pos>>
      /\ gil' = x /\ job[x] # NoJob /\ job[x].stage \in {"wait", "out"}
      /\ job' = [job EXCEPT ![x].stage = IF @ = "wait" THEN "walk" ELSE "in"]
  BY DEF AcquireGil, poolVars, cbVars, amVars, callVars
<1>2. job[x] \in JobSet
  BY <1>1 DEF Types
<1>3. PICK stage : stage = IF job[x].stage = "wait" THEN "walk" ELSE "in"
  OBVIOUS
<1>4. PICK j : j = [job[x] EXCEPT !.stage = stage]
  OBVIOUS
<1>5. /\ j \in JobSet /\ j.buf = job[x].buf /\ j.obj = job[x].obj /\ j.stage = stage
      /\ job' = [job EXCEPT ![x] = j]
  BY <1>1, <1>2, <1>3, <1>4 DEF JobSet
<1>6. job' \in [Agents -> JobSet \cup {NoJob}]
  BY <1>5, JobTypes
<1>7. Types'
  BY <1>1, <1>6 DEF Types
<1>8. QED
  BY <1>1, <1>2, <1>3, <1>5, <1>7

(* Consuming a record takes a reference to the callback of its kind, if      *)
(* there is one.                                                             *)
LEMMA ConsumeFacts ==
  ASSUME Types, Alive, NEW x \in Agents, Consume(x)
  PROVE  /\ Types' /\ job[x] \in JobSet /\ job[x].stage = "walk" /\ pos' = [pos EXCEPT ![x] = @ + 1]
         /\ \E k \in Monitors :
              \/ callback[k] = NoOne /\ UNCHANGED <<refs, job>>
              \/ /\ callback[k] # NoOne /\ callback[k] \in DOMAIN refs
                 /\ refs' = [refs EXCEPT ![callback[k]] = @ + 1]
                 /\ \E j \in JobSet : /\ job' = [job EXCEPT ![x] = j] /\ j.buf = job[x].buf
                                      /\ j.obj = callback[k] /\ j.stage = "in"
<1>1. PICK k : k = job[x].buf.kinds[pos[x] + 1]
  OBVIOUS
<1>2. /\ job[x] # NoJob /\ job[x].stage = "walk" /\ MoreRecords(x) /\ GetNextRecord(x)
      /\ IF callback[k] = NoOne THEN UNCHANGED <<refs, job>>
         ELSE /\ refs' = CallRef(callback[k])
              /\ job' = [job EXCEPT ![x].stage = "in", ![x].obj = callback[k]]
      /\ UNCHANGED <<gil, mtx, bufferSize, pool, enabled, callback, cur, queue, flushing>>
  BY <1>1 DEF Consume, lockVars, poolVars, amVars, callVars
<1>3. job[x] \in JobSet
  BY <1>2 DEF Types
<1>4. k \in Monitors
  <2>1. job[x].buf.kinds \in Seq(Monitors) /\ pos[x] \in Nat
    BY <1>3 DEF JobSet, BufSet, Types
  <2>2. pos[x] + 1 \in 1 .. Len(job[x].buf.kinds) /\ Len(job[x].buf.kinds) \in Nat
    BY <1>2, <2>1, LenProperties DEF MoreRecords
  <2>3. QED
    BY <1>1, <2>1, <2>2, ElementOfSeq
<1>5. pos' = [pos EXCEPT ![x] = @ + 1] /\ pos' \in [Agents -> Nat]
  BY <1>2 DEF GetNextRecord, Types
<1>6. CASE callback[k] = NoOne
  <2>1. Types'
    BY <1>2, <1>5, <1>6 DEF Types
  <2>2. QED
    BY <1>2, <1>3, <1>4, <1>5, <1>6, <2>1
<1>7. CASE callback[k] # NoOne
  <2>1. PICK o : o = callback[k]
    OBVIOUS
  <2>2. o \in DOMAIN refs /\ o \in Nat /\ refs \in Seq(Nat)
    BY <1>4, <1>7, <2>1 DEF Alive, Types
  <2>3. refs' = [refs EXCEPT ![o] = @ + 1] /\ refs' \in Seq(Nat)
    <3>1. refs' = [refs EXCEPT ![o] = @ + 1]
      BY <1>2, <1>7, <2>1 DEF CallRef
    <3>2. refs[o] + 1 \in Nat /\ o \in 1 .. Len(refs)
      BY <2>2, LenProperties, ElementOfSeq
    <3>3. QED
      BY <2>2, <3>1, <3>2, ExceptSeq
  <2>4. PICK j : j = [job[x] EXCEPT !.stage = "in", !.obj = o]
    OBVIOUS
  <2>5. /\ j \in JobSet /\ j.buf = job[x].buf /\ j.obj = o /\ j.stage = "in"
        /\ job' = [job EXCEPT ![x] = j]
    BY <1>2, <1>3, <1>7, <2>1, <2>2, <2>4 DEF JobSet
  <2>6. job' \in [Agents -> JobSet \cup {NoJob}]
    BY <2>5, JobTypes
  <2>7. Types'
    BY <1>2, <1>5, <2>3, <2>6 DEF Types
  <2>8. QED
    BY <1>2, <1>3, <1>4, <1>5, <1>7, <2>1, <2>2, <2>3, <2>5, <2>7
<1>8. QED
  BY <1>6, <1>7

(* The thread of a running callback may be switched; the job keeps its       *)
(* reference.                                                                *)
LEMMA SwitchFacts ==
  ASSUME Types, NEW x \in Agents, SwitchThread(x)
  PROVE  /\ Types' /\ job[x] \in JobSet /\ job[x].stage = "in"
         /\ \E j \in JobSet : /\ job' = [job EXCEPT ![x] = j] /\ j.buf = job[x].buf
                              /\ j.obj = job[x].obj /\ j.stage = "out"
<1>1. /\ UNCHANGED <<mtx, bufferSize, pool, enabled, refs, callback, cur, queue, flushing, pos>>
      /\ gil' = NoOne /\ job[x] # NoJob /\ job[x].stage = "in"
      /\ job' = [job EXCEPT ![x].stage = "out"]
  BY DEF SwitchThread, poolVars, cbVars, amVars, callVars
<1>2. job[x] \in JobSet
  BY <1>1 DEF Types
<1>3. PICK j : j = [job[x] EXCEPT !.stage = "out"]
  OBVIOUS
<1>4. /\ j \in JobSet /\ j.buf = job[x].buf /\ j.obj = job[x].obj /\ j.stage = "out"
      /\ job' = [job EXCEPT ![x] = j]
  BY <1>1, <1>2, <1>3 DEF JobSet
<1>5. job' \in [Agents -> JobSet \cup {NoJob}]
  BY <1>4, JobTypes
<1>6. Types'
  BY <1>1, <1>5 DEF Types
<1>7. QED
  BY <1>1, <1>2, <1>4, <1>6

(* A callback that returns gives its reference back.                         *)
LEMMA ReturnsFacts ==
  ASSUME Types, Alive, NEW x \in Agents, CallbackReturns(x)
  PROVE  /\ Types' /\ job[x] \in JobSet /\ job[x].stage = "in" /\ job[x].obj \in DOMAIN refs
         /\ refs' = [refs EXCEPT ![job[x].obj] = IF @ = 0 THEN 0 ELSE @ - 1]
         /\ \E j \in JobSet : /\ job' = [job EXCEPT ![x] = j] /\ j.buf = job[x].buf
                              /\ j.obj = NoOne /\ j.stage = "walk"
<1>1. /\ UNCHANGED <<gil, mtx, bufferSize, pool, enabled, callback, cur, queue, flushing, pos>>
      /\ job[x] # NoJob /\ job[x].stage = "in"
      /\ refs' = [refs EXCEPT ![job[x].obj] = IF @ = 0 THEN 0 ELSE @ - 1]
      /\ job' = [job EXCEPT ![x].stage = "walk", ![x].obj = NoOne]
  BY DEF CallbackReturns, lockVars, poolVars, amVars, callVars
<1>2. job[x] \in JobSet
  BY <1>1 DEF Types
<1>3. PICK o : o = job[x].obj
  OBVIOUS
<1>4. o \in DOMAIN refs /\ refs \in Seq(Nat)
  <2>1. (o = NoOne) = (job[x].stage \in {"wait", "walk"}) /\ o \in DOMAIN refs \cup {NoOne}
    BY <1>1, <1>3 DEF Alive
  <2>2. o # NoOne
    BY <1>1, <2>1
  <2>3. QED
    BY <2>1, <2>2 DEF Types
<1>5. refs' \in Seq(Nat)
  <2>1. PICK n : n = IF refs[o] = 0 THEN 0 ELSE refs[o] - 1
    OBVIOUS
  <2>2. n \in Nat /\ o \in 1 .. Len(refs)
    BY <1>4, <2>1, LenProperties, ElementOfSeq
  <2>3. refs' = [refs EXCEPT ![o] = n]
    BY <1>1, <1>3, <2>1
  <2>4. QED
    BY <1>4, <2>2, <2>3, ExceptSeq
<1>6. PICK j : j = [job[x] EXCEPT !.stage = "walk", !.obj = NoOne]
  OBVIOUS
<1>7. /\ j \in JobSet /\ j.buf = job[x].buf /\ j.obj = NoOne /\ j.stage = "walk"
      /\ job' = [job EXCEPT ![x] = j]
  BY <1>1, <1>2, <1>6 DEF JobSet
<1>8. job' \in [Agents -> JobSet \cup {NoJob}]
  BY <1>7, JobTypes
<1>9. Types'
  BY <1>1, <1>5, <1>8 DEF Types
<1>10. QED
  BY <1>1, <1>2, <1>3, <1>4, <1>7, <1>9

(* A buffer that was walked through goes back to the pool.                   *)
LEMMA CompletedFacts ==
  ASSUME Types, NEW x \in Agents, Completed(x)
  PROVE  /\ Types' /\ job[x] \in JobSet /\ job[x].stage = "walk"
         /\ job' = [job EXCEPT ![x] = NoJob] /\ pos' = [pos EXCEPT ![x] = 0]
         /\ pool' = Recycle(job[x].buf.buf)
         /\ UNCHANGED <<refs, callback, cur, queue, flushing, lost, pc>>
<1>1. /\ UNCHANGED <<mtx, bufferSize, enabled, refs, callback, cur, queue, flushing, lost, pc>>
      /\ job[x] # NoJob /\ job[x].stage = "walk" /\ ~MoreRecords(x) /\ GetNextRecord(x)
      /\ pool' = Recycle(job[x].buf.buf) /\ gil' = NoOne /\ job' = [job EXCEPT ![x] = NoJob]
  BY DEF Completed, cbVars, amVars, callVars
<1>2. job[x] \in JobSet
  BY <1>1 DEF Types
<1>3. pos' = [pos EXCEPT ![x] = 0] /\ pos' \in [Agents -> Nat]
  BY <1>1 DEF GetNextRecord, Types
<1>4. pool' \in PoolSet
  <2>1. PICK S \in SUBSET Bufs : pool.alloced \in [S -> Nat]
    BY DEF Types, PoolSet, Allocs
  <2>2. QED
    BY <1>1, <2>1 DEF Recycle, Types, PoolSet
<1>5. job' \in [Agents -> JobSet \cup {NoJob}]
  BY <1>1, JobTypes
<1>6. Types'
  BY <1>1, <1>3, <1>4, <1>5 DEF Types
<1>7. QED
  BY <1>1, <1>2, <1>3, <1>6

(* What a call's functions do to the types.                                  *)
TypedVars == <<gil, mtx, bufferSize, pool, enabled, refs, callback, cur, queue, flushing, pos, job>>

(* A step that leaves the typed variables alone keeps the types.             *)
LEMMA TypesStay == Types /\ UNCHANGED TypedVars => Types'
  BY DEF Types, TypedVars

(* The kind or the size that a call is given.                                *)
LEMMA ArgKnown ==
  ASSUME UserTypes, Users, NEW t \in Threads
  PROVE  /\ pc[t] \in {"register", "unregister"} => Head(todo[t]).arg \in Monitors
         /\ pc[t] = "set_buffer_size" => Head(todo[t]).arg \in BufferSizes
<1>1. pc[t] \in {"register", "unregister", "set_buffer_size"} =>
        FnOf(pc[t]) = pc[t] /\ pc[t] # "idle"
  BY DEF FnOf, SetUp
<1>2. QED
  BY <1>1, AtHead, TodoFacts

(* A flush takes what is in the queue.                                       *)
LEMMA FlushLocksFacts ==
  ASSUME Types, NEW t \in Threads, FlushLocks(t)
  PROVE  /\ Types' /\ flushing' = [flushing EXCEPT ![t] = queue] /\ queue' = <<>>
         /\ UNCHANGED <<refs, callback, job, pos, cur, pool, lost>>
<1>1. /\ UNCHANGED <<gil, bufferSize, pool, enabled, refs, callback, cur, pos, job, lost>>
      /\ mtx' = t /\ flushing' = [flushing EXCEPT ![t] = queue] /\ queue' = <<>>
  BY DEF FlushLocks, poolVars, cbVars, walkVars
<1>2. /\ flushing' \in [Threads -> Seq(BufSet)] /\ queue' \in Seq(BufSet)
  BY <1>1, EmptySeq DEF Types
<1>3. QED
  BY <1>1, <1>2 DEF Types

(* A flush hands over the buffers it took, one after the other.              *)
LEMMA FlushCompletesFacts ==
  ASSUME Types, NEW t \in Threads, FlushCompletes(t)
  PROVE  /\ Types' /\ UNCHANGED <<refs, callback, pos, cur, queue, pool, lost>> /\ job[t] = NoJob
         /\ \/ UNCHANGED <<job, flushing>>
            \/ /\ flushing[t] # <<>> /\ Head(flushing[t]) \in BufSet
               /\ flushing' = [flushing EXCEPT ![t] = Tail(@)]
               /\ \E j \in JobSet : /\ job' = [job EXCEPT ![t] = j] /\ j.buf = Head(flushing[t])
                                    /\ j.stage = "wait" /\ j.obj = NoOne
<1>1. /\ UNCHANGED <<gil, mtx, bufferSize, pool, enabled, refs, callback, cur, queue, pos, lost>>
      /\ job[t] = NoJob
  BY DEF FlushCompletes, lockVars, poolVars, cbVars, amVars
<1>2. CASE UNCHANGED <<job, flushing>>
  BY <1>1, <1>2 DEF Types
<1>3. CASE /\ flushing[t] # <<>>
           /\ job' = [job EXCEPT ![t] = NewJob(Head(flushing[t]), FALSE)]
           /\ flushing' = [flushing EXCEPT ![t] = Tail(@)]
  <2>1. flushing[t] \in Seq(BufSet)
    BY DEF Types
  <2>2. Head(flushing[t]) \in BufSet /\ Tail(flushing[t]) \in Seq(BufSet)
    BY <1>3, <2>1, HeadTailProperties
  <2>3. PICK j : j = NewJob(Head(flushing[t]), FALSE)
    OBVIOUS
  <2>4. /\ j \in JobSet /\ j.buf = Head(flushing[t]) /\ j.stage = "wait" /\ j.obj = NoOne
        /\ job' = [job EXCEPT ![t] = j]
    BY <1>3, <2>2, <2>3, NewJobKnown
  <2>5. job' \in [Agents -> JobSet \cup {NoJob}]
    BY <2>4, JobTypes DEF Agents
  <2>6. flushing' \in [Threads -> Seq(BufSet)]
    BY <1>3, <2>2 DEF Types
  <2>7. Types'
    BY <1>1, <2>5, <2>6 DEF Types
  <2>8. QED
    BY <1>1, <1>3, <2>2, <2>4, <2>7
<1>4. QED
  BY <1>2, <1>3 DEF FlushCompletes

(* A flush hands over the current buffer when the worker has come to rest.   *)
LEMMA FlushJoinsFacts ==
  ASSUME Types, NEW t \in Threads, FlushJoins(t)
  PROVE  /\ Types' /\ UNCHANGED <<refs, callback, pos, queue, flushing, pool, lost>>
         /\ \/ UNCHANGED <<job, cur>>
            \/ /\ cur' = NoBuf
               /\ \E j \in JobSet : /\ job' = [job EXCEPT ![t] = j] /\ j.buf = cur
                                    /\ j.stage = "wait" /\ j.obj = NoOne
<1>1. UNCHANGED <<gil, mtx, bufferSize, pool, enabled, refs, callback, queue, flushing, pos, lost>>
  BY DEF FlushJoins, lockVars, poolVars, cbVars
<1>2. CASE UNCHANGED <<job, cur>>
  BY <1>1, <1>2 DEF Types
<1>3. CASE job' = [job EXCEPT ![t] = NewJob(cur, TRUE)] /\ cur' = NoBuf
  <2>1. PICK j : j = NewJob(cur, TRUE)
    OBVIOUS
  <2>2. /\ j \in JobSet /\ j.buf = cur /\ j.stage = "wait" /\ j.obj = NoOne
        /\ job' = [job EXCEPT ![t] = j]
    BY <1>3, <2>1, NewJobKnown DEF Types
  <2>3. job' \in [Agents -> JobSet \cup {NoJob}]
    BY <2>2, JobTypes DEF Agents
  <2>4. Types'
    BY <1>1, <1>3, <2>3, NoBufKnown DEF Types
  <2>5. QED
    BY <1>1, <1>3, <2>2, <2>4
<1>4. QED
  BY <1>2, <1>3 DEF FlushJoins

(* A callback that is registered is a new object with one reference.         *)
LEMMA RegisterFacts ==
  ASSUME UserTypes, Users, Types, NEW t \in Threads, RegisterCallback(t)
  PROVE  /\ Types' /\ UNCHANGED <<job, pos, cur, queue, flushing, pool, lost>>
         /\ refs' = Append(refs, 1)
         /\ \E k \in Monitors : callback' = [callback EXCEPT ![k] = Len(refs) + 1]
<1>1. PICK k : k = Head(todo[t]).arg
  OBVIOUS
<1>2. /\ UNCHANGED <<mtx, bufferSize, pool, cur, queue, flushing, pos, job, lost>>
      /\ pc[t] = "register" /\ gil' = NoOne
      /\ refs' = Append(refs, 1)
      /\ callback' = [callback EXCEPT ![k] = Len(refs) + 1] /\ enabled' = enabled \cup {k}
  BY <1>1 DEF RegisterCallback, poolVars, amVars, walkVars
<1>3. k \in Monitors
  BY <1>1, <1>2, ArgKnown
<1>4. refs' \in Seq(Nat) /\ Len(refs) + 1 \in Nat
  BY <1>2, AppendProperties, LenProperties DEF Types
<1>5. callback' \in [Monitors -> Nat \cup {NoOne}]
  BY <1>2, <1>4 DEF Types
<1>6. Types'
  BY <1>2, <1>3, <1>4, <1>5 DEF Types
<1>7. QED
  BY <1>2, <1>3, <1>6

(* A callback that is unregistered gives up one reference, which it had.     *)
LEMMA UnregisterFacts ==
  ASSUME UserTypes, Users, Types, Alive, NEW t \in Threads, UnregisterCallback(t)
  PROVE  /\ Types' /\ UNCHANGED <<job, pos, cur, queue, flushing, pool, lost>>
         /\ \E k \in Monitors :
              /\ callback' = [callback EXCEPT ![k] = NoOne]
              /\ \/ callback[k] = NoOne /\ refs' = refs
                 \/ /\ callback[k] \in DOMAIN refs /\ refs[callback[k]] > 0
                    /\ refs' = [refs EXCEPT ![callback[k]] = @ - 1]
<1>1. PICK k : k = Head(todo[t]).arg
  OBVIOUS
<1>2. PICK o : o = callback[k]
  OBVIOUS
<1>3. /\ UNCHANGED <<mtx, bufferSize, pool, cur, queue, flushing, pos, job, lost>>
      /\ pc[t] = "unregister" /\ gil' = NoOne
      /\ refs' = IF o = NoOne THEN refs ELSE [refs EXCEPT ![o] = @ - 1]
      /\ callback' = [callback EXCEPT ![k] = NoOne] /\ enabled' \subseteq enabled
  BY <1>1, <1>2 DEF UnregisterCallback, poolVars, amVars, walkVars
<1>4. k \in Monitors
  BY <1>1, <1>3, ArgKnown
<1>5. callback' \in [Monitors -> Nat \cup {NoOne}] /\ enabled' \subseteq Monitors /\ refs \in Seq(Nat)
  BY <1>3 DEF Types
<1>6. CASE o = NoOne
  BY <1>2, <1>3, <1>4, <1>5, <1>6 DEF Types
<1>7. CASE o # NoOne
  <2>1. o \in DOMAIN refs
    BY <1>2, <1>4, <1>7 DEF Alive
  <2>2. refs[o] \in Nat /\ o \in 1 .. Len(refs)
    BY <1>5, <2>1, LenProperties, ElementOfSeq
  <2>3. refs[o] > 0
    <3>1. IsFiniteSet(Refs(o)) /\ Cardinality(Refs(o)) <= refs[o]
      BY <2>1 DEF Alive
    <3>2. <<"callback", k>> \in Refs(o)
      BY <1>2, <1>4 DEF Refs
    <3>3. Cardinality(Refs(o)) # 0 /\ Cardinality(Refs(o)) \in Nat
      BY <3>1, <3>2, FS_EmptySet, FS_CardinalityType
    <3>4. QED
      BY <2>2, <3>1, <3>3
  <2>4. refs' \in Seq(Nat)
    <3>1. PICK n \in Nat : n = refs[o] - 1
      BY <2>2, <2>3
    <3>2. refs' = [refs EXCEPT ![o] = n]
      BY <1>3, <1>7, <3>1
    <3>3. QED
      BY <1>5, <2>2, <3>2, ExceptSeq
  <2>5. Types'
    BY <1>3, <1>5, <2>4 DEF Types
  <2>6. QED
    BY <1>2, <1>3, <1>4, <1>7, <2>1, <2>3, <2>5
<1>8. QED
  BY <1>6, <1>7

-----------------------------------------------------------------------------
(* The references to callbacks.                                              *)

Runs(x, o) == job[x] # NoJob /\ job[x].obj = o

(* An object has references enough when it loses users.                      *)
Enough(S, n) == IsFiniteSet(S) /\ Cardinality(S) <= n

(* References that are enough for some holders are enough for fewer.         *)
LEMMA EnoughSubset ==
  ASSUME NEW S, NEW T, T \subseteq S, NEW n \in Nat, Enough(S, n)
  PROVE  Enough(T, n)
<1>1. IsFiniteSet(T) /\ Cardinality(T) <= Cardinality(S)
  BY FS_Subset DEF Enough
<1>2. Cardinality(S) \in Nat /\ Cardinality(T) \in Nat
  BY <1>1, FS_CardinalityType DEF Enough
<1>3. QED
  BY <1>1, <1>2 DEF Enough

(* One reference more is enough for one holder more.                         *)
LEMMA EnoughMore ==
  ASSUME NEW S, NEW r, NEW T, T \subseteq S \cup {r}, NEW n \in Nat, Enough(S, n)
  PROVE  Enough(T, n + 1)
<1>1. Cardinality(S) \in Nat
  BY FS_CardinalityType DEF Enough
<1>2. Enough(S \cup {r}, n + 1)
  <2>1. CASE r \in S
    <3>1. S \cup {r} = S
      BY <2>1
    <3>2. Enough(S, n + 1)
      BY <1>1 DEF Enough
    <3>3. QED
      BY <3>1, <3>2
  <2>2. CASE r \notin S
    <3>1. IsFiniteSet(S \cup {r}) /\ Cardinality(S \cup {r}) = Cardinality(S) + 1
      BY <2>2, FS_AddElement, Zenon DEF Enough
    <3>2. QED
      BY <1>1, <3>1 DEF Enough
  <2>3. QED
    BY <2>1, <2>2
<1>3. n + 1 \in Nat
  OBVIOUS
<1>4. QED
  BY <1>2, <1>3, EnoughSubset

(* One reference less is enough for one holder less.                         *)
LEMMA EnoughLess ==
  ASSUME NEW S, NEW r \in S, NEW T, T \subseteq S \ {r}, NEW n \in Nat, Enough(S, n)
  PROVE  n > 0 /\ Enough(T, n - 1)
<1>1. Cardinality(S) \in Nat /\ Cardinality(S) # 0
  BY FS_CardinalityType, FS_EmptySet DEF Enough
<1>2. IsFiniteSet(S \ {r}) /\ Cardinality(S \ {r}) = Cardinality(S) - 1
  BY FS_RemoveElement DEF Enough
<1>3. n > 0 /\ n - 1 \in Nat /\ Enough(S \ {r}, n - 1)
  BY <1>1, <1>2 DEF Enough
<1>4. QED
  BY <1>3, EnoughSubset

(* Alive, with the counting of references named.                             *)
LEMMA AliveMeans ==
  Alive <=> /\ \A o \in DOMAIN refs : Enough(Refs(o), refs[o])
            /\ \A x \in Agents : job[x] # NoJob =>
                 /\ job[x].obj \in DOMAIN refs \cup {NoOne}
                 /\ (job[x].obj = NoOne) = (job[x].stage \in {"wait", "walk"})
            /\ \A k \in Monitors : callback[k] \in DOMAIN refs \cup {NoOne}
  BY DEF Alive, Enough

(* Objects are numbered from one.                                            *)
LEMMA RefsKnown ==
  ASSUME Types
  PROVE  \A o \in DOMAIN refs : o \in Nat /\ o # NoOne /\ refs[o] \in Nat
<1>1. refs \in Seq(Nat)
  BY DEF Types
<1>2. \A o \in DOMAIN refs : o \in 1 .. Len(refs) /\ Len(refs) \in Nat /\ refs[o] \in Nat
  BY <1>1, LenProperties, ElementOfSeq
<1>3. QED
  BY <1>2, PythonAdapterAssumption

(* A job changes that has the object it had, or none.                        *)
LEMMA JobAlive ==
  ASSUME Types, Alive, NEW x \in Agents, NEW j \in JobSet \cup {NoJob},
         job' = [job EXCEPT ![x] = j], UNCHANGED <<refs, callback>>,
         \/ j = NoJob
         \/ j.obj = NoOne /\ j.stage \in {"wait", "walk"}
         \/ /\ job[x] # NoJob /\ j.obj = job[x].obj
            /\ j.stage \in {"wait", "walk"} <=> job[x].stage \in {"wait", "walk"}
  PROVE  Alive'
<1>1. job'[x] = j /\ \A y \in Agents \ {x} : job'[y] = job[y]
  BY DEF Types
<1>2. ASSUME NEW o \in DOMAIN refs
      PROVE  Enough(Refs(o)', refs[o])
  <2>1. o # NoOne /\ refs[o] \in Nat
    BY RefsKnown
  <2>2. \A y \in Agents : Runs(y, o)' => Runs(y, o)
    BY <1>1, <2>1 DEF Runs
  <2>3. Refs(o)' \subseteq Refs(o)
    BY <2>2 DEF Refs, Runs
  <2>4. QED
    BY <2>1, <2>3, EnoughSubset, AliveMeans
<1>3. \A y \in Agents : job'[y] # NoJob =>
        /\ job'[y].obj \in DOMAIN refs \cup {NoOne}
        /\ (job'[y].obj = NoOne) = (job'[y].stage \in {"wait", "walk"})
  BY <1>1 DEF Alive
<1>4. QED
  BY <1>2, <1>3 DEF Alive, Enough

(* A callback is called, and returns.                                        *)
LEMMA ConsumeAlive ==
  ASSUME Types, Alive, NEW x \in Agents, Consume(x)
  PROVE  Alive'
<1>1. /\ job[x] \in JobSet /\ job[x].stage = "walk" /\ job[x] # NoJob
      /\ UNCHANGED callback
  BY ConsumeFacts, NoJobIsNone DEF Consume
<1>2. CASE UNCHANGED <<refs, job>>
  BY <1>1, <1>2 DEF Alive, Refs
<1>3. CASE ~UNCHANGED <<refs, job>>
  <2>1. PICK k \in Monitors, j \in JobSet :
          /\ callback[k] # NoOne /\ callback[k] \in DOMAIN refs
          /\ refs' = [refs EXCEPT ![callback[k]] = @ + 1]
          /\ job' = [job EXCEPT ![x] = j] /\ j.obj = callback[k] /\ j.stage = "in"
    BY <1>3, ConsumeFacts
  <2>2. PICK o : o = callback[k]
    OBVIOUS
  <2>3. job'[x] = j /\ \A y \in Agents \ {x} : job'[y] = job[y]
    BY <2>1 DEF Types
  <2>4. job[x].obj = NoOne
    BY <1>1 DEF Alive
  <2>5. o \in DOMAIN refs /\ DOMAIN refs' = DOMAIN refs /\ refs'[o] = refs[o] + 1
        /\ \A p \in DOMAIN refs \ {o} : refs'[p] = refs[p]
    BY <2>1, <2>2
  <2>6. ASSUME NEW p \in DOMAIN refs
        PROVE  Enough(Refs(p)', refs'[p])
    <3>1. p # NoOne /\ refs[p] \in Nat /\ Enough(Refs(p), refs[p])
      BY RefsKnown, AliveMeans
    <3>2. \A y \in Agents : Runs(y, p)' => Runs(y, p) \/ (y = x /\ p = o)
      BY <2>1, <2>2, <2>3 DEF Runs
    <3>3. CASE p = o
      <4>1. Refs(p)' \subseteq Refs(p) \cup {<<"job", x>>}
        BY <1>1, <3>2 DEF Refs, Runs
      <4>2. Enough(Refs(p)', refs[p] + 1)
        BY <3>1, <4>1, EnoughMore
      <4>3. QED
        BY <2>5, <3>3, <4>2
    <3>4. CASE p # o
      <4>1. Refs(p)' \subseteq Refs(p)
        BY <1>1, <3>2, <3>4 DEF Refs, Runs
      <4>2. QED
        BY <2>5, <3>1, <3>4, <4>1, EnoughSubset
    <3>5. QED
      BY <3>3, <3>4
  <2>7. \A y \in Agents : job'[y] # NoJob =>
          /\ job'[y].obj \in DOMAIN refs' \cup {NoOne}
          /\ (job'[y].obj = NoOne) = (job'[y].stage \in {"wait", "walk"})
    BY <2>1, <2>3, <2>5 DEF Alive
  <2>8. QED
    BY <1>1, <2>5, <2>6, <2>7 DEF Alive, Enough
<1>4. QED
  BY <1>2, <1>3

(* Giving back a callback's reference leaves enough for those that still     *)
(* hold it.                                                                  *)
LEMMA ReturnsAlive ==
  ASSUME Types, Alive, NEW x \in Agents, CallbackReturns(x)
  PROVE  Alive'
<1>1. PICK o : o = job[x].obj
  OBVIOUS
<1>2. PICK j \in JobSet : job' = [job EXCEPT ![x] = j] /\ j.obj = NoOne /\ j.stage = "walk"
  BY ReturnsFacts
<1>3. /\ job[x] \in JobSet /\ job[x] # NoJob /\ o \in DOMAIN refs
      /\ refs' = [refs EXCEPT ![o] = IF @ = 0 THEN 0 ELSE @ - 1]
      /\ UNCHANGED callback
  BY <1>1, ReturnsFacts, NoJobIsNone DEF CallbackReturns
<1>4. job'[x] = j /\ \A y \in Agents \ {x} : job'[y] = job[y]
  BY <1>2 DEF Types
<1>5. ASSUME NEW p \in DOMAIN refs
      PROVE  Enough(Refs(p)', refs'[p])
  <2>1. p # NoOne /\ refs[p] \in Nat /\ Enough(Refs(p), refs[p])
    BY RefsKnown, AliveMeans
  <2>2. \A y \in Agents : Runs(y, p)' => Runs(y, p) /\ y # x
    BY <1>2, <1>4, <2>1 DEF Runs
  <2>3. CASE p = o
    <3>1. <<"job", x>> \in Refs(p)
      BY <1>1, <1>3, <2>3 DEF Refs
    <3>2. Refs(p)' \subseteq Refs(p) \ {<<"job", x>>}
      BY <1>3, <2>2 DEF Refs, Runs
    <3>3. refs[p] > 0 /\ Enough(Refs(p)', refs[p] - 1)
      BY <2>1, <3>1, <3>2, EnoughLess
    <3>4. refs'[p] = refs[p] - 1
      BY <1>3, <2>1, <2>3, <3>3
    <3>5. QED
      BY <3>3, <3>4
  <2>4. CASE p # o
    <3>1. Refs(p)' \subseteq Refs(p)
      BY <1>3, <2>2 DEF Refs, Runs
    <3>2. refs'[p] = refs[p]
      BY <1>3, <2>4
    <3>3. QED
      BY <2>1, <3>1, <3>2, EnoughSubset
  <2>5. QED
    BY <2>3, <2>4
<1>6. DOMAIN refs' = DOMAIN refs
  BY <1>3
<1>7. \A y \in Agents : job'[y] # NoJob =>
        /\ job'[y].obj \in DOMAIN refs' \cup {NoOne}
        /\ (job'[y].obj = NoOne) = (job'[y].stage \in {"wait", "walk"})
  BY <1>2, <1>4, <1>6 DEF Alive
<1>8. QED
  BY <1>3, <1>5, <1>6, <1>7 DEF Alive, Enough

(* A callback is registered, in the place of one that may still run.         *)
LEMMA RegisterAlive ==
  ASSUME UserTypes, Users, Types, Alive, NEW t \in Threads, RegisterCallback(t)
  PROVE  Alive'
<1>1. PICK k \in Monitors : callback' = [callback EXCEPT ![k] = Len(refs) + 1]
  BY RegisterFacts
<1>2. PICK n : n = Len(refs) + 1
  OBVIOUS
<1>3. refs \in Seq(Nat) /\ refs' = Append(refs, 1) /\ UNCHANGED job
  BY RegisterFacts DEF Types
<1>4. /\ n \in Nat /\ n \notin DOMAIN refs /\ n # NoOne /\ DOMAIN refs' = DOMAIN refs \cup {n}
      /\ refs'[n] = 1 /\ \A o \in DOMAIN refs : refs'[o] = refs[o]
  <2>1. Len(refs) \in Nat /\ DOMAIN refs = 1 .. Len(refs)
    BY <1>3, LenProperties
  <2>2. /\ Len(refs') = n /\ DOMAIN refs' = 1 .. n
        /\ \A i \in 1 .. Len(refs) : refs'[i] = refs[i] /\ refs'[n] = 1
    BY <1>2, <1>3, <2>1, AppendProperties
  <2>3. refs'[n] = 1
    BY <1>2, <1>3, AppendProperties
  <2>4. QED
    BY <1>2, <2>1, <2>2, <2>3, PythonAdapterAssumption
<1>5. callback'[k] = n /\ \A i \in Monitors \ {k} : callback'[i] = callback[i]
  BY <1>1, <1>2 DEF Types
<1>6. ASSUME NEW o \in DOMAIN refs
      PROVE  Enough(Refs(o)', refs'[o])
  <2>1. Refs(o)' \subseteq Refs(o)
    BY <1>3, <1>4, <1>5 DEF Refs
  <2>2. QED
    BY <1>4, <2>1, RefsKnown, EnoughSubset, AliveMeans
<1>7. Enough(Refs(n)', refs'[n])
  <2>1. \A x \in Agents : job[x] # NoJob => job[x].obj # n
    BY <1>4 DEF Alive
  <2>2. \A i \in Monitors : callback'[i] = n => i = k
    BY <1>4, <1>5 DEF Alive
  <2>3. Refs(n)' \subseteq {<<"callback", k>>}
    BY <1>3, <2>1, <2>2 DEF Refs
  <2>4. Enough({<<"callback", k>>}, 1)
    <3>1. PICK r : r = <<"callback", k>>
      OBVIOUS
    <3>2. IsFiniteSet({r}) /\ Cardinality({r}) = 1
      BY FS_Singleton
    <3>3. QED
      BY <3>1, <3>2 DEF Enough
  <2>5. QED
    BY <1>4, <2>3, <2>4, EnoughSubset
<1>8. \A o \in DOMAIN refs' : Enough(Refs(o)', refs'[o])
  BY <1>4, <1>6, <1>7
<1>9. \A x \in Agents : job'[x] # NoJob =>
        /\ job'[x].obj \in DOMAIN refs' \cup {NoOne}
        /\ (job'[x].obj = NoOne) = (job'[x].stage \in {"wait", "walk"})
  BY <1>3, <1>4 DEF Alive
<1>10. \A i \in Monitors : callback'[i] \in DOMAIN refs' \cup {NoOne}
  BY <1>4, <1>5 DEF Alive
<1>11. QED
  BY <1>8, <1>9, <1>10 DEF Alive, Enough

(* Unregistering leaves enough references for the callbacks that still       *)
(* run.                                                                      *)
LEMMA UnregisterAlive ==
  ASSUME UserTypes, Users, Types, Alive, NEW t \in Threads, UnregisterCallback(t)
  PROVE  Alive'
<1>1. PICK k \in Monitors :
        /\ callback' = [callback EXCEPT ![k] = NoOne]
        /\ \/ callback[k] = NoOne /\ refs' = refs
           \/ /\ callback[k] \in DOMAIN refs /\ refs[callback[k]] > 0
              /\ refs' = [refs EXCEPT ![callback[k]] = @ - 1]
  BY UnregisterFacts
<1>2. UNCHANGED job /\ DOMAIN refs' = DOMAIN refs
  BY <1>1, UnregisterFacts
<1>3. callback'[k] = NoOne /\ \A i \in Monitors \ {k} : callback'[i] = callback[i]
  BY <1>1 DEF Types
<1>4. ASSUME NEW o \in DOMAIN refs
      PROVE  Enough(Refs(o)', refs'[o])
  <2>1. o # NoOne /\ refs[o] \in Nat /\ Enough(Refs(o), refs[o])
    BY RefsKnown, AliveMeans
  <2>2. \A i \in Monitors : callback'[i] = o => i # k /\ callback[i] = o
    BY <1>3, <2>1
  <2>3. CASE callback[k] = o
    <3>1. <<"callback", k>> \in Refs(o)
      BY <2>3 DEF Refs
    <3>2. Refs(o)' \subseteq Refs(o) \ {<<"callback", k>>}
      BY <1>2, <2>2 DEF Refs
    <3>3. Enough(Refs(o)', refs[o] - 1)
      BY <2>1, <3>1, <3>2, EnoughLess
    <3>4. refs'[o] = refs[o] - 1
      BY <1>1, <2>1, <2>3
    <3>5. QED
      BY <3>3, <3>4
  <2>4. CASE callback[k] # o
    <3>1. Refs(o)' \subseteq Refs(o)
      BY <1>2, <2>2 DEF Refs
    <3>2. refs'[o] = refs[o]
      BY <1>1, <2>4
    <3>3. QED
      BY <2>1, <3>1, <3>2, EnoughSubset
  <2>5. QED
    BY <2>3, <2>4
<1>5. QED
  BY <1>2, <1>3, <1>4 DEF Alive, Enough

-----------------------------------------------------------------------------
(* The places of the buffers.                                                *)

(* A buffer is in use when some place uses it.                               *)
LEMMA InUseIsUsed ==
  ASSUME Types, NEW b \in Bufs
  PROVE  Uses(b) # {} <=> InUse(b)
<1>1. /\ \A i : i \in DOMAIN queue => i \in Nat
      /\ \A t \in Threads : \A i : i \in DOMAIN flushing[t] => i \in Nat
  <2>1. queue \in Seq(BufSet) /\ \A t \in Threads : flushing[t] \in Seq(BufSet)
    BY DEF Types
  <2>2. DOMAIN queue = 1 .. Len(queue) /\ Len(queue) \in Nat
    BY <2>1, LenProperties
  <2>3. \A t \in Threads : DOMAIN flushing[t] = 1 .. Len(flushing[t]) /\ Len(flushing[t]) \in Nat
    BY <2>1, LenProperties
  <2>4. QED
    BY <2>2, <2>3
<1>2. InUse(b) => Uses(b) # {}
  <2>1. InCur(b) => <<NoOne, 0>> \in Uses(b)
    BY DEF InCur, Uses
  <2>2. \A i \in Nat : InQueue(b, i) => <<Worker, i>> \in Uses(b)
    BY DEF InQueue, Uses
  <2>3. \A t \in Threads, i \in Nat : InFlush(b, t, i) => <<t, i>> \in Uses(b)
    BY DEF InFlush, Uses
  <2>4. \A x \in Agents : InJob(b, x) => <<x, 0>> \in Uses(b)
    BY DEF InJob, Uses
  <2>5. QED
    BY <2>1, <2>2, <2>3, <2>4 DEF InUse
<1>3. Uses(b) # {} => InUse(b)
  <2> SUFFICES ASSUME NEW r \in Uses(b)
               PROVE  InUse(b)
    OBVIOUS
  <2>1. \/ cur.buf = b
        \/ \E i \in DOMAIN queue : queue[i].buf = b
        \/ \E t \in Threads : \E i \in DOMAIN flushing[t] : flushing[t][i].buf = b
        \/ \E x \in Agents : job[x] # NoJob /\ job[x].buf.buf = b
    BY DEF Uses
  <2>2. QED
    BY <1>1, <2>1 DEF InUse, InCur, InQueue, InFlush, InJob
<1>4. QED
  BY <1>2, <1>3

(* One use, as a set.                                                        *)
LEMMA OneUse ==
  ASSUME Types, NEW b \in Bufs, OnePlace(b), InUse(b)
  PROVE  Cardinality(Uses(b)) = 1
<1>1. \A r \in Uses(b) :
        \/ r = <<NoOne, 0>> /\ InCur(b)
        \/ \E i \in Nat : r = <<Worker, i>> /\ InQueue(b, i)
        \/ \E t \in Threads, i \in Nat : r = <<t, i>> /\ InFlush(b, t, i)
        \/ \E x \in Agents : r = <<x, 0>> /\ InJob(b, x)
  <2>1. queue \in Seq(BufSet) /\ \A t \in Threads : flushing[t] \in Seq(BufSet)
    BY DEF Types
  <2>2. DOMAIN queue = 1 .. Len(queue) /\ Len(queue) \in Nat
    BY <2>1, LenProperties
  <2>3. \A t \in Threads : DOMAIN flushing[t] = 1 .. Len(flushing[t]) /\ Len(flushing[t]) \in Nat
    BY <2>1, LenProperties
  <2>4. (\A i \in DOMAIN queue : i \in Nat) /\ \A t \in Threads : \A i \in DOMAIN flushing[t] : i \in Nat
    BY <2>2, <2>3
  <2>5. QED
    BY <2>4 DEF Uses, InCur, InQueue, InFlush, InJob
<1>2. \A r, q \in Uses(b) : r = q
  <2> SUFFICES ASSUME NEW r \in Uses(b), NEW q \in Uses(b)
               PROVE  r = q
    OBVIOUS
  <2>1. CASE InCur(b)
    BY <1>1, <2>1 DEF OnePlace
  <2>2. CASE \E i \in Nat : InQueue(b, i)
    BY <1>1, <2>2 DEF OnePlace
  <2>3. CASE \E t \in Threads, i \in Nat : InFlush(b, t, i)
    BY <1>1, <2>3 DEF OnePlace
  <2>4. CASE \E x \in Agents : InJob(b, x)
    BY <1>1, <2>4 DEF OnePlace
  <2>5. QED
    BY <2>1, <2>2, <2>3, <2>4 DEF InUse
<1>3. PICK r : Uses(b) = {r}
  BY <1>2, InUseIsUsed
<1>4. QED
  BY <1>3, FS_Singleton

(* Nothing changes place, though a place may become empty.                   *)
LEMMA BuffersStay ==
  ASSUME Buffers, lost \subseteq lost',
         DOMAIN pool.alloced \ pool.free \subseteq DOMAIN pool'.alloced \ pool'.free,
         \A b \in Bufs : InCur(b)' => InCur(b),
         \A b \in Bufs, i \in Nat : InQueue(b, i)' => InQueue(b, i),
         \A b \in Bufs, t \in Threads, i \in Nat : InFlush(b, t, i)' => InFlush(b, t, i),
         \A b \in Bufs, x \in Agents : InJob(b, x)' => InJob(b, x)
  PROVE  Buffers'
<1> SUFFICES ASSUME NEW b \in Bufs \ lost'
             PROVE  OnePlace(b)' /\ (InUse(b)' => b \in DOMAIN pool'.alloced \ pool'.free)
  BY DEF Buffers
<1>1. OnePlace(b) /\ (InUse(b) => b \in DOMAIN pool.alloced \ pool.free)
  BY DEF Buffers
<1>2. InUse(b)' => InUse(b)
  BY DEF InUse
<1>3. OnePlace(b)'
  BY <1>1 DEF OnePlace
<1>4. QED
  BY <1>1, <1>2, <1>3

(* A job that keeps its buffer, or ends.                                     *)
LEMMA JobBuffers ==
  ASSUME Types, Buffers, NEW x \in Agents, NEW j \in JobSet \cup {NoJob},
         job' = [job EXCEPT ![x] = j], j = NoJob \/ (job[x] # NoJob /\ j.buf = job[x].buf),
         UNCHANGED <<cur, queue, flushing, pool, lost>>
  PROVE  Buffers'
<1>1. job'[x] = j /\ \A y \in Agents \ {x} : job'[y] = job[y]
  BY DEF Types
<1>2. \A b \in Bufs, y \in Agents : InJob(b, y)' => InJob(b, y)
  BY <1>1 DEF InJob
<1>3. /\ \A b \in Bufs : InCur(b)' => InCur(b)
      /\ \A b \in Bufs, i \in Nat : InQueue(b, i)' => InQueue(b, i)
      /\ \A b \in Bufs, t \in Threads, i \in Nat : InFlush(b, t, i)' => InFlush(b, t, i)
  BY DEF InCur, InQueue, InFlush
<1>4. QED
  BY <1>2, <1>3, BuffersStay

(* The pool takes back a buffer, which was in no other place.                *)
LEMMA CompletedBuffers ==
  ASSUME Types, Buffers, NEW x \in Agents, Completed(x)
  PROVE  Buffers'
<1>1. PICK a : a = job[x].buf.buf
  OBVIOUS
<1>2. /\ job[x] \in JobSet /\ job[x] # NoJob /\ job' = [job EXCEPT ![x] = NoJob]
      /\ pool' = Recycle(a) /\ UNCHANGED <<cur, queue, flushing, lost>>
  BY <1>1, CompletedFacts, NoJobIsNone
<1>3. job'[x] = NoJob /\ \A y \in Agents \ {x} : job'[y] = job[y]
  BY <1>2 DEF Types
<1>4. DOMAIN pool'.alloced = DOMAIN pool.alloced /\ pool'.free \subseteq pool.free \cup {a}
  BY <1>2 DEF Recycle, Types, PoolSet
<1>5. SUFFICES ASSUME NEW b \in Bufs \ lost
               PROVE  OnePlace(b)' /\ (InUse(b)' => b \in DOMAIN pool'.alloced \ pool'.free)
  BY <1>2 DEF Buffers
<1>6. OnePlace(b) /\ (InUse(b) => b \in DOMAIN pool.alloced \ pool.free)
  BY DEF Buffers
<1>7. /\ \A y \in Agents : InJob(b, y)' => InJob(b, y) /\ y # x
      /\ InCur(b)' => InCur(b)
      /\ \A i \in Nat : InQueue(b, i)' => InQueue(b, i)
      /\ \A t \in Threads, i \in Nat : InFlush(b, t, i)' => InFlush(b, t, i)
  BY <1>2, <1>3 DEF InJob, InCur, InQueue, InFlush
<1>8. OnePlace(b)'
  BY <1>6, <1>7 DEF OnePlace
<1>9. InUse(b)' => InUse(b) /\ b # a
  <2>1. InUse(b)' => InUse(b)
    BY <1>7 DEF InUse
  <2>2. b = a => InJob(b, x)
    BY <1>1, <1>2 DEF InJob
  <2>3. b = a => ~InUse(b)'
    BY <1>6, <1>7, <2>2 DEF OnePlace, InUse
  <2>4. QED
    BY <2>1, <2>3
<1>10. QED
  BY <1>4, <1>6, <1>8, <1>9

(* The pool is cleared: what is in use is lost.                              *)
LEMMA ClearBuffers ==
  ASSUME Types, Buffers, ClearPool, UNCHANGED <<cur, queue, flushing, job>>
  PROVE  Buffers'
<1> SUFFICES ASSUME NEW b \in Bufs \ lost'
             PROVE  OnePlace(b)' /\ ~InUse(b)'
  BY DEF Buffers
<1>1. b \notin lost /\ Uses(b) = {}
  BY DEF ClearPool, Held
<1>2. ~InUse(b)
  BY <1>1, InUseIsUsed
<1>3. ~InUse(b)'
  BY <1>2 DEF InUse, InCur, InQueue, InFlush, InJob
<1>4. OnePlace(b)'
  BY <1>3 DEF OnePlace, InUse
<1>5. QED
  BY <1>3, <1>4

(* What a sequence of buffers loses at its head.                             *)
LEMMA TailPlaces ==
  ASSUME NEW s \in Seq(BufSet), s # <<>>
  PROVE  /\ 1 \in DOMAIN s /\ s[1] = Head(s)
         /\ \A i \in DOMAIN Tail(s) : /\ i \in Nat /\ i > 0 /\ i + 1 \in DOMAIN s
                                      /\ Tail(s)[i] = s[i + 1]
<1>1. Len(s) \in Nat /\ Len(s) # 0 /\ DOMAIN s = 1 .. Len(s)
  BY EmptySeq, LenProperties
<1>2. Tail(s) \in Seq(BufSet) /\ Len(Tail(s)) = Len(s) - 1
      /\ \A i \in 1 .. Len(Tail(s)) : Tail(s)[i] = s[i + 1]
  BY HeadTailProperties
<1>3. DOMAIN Tail(s) = 1 .. Len(s) - 1
  BY <1>2, LenProperties
<1>4. QED
  BY <1>1, <1>2, <1>3

(* The head of the queue becomes the worker's job.                           *)
LEMMA TakeFullBuffers ==
  ASSUME Types, Buffers, TakeFull
  PROVE  Buffers'
<1>1. PICK j \in JobSet : job' = [job EXCEPT ![Worker] = j] /\ j.buf = Head(queue)
  <2>1. queue \in Seq(BufSet) /\ queue # <<>>
    BY DEF Types, TakeFull
  <2>2. Head(queue) \in BufSet
    BY <2>1, HeadTailProperties
  <2>3. QED
    BY <2>2, NewJobKnown DEF TakeFull
<1>2. /\ job[Worker] = NoJob /\ queue' = Tail(queue) /\ queue \in Seq(BufSet) /\ queue # <<>>
      /\ UNCHANGED <<cur, flushing, pool, lost>>
  BY DEF TakeFull, Types, poolVars, callVars
<1>3. job'[Worker] = j /\ \A y \in Agents \ {Worker} : job'[y] = job[y]
  BY <1>1 DEF Types, Agents
<1>4. SUFFICES ASSUME NEW b \in Bufs \ lost
               PROVE  OnePlace(b)' /\ (InUse(b)' => b \in DOMAIN pool.alloced \ pool.free)
  BY <1>2 DEF Buffers
<1>5. OnePlace(b) /\ (InUse(b) => b \in DOMAIN pool.alloced \ pool.free)
  BY DEF Buffers
<1>6. /\ InCur(b)' => InCur(b)
      /\ \A t \in Threads, i \in Nat : InFlush(b, t, i)' => InFlush(b, t, i)
      /\ \A y \in Agents : InJob(b, y)' => IF y = Worker THEN InQueue(b, 1) ELSE InJob(b, y)
      /\ \A i \in Nat : InQueue(b, i)' => i + 1 \in Nat /\ i + 1 # 1 /\ InQueue(b, i + 1)
  <2>1. \A i \in Nat : InQueue(b, i)' => i + 1 \in Nat /\ i + 1 # 1 /\ InQueue(b, i + 1)
    BY <1>2, TailPlaces DEF InQueue
  <2>2. \A y \in Agents : InJob(b, y)' => IF y = Worker THEN InQueue(b, 1) ELSE InJob(b, y)
    BY <1>1, <1>2, <1>3, TailPlaces DEF InJob, InQueue
  <2>3. QED
    BY <1>2, <2>1, <2>2 DEF InCur, InFlush
<1>7. InUse(b)' => InUse(b)
  BY <1>6 DEF InUse
<1>8. OnePlace(b)'
  <2>1. \A i, k \in Nat : InQueue(b, i)' /\ InQueue(b, k)' => i = k
    <3>1. \A i, k \in Nat : InQueue(b, i)' /\ InQueue(b, k)' => i + 1 = k + 1
      BY <1>5, <1>6 DEF OnePlace
    <3>2. QED
      BY <3>1
  <2>2. \A t, u \in Threads, i, k \in Nat : InFlush(b, t, i)' /\ InFlush(b, u, k)' => t = u /\ i = k
    BY <1>5, <1>6 DEF OnePlace
  <2>3. \A x, y \in Agents : InJob(b, x)' /\ InJob(b, y)' => x = y
    BY <1>5, <1>6 DEF OnePlace
  <2>4. InCur(b)' => \A i \in Nat : ~InQueue(b, i)'
    BY <1>5, <1>6 DEF OnePlace
  <2>5. InCur(b)' => \A t \in Threads, i \in Nat : ~InFlush(b, t, i)'
    BY <1>5, <1>6 DEF OnePlace
  <2>6. InCur(b)' => \A x \in Agents : ~InJob(b, x)'
    BY <1>5, <1>6 DEF OnePlace
  <2>7. \A i, k \in Nat, t \in Threads : InQueue(b, i)' => ~InFlush(b, t, k)'
    BY <1>5, <1>6 DEF OnePlace
  <2>8. \A i \in Nat, x \in Agents : InQueue(b, i)' => ~InJob(b, x)'
    BY <1>5, <1>6 DEF OnePlace
  <2>9. \A i \in Nat, t \in Threads, x \in Agents : InFlush(b, t, i)' => ~InJob(b, x)'
    BY <1>5, <1>6 DEF OnePlace
  <2>10. QED
    BY <2>1, <2>2, <2>3, <2>4, <2>5, <2>6, <2>7, <2>8, <2>9 DEF OnePlace
<1>9. QED
  BY <1>5, <1>7, <1>8

(* A flush takes the queue.                                                  *)
LEMMA FlushLocksBuffers ==
  ASSUME Types, Buffers, NEW t \in Threads, FlushLocks(t)
  PROVE  Buffers'
<1>1. /\ flushing' = [flushing EXCEPT ![t] = queue] /\ queue' = <<>>
      /\ UNCHANGED <<job, cur, pool, lost>>
  BY FlushLocksFacts
<1>2. flushing'[t] = queue /\ \A u \in Threads \ {t} : flushing'[u] = flushing[u]
  BY <1>1 DEF Types
<1>3. SUFFICES ASSUME NEW b \in Bufs \ lost
               PROVE  OnePlace(b)' /\ (InUse(b)' => b \in DOMAIN pool.alloced \ pool.free)
  BY <1>1 DEF Buffers
<1>4. OnePlace(b) /\ (InUse(b) => b \in DOMAIN pool.alloced \ pool.free)
  BY DEF Buffers
<1>5. /\ InCur(b)' => InCur(b)
      /\ \A i \in Nat : ~InQueue(b, i)'
      /\ \A y \in Agents : InJob(b, y)' => InJob(b, y)
      /\ \A u \in Threads, i \in Nat : InFlush(b, u, i)' =>
           IF u = t THEN InQueue(b, i) ELSE InFlush(b, u, i)
  <2>1. \A i \in Nat : ~InQueue(b, i)'
    BY <1>1, EmptySeq DEF InQueue
  <2>2. QED
    BY <1>1, <1>2, <2>1 DEF InCur, InJob, InFlush, InQueue
<1>6. InUse(b)' => InUse(b)
  BY <1>5 DEF InUse
<1>7. OnePlace(b)'
  <2>1. \A u, v \in Threads, i, k \in Nat : InFlush(b, u, i)' /\ InFlush(b, v, k)' => u = v /\ i = k
    BY <1>4, <1>5 DEF OnePlace
  <2>2. QED
    BY <1>4, <1>5, <2>1 DEF OnePlace
<1>8. QED
  BY <1>4, <1>6, <1>7

(* It completes the first of them.                                           *)
LEMMA FlushCompletesBuffers ==
  ASSUME Types, Buffers, NEW t \in Threads, FlushCompletes(t)
  PROVE  Buffers'
<1>1. CASE UNCHANGED <<job, flushing>>
  <2>1. UNCHANGED <<cur, queue, pool, lost>>
    BY FlushCompletesFacts
  <2>2. QED
    BY <1>1, <2>1, BuffersStay DEF InCur, InQueue, InFlush, InJob
<1>2. CASE ~UNCHANGED <<job, flushing>>
  <2>1. /\ UNCHANGED <<cur, queue, pool, lost>> /\ job[t] = NoJob
        /\ flushing[t] # <<>> /\ flushing' = [flushing EXCEPT ![t] = Tail(@)]
    BY <1>2, FlushCompletesFacts
  <2>2. PICK j \in JobSet : job' = [job EXCEPT ![t] = j] /\ j.buf = Head(flushing[t])
    BY <1>2, FlushCompletesFacts
  <2>3. /\ job'[t] = j /\ \A y \in Agents \ {t} : job'[y] = job[y]
        /\ flushing'[t] = Tail(flushing[t]) /\ \A u \in Threads \ {t} : flushing'[u] = flushing[u]
        /\ flushing[t] \in Seq(BufSet) /\ t \in Agents
    BY <2>1, <2>2 DEF Types, Agents
  <2>4. SUFFICES ASSUME NEW b \in Bufs \ lost
                 PROVE  OnePlace(b)' /\ (InUse(b)' => b \in DOMAIN pool.alloced \ pool.free)
    BY <2>1 DEF Buffers
  <2>5. OnePlace(b) /\ (InUse(b) => b \in DOMAIN pool.alloced \ pool.free)
    BY DEF Buffers
  <2>6. /\ InCur(b)' => InCur(b)
        /\ \A i \in Nat : InQueue(b, i)' => InQueue(b, i)
        /\ \A y \in Agents : InJob(b, y)' => IF y = t THEN InFlush(b, t, 1) ELSE InJob(b, y)
        /\ \A u \in Threads, i \in Nat : InFlush(b, u, i)' =>
             IF u = t THEN i + 1 \in Nat /\ i + 1 # 1 /\ InFlush(b, t, i + 1) ELSE InFlush(b, u, i)
    <3>1. \A y \in Agents : InJob(b, y)' => IF y = t THEN InFlush(b, t, 1) ELSE InJob(b, y)
      BY <2>1, <2>2, <2>3, TailPlaces DEF InJob, InFlush
    <3>2. \A i \in Nat : InFlush(b, t, i)' => i + 1 \in Nat /\ i + 1 # 1 /\ InFlush(b, t, i + 1)
      <4>1. PICK s \in Seq(BufSet) : s = flushing[t]
        BY <2>3
      <4>2. s # <<>> /\ flushing'[t] = Tail(s)
        BY <2>1, <2>3, <4>1
      <4>3. \A i \in DOMAIN Tail(s) : /\ i \in Nat /\ i > 0 /\ i + 1 \in DOMAIN s
                                       /\ Tail(s)[i] = s[i + 1]
        BY <4>2, TailPlaces
      <4>4. QED
        BY <4>1, <4>2, <4>3 DEF InFlush
    <3>3. \A u \in Threads \ {t}, i \in Nat : InFlush(b, u, i)' => InFlush(b, u, i)
      BY <2>3 DEF InFlush
    <3>4. QED
      BY <2>1, <3>1, <3>2, <3>3 DEF InCur, InQueue
  <2>7. InUse(b)' => InUse(b)
    BY <2>6 DEF InUse
  <2>8. OnePlace(b)'
    <3>1. \A u, v \in Threads, i, k \in Nat : InFlush(b, u, i)' /\ InFlush(b, v, k)' => u = v /\ i = k
      <4> SUFFICES ASSUME NEW u \in Threads, NEW v \in Threads, NEW i \in Nat, NEW k \in Nat,
                          InFlush(b, u, i)', InFlush(b, v, k)'
                   PROVE  u = v /\ i = k
        OBVIOUS
      <4>1. CASE u = t /\ v = t
        <5>1. i + 1 = k + 1
          BY <2>5, <2>6, <4>1 DEF OnePlace
        <5>2. QED
          BY <4>1, <5>1
      <4>2. CASE u # t \/ v # t
        BY <2>5, <2>6, <4>2 DEF OnePlace
      <4>3. QED
        BY <4>1, <4>2
    <3>2. \A x, y \in Agents : InJob(b, x)' /\ InJob(b, y)' => x = y
      BY <2>5, <2>6 DEF OnePlace
    <3>3. \A u \in Threads, i \in Nat : InFlush(b, u, i)' =>
            ~InCur(b)' /\ \A k \in Nat : ~InQueue(b, k)'
      BY <2>5, <2>6 DEF OnePlace
    <3>4. \A x \in Agents : InJob(b, x)' => ~InCur(b)' /\ \A k \in Nat : ~InQueue(b, k)'
      BY <2>5, <2>6 DEF OnePlace
    <3>5. \A i \in Nat, u \in Threads, x \in Agents : InFlush(b, u, i)' => ~InJob(b, x)'
      BY <2>5, <2>6 DEF OnePlace
    <3>6. /\ \A i, k \in Nat : InQueue(b, i)' /\ InQueue(b, k)' => i = k
          /\ InCur(b)' => \A i \in Nat : ~InQueue(b, i)'
      BY <2>5, <2>6 DEF OnePlace
    <3>7. QED
      BY <3>1, <3>2, <3>3, <3>4, <3>5, <3>6 DEF OnePlace
  <2>9. QED
    BY <2>5, <2>7, <2>8
<1>3. QED
  BY <1>1, <1>2

(* And then the current one.                                                 *)
LEMMA FlushJoinsBuffers ==
  ASSUME Types, Buffers, NEW t \in Threads, FlushJoins(t)
  PROVE  Buffers'
<1>1. CASE UNCHANGED <<job, cur>>
  <2>1. UNCHANGED <<queue, flushing, pool, lost>>
    BY FlushJoinsFacts
  <2>2. QED
    BY <1>1, <2>1, BuffersStay DEF InCur, InQueue, InFlush, InJob
<1>2. CASE ~UNCHANGED <<job, cur>>
  <2>1. UNCHANGED <<queue, flushing, pool, lost>> /\ cur' = NoBuf
    BY <1>2, FlushJoinsFacts
  <2>2. PICK j \in JobSet : job' = [job EXCEPT ![t] = j] /\ j.buf = cur
    BY <1>2, FlushJoinsFacts
  <2>3. job'[t] = j /\ \A y \in Agents \ {t} : job'[y] = job[y]
    BY <2>2 DEF Types, Agents
  <2>4. SUFFICES ASSUME NEW b \in Bufs \ lost
                 PROVE  OnePlace(b)' /\ (InUse(b)' => b \in DOMAIN pool.alloced \ pool.free)
    BY <2>1 DEF Buffers
  <2>5. OnePlace(b) /\ (InUse(b) => b \in DOMAIN pool.alloced \ pool.free)
    BY DEF Buffers
  <2>6. /\ ~InCur(b)'
        /\ \A i \in Nat : InQueue(b, i)' => InQueue(b, i)
        /\ \A y \in Agents : InJob(b, y)' => IF y = t THEN InCur(b) ELSE InJob(b, y)
        /\ \A u \in Threads, i \in Nat : InFlush(b, u, i)' => InFlush(b, u, i)
    <3>1. ~InCur(b)'
      BY <2>1, NoBufKnown, PythonAdapterAssumption DEF InCur
    <3>2. QED
      BY <2>1, <2>2, <2>3, <3>1 DEF InCur, InJob, InQueue, InFlush
  <2>7. InUse(b)' => InUse(b)
    BY <2>6 DEF InUse
  <2>8. OnePlace(b)'
    BY <2>5, <2>6 DEF OnePlace
  <2>9. QED
    BY <2>5, <2>7, <2>8
<1>3. QED
  BY <1>1, <1>2

(* A buffer that the pool lends is not in use.                               *)
LEMMA RequestLends ==
  ASSUME Types, Pool, NEW k \in Monitors, Request(k)
  PROVE  \/ cur'.buf = NoOne /\ UNCHANGED pool
         \/ /\ cur'.buf \in Bufs /\ cur'.buf \notin DOMAIN pool.alloced \ pool.free
            /\ DOMAIN pool'.alloced \ pool'.free = (DOMAIN pool.alloced \ pool.free) \cup {cur'.buf}
<1>1. CASE \E b \in Bufs :
             /\ GetBuffer(b)
             /\ cur' = [buf |-> b, size |-> bufferSize, kinds |-> <<k>>]
  <2>1. PICK b \in Bufs : GetBuffer(b) /\ cur'.buf = b
    BY <1>1
  <2>2. CASE pool.free # {}
    <3>1. PICK f : f = pool.free \ {b}
      OBVIOUS
    <3>2. pool' = [pool EXCEPT !.free = f] /\ b \in pool.free
      BY <2>1, <2>2, <3>1 DEF GetBuffer
    <3>3. pool'.free = f /\ pool'.alloced = pool.alloced
      BY <3>2 DEF Types, PoolSet
    <3>4. pool.free \subseteq DOMAIN pool.alloced
      BY DEF Pool
    <3>5. QED
      BY <2>1, <3>1, <3>2, <3>3, <3>4
  <2>3. CASE pool.free = {}
    <3>1. PICK f : f = [a \in DOMAIN pool.alloced \cup {b} |->
                          IF a = b THEN pool.bufferSize ELSE pool.alloced[a]]
      OBVIOUS
    <3>2. DOMAIN f = DOMAIN pool.alloced \cup {b}
      BY <3>1
    <3>3. pool' = [pool EXCEPT !.alloced = f] /\ b \notin DOMAIN pool.alloced
      BY <2>1, <2>3, <3>1 DEF GetBuffer
    <3>4. pool'.alloced = f /\ pool'.free = {}
      BY <2>3, <3>3 DEF Types, PoolSet
    <3>5. QED
      BY <2>1, <2>3, <3>2, <3>3, <3>4
  <2>4. QED
    BY <2>2, <2>3
<1>2. CASE cur' = NoBuf /\ UNCHANGED pool
  BY <1>2, NoBufKnown
<1>3. QED
  BY <1>1, <1>2 DEF Request

(* A record leaves each buffer in one place.                                 *)
LEMMA RecordBuffers ==
  ASSUME Types, Pool, Buffers, Record
  PROVE  Buffers'
<1>1. UNCHANGED <<flushing, job, lost>>
  BY DEF Record, walkVars, callVars
<1>2. PICK k \in enabled :
        \/ cur.buf = NoOne /\ Request(k) /\ UNCHANGED queue
        \/ /\ cur' = [cur EXCEPT !.kinds = Append(@, k)]
           /\ UNCHANGED <<pool, queue>>
        \/ queue' = Append(queue, cur) /\ Request(k)
  BY DEF Record
<1>3. k \in Monitors
  BY DEF Types
<1>4. CASE cur' = [cur EXCEPT !.kinds = Append(@, k)] /\ UNCHANGED <<pool, queue>>
  <2>1. cur'.buf = cur.buf
    BY <1>4 DEF Types, BufSet
  <2>2. QED
    BY <1>1, <1>4, <2>1, BuffersStay DEF InCur, InQueue, InFlush, InJob
<1>5. CASE Request(k) /\ (queue' = Append(queue, cur) \/ (cur.buf = NoOne /\ UNCHANGED queue))
  <2>1. /\ DOMAIN pool.alloced \ pool.free \subseteq DOMAIN pool'.alloced \ pool'.free
        /\ cur'.buf \in Bufs => /\ cur'.buf \notin DOMAIN pool.alloced \ pool.free
                                /\ cur'.buf \in DOMAIN pool'.alloced \ pool'.free
    <3>1. NoOne \notin Bufs
      BY PythonAdapterAssumption
    <3>2. CASE cur'.buf = NoOne /\ UNCHANGED pool
      BY <3>1, <3>2
    <3>3. CASE ~(cur'.buf = NoOne /\ UNCHANGED pool)
      BY <1>3, <1>5, <3>3, RequestLends
    <3>4. QED
      BY <3>2, <3>3
  <2>2. SUFFICES ASSUME NEW b \in Bufs \ lost
                 PROVE  OnePlace(b)' /\ (InUse(b)' => b \in DOMAIN pool'.alloced \ pool'.free)
    BY <1>1 DEF Buffers
  <2>3. OnePlace(b) /\ (InUse(b) => b \in DOMAIN pool.alloced \ pool.free)
    BY DEF Buffers
  <2>4. InCur(b)' => ~InUse(b) /\ b \in DOMAIN pool'.alloced \ pool'.free
    BY <2>1, <2>3 DEF InCur
  <2>5. \A i \in Nat : InQueue(b, i)' => InQueue(b, i) \/ (i = Len(queue) + 1 /\ InCur(b))
    <3>1. CASE UNCHANGED queue
      BY <3>1 DEF InQueue
    <3>2. CASE queue' = Append(queue, cur)
      <4>1. queue \in Seq(BufSet)
        BY DEF Types
      <4>2. Len(queue) \in Nat /\ DOMAIN queue = 1 .. Len(queue) /\ DOMAIN queue' = 1 .. Len(queue) + 1
        BY <3>2, <4>1, LenProperties, AppendProperties DEF Types
      <4>3. /\ \A i \in 1 .. Len(queue) : queue'[i] = queue[i]
            /\ queue'[Len(queue) + 1] = cur
        BY <3>2, <4>1, AppendProperties DEF Types
      <4>4. QED
        BY <4>2, <4>3 DEF InQueue, InCur
    <3>3. QED
      BY <1>5, <3>1, <3>2
  <2>6. /\ \A t \in Threads, i \in Nat : InFlush(b, t, i)' => InFlush(b, t, i)
        /\ \A x \in Agents : InJob(b, x)' => InJob(b, x)
    BY <1>1 DEF InFlush, InJob
  <2>7. InUse(b)' => b \in DOMAIN pool'.alloced \ pool'.free
    BY <2>1, <2>3, <2>4, <2>5, <2>6 DEF InUse
  <2>8. CASE InCur(b)'
    <3>1. ~InUse(b)
      BY <2>4, <2>8
    <3>2. /\ \A i \in Nat : ~InQueue(b, i)'
          /\ \A t \in Threads, i \in Nat : ~InFlush(b, t, i)'
          /\ \A x \in Agents : ~InJob(b, x)'
      BY <2>5, <2>6, <3>1 DEF InUse
    <3>3. QED
      BY <2>7, <3>2 DEF OnePlace
  <2>9. CASE ~InCur(b)'
    <3>1. \A i, j \in Nat : InQueue(b, i)' /\ InQueue(b, j)' => i = j
      BY <2>3, <2>5 DEF OnePlace
    <3>2. \A i \in Nat : InQueue(b, i)' =>
            /\ \A t \in Threads, j \in Nat : ~InFlush(b, t, j)'
            /\ \A x \in Agents : ~InJob(b, x)'
      BY <2>3, <2>5, <2>6 DEF OnePlace
    <3>3. /\ \A t, u \in Threads, i, j \in Nat : InFlush(b, t, i)' /\ InFlush(b, u, j)' => t = u /\ i = j
          /\ \A x, y \in Agents : InJob(b, x)' /\ InJob(b, y)' => x = y
          /\ \A i \in Nat, t \in Threads, x \in Agents : InFlush(b, t, i)' => ~InJob(b, x)'
      BY <2>3, <2>6 DEF OnePlace
    <3>4. QED
      BY <2>7, <2>9, <3>1, <3>2, <3>3 DEF OnePlace
  <2>10. QED
    BY <2>8, <2>9
<1>6. QED
  BY <1>2, <1>4, <1>5

-----------------------------------------------------------------------------
(* All but the users, action by action.                                      *)
Rest == Types /\ Walks /\ Pool /\ Alive /\ Buffers

(* The pool and the places of the calls stay, as far as Pool tells.          *)
LEMMA PoolStays ==
  ASSUME Pool, UNCHANGED pool,
         \A t \in Threads : pc'[t] \in {"size", "poolSize"} => pc[t] \in {"size", "poolSize"}
  PROVE  Pool'
  BY DEF Pool

(* A call moves, and nothing that Rest tells of.                             *)
LEMMA QuietStep ==
  ASSUME UserTypes, Rest, Types', NEW t \in Threads, NEW l, pc' = [pc EXCEPT ![t] = l],
         l \notin {"size", "poolSize"}, pc[t] \in {"full", "flushed"} => job[t] = NoJob,
         UNCHANGED <<pool, refs, callback, cur, queue, flushing, pos, job, lost>>
  PROVE  Rest'
<1>1. pc'[t] = l /\ \A u \in Threads \ {t} : pc'[u] = pc[u]
  BY DEF UserTypes
<1>2. Pool'
  BY <1>1, PoolStays DEF Rest
<1>3. Walks'
  BY <1>1 DEF Rest, Walks
<1>4. Alive'
  BY DEF Rest, Alive, Refs
<1>5. Buffers'
  BY BuffersStay DEF Rest, InCur, InQueue, InFlush, InJob
<1>6. QED
  BY <1>2, <1>3, <1>4, <1>5 DEF Rest

(* A call without effect on buffers, callbacks and walks.                    *)
LEMMA QuietSteps ==
  ASSUME UserTypes, Users, Rest, NEW t \in Threads,
         \/ Begin(t) \/ CountUser(t) \/ Subscribe(t) \/ StartRegisters(t) \/ CountOff(t)
         \/ StopLooks(t) \/ Unsubscribe(t)
  PROVE  Rest'
<1>1. UNCHANGED <<mtx, bufferSize, pool, enabled, refs, callback, cur, queue, flushing, pos, job, lost>>
  BY DEF Begin, CountUser, Subscribe, StartRegisters, CountOff, StopLooks, Unsubscribe, lockVars,
         poolVars, cbVars, amVars, walkVars
<1>2. gil' \in Agents \cup {NoOne}
  BY DEF Begin, CountUser, Subscribe, StartRegisters, CountOff, StopLooks, Unsubscribe, lockVars,
         Rest, Types, Agents
<1>3. Types'
  BY <1>1, <1>2 DEF Rest, Types
<1>4. pc[t] \notin {"full", "flushed"}
  BY DEF Begin, CountUser, Subscribe, StartRegisters, CountOff, StopLooks, Unsubscribe
<1>5. PICK l : pc' = [pc EXCEPT ![t] = l] /\ l \notin {"size", "poolSize"}
  <2>1. CASE Begin(t)
    <3>1. pc' = [pc EXCEPT ![t] = Head(todo[t]).fn] /\ todo[t] # <<>> /\ todo[t] \in Todos
      BY <2>1 DEF Begin, Goto, UserTypes
    <3>2. Head(todo[t]).fn \notin {"size", "poolSize"}
      BY <3>1, TodoFacts
    <3>3. QED
      BY <3>1, <3>2
  <2>2. CASE ~Begin(t)
    BY <2>2 DEF CountUser, Subscribe, StartRegisters, CountOff, StopLooks, Unsubscribe, Goto, Return,
                Fail
  <2>3. QED
    BY <2>1, <2>2
<1>6. QED
  BY <1>1, <1>3, <1>4, <1>5, QuietStep

(* A monitor or the user calls.                                              *)
LEMMA CallRest ==
  ASSUME UserTypes, Rest, NEW t \in Threads, Call(t)
  PROVE  Rest'
<1>1. UNCHANGED <<TypedVars, lost, pc>>
  BY DEF Call, lockVars, poolVars, cbVars, amVars, walkVars, TypedVars
<1>2. Types'
  BY <1>1, TypesStay DEF Rest
<1>3. PICK l : l = pc[t]
  OBVIOUS
<1>4. pc' = [pc EXCEPT ![t] = l] /\ pc[t] = "idle"
  BY <1>1, <1>3 DEF UserTypes, Call
<1>5. QED
  BY <1>1, <1>2, <1>3, <1>4, QuietStep DEF TypedVars

(* The size is set, which a start uses later.                                *)
LEMMA SetBufferSizeRest ==
  ASSUME UserTypes, Users, Rest, NEW t \in Threads, SetBufferSize(t)
  PROVE  Rest'
<1>1. PICK n : n = Head(todo[t]).arg
  OBVIOUS
<1>2. /\ pc[t] = "set_buffer_size" /\ gil' = NoOne /\ pc' = [pc EXCEPT ![t] = "idle"]
      /\ bufferSize' = IF n > MaxBufferSize THEN bufferSize ELSE n
      /\ UNCHANGED <<mtx, pool, enabled, refs, callback, cur, queue, flushing, pos, job, lost>>
  BY <1>1 DEF SetBufferSize, Return, cbVars, amVars, walkVars
<1>3. n \in Nat \ {0}
  BY <1>1, <1>2, ArgKnown, PythonAdapterAssumption
<1>4. bufferSize' \in 1 .. MaxBufferSize
  BY <1>2, <1>3, PythonAdapterAssumption DEF Rest, Types
<1>5. Types'
  BY <1>2, <1>4 DEF Rest, Types
<1>6. QED
  BY <1>2, <1>5, QuietStep

(* Clear leaves an empty pool without a size.                                *)
LEMMA ClearPoolRest ==
  ASSUME Types, Buffers, ClearPool, UNCHANGED <<cur, queue, flushing, job>>
  PROVE  pool' \in PoolSet /\ Pool' /\ Buffers'
<1>1. pool' = [bufferSize |-> 0, poolSize |-> 0, alloced |-> <<>>, free |-> {}]
  BY DEF ClearPool
<1>2. pool' \in PoolSet /\ DOMAIN pool'.alloced = {} /\ pool'.free = {} /\ pool'.poolSize = 0
  BY <1>1, ClearedKnown
<1>3. Pool'
  BY <1>2, FS_EmptySet DEF Pool
<1>4. QED
  BY <1>2, <1>3, ClearBuffers

(* A start that clears the pool counts the buffers in use as lost.        *)
LEMMA StartClearsRest ==
  ASSUME UserTypes, Rest, NEW t \in Threads, StartClears(t)
  PROVE  Rest'
<1>1. /\ ClearPool /\ pc[t] = "clear" /\ pc' = [pc EXCEPT ![t] = "size"]
      /\ UNCHANGED <<gil, mtx, bufferSize, enabled, refs, callback, cur, queue, flushing, pos, job>>
  BY DEF StartClears, Goto, lockVars, cbVars, amVars, walkVars
<1>2. pool' \in PoolSet /\ Pool' /\ Buffers'
  BY <1>1, ClearPoolRest DEF Rest
<1>3. Types'
  BY <1>1, <1>2 DEF Rest, Types
<1>4. Walks'
  BY <1>1 DEF Rest, Walks, UserTypes
<1>5. Alive'
  BY <1>1 DEF Rest, Alive, Refs
<1>6. QED
  BY <1>2, <1>3, <1>4, <1>5 DEF Rest

(* The start gives the pool its sizes while it is empty.                     *)
LEMMA StartSetsRest ==
  ASSUME UserTypes, Users, Rest, NEW t \in Threads, StartSetsSize(t) \/ StartSetsPool(t)
  PROVE  Rest'
<1>1. PICK l \in {"poolSize", "handles"} :
        /\ pc[t] \in {"size", "poolSize"} /\ pc' = [pc EXCEPT ![t] = l]
        /\ l = "poolSize" => pool' = [pool EXCEPT !.bufferSize = bufferSize]
        /\ l = "handles" => pool' = [pool EXCEPT !.poolSize = MaxBufferSize \div bufferSize]
  BY DEF StartSetsSize, StartSetsPool, Goto
<1>2. UNCHANGED <<gil, mtx, bufferSize, enabled, refs, callback, cur, queue, flushing, pos, job, lost>>
  BY DEF StartSetsSize, StartSetsPool, lockVars, cbVars, amVars, walkVars
<1>3. pc'[t] = l /\ \A u \in Threads \ {t} : pc'[u] = pc[u] /\ pc[u] \notin {"size", "poolSize"}
  BY <1>1 DEF UserTypes, Users, Subscribed, SetUp
<1>4. bufferSize \in Nat /\ MaxBufferSize \div bufferSize \in Nat
  <2>1. MaxBufferSize \in Nat /\ bufferSize \in Nat /\ bufferSize > 0
    BY PythonAdapterAssumption DEF Rest, Types
  <2>2. \A m, n \in Nat : n > 0 => m \div n \in Nat
    OBVIOUS
  <2>3. QED
    BY <2>1, <2>2
<1>5. pool.poolSize = 0 /\ DOMAIN pool.alloced = {} /\ pool \in PoolSet
  BY <1>1 DEF Rest, Pool, Types
<1>6. /\ pool' \in PoolSet /\ pool'.alloced = pool.alloced /\ pool'.free = pool.free
      /\ l = "poolSize" => pool'.poolSize = 0
  BY <1>1, <1>4, <1>5 DEF PoolSet
<1>7. Types'
  BY <1>2, <1>6 DEF Rest, Types
<1>8. Pool'
  <2>1. Cardinality(DOMAIN pool'.alloced) = 0 /\ IsFiniteSet(DOMAIN pool'.alloced)
    BY <1>5, <1>6, FS_EmptySet
  <2>2. pool'.poolSize \in Nat
    BY <1>6 DEF PoolSet
  <2>3. pool'.free \subseteq DOMAIN pool'.alloced
    BY <1>6 DEF Rest, Pool
  <2>4. QED
    BY <1>3, <1>5, <1>6, <2>1, <2>2, <2>3 DEF Pool
<1>9. Walks'
  BY <1>1, <1>2, <1>3 DEF Rest, Walks
<1>10. Alive'
  BY <1>2 DEF Rest, Alive, Refs
<1>11. Buffers'
  BY <1>2, <1>6, BuffersStay DEF Rest, InCur, InQueue, InFlush, InJob
<1>12. QED
  BY <1>7, <1>8, <1>9, <1>10, <1>11 DEF Rest

(* A flush without users clears.                                             *)
LEMMA FlushClearsRest ==
  ASSUME UserTypes, Rest, NEW t \in Threads, FlushClears(t)
  PROVE  Rest'
<1>1. /\ pc[t] = "flushed" /\ job[t] = NoJob /\ mtx' = NoOne /\ pc' = [pc EXCEPT ![t] = "idle"]
      /\ ClearPool \/ UNCHANGED <<pool, lost>>
      /\ UNCHANGED <<gil, bufferSize, enabled, refs, callback, cur, queue, flushing, pos, job>>
  BY DEF FlushClears, Return, cbVars, amVars, walkVars
<1>2. CASE ClearPool
  <2>1. pool' \in PoolSet /\ Pool' /\ Buffers'
    BY <1>1, <1>2, ClearPoolRest DEF Rest
  <2>2. Types'
    BY <1>1, <2>1 DEF Rest, Types
  <2>3. Walks'
    BY <1>1 DEF Rest, Walks, UserTypes
  <2>4. Alive'
    BY <1>1 DEF Rest, Alive, Refs
  <2>5. QED
    BY <2>1, <2>2, <2>3, <2>4 DEF Rest
<1>3. CASE UNCHANGED <<pool, lost>>
  <2>1. Types'
    BY <1>1, <1>3 DEF Rest, Types
  <2>2. QED
    BY <1>1, <1>3, <2>1, QuietStep
<1>4. QED
  BY <1>1, <1>2, <1>3

(* The walk of a job that goes on, and what it does to the position.         *)
LEMMA WalkGoesOn ==
  ASSUME Types, Walks, NEW x \in Agents, job[x] # NoJob, NEW j \in JobSet,
         job' = [job EXCEPT ![x] = j], UNCHANGED pc,
         \A y \in Agents \ {x} : pos'[y] = pos[y],
         j.stage \in {"walk", "in", "out"}
  PROVE  Walks'
<1>1. job'[x] = j /\ \A y \in Agents \ {x} : job'[y] = job[y]
  BY DEF Types
<1>2. QED
  BY <1>1, NoJobIsNone DEF Walks

(* A completion, step by step.                                               *)
LEMMA CompleteRest ==
  ASSUME Rest, NEW x \in Agents, Complete(x)
  PROVE  Rest'
<1>1. Types /\ Walks /\ Pool /\ Alive /\ Buffers
  BY DEF Rest
<1>2. CASE AcquireGil(x) \/ SwitchThread(x)
  <2>1. Types' /\ job[x] \in JobSet /\ job[x] # NoJob
    BY <1>1, <1>2, AcquireFacts, SwitchFacts, NoJobIsNone
  <2>2. PICK j \in JobSet :
          /\ job' = [job EXCEPT ![x] = j] /\ j.buf = job[x].buf /\ j.obj = job[x].obj
          /\ j.stage \in {"walk", "in", "out"}
          /\ j.stage \in {"wait", "walk"} <=> job[x].stage \in {"wait", "walk"}
    <3>1. CASE AcquireGil(x)
      <4>1. PICK j \in JobSet :
              /\ job' = [job EXCEPT ![x] = j] /\ j.buf = job[x].buf /\ j.obj = job[x].obj
              /\ \/ job[x].stage = "wait" /\ j.stage = "walk"
                 \/ job[x].stage = "out" /\ j.stage = "in"
        BY <1>1, <3>1, AcquireFacts
      <4>2. QED
        BY <4>1
    <3>2. CASE SwitchThread(x)
      <4>1. PICK j \in JobSet :
              /\ job' = [job EXCEPT ![x] = j] /\ j.buf = job[x].buf /\ j.obj = job[x].obj
              /\ j.stage = "out" /\ job[x].stage = "in"
        BY <1>1, <3>2, SwitchFacts
      <4>2. QED
        BY <4>1
    <3>3. QED
      BY <1>2, <3>1, <3>2
  <2>3. UNCHANGED <<pool, refs, callback, cur, queue, flushing, pos, lost, pc>>
    BY <1>2 DEF AcquireGil, SwitchThread, poolVars, cbVars, amVars, callVars
  <2>4. Walks'
    BY <1>1, <2>1, <2>2, <2>3, WalkGoesOn
  <2>5. Pool'
    BY <1>1, <2>3, PoolStays
  <2>6. Alive'
    BY <1>1, <2>1, <2>2, <2>3, JobAlive
  <2>7. Buffers'
    BY <1>1, <2>1, <2>2, <2>3, JobBuffers
  <2>8. QED
    BY <2>1, <2>4, <2>5, <2>6, <2>7 DEF Rest
<1>3. CASE Consume(x)
  <2>1. Types' /\ job[x] \in JobSet /\ job[x] # NoJob /\ job[x].stage = "walk"
        /\ pos' = [pos EXCEPT ![x] = @ + 1]
    BY <1>1, <1>3, ConsumeFacts, NoJobIsNone
  <2>2. PICK j \in JobSet : /\ job' = [job EXCEPT ![x] = j] /\ j.buf = job[x].buf
                            /\ j.stage \in {"walk", "in"}
    <3>1. CASE UNCHANGED job
      <4>1. PICK j : j = job[x]
        OBVIOUS
      <4>2. job' = [job EXCEPT ![x] = j]
        BY <1>1, <3>1, <4>1 DEF Types
      <4>3. QED
        BY <2>1, <4>1, <4>2
    <3>2. CASE ~UNCHANGED job
      <4>1. PICK k \in Monitors, j \in JobSet :
              job' = [job EXCEPT ![x] = j] /\ j.buf = job[x].buf /\ j.stage = "in"
        BY <1>1, <1>3, <3>2, ConsumeFacts
      <4>2. QED
        BY <4>1
    <3>3. QED
      BY <3>1, <3>2
  <2>3. UNCHANGED <<pool, cur, queue, flushing, lost, pc>>
    BY <1>3 DEF Consume, poolVars, amVars, callVars
  <2>4. Walks'
    <3>1. \A y \in Agents \ {x} : pos'[y] = pos[y]
      BY <1>1, <2>1 DEF Types
    <3>2. QED
      BY <1>1, <2>1, <2>2, <2>3, <3>1, WalkGoesOn
  <2>5. Pool'
    BY <1>1, <2>3, PoolStays
  <2>6. Buffers'
    BY <1>1, <2>1, <2>2, <2>3, JobBuffers
  <2>7. QED
    BY <1>1, <1>3, <2>1, <2>4, <2>5, <2>6, ConsumeAlive DEF Rest
<1>4. CASE CallbackReturns(x)
  <2>1. Types' /\ job[x] \in JobSet /\ job[x] # NoJob
    BY <1>1, <1>4, ReturnsFacts, NoJobIsNone
  <2>2. PICK j \in JobSet : job' = [job EXCEPT ![x] = j] /\ j.buf = job[x].buf /\ j.stage = "walk"
    BY <1>1, <1>4, ReturnsFacts
  <2>3. UNCHANGED <<pool, cur, queue, flushing, pos, lost, pc>>
    BY <1>4 DEF CallbackReturns, poolVars, amVars, callVars
  <2>4. Walks'
    BY <1>1, <2>1, <2>2, <2>3, WalkGoesOn
  <2>5. Pool'
    BY <1>1, <2>3, PoolStays
  <2>6. Buffers'
    BY <1>1, <2>1, <2>2, <2>3, JobBuffers
  <2>7. QED
    BY <1>1, <1>4, <2>1, <2>4, <2>5, <2>6, ReturnsAlive DEF Rest
<1>5. CASE Completed(x)
  <2>1. /\ Types' /\ job[x] \in JobSet /\ job[x] # NoJob /\ job' = [job EXCEPT ![x] = NoJob]
        /\ pos' = [pos EXCEPT ![x] = 0] /\ pool' = Recycle(job[x].buf.buf)
        /\ UNCHANGED <<refs, callback, pc>>
    BY <1>1, <1>5, CompletedFacts, NoJobIsNone
  <2>2. Walks'
    <3>1. /\ pos'[x] = 0 /\ \A y \in Agents \ {x} : pos'[y] = pos[y]
          /\ job'[x] = NoJob /\ \A y \in Agents \ {x} : job'[y] = job[y]
      BY <1>1, <2>1 DEF Types
    <3>2. QED
      BY <1>1, <2>1, <3>1 DEF Walks
  <2>3. Pool'
    <3>1. /\ pool'.alloced = pool.alloced /\ pool'.poolSize = pool.poolSize
          /\ pool'.free \subseteq DOMAIN pool'.alloced
      BY <1>1, <2>1 DEF Recycle, Types, PoolSet, Pool
    <3>2. QED
      BY <1>1, <2>1, <3>1 DEF Pool
  <2>4. Alive'
    BY <1>1, <2>1, JobAlive
  <2>5. QED
    BY <1>1, <1>5, <2>1, <2>2, <2>3, <2>4, CompletedBuffers DEF Rest
<1>6. QED
  BY <1>2, <1>3, <1>4, <1>5 DEF Complete

(* The pool lends what it has, or allocates up to its size.                  *)
LEMMA RequestPool ==
  ASSUME Types, Pool, NEW k \in Monitors, Request(k), UNCHANGED pc
  PROVE  Pool'
<1>1. CASE UNCHANGED pool
  BY <1>1, PoolStays
<1>2. CASE ~UNCHANGED pool
  <2>1. PICK b \in Bufs : CanAlloc /\ pool.poolSize # 0 /\ GetBuffer(b)
    BY <1>2 DEF Request
  <2>2. \A t \in Threads : pc'[t] \notin {"size", "poolSize"}
    BY <2>1 DEF Pool
  <2>3. CASE pool.free # {}
    <3>1. /\ pool'.alloced = pool.alloced /\ pool'.poolSize = pool.poolSize
          /\ pool'.free \subseteq pool.free
      BY <2>1, <2>3 DEF GetBuffer, Types, PoolSet
    <3>2. QED
      BY <2>2, <3>1 DEF Pool
  <2>4. CASE pool.free = {}
    <3>1. PICK S : S = DOMAIN pool.alloced
      OBVIOUS
    <3>2. PICK f : f = [a \in DOMAIN pool.alloced \cup {b} |->
                          IF a = b THEN pool.bufferSize ELSE pool.alloced[a]]
      OBVIOUS
    <3>3. DOMAIN f = S \cup {b} /\ pool' = [pool EXCEPT !.alloced = f] /\ b \notin S
      BY <2>1, <2>4, <3>1, <3>2 DEF GetBuffer
    <3>4. pool'.alloced = f /\ pool'.free = {} /\ pool'.poolSize = pool.poolSize
      BY <2>4, <3>3 DEF Types, PoolSet
    <3>5. IsFiniteSet(S) /\ Cardinality(S) < pool.poolSize
      BY <2>1, <2>4, <3>1 DEF CanAlloc, Pool
    <3>6. IsFiniteSet(S \cup {b}) /\ Cardinality(S \cup {b}) = Cardinality(S) + 1
      BY <3>3, <3>5, FS_AddElement, Zenon
    <3>7. Cardinality(S) \in Nat /\ pool.poolSize \in Nat
      BY <3>5, FS_CardinalityType DEF Types, PoolSet
    <3>8. QED
      BY <2>2, <3>3, <3>4, <3>5, <3>6, <3>7 DEF Pool
  <2>5. QED
    BY <2>3, <2>4
<1>3. QED
  BY <1>1, <1>2

(* A record keeps what is said of the rest.                                  *)
LEMMA RecordRest ==
  ASSUME Rest, Record
  PROVE  Rest'
<1>1. Types /\ Walks /\ Pool /\ Alive /\ Buffers
  BY DEF Rest
<1>2. UNCHANGED <<refs, callback, pos, job, pc>>
  BY DEF Record, cbVars, walkVars, callVars
<1>3. PICK k \in Monitors : UNCHANGED pool \/ Request(k)
  BY <1>1 DEF Record, Types
<1>4. Pool'
  BY <1>1, <1>2, <1>3, PoolStays, RequestPool
<1>5. Walks' /\ Alive'
  BY <1>1, <1>2 DEF Walks, Alive, Refs
<1>6. QED
  BY <1>1, <1>4, <1>5, RecordTypes, RecordBuffers DEF Rest

(* The worker takes a full buffer.                                           *)
LEMMA TakeFullRest ==
  ASSUME Rest, TakeFull
  PROVE  Rest'
<1>1. Types /\ Walks /\ Pool /\ Alive /\ Buffers
  BY DEF Rest
<1>2. UNCHANGED <<pool, refs, callback, pos, pc>> /\ job[Worker] = NoJob /\ Worker \in Agents
  BY DEF TakeFull, poolVars, cbVars, callVars, Agents
<1>3. PICK j \in JobSet : job' = [job EXCEPT ![Worker] = j] /\ j.obj = NoOne /\ j.stage = "wait"
  <2>1. queue \in Seq(BufSet) /\ queue # <<>>
    BY <1>1 DEF Types, TakeFull
  <2>2. Head(queue) \in BufSet
    BY <2>1, HeadTailProperties
  <2>3. QED
    BY <2>2, NewJobKnown DEF TakeFull
<1>4. job'[Worker] = j /\ \A y \in Agents \ {Worker} : job'[y] = job[y]
  BY <1>1, <1>2, <1>3 DEF Types
<1>5. Walks'
  BY <1>1, <1>2, <1>4, PythonAdapterAssumption DEF Walks, Agents
<1>6. Alive'
  BY <1>1, <1>2, <1>3, JobAlive
<1>7. QED
  BY <1>1, <1>2, <1>5, <1>6, PoolStays, TakeFullTypes, TakeFullBuffers DEF Rest

(* FlushAll.                                                                 *)
LEMMA FlushRest ==
  ASSUME UserTypes, Rest, NEW t \in Threads, FlushLocks(t) \/ FlushCompletes(t) \/ FlushJoins(t)
  PROVE  Rest'
<1>1. Types /\ Walks /\ Pool /\ Alive /\ Buffers /\ t \in Agents
  BY DEF Rest, Agents
<1>2. PICK l \in {"full", "join", "flushed"} :
        /\ pc' = [pc EXCEPT ![t] = l]
        /\ job'[t] # NoJob => l # "join"
  <2>1. CASE FlushLocks(t)
    BY <2>1 DEF FlushLocks, Goto
  <2>2. CASE FlushCompletes(t)
    <3>1. CASE UNCHANGED pc
      <4>1. pc[t] = "full" /\ pc' = [pc EXCEPT ![t] = "full"]
        BY <2>2, <3>1 DEF FlushCompletes, UserTypes
      <4>2. QED
        BY <4>1
    <3>2. CASE pc' = [pc EXCEPT ![t] = "join"] /\ job' = job
      BY <2>2, <3>2 DEF FlushCompletes
    <3>3. QED
      BY <2>2, <3>1, <3>2 DEF FlushCompletes, Goto
  <2>3. CASE FlushJoins(t)
    BY <2>3 DEF FlushJoins, Goto
  <2>4. QED
    BY <2>1, <2>2, <2>3
<1>3. pc'[t] = l /\ \A u \in Threads \ {t} : pc'[u] = pc[u]
  BY <1>2 DEF UserTypes
<1>4. /\ Types' /\ UNCHANGED <<refs, callback, pos, pool>>
      /\ \/ UNCHANGED job
         \/ \E j \in JobSet : /\ job' = [job EXCEPT ![t] = j] /\ job[t] = NoJob
                              /\ j.stage = "wait" /\ j.obj = NoOne
  <2>1. CASE FlushLocks(t)
    BY <1>1, <2>1, FlushLocksFacts
  <2>2. CASE FlushCompletes(t)
    BY <1>1, <2>2, FlushCompletesFacts
  <2>3. CASE FlushJoins(t)
    <3>1. job[t] = NoJob
      BY <1>1, <2>3 DEF Walks, FlushJoins
    <3>2. QED
      BY <1>1, <2>3, <3>1, FlushJoinsFacts
  <2>4. QED
    BY <2>1, <2>2, <2>3
<1>5. Buffers'
  BY <1>1, FlushLocksBuffers, FlushCompletesBuffers, FlushJoinsBuffers
<1>6. Pool'
  BY <1>1, <1>3, <1>4, PoolStays
<1>7. CASE UNCHANGED job
  <2>1. Walks'
    BY <1>1, <1>2, <1>3, <1>4, <1>7 DEF Walks
  <2>2. Alive'
    BY <1>1, <1>4, <1>7 DEF Alive, Refs
  <2>3. QED
    BY <1>4, <1>5, <1>6, <2>1, <2>2 DEF Rest
<1>8. CASE ~UNCHANGED job
  <2>1. PICK j \in JobSet : /\ job' = [job EXCEPT ![t] = j] /\ job[t] = NoJob
                            /\ j.stage = "wait" /\ j.obj = NoOne
    BY <1>4, <1>8
  <2>2. job'[t] = j /\ \A y \in Agents \ {t} : job'[y] = job[y]
    BY <1>1, <2>1 DEF Types
  <2>3. Walks'
    <3>1. \A y \in Agents : job'[y] = NoJob \/ job'[y].stage = "wait" => pos'[y] = 0
      BY <1>1, <1>4, <2>1, <2>2 DEF Walks
    <3>2. \A u \in Threads : job'[u] # NoJob => pc'[u] \in {"full", "flushed"}
      BY <1>1, <1>2, <1>3, <2>2 DEF Walks, Agents
    <3>3. QED
      BY <3>1, <3>2 DEF Walks
  <2>4. Alive'
    BY <1>1, <1>4, <2>1, JobAlive
  <2>5. QED
    BY <1>4, <1>5, <1>6, <2>3, <2>4 DEF Rest
<1>9. QED
  BY <1>7, <1>8

(* A callback is set, or removed.                                            *)
LEMMA CallbackRest ==
  ASSUME UserTypes, Users, Rest, NEW t \in Threads, RegisterCallback(t) \/ UnregisterCallback(t)
  PROVE  Rest'
<1>1. Types /\ Walks /\ Pool /\ Alive /\ Buffers
  BY DEF Rest
<1>2. Types' /\ Alive' /\ UNCHANGED <<job, pos, cur, queue, flushing, pool, lost>>
  BY <1>1, RegisterFacts, UnregisterFacts, RegisterAlive, UnregisterAlive
<1>3. pc' = [pc EXCEPT ![t] = "idle"] /\ pc[t] \notin {"full", "flushed"}
  BY DEF RegisterCallback, UnregisterCallback, Return
<1>4. pc'[t] = "idle" /\ \A u \in Threads \ {t} : pc'[u] = pc[u]
  BY <1>3 DEF UserTypes
<1>5. Pool' /\ Walks'
  BY <1>1, <1>2, <1>3, <1>4, PoolStays DEF Walks
<1>6. Buffers'
  BY <1>1, <1>2, BuffersStay DEF InCur, InQueue, InFlush, InJob
<1>7. QED
  BY <1>2, <1>5, <1>6 DEF Rest

(* Every step keeps what is said of the rest.                                *)
LEMMA RestStep ==
  ASSUME UserTypes, Users, Rest, [Next]_vars
  PROVE  Rest'
<1>1. CASE UNCHANGED vars
  <2>1. UNCHANGED <<TypedVars, lost, pc>>
    BY <1>1 DEF vars, TypedVars, lockVars, poolVars, cbVars, amVars, walkVars, callVars
  <2>2. Types'
    BY <2>1, TypesStay DEF Rest
  <2>3. Walks' /\ Alive' /\ Pool'
    BY <2>1 DEF TypedVars, Rest, Walks, Alive, Refs, Pool
  <2>4. Buffers'
    BY <2>1, BuffersStay DEF TypedVars, Rest, InCur, InQueue, InFlush, InJob
  <2>5. QED
    BY <2>2, <2>3, <2>4 DEF Rest
<1>2. CASE Record \/ TakeFull \/ \E x \in Agents : Complete(x)
  BY <1>2, RecordRest, TakeFullRest, CompleteRest
<1>3. ASSUME NEW t \in Threads, Call(t) \/ Step(t)
      PROVE  Rest'
  BY <1>3, CallRest, QuietSteps, StartClearsRest, StartSetsRest, FlushRest, FlushClearsRest,
     SetBufferSizeRest, CallbackRest DEF Step
<1>4. QED
  BY <1>1, <1>2, <1>3 DEF Next

(* At the start there is no job and no buffer.                               *)
LEMMA InitRest == Init => Rest
<1> SUFFICES ASSUME Init PROVE Rest
  OBVIOUS
<1>1. pool \in PoolSet /\ pool.alloced = <<>> /\ pool.free = {} /\ pool.poolSize = 0
  BY ClearedKnown DEF Init
<1>2. /\ \A x \in Agents : job[x] = NoJob /\ pos[x] = 0
      /\ \A t \in Threads : flushing[t] = <<>> /\ pc[t] = "idle"
      /\ cur = NoBuf /\ queue = <<>> /\ refs = <<>> /\ \A k \in Monitors : callback[k] = NoOne
  BY DEF Init
<1>3. DOMAIN <<>> = {}
  BY ClearedKnown
<1>4. Types
  <2>1. /\ bufferSize \in 1 .. MaxBufferSize
        /\ gil \in Agents \cup {NoOne} /\ mtx \in Threads \cup {NoOne} /\ enabled \subseteq Monitors
    BY PythonAdapterAssumption DEF Init
  <2>2. refs \in Seq(Nat) /\ callback \in [Monitors -> Nat \cup {NoOne}]
    BY EmptySeq DEF Init
  <2>3. cur \in BufSet /\ queue \in Seq(BufSet) /\ flushing \in [Threads -> Seq(BufSet)]
    BY NoBufKnown, EmptySeq DEF Init
  <2>4. pos \in [Agents -> Nat] /\ job \in [Agents -> JobSet \cup {NoJob}]
    BY DEF Init
  <2>5. QED
    BY <1>1, <2>1, <2>2, <2>3, <2>4 DEF Types
<1>5. Walks
  BY <1>2 DEF Walks, Agents
<1>6. Pool
  BY <1>1, <1>2, <1>3, FS_EmptySet DEF Pool
<1>7. Alive
  BY <1>2, <1>3 DEF Alive
<1>8. Buffers
  <2> SUFFICES ASSUME NEW b \in Bufs
               PROVE  OnePlace(b) /\ ~InUse(b)
    BY DEF Buffers
  <2>1. /\ ~InCur(b) /\ \A i \in Nat : ~InQueue(b, i)
        /\ \A t \in Threads, i \in Nat : ~InFlush(b, t, i)
        /\ \A x \in Agents : ~InJob(b, x)
    BY <1>2, <1>3, NoBufKnown, PythonAdapterAssumption DEF InCur, InQueue, InFlush, InJob
  <2>2. QED
    BY <2>1 DEF OnePlace, InUse
<1>9. QED
  BY <1>4, <1>5, <1>6, <1>7, <1>8 DEF Rest

(* The invariant, for every value of the constants.                          *)
THEOREM Inductive == Spec => []IndInv
<1>1. Init => IndInv
  BY InitUsers, InitRest DEF IndInv, Rest
<1>2. IndInv /\ [Next]_vars => IndInv'
  <2> SUFFICES ASSUME IndInv, [Next]_vars PROVE IndInv'
    OBVIOUS
  <2>1. UserTypes /\ Users /\ Rest
    BY DEF IndInv, Rest
  <2>2. UserTypes' /\ Users'
    BY <2>1, UsersStep
  <2>3. Rest'
    BY <2>1, RestStep
  <2>4. QED
    BY <2>2, <2>3 DEF IndInv, Rest
<1>3. QED
  BY <1>1, <1>2, PTL DEF Spec

(* Every variable has its type, the pool has not more buffers than its size, *)
(* and every walk over a buffer starts at its first record, though the       *)
(* library keeps one position per thread for all buffers.                    *)
THEOREM TypeCorrect == Spec => []TypeOK
<1>1. IndInv => TypeOK
  <2> SUFFICES ASSUME IndInv PROVE TypeOK
    OBVIOUS
  <2>1. refCnt \in 0 .. MaxCalls
    <3>1. Cardinality(Pending) \in Nat
      BY FiniteMonitors DEF Pending
    <3>2. Cardinality(Pending) + refCnt <= calls /\ refCnt \in Nat /\ calls \in 0 .. MaxCalls
      BY DEF IndInv, Users, Count, UserTypes
    <3>3. MaxCalls \in Nat
      BY PythonAdapterAssumption
    <3>4. QED
      BY <3>1, <3>2, <3>3
  <2>2. DOMAIN pool.alloced \subseteq Bufs
    BY DEF IndInv, Types, PoolSet, Allocs
  <2>3. QED
    BY <2>1, <2>2 DEF IndInv, Types, Pool, Walks, Alive, TypeOK
<1>2. QED
  BY <1>1, Inductive, PTL

(* A callback that runs has its object, whatever is unregistered meanwhile;  *)
(* a buffer that is written to or read is memory of the pool that is not     *)
(* lent again, and is in one place, but for what Clear freed while in use.   *)
THEOREM WhatIsInUseIsAlive == Spec => []InUseIsAlive
<1>1. IndInv => InUseIsAlive
  <2> SUFFICES ASSUME IndInv PROVE InUseIsAlive
    OBVIOUS
  <2>1. ASSUME NEW x \in Agents, job[x] # NoJob, job[x].obj # NoOne
        PROVE  refs[job[x].obj] > 0
    <3>1. PICK o : o = job[x].obj
      OBVIOUS
    <3>2. o \in DOMAIN refs /\ refs[o] \in Nat /\ Enough(Refs(o), refs[o])
      BY <2>1, <3>1, RefsKnown, AliveMeans DEF IndInv
    <3>3. <<"job", x>> \in Refs(o)
      BY <2>1, <3>1 DEF Refs
    <3>4. refs[o] > 0
      BY <3>2, <3>3, EnoughLess
    <3>5. QED
      BY <3>1, <3>4
  <2>2. ASSUME NEW b \in Held \ lost
        PROVE  b \in DOMAIN pool.alloced \ pool.free /\ Cardinality(Uses(b)) = 1
    <3>1. b \in Bufs \ lost /\ Uses(b) # {}
      BY DEF Held
    <3>2. InUse(b) /\ OnePlace(b) /\ b \in DOMAIN pool.alloced \ pool.free
      BY <3>1, InUseIsUsed DEF IndInv, Buffers
    <3>3. QED
      BY <3>1, <3>2, OneUse DEF IndInv
  <2>3. QED
    BY <2>1, <2>2 DEF InUseIsAlive
<1>2. QED
  BY <1>1, Inductive, PTL
=============================================================================
