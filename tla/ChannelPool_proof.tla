-------------------------- MODULE ChannelPool_proof --------------------------
(***************************************************************************)
(* Proofs about ChannelPool: whatever the number of channels, workers and  *)
(* places of a queue, a reader waits at one place at most and is executed  *)
(* by one worker at a time; and whatever the lengths of a record, of the   *)
(* buffer and of the reads, the parser of a channel gets the records that  *)
(* the device wrote, whole, once and in order.                             *)
(***************************************************************************)
EXTENDS ChannelPool, FiniteSetTheorems, SequenceTheorems, TLAPS

(* The state of the pool, as far as it concerns the scheduling.              *)
Types ==
  /\ stage \in {"new", "up", "joinpoll", "joining", "stopped"}
  /\ poller \in {"off", "poll", "dispatch", "push", "done"}
  /\ chan \in Seq(Chans) /\ home \in Seq(Workers) /\ sched \in Seq(BOOLEAN)
  /\ Len(home) = Len(chan) /\ Len(sched) = Len(chan)
  /\ map \in [Chans -> Nat] /\ \A c \in Chans : map[c] <= Len(chan)
  /\ due \in Seq(Chans)
  /\ queue \in [Workers -> Seq(Nat)] /\ task \in [Workers -> Nat]
  /\ at \in [Workers -> {"off", "pop", "begin", "loop", "read", "parse", "done"}]

(* What the poller has in hand; while it waits in Push nobody changes the    *)
(* readers.                                                                  *)
InHand ==
  /\ poller \in {"dispatch", "push"} => due # <<>>
  /\ poller = "push" => mtx /\ map[Head(due)] # NoReader
  /\ stage = "new" => poller = "off" /\ \A w \in Workers : at[w] = "off"

(* A worker has only readers whose hash selects it.                          *)
AtHome(w) ==
  /\ at[w] \in {"begin", "loop", "read", "parse"} => task[w] # NoReader
  /\ task[w] # NoReader => task[w] \in Readers /\ home[task[w]] = w
  /\ \A i \in 1..Len(queue[w]) : queue[w][i] \in Readers /\ home[queue[w][i]] = w
  /\ Len(queue[w]) <= Capacity

Homes == \A w \in Workers : AtHome(w)

PoolInv == Types /\ InHand /\ Homes /\ ScheduledOnce

-----------------------------------------------------------------------------
(* The places at which a reader can wait.                                    *)
Slots            == 1..Capacity
InQueue(r, w, i) == i \in 1..Len(queue[w]) /\ queue[w][i] = r

(* A place is the poller's, a worker's, or one of a worker's queue.          *)
LEMMA PlaceCases ==
  /\ PollerPlace \in Places
  /\ \A w \in Workers, i \in 0..Capacity : <<w, i>> \in Places /\ <<w, i>> # PollerPlace
  /\ \A p \in Places : \/ p = PollerPlace
                       \/ \E w \in Workers : p = <<w, 0>>
                       \/ \E w \in Workers, i \in Slots : p = <<w, i>>
<1>1. /\ PollerPlace \in Places
      /\ \A w \in Workers, i \in 0..Capacity : <<w, i>> \in Places /\ <<w, i>> # PollerPlace
  BY ChannelPoolAssumption DEF Places, PollerPlace, Workers
<1>2. \A i \in 0..Capacity : i = 0 \/ i \in Slots
  BY ChannelPoolAssumption DEF Slots
<1>3. \A p \in Places : p = PollerPlace \/ \E w \in Workers, i \in 0..Capacity : p = <<w, i>>
  BY DEF Places
<1>4. QED
  BY <1>1, <1>2, <1>3

(* What it is to wait at a place of each kind.                               *)
LEMMA WaitsAt ==
  ASSUME Types, NEW r
  PROVE  /\ Waits(r, PollerPlace) <=> poller = "push" /\ map[Head(due)] = r
         /\ \A w \in Workers : Waits(r, <<w, 0>>) <=> at[w] = "begin" /\ task[w] = r
         /\ \A w \in Workers, i \in Slots : Waits(r, <<w, i>>) <=> InQueue(r, w, i)
<1>1. Waits(r, PollerPlace) <=> poller = "push" /\ map[Head(due)] = r
  BY DEF Waits
<1>2. ASSUME NEW w \in Workers, NEW i \in 0..Capacity
      PROVE  Waits(r, <<w, i>>) <=> \/ i = 0 /\ at[w] = "begin" /\ task[w] = r
                                    \/ i \in 1..Len(queue[w]) /\ queue[w][i] = r
  <2>1. <<w, i>> # PollerPlace
    BY PlaceCases
  <2>2. DOMAIN queue[w] = 1..Len(queue[w]) /\ Len(queue[w]) \in Nat
    BY LenProperties DEF Types
  <2>3. QED
    BY <2>1, <2>2 DEF Waits
<1>3. Capacity \in Nat
  BY ChannelPoolAssumption
<1>4. ASSUME NEW w \in Workers
      PROVE  Waits(r, <<w, 0>>) <=> at[w] = "begin" /\ task[w] = r
  BY <1>2, <1>3
<1>5. ASSUME NEW w \in Workers, NEW i \in Slots
      PROVE  Waits(r, <<w, i>>) <=> InQueue(r, w, i)
  BY <1>2, <1>3 DEF Slots, InQueue
<1>6. QED
  BY <1>1, <1>4, <1>5

(* The same after a step.                                                    *)
LEMMA WaitsAtNext ==
  ASSUME Types', NEW r
  PROVE  /\ Waits(r, PollerPlace)' <=> poller' = "push" /\ map'[Head(due')] = r
         /\ \A w \in Workers : Waits(r, <<w, 0>>)' <=> at'[w] = "begin" /\ task'[w] = r
         /\ \A w \in Workers, i \in Slots : Waits(r, <<w, i>>)' <=> InQueue(r, w, i)'
<1>1. Waits(r, PollerPlace)' <=> poller' = "push" /\ map'[Head(due')] = r
  BY DEF Waits
<1>2. ASSUME NEW w \in Workers, NEW i \in 0..Capacity
      PROVE  Waits(r, <<w, i>>)' <=> \/ i = 0 /\ at'[w] = "begin" /\ task'[w] = r
                                     \/ i \in 1..Len(queue'[w]) /\ queue'[w][i] = r
  <2>1. <<w, i>> # PollerPlace
    BY PlaceCases
  <2>2. DOMAIN queue'[w] = 1..Len(queue'[w]) /\ Len(queue'[w]) \in Nat
    BY LenProperties DEF Types
  <2>3. QED
    BY <2>1, <2>2 DEF Waits
<1>3. Capacity \in Nat
  BY ChannelPoolAssumption
<1>4. ASSUME NEW w \in Workers
      PROVE  Waits(r, <<w, 0>>)' <=> at'[w] = "begin" /\ task'[w] = r
  BY <1>2, <1>3
<1>5. ASSUME NEW w \in Workers, NEW i \in Slots
      PROVE  Waits(r, <<w, i>>)' <=> InQueue(r, w, i)'
  BY <1>2, <1>3 DEF Slots, InQueue
<1>6. QED
  BY <1>1, <1>4, <1>5

(* A step that moves no reader.                                              *)
LEMMA WaitsSame ==
  ASSUME Types, Types', NEW r, UNCHANGED queue,
         poller' = "push" <=> poller = "push",
         poller = "push" => UNCHANGED <<map, due>>,
         \A w \in Workers : (at'[w] = "begin" /\ task'[w] = r) <=> (at[w] = "begin" /\ task[w] = r)
  PROVE  \A p \in Places : Waits(r, p)' <=> Waits(r, p)
<1>1. Waits(r, PollerPlace)' <=> Waits(r, PollerPlace)
  <2>1. Waits(r, PollerPlace) <=> poller = "push" /\ map[Head(due)] = r
    BY WaitsAt
  <2>2. Waits(r, PollerPlace)' <=> poller' = "push" /\ map'[Head(due')] = r
    BY WaitsAtNext
  <2>3. QED
    BY <2>1, <2>2
<1>2. ASSUME NEW w \in Workers PROVE Waits(r, <<w, 0>>)' <=> Waits(r, <<w, 0>>)
  <2>1. Waits(r, <<w, 0>>) <=> at[w] = "begin" /\ task[w] = r
    BY WaitsAt
  <2>2. Waits(r, <<w, 0>>)' <=> at'[w] = "begin" /\ task'[w] = r
    BY WaitsAtNext
  <2>3. QED
    BY <2>1, <2>2
<1>3. ASSUME NEW w \in Workers, NEW i \in Slots
      PROVE  Waits(r, <<w, i>>)' <=> Waits(r, <<w, i>>)
  <2>1. InQueue(r, w, i)' <=> InQueue(r, w, i)
    BY DEF InQueue
  <2>2. QED
    BY <2>1, WaitsAt, WaitsAtNext
<1>4. QED
  BY <1>1, <1>2, <1>3, PlaceCases

-----------------------------------------------------------------------------
(* Four ways in which a step treats the places.                              *)

(* It leaves them alone.                                                     *)
LEMMA PlacesStay ==
  ASSUME ScheduledOnce, UNCHANGED <<chan, sched>>,
         \A r \in Readers, p \in Places : Waits(r, p)' <=> Waits(r, p)
  PROVE  ScheduledOnce'
<1> SUFFICES ASSUME NEW r \in Readers
             PROVE LET here == {p \in Places : Waits(r, p)'}
                   IN (sched'[r] <=> here # {}) /\ \A p, q \in here : p = q
  BY DEF ScheduledOnce, Readers
<1>1. {p \in Places : Waits(r, p)'} = {p \in Places : Waits(r, p)}
  OBVIOUS
<1>2. QED
  BY <1>1 DEF ScheduledOnce

(* It gives a place to a reader that had none.                               *)
LEMMA PlaceTaken ==
  ASSUME Types, ScheduledOnce, UNCHANGED chan, NEW r \in Readers, ~sched[r],
         NEW p \in Places, sched' = [sched EXCEPT ![r] = TRUE],
         \A s \in Readers, q \in Places :
           Waits(s, q)' <=> Waits(s, q) \/ (s = r /\ q = p)
  PROVE  ScheduledOnce'
<1> SUFFICES ASSUME NEW s \in Readers
             PROVE LET here == {q \in Places : Waits(s, q)'}
                   IN (sched'[s] <=> here # {}) /\ \A a, b \in here : a = b
  BY DEF ScheduledOnce, Readers
<1> DEFINE before == {q \in Places : Waits(s, q)}
           after  == {q \in Places : Waits(s, q)'}
<1>1. (sched[s] <=> before # {}) /\ \A a, b \in before : a = b
  BY DEF ScheduledOnce
<1>2. DOMAIN sched = Readers
  BY LenProperties DEF Types, Readers
<1>3. CASE s = r
  <2>1. before = {} /\ after = {p} /\ sched'[s] = TRUE
    BY <1>1, <1>2, <1>3
  <2>2. QED
    BY <2>1
<1>4. CASE s # r
  <2>1. after = before /\ sched'[s] = sched[s]
    BY <1>2, <1>4
  <2>2. QED
    BY <1>1, <2>1
<1>5. QED
  BY <1>3, <1>4

(* It moves a reader from one place to another.                              *)
LEMMA PlaceChanged ==
  ASSUME ScheduledOnce, UNCHANGED <<chan, sched>>, NEW r \in Readers,
         NEW p \in Places, NEW o \in Places, Waits(r, o),
         \A s \in Readers : s # r => ~Waits(s, o),
         \A s \in Readers, q \in Places :
           Waits(s, q)' <=> (Waits(s, q) /\ q # o) \/ (s = r /\ q = p)
  PROVE  ScheduledOnce'
<1> SUFFICES ASSUME NEW s \in Readers
             PROVE LET here == {q \in Places : Waits(s, q)'}
                   IN (sched'[s] <=> here # {}) /\ \A a, b \in here : a = b
  BY DEF ScheduledOnce, Readers
<1> DEFINE before == {q \in Places : Waits(s, q)}
           after  == {q \in Places : Waits(s, q)'}
<1>1. (sched[s] <=> before # {}) /\ \A a, b \in before : a = b
  BY DEF ScheduledOnce
<1>2. CASE s = r
  <2>1. o \in before /\ after = {p}
    BY <1>1, <1>2
  <2>2. QED
    BY <1>1, <2>1
<1>3. CASE s # r
  <2>1. after = before
    BY <1>3
  <2>2. QED
    BY <1>1, <2>1
<1>4. QED
  BY <1>2, <1>3

(* It takes a reader from its place.                                         *)
LEMMA PlaceLeft ==
  ASSUME Types, ScheduledOnce, UNCHANGED chan, NEW r \in Readers,
         NEW o \in Places, Waits(r, o), sched' = [sched EXCEPT ![r] = FALSE],
         \A s \in Readers : s # r => ~Waits(s, o),
         \A s \in Readers, q \in Places : Waits(s, q)' <=> Waits(s, q) /\ q # o
  PROVE  ScheduledOnce'
<1> SUFFICES ASSUME NEW s \in Readers
             PROVE LET here == {q \in Places : Waits(s, q)'}
                   IN (sched'[s] <=> here # {}) /\ \A a, b \in here : a = b
  BY DEF ScheduledOnce, Readers
<1> DEFINE before == {q \in Places : Waits(s, q)}
           after  == {q \in Places : Waits(s, q)'}
<1>1. (sched[s] <=> before # {}) /\ \A a, b \in before : a = b
  BY DEF ScheduledOnce
<1>2. DOMAIN sched = Readers
  BY LenProperties DEF Types, Readers
<1>3. CASE s = r
  <2>1. o \in before /\ sched'[s] = FALSE
    BY <1>2, <1>3
  <2>2. after = {}
    BY <1>1, <1>3, <2>1
  <2>3. QED
    BY <2>1, <2>2
<1>4. CASE s # r
  <2>1. after = before /\ sched'[s] = sched[s]
    BY <1>2, <1>4
  <2>2. QED
    BY <1>1, <2>1
<1>5. QED
  BY <1>3, <1>4

-----------------------------------------------------------------------------
(* Every step keeps the invariant.                                           *)
LEMMA InitPool == Init => PoolInv
<1> SUFFICES ASSUME Init PROVE PoolInv
  OBVIOUS
<1>1. Types
  <2>1. /\ chan \in Seq(Chans) /\ home \in Seq(Workers) /\ sched \in Seq(BOOLEAN)
        /\ due \in Seq(Chans) /\ queue \in [Workers -> Seq(Nat)]
        /\ Len(home) = Len(chan) /\ Len(sched) = Len(chan)
    BY DEF Init
  <2>2. map \in [Chans -> Nat] /\ \A c \in Chans : map[c] <= Len(chan)
    BY DEF Init, NoReader
  <2>3. task \in [Workers -> Nat]
    BY DEF Init, NoReader
  <2>4. QED
    BY <2>1, <2>2, <2>3 DEF Init, Types
<1>2. InHand
  BY DEF Init, InHand
<1>3. Homes
  BY ChannelPoolAssumption DEF Init, Homes, AtHome
<1>4. ScheduledOnce
  BY DEF Init, ScheduledOnce, Readers
<1>5. QED
  BY <1>1, <1>2, <1>3, <1>4 DEF PoolInv

(* The owner starts the threads, or stops them one by one.                   *)
LEMMA StageStep ==
  ASSUME PoolInv,
         \/ Start \/ Stop \/ StopFirst
         \/ \E w \in Workers : StopWorker(w) \/ StopLast(w)
  PROVE  PoolInv'
<1> USE DEF PoolInv
<1>1. /\ UNCHANGED <<mtx, map, due, chan, home, sched, queue, task>>
      /\ stage' \in {"up", "joinpoll", "joining", "stopped"}
      /\ \/ UNCHANGED <<poller, at>>
         \/ /\ stage = "new" /\ poller' = "poll" /\ at' = [w \in Workers |-> "pop"]
  BY DEF Start, Stop, StopFirst, StopWorker, StopLast, StopNext, readerVars, workVars
<1>2. poller \in {"dispatch", "push"} \/ poller' \in {"dispatch", "push"} => poller' = poller
  BY <1>1 DEF InHand
<1>3. Types'
  BY <1>1 DEF Types
<1>4. InHand'
  BY <1>1, <1>2 DEF InHand
<1>5. ASSUME NEW w \in Workers
      PROVE  /\ at'[w] = at[w] \/ (at[w] = "off" /\ at'[w] = "pop")
             /\ AtHome(w)'
  <2>1. at'[w] = at[w] \/ (at[w] = "off" /\ at'[w] = "pop")
    BY <1>1 DEF InHand
  <2>2. QED
    BY <1>1, <2>1 DEF Homes, AtHome, Readers
<1>6. \A r \in Readers, p \in Places : Waits(r, p)' <=> Waits(r, p)
  BY <1>1, <1>2, <1>3, <1>5, WaitsSame
<1>7. ScheduledOnce'
  BY <1>1, <1>6, PlacesStay
<1>8. QED
  BY <1>3, <1>4, <1>5, <1>7 DEF Homes

(* A reader is added or removed while the poller is not in Push; a new one   *)
(* waits nowhere.                                                            *)
LEMMA ReaderStep ==
  ASSUME PoolInv, NEW c \in Chans,
         RemoveReader(c) \/ \E w \in Workers : AddReader(c, w)
  PROVE  PoolInv'
<1> USE DEF PoolInv
<1>1. /\ ~mtx /\ stage = "up"
      /\ UNCHANGED <<stage, mtx, poller, due, queue, at, task>>
  BY DEF AddReader, RemoveReader, poolVars, workVars
<1>2. poller # "push" /\ poller' # "push"
  BY <1>1 DEF InHand
<1>3. Len(chan) \in Nat /\ Readers = 1..Len(chan)
  BY LenProperties DEF Types, Readers
<1>4. CASE RemoveReader(c)
  <2>1. UNCHANGED <<chan, home, sched>> /\ map' = [map EXCEPT ![c] = NoReader]
    BY <1>4 DEF RemoveReader
  <2>2. Types'
    BY <1>1, <1>3, <2>1 DEF Types, NoReader
  <2>3. InHand'
    BY <1>1, <1>2 DEF InHand
  <2>4. Homes'
    BY <1>1, <2>1 DEF Homes, AtHome, Readers
  <2>5. \A r \in Readers, p \in Places : Waits(r, p)' <=> Waits(r, p)
    BY <1>1, <1>2 DEF Waits
  <2>6. QED
    BY <2>1, <2>2, <2>3, <2>4, <2>5, PlacesStay
<1>5. ASSUME NEW w \in Workers, AddReader(c, w) PROVE PoolInv'
  <2> DEFINE n == Len(chan) + 1
  <2>1. /\ chan' = Append(chan, c) /\ home' = Append(home, w)
        /\ sched' = Append(sched, FALSE) /\ map' = [map EXCEPT ![c] = Len(chan')]
    BY <1>5 DEF AddReader
  <2>2. /\ chan' \in Seq(Chans) /\ home' \in Seq(Workers) /\ sched' \in Seq(BOOLEAN)
        /\ Len(chan') = n /\ Len(home') = n /\ Len(sched') = n
        /\ \A i \in 1..Len(chan) : home'[i] = home[i] /\ sched'[i] = sched[i]
        /\ sched'[n] = FALSE
    <3>1. chan' \in Seq(Chans) /\ Len(chan') = n
      BY <2>1, AppendProperties DEF Types
    <3>2. /\ home' \in Seq(Workers) /\ Len(home') = Len(home) + 1
          /\ \A i \in 1..Len(home) : home'[i] = home[i]
      <4>1. home \in Seq(Workers)
        BY DEF Types
      <4>2. /\ Append(home, w) \in Seq(Workers) /\ Len(Append(home, w)) = Len(home) + 1
            /\ \A i \in 1..Len(home) : Append(home, w)[i] = home[i]
        BY <4>1, AppendProperties
      <4>3. home' = Append(home, w)
        BY <2>1
      <4>4. QED
        BY <4>2, <4>3, Zenon
    <3>3. /\ sched' \in Seq(BOOLEAN) /\ Len(sched') = Len(sched) + 1
          /\ \A i \in 1..Len(sched) : sched'[i] = sched[i]
          /\ sched'[Len(sched) + 1] = FALSE
      <4>1. sched \in Seq(BOOLEAN) /\ FALSE \in BOOLEAN
        BY DEF Types
      <4>2. /\ Append(sched, FALSE) \in Seq(BOOLEAN) /\ Len(Append(sched, FALSE)) = Len(sched) + 1
            /\ \A i \in 1..Len(sched) : Append(sched, FALSE)[i] = sched[i]
            /\ Append(sched, FALSE)[Len(sched) + 1] = FALSE
        BY <4>1, AppendProperties
      <4>3. sched' = Append(sched, FALSE)
        BY <2>1
      <4>4. QED
        BY <4>2, <4>3, Zenon
    <3>4. Len(home) = Len(chan) /\ Len(sched) = Len(chan)
      BY DEF Types
    <3>5. QED
      BY <3>1, <3>2, <3>3, <3>4
  <2>3. n \in Nat /\ n > Len(chan) /\ Readers' = Readers \union {n}
    <3>1. DOMAIN chan' = 1..n
      BY <2>2, LenProperties
    <3>2. QED
      BY <1>3, <3>1 DEF Readers
  <2>4. Types'
    <3>1. map' \in [Chans -> Nat] /\ \A e \in Chans : map'[e] <= n
      BY <1>3, <2>1, <2>2, <2>3 DEF Types
    <3>2. QED
      BY <1>1, <2>2, <3>1 DEF Types
  <2>5. InHand'
    BY <1>1, <1>2 DEF InHand
  <2>6. Homes'
    <3> SUFFICES ASSUME NEW v \in Workers PROVE AtHome(v)'
      BY DEF Homes
    <3>1. AtHome(v)
      BY DEF Homes
    <3>2. \A r \in Readers : r \in Readers' /\ home'[r] = home[r]
      BY <1>3, <2>2, <2>3
    <3>3. QED
      BY <1>1, <3>1, <3>2 DEF AtHome
  <2>7. \A r, p : Waits(r, p)' <=> Waits(r, p)
    BY <1>1, <1>2 DEF Waits
  <2>8. \A p \in Places : ~Waits(n, p)
    <3>1. n \notin Readers
      BY <1>3, <2>3
    <3>2. \A v \in Workers : at[v] = "begin" => task[v] # n
      BY <3>1 DEF Homes, AtHome
    <3>3. \A v \in Workers, i \in Slots : ~InQueue(n, v, i)
      BY <3>1 DEF InQueue, Homes, AtHome
    <3>4. ~Waits(n, PollerPlace)
      BY <1>2, WaitsAt
    <3>5. \A v \in Workers : ~Waits(n, <<v, 0>>)
      BY <3>2, WaitsAt
    <3>6. \A v \in Workers, i \in Slots : ~Waits(n, <<v, i>>)
      BY <3>3, WaitsAt
    <3>7. QED
      BY <3>4, <3>5, <3>6, PlaceCases
  <2>9. ScheduledOnce'
    <3> SUFFICES ASSUME NEW r \in Readers'
                 PROVE LET here == {p \in Places : Waits(r, p)'}
                       IN (sched'[r] <=> here # {}) /\ \A p, q \in here : p = q
      BY DEF ScheduledOnce
    <3>1. {p \in Places : Waits(r, p)'} = {p \in Places : Waits(r, p)}
      BY <2>7
    <3>2. CASE r \in Readers
      <4>1. sched'[r] = sched[r]
        BY <1>3, <2>2, <3>2
      <4>2. QED
        BY <3>1, <3>2, <4>1 DEF ScheduledOnce
    <3>3. CASE r = n
      BY <2>2, <2>8, <3>1, <3>3
    <3>4. QED
      BY <2>3, <3>2, <3>3
  <2>10. QED
    BY <2>4, <2>5, <2>6, <2>9
<1>6. QED
  BY <1>4, <1>5

(* The poller asks, skips a reader that waits already, or ends.              *)
LEMMA PollStep ==
  ASSUME PoolInv, Poll \/ PollEnds \/ PollFails \/ DispatchSkip
  PROVE  PoolInv'
<1> USE DEF PoolInv
<1>1. /\ UNCHANGED <<stage, mtx, map, chan, home, sched, queue, at, task>>
      /\ poller \in {"poll", "dispatch"}
  BY DEF Poll, PollEnds, PollFails, DispatchSkip, poolVars, readerVars, workVars
<1>2. /\ due' \in Seq(Chans) /\ poller' \in {"poll", "dispatch", "done"}
      /\ poller' = "dispatch" => due' # <<>>
  <2>1. CASE Poll
    <3>0. PICK C \in SUBSET {c \in Chans : HasData(c)} :
            \E s \in SetToSeqs(C) :
              due' = s /\ poller' = IF s = <<>> THEN "poll" ELSE "dispatch"
      BY <2>1 DEF Poll
    <3>1. PICK s \in SetToSeqs(C) :
            due' = s /\ poller' = IF s = <<>> THEN "poll" ELSE "dispatch"
      BY <3>0
    <3>2. C \subseteq Chans /\ Cardinality(C) \in Nat
      BY <3>0, ChannelPoolAssumption, FS_Subset, FS_CardinalityType
    <3>3. s \in [1..Cardinality(C) -> Chans]
      BY <3>1, <3>2 DEF SetToSeqs
    <3>4. s \in Seq(Chans)
      BY <3>2, <3>3, SeqDef
    <3>5. QED
      BY <3>1, <3>4
  <2>2. CASE PollEnds \/ PollFails
    BY <2>2 DEF PollEnds, PollFails, Types
  <2>3. CASE DispatchSkip
    <3>1. due # <<>> /\ due \in Seq(Chans)
      BY <2>3 DEF DispatchSkip, InHand, Types
    <3>2. Tail(due) \in Seq(Chans)
      BY <3>1, HeadTailProperties
    <3>3. QED
      BY <2>3, <3>2 DEF DispatchSkip, Dispatched
  <2>4. QED
    BY <2>1, <2>2, <2>3
<1>3. Types'
  BY <1>1, <1>2 DEF Types
<1>4. InHand'
  BY <1>1, <1>2 DEF InHand
<1>5. Homes'
  BY <1>1 DEF Homes, AtHome, Readers
<1>6. \A r \in Readers, p \in Places : Waits(r, p)' <=> Waits(r, p)
  BY <1>1, <1>2, <1>3, WaitsSame
<1>7. QED
  BY <1>1, <1>3, <1>4, <1>5, <1>6, PlacesStay

(* A worker goes on with its reader, leaves it, or ends.                     *)
LEMMA ExecuteStep ==
  ASSUME PoolInv, NEW w \in Workers,
         \/ WorkerExit(w) \/ ExecuteLoop(w) \/ ExecuteStopped(w)
         \/ Read(w) \/ ReadNothing(w) \/ ReadFails(w) \/ Parse(w)
  PROVE  PoolInv'
<1> USE DEF PoolInv
<1>1. /\ UNCHANGED <<stage, mtx, map, poller, due, chan, home, sched, queue>>
      /\ \/ /\ at[w] \in {"loop", "read", "parse"} /\ UNCHANGED task
            /\ \/ at' = [at EXCEPT ![w] = "loop"]
               \/ at' = [at EXCEPT ![w] = "read"]
               \/ at' = [at EXCEPT ![w] = "parse"]
         \/ /\ at[w] \in {"loop", "read"} /\ at' = [at EXCEPT ![w] = "pop"]
            /\ task' = [task EXCEPT ![w] = NoReader]
         \/ at[w] = "pop" /\ at' = [at EXCEPT ![w] = "done"] /\ UNCHANGED task
  <2>1. CASE WorkerExit(w) \/ ExecuteLoop(w)
    BY <2>1 DEF WorkerExit, ExecuteLoop, poolVars, readerVars
  <2>2. CASE ExecuteStopped(w) \/ ReadNothing(w) \/ ReadFails(w)
    BY <2>2 DEF ExecuteStopped, ReadNothing, ReadFails, ExecuteEnd, poolVars, readerVars
  <2>3. CASE Read(w) \/ Parse(w)
    BY <2>3 DEF Read, Parse, poolVars, readerVars
  <2>4. QED
    BY <2>1, <2>2, <2>3
<1>2. /\ at[w] \notin {"off", "begin"} /\ at'[w] \notin {"off", "begin"}
      /\ \A v \in Workers \ {w} : at'[v] = at[v] /\ task'[v] = task[v]
  BY <1>1 DEF Types
<1>3. Types'
  <2>1. at' \in [Workers -> {"off", "pop", "begin", "loop", "read", "parse", "done"}]
    BY <1>1 DEF Types
  <2>2. task' \in [Workers -> Nat]
    BY <1>1 DEF Types, NoReader
  <2>3. QED
    BY <1>1, <2>1, <2>2 DEF Types
<1>4. InHand'
  BY <1>1, <1>2 DEF InHand
<1>5. Homes'
  <2>1. AtHome(w)'
    <3>1. AtHome(w)
      BY DEF Homes
    <3>2. \/ at'[w] \in {"pop", "done"} /\ task'[w] \in {task[w], NoReader}
          \/ at[w] \in {"loop", "read", "parse"} /\ task'[w] = task[w]
      BY <1>1 DEF Types
    <3>3. QED
      BY <1>1, <3>1, <3>2 DEF AtHome, Readers
  <2>2. ASSUME NEW v \in Workers \ {w} PROVE AtHome(v)'
    BY <1>1, <1>2 DEF Homes, AtHome, Readers
  <2>3. QED
    BY <2>1, <2>2 DEF Homes
<1>6. \A r \in Readers, p \in Places : Waits(r, p)' <=> Waits(r, p)
  <2>1. \A r : \A v \in Workers :
          (at'[v] = "begin" /\ task'[v] = r) <=> (at[v] = "begin" /\ task[v] = r)
    BY <1>2
  <2>2. QED
    BY <1>1, <1>3, <2>1, WaitsSame
<1>7. QED
  BY <1>1, <1>3, <1>4, <1>5, <1>6, PlacesStay

(* ExecuteBegin: the reader leaves its place and the flag is cleared.        *)
LEMMA BeginStep ==
  ASSUME PoolInv, NEW w \in Workers, ExecuteBegin(w)
  PROVE  PoolInv'
<1> USE DEF PoolInv
<1> DEFINE r == task[w]
           o == <<w, 0>>
<1>1. /\ at[w] = "begin" /\ sched' = [sched EXCEPT ![r] = FALSE]
      /\ at' = [at EXCEPT ![w] = "loop"]
      /\ UNCHANGED <<stage, mtx, map, poller, due, chan, home, queue, task>>
  BY DEF ExecuteBegin, Begun, poolVars, readerVars
<1>2. r \in Readers /\ r \in 1..Len(sched)
  BY <1>1, LenProperties DEF Homes, AtHome, Readers, Types
<1>3. at'[w] = "loop" /\ \A v \in Workers \ {w} : at'[v] = at[v]
  BY <1>1 DEF Types
<1>4. Types'
  <2>1. sched' \in Seq(BOOLEAN) /\ Len(sched') = Len(sched)
    <3>1. sched \in [1..Len(sched) -> BOOLEAN] /\ Len(sched) \in Nat
      BY LenProperties DEF Types
    <3>2. sched' \in [1..Len(sched) -> BOOLEAN]
      BY <1>1, <3>1
    <3>3. QED
      BY <3>1, <3>2, SeqDef, LenProperties
  <2>2. QED
    BY <1>1, <2>1 DEF Types
<1>5. InHand'
  BY <1>1, <1>3 DEF InHand
<1>6. Homes'
  <2> SUFFICES ASSUME NEW v \in Workers PROVE AtHome(v)'
    BY DEF Homes
  <2>1. AtHome(v) /\ (at'[v] = at[v] \/ (at[v] = "begin" /\ at'[v] = "loop"))
    BY <1>1, <1>3 DEF Homes
  <2>2. QED
    BY <1>1, <2>1 DEF AtHome, Readers
<1>7. o \in Places /\ Waits(r, o) /\ \A s \in Readers : s # r => ~Waits(s, o)
  BY <1>1, WaitsAt, PlaceCases, ChannelPoolAssumption
<1>8. ASSUME NEW s \in Readers, NEW q \in Places
      PROVE  Waits(s, q)' <=> Waits(s, q) /\ q # o
  <2>1. CASE q = PollerPlace
    <3>1. q # o
      BY <2>1, PlaceCases, ChannelPoolAssumption
    <3>2. QED
      BY <1>1, <1>4, <2>1, <3>1, WaitsAt, WaitsAtNext
  <2>2. ASSUME NEW v \in Workers, q = <<v, 0>> PROVE Waits(s, q)' <=> Waits(s, q) /\ q # o
    <3>1. /\ Waits(s, q) <=> at[v] = "begin" /\ task[v] = s
          /\ Waits(s, q)' <=> at'[v] = "begin" /\ task[v] = s
      BY <1>1, <1>4, <2>2, WaitsAt, WaitsAtNext
    <3>2. q = o <=> v = w
      BY <2>2
    <3>3. QED
      BY <1>3, <3>1, <3>2
  <2>3. ASSUME NEW v \in Workers, NEW i \in Slots, q = <<v, i>>
        PROVE  Waits(s, q)' <=> Waits(s, q) /\ q # o
    <3>1. q # o
      BY <2>3 DEF Slots
    <3>2. InQueue(s, v, i)' <=> InQueue(s, v, i)
      BY <1>1 DEF InQueue
    <3>3. QED
      BY <1>4, <2>3, <3>1, <3>2, WaitsAt, WaitsAtNext
  <2>4. QED
    BY <2>1, <2>2, <2>3, PlaceCases
<1>9. ScheduledOnce'
  BY <1>1, <1>2, <1>7, <1>8, PlaceLeft
<1>10. QED
  BY <1>4, <1>5, <1>6, <1>9

(* A worker takes the first reader of its queue: all readers in the queue    *)
(* move up one place.                                                        *)
LEMMA PopStep ==
  ASSUME PoolInv, NEW w \in Workers, WorkerPop(w)
  PROVE  PoolInv'
<1> USE DEF PoolInv
<1> DEFINE up(q) == IF q[1] = w THEN <<w, q[2] + 1>> ELSE q
<1>0. Types
  OBVIOUS
<1>1. /\ at[w] = "pop" /\ queue[w] # <<>>
      /\ task' = [task EXCEPT ![w] = Head(queue[w])]
      /\ queue' = [queue EXCEPT ![w] = Tail(queue[w])]
      /\ at' = [at EXCEPT ![w] = "begin"]
      /\ UNCHANGED <<stage, mtx, map, poller, due, chan, home, sched>>
  BY DEF WorkerPop, poolVars, readerVars
<1>2. /\ queue[w] \in Seq(Nat) /\ Len(queue[w]) \in Nat /\ Len(queue[w]) >= 1
      /\ Head(queue[w]) = queue[w][1] /\ Head(queue[w]) \in Nat
      /\ Tail(queue[w]) \in Seq(Nat) /\ Len(Tail(queue[w])) = Len(queue[w]) - 1
      /\ \A i \in 1..Len(Tail(queue[w])) : Tail(queue[w])[i] = queue[w][i + 1]
  BY <1>1, HeadTailProperties, LenProperties, EmptySeq DEF Types
<1>3. /\ at'[w] = "begin" /\ task'[w] = queue[w][1] /\ queue'[w] = Tail(queue[w])
      /\ \A v \in Workers \ {w} : at'[v] = at[v] /\ task'[v] = task[v] /\ queue'[v] = queue[v]
  BY <1>1, <1>2 DEF Types
<1>4. Types'
  BY <1>1, <1>2 DEF Types
<1>5. InHand'
  BY <1>1, <1>3 DEF InHand
<1>6. Homes'
  <2>1. AtHome(w) /\ Readers' = Readers
    BY <1>1 DEF Homes, Readers
  <2>2. \A i \in 1..Len(queue'[w]) : queue'[w][i] = queue[w][i + 1] /\ i + 1 \in 1..Len(queue[w])
    BY <1>2, <1>3
  <2>3. queue[w][1] \in Readers /\ home[queue[w][1]] = w /\ queue[w][1] # NoReader
    <3>1. 1 \in 1..Len(queue[w])
      BY <1>2
    <3>2. Readers = 1..Len(chan)
      BY LenProperties DEF Types, Readers
    <3>3. QED
      BY <2>1, <3>1, <3>2 DEF AtHome, NoReader
  <2>4. Len(queue'[w]) <= Capacity
    BY <1>2, <1>3, <2>1, ChannelPoolAssumption DEF AtHome
  <2>5. AtHome(w)'
    BY <1>1, <1>3, <2>1, <2>2, <2>3, <2>4 DEF AtHome
  <2>6. ASSUME NEW v \in Workers \ {w} PROVE AtHome(v)'
    BY <1>1, <1>3, <2>1, <2>6 DEF Homes, AtHome
  <2>7. QED
    BY <2>5, <2>6 DEF Homes
<1>7. ASSUME NEW r \in Readers, NEW q \in Places
      PROVE  Waits(r, q)' <=> up(q) \in Places /\ Waits(r, up(q))
  <2>0. w # 0 /\ Capacity \in Nat \ {0}
    BY ChannelPoolAssumption DEF Workers
  <2>1. CASE q = PollerPlace
    <3>1. up(q) = q
      BY <2>0, <2>1 DEF PollerPlace
    <3>2. QED
      BY <1>1, <1>4, <2>1, <3>1, WaitsAt, WaitsAtNext
  <2>2. CASE q = <<w, 0>>
    <3>1. up(q) = <<w, 1>> /\ 1 \in Slots /\ up(q) \in Places
      BY <2>0, <2>2, PlaceCases DEF Slots
    <3>2. Waits(r, up(q)) <=> InQueue(r, w, 1)
      <4> HIDE DEF up
      <4>1. Waits(r, <<w, 1>>) <=> InQueue(r, w, 1)
        BY <1>0, <3>1, WaitsAt
      <4>2. QED
        BY <3>1, <4>1
    <3>3. InQueue(r, w, 1) <=> queue[w][1] = r
      BY <1>2 DEF InQueue
    <3>4. Waits(r, q)' <=> task'[w] = r
      BY <1>3, <1>4, <2>2, WaitsAtNext
    <3>5. QED
      BY <1>3, <3>1, <3>2, <3>3, <3>4
  <2>3. ASSUME NEW i \in Slots, q = <<w, i>>
        PROVE  Waits(r, q)' <=> up(q) \in Places /\ Waits(r, up(q))
    <3>1. up(q) = <<w, i + 1>> /\ i \in Nat /\ i + 1 \in Nat
      BY <2>0, <2>3 DEF Slots
    <3>2. Waits(r, q)' <=> InQueue(r, w, i)'
      BY <1>4, <2>3, WaitsAtNext
    <3>3. InQueue(r, w, i)' <=> InQueue(r, w, i + 1)
      BY <1>2, <1>3, <2>0, <3>1 DEF InQueue, Slots
    <3>4. CASE i + 1 \in Slots
      <4>1. up(q) \in Places
        BY <2>0, <3>1, <3>4, PlaceCases DEF Slots
      <4>2. Waits(r, <<w, i + 1>>) <=> InQueue(r, w, i + 1)
        BY <1>0, <3>4, WaitsAt
      <4> HIDE DEF up
      <4>3. QED
        BY <3>1, <3>2, <3>3, <4>1, <4>2
    <3>5. CASE i + 1 \notin Slots
      <4>1. ~InQueue(r, w, i + 1)
        BY <2>0, <3>1, <3>5 DEF InQueue, Slots, Homes, AtHome
      <4>2. up(q) \notin Places
        BY <2>0, <3>1, <3>5 DEF Places, PollerPlace, Slots
      <4>3. QED
        BY <3>2, <3>3, <4>1, <4>2
    <3>6. QED
      BY <3>4, <3>5
  <2>4. ASSUME NEW v \in Workers \ {w}, q = <<v, 0>>
        PROVE  Waits(r, q)' <=> up(q) \in Places /\ Waits(r, up(q))
    <3>1. up(q) = q /\ q \in Places
      BY <2>4
    <3>2. Waits(r, <<v, 0>>) <=> at[v] = "begin" /\ task[v] = r
      BY <1>0, WaitsAt
    <3>3. Waits(r, <<v, 0>>)' <=> at'[v] = "begin" /\ task'[v] = r
      BY <1>4, WaitsAtNext
    <3> HIDE DEF up
    <3>4. QED
      BY <1>3, <2>4, <3>1, <3>2, <3>3
  <2>5. ASSUME NEW v \in Workers \ {w}, NEW i \in Slots, q = <<v, i>>
        PROVE  Waits(r, q)' <=> up(q) \in Places /\ Waits(r, up(q))
    <3>1. InQueue(r, v, i)' <=> InQueue(r, v, i)
      BY <1>3 DEF InQueue
    <3>2. QED
      BY <1>4, <2>5, <3>1, WaitsAt, WaitsAtNext
  <2>6. QED
    BY <2>1, <2>2, <2>3, <2>4, <2>5, PlaceCases
<1>8. \A p, q \in Places : up(p) = up(q) => p = q
  BY ChannelPoolAssumption DEF Places, PollerPlace, Workers
<1>9. ASSUME NEW r \in Readers, NEW p \in Places, Waits(r, p)
      PROVE  \E q \in Places : up(q) = p
  <2>0. w # 0 /\ Capacity \in Nat \ {0}
    BY ChannelPoolAssumption DEF Workers
  <2>1. p # <<w, 0>>
    <3>1. ~Waits(r, <<w, 0>>)
      BY <1>0, <1>1, WaitsAt
    <3>2. QED
      BY <1>9, <3>1
  <2>2. ASSUME NEW i \in Slots, p = <<w, i>> PROVE \E q \in Places : up(q) = p
    <3>1. i - 1 \in 0..Capacity /\ (i - 1) + 1 = i
      BY <2>0 DEF Slots
    <3>2. <<w, i - 1>> \in Places /\ up(<<w, i - 1>>) = p
      BY <2>2, <3>1, PlaceCases
    <3>3. QED
      BY <3>2
  <2>3. CASE p[1] # w
    BY <2>3
  <2>4. QED
    BY <2>0, <2>1, <2>2, <2>3, PlaceCases DEF PollerPlace
<1>10. ScheduledOnce'
  <2> SUFFICES ASSUME NEW r \in Readers
               PROVE LET here == {p \in Places : Waits(r, p)'}
                     IN (sched'[r] <=> here # {}) /\ \A p, q \in here : p = q
    BY <1>1 DEF ScheduledOnce, Readers
  <2> DEFINE before == {p \in Places : Waits(r, p)}
             after  == {p \in Places : Waits(r, p)'}
  <2>1. (sched'[r] <=> before # {}) /\ \A p, q \in before : p = q
    BY <1>1 DEF ScheduledOnce
  <2>2. \A q \in Places : q \in after <=> up(q) \in before
    BY <1>7
  <2>3. \A p \in before : \E q \in Places : up(q) = p
    BY <1>9
  <2> HIDE DEF before, after, up
  <2>4. after # {} <=> before # {}
    BY <2>2, <2>3 DEF after
  <2>5. \A p, q \in after : p = q
    BY <1>8, <2>1, <2>2 DEF after
  <2>6. QED
    BY <2>1, <2>4, <2>5 DEF after
<1>11. QED
  BY <1>4, <1>5, <1>6, <1>10

(* A reader is put at the end of its worker's queue, which has room.         *)
LEMMA Enqueue ==
  ASSUME Types, Homes, NEW r \in Readers, ~Full(Index(r)),
         queue' = [queue EXCEPT ![Index(r)] = Append(@, r)],
         UNCHANGED <<chan, home, at, task>>
  PROVE  /\ Index(r) \in Workers /\ Len(queue[Index(r)]) + 1 \in Slots
         /\ queue' \in [Workers -> Seq(Nat)] /\ Homes'
         /\ \A s : \A v \in Workers, i \in Slots :
              InQueue(s, v, i)' <=>
                InQueue(s, v, i) \/ (s = r /\ v = Index(r) /\ i = Len(queue[Index(r)]) + 1)
<1>0. Index(r) \in Workers /\ r \in Nat
  BY LenProperties DEF Types, Readers, Index
<1>1. PICK w \in Workers : w = Index(r)
  BY <1>0
<1> DEFINE n == Len(queue[w]) + 1
<1>2. Len(queue[w]) \in Nat /\ n \in Slots
  <2>1. Len(queue[w]) \in Nat /\ Len(queue[w]) <= Capacity /\ Len(queue[w]) # Capacity
    BY <1>1, LenProperties DEF Types, Homes, AtHome, Full
  <2>2. QED
    BY <2>1, ChannelPoolAssumption DEF Slots
<1>3. /\ queue'[w] = Append(queue[w], r)
      /\ \A v \in Workers \ {w} : queue'[v] = queue[v]
  BY <1>1 DEF Types
<1>4. /\ Append(queue[w], r) \in Seq(Nat) /\ Len(Append(queue[w], r)) = n
      /\ \A i \in 1..Len(queue[w]) : Append(queue[w], r)[i] = queue[w][i]
      /\ Append(queue[w], r)[n] = r
  BY <1>0, AppendProperties DEF Types
<1>5. queue' \in [Workers -> Seq(Nat)]
  BY <1>1, <1>4 DEF Types
<1>6. Homes'
  <2>1. ASSUME NEW v \in Workers \ {w} PROVE AtHome(v)'
    BY <1>3 DEF Homes, AtHome, Readers
  <2>2. AtHome(w)'
    <3>1. AtHome(w)
      BY <1>1 DEF Homes
    <3>2. ASSUME NEW i \in 1..n PROVE queue'[w][i] \in Readers /\ home[queue'[w][i]] = w
      <4>1. CASE i = n
        BY <1>1, <1>3, <1>4, <4>1 DEF Index
      <4>2. CASE i # n
        <5>1. i \in 1..Len(queue[w])
          BY <1>2, <4>2
        <5>2. QED
          BY <1>3, <1>4, <3>1, <5>1 DEF AtHome
      <4>3. QED
        BY <4>1, <4>2
    <3>3. Len(queue'[w]) = n /\ n <= Capacity
      BY <1>2, <1>3, <1>4 DEF Slots
    <3>4. \A i \in 1..Len(queue'[w]) : queue'[w][i] \in Readers' /\ home'[queue'[w][i]] = w
      BY <3>2, <3>3 DEF Readers
    <3>5. QED
      BY <3>1, <3>3, <3>4 DEF AtHome, Readers
  <2>3. QED
    BY <2>1, <2>2 DEF Homes
<1>7. ASSUME NEW s, NEW v \in Workers, NEW i \in Slots
      PROVE  InQueue(s, v, i)' <=> InQueue(s, v, i) \/ (s = r /\ v = w /\ i = n)
  <2>1. CASE v # w
    BY <1>3, <2>1 DEF InQueue
  <2>2. CASE v = w
    BY <1>2, <1>3, <1>4, <2>2 DEF InQueue, Slots
  <2>3. QED
    BY <2>1, <2>2
<1>8. QED
  BY <1>0, <1>1, <1>2, <1>5, <1>6, <1>7

(* The channel in the poller's hands is off its list.                        *)
LEMMA DispatchedList ==
  ASSUME Types, due # <<>>, Dispatched
  PROVE  /\ due' \in Seq(Chans) /\ poller' \in {"poll", "dispatch"}
         /\ poller' = "dispatch" => due' # <<>>
  BY HeadTailProperties DEF Types, Dispatched

(* A reader is dispatched: it has no place, so the flag and the place come   *)
(* together; if its queue is full it is in the poller's hands.               *)
LEMMA DispatchStep ==
  ASSUME PoolInv, Dispatch
  PROVE  PoolInv'
<1> USE DEF PoolInv
<1> DEFINE r == map[Head(due)]
           w == Index(r)
           n == Len(queue[w]) + 1
<1>0. Types
  OBVIOUS
<1>1. /\ poller = "dispatch" /\ r # NoReader /\ ~sched[r] /\ due # <<>>
      /\ sched' = [sched EXCEPT ![r] = TRUE]
      /\ UNCHANGED <<stage, map, chan, home, at, task>>
  BY DEF Dispatch, GetSchedulingStatus, InHand, poolVars, readerVars, workVars
<1>2. Head(due) \in Chans /\ r \in Readers /\ r \in 1..Len(sched)
  <2>1. Head(due) \in Chans
    BY <1>1, HeadTailProperties DEF Types
  <2>2. Readers = 1..Len(chan) /\ Len(chan) \in Nat
    BY LenProperties DEF Types, Readers
  <2>3. r \in Nat /\ r <= Len(chan) /\ r # 0
    BY <1>1, <2>1 DEF Types, NoReader
  <2>4. QED
    BY <2>1, <2>2, <2>3 DEF Types
<1>3. sched' \in Seq(BOOLEAN) /\ Len(sched') = Len(sched)
  <2>1. sched \in [1..Len(sched) -> BOOLEAN] /\ Len(sched) \in Nat
    BY LenProperties DEF Types
  <2>2. sched' \in [1..Len(sched) -> BOOLEAN]
    BY <1>1, <2>1
  <2>3. QED
    BY <2>1, <2>2, SeqDef, LenProperties
<1>4. CASE Full(w)
  <2>1. mtx' = TRUE /\ poller' = "push" /\ UNCHANGED <<queue, due>>
    BY <1>4 DEF Dispatch
  <2>2. Types'
    BY <1>1, <1>3, <2>1 DEF Types
  <2>3. InHand'
    BY <1>1, <2>1 DEF InHand
  <2>4. Homes'
    BY <1>1, <2>1 DEF Homes, AtHome, Readers
  <2>5. ASSUME NEW s \in Readers, NEW q \in Places
        PROVE  Waits(s, q)' <=> Waits(s, q) \/ (s = r /\ q = PollerPlace)
    <3>1. CASE q = PollerPlace
      <4>1. ~Waits(s, PollerPlace) /\ (Waits(s, PollerPlace)' <=> r = s)
        BY <1>0, <1>1, <2>1, <2>2, WaitsAt, WaitsAtNext
      <4>2. QED
        BY <3>1, <4>1
    <3>2. CASE q # PollerPlace
      BY <1>1, <2>1, <3>2 DEF Waits
    <3>3. QED
      BY <3>1, <3>2
  <2>6. PollerPlace \in Places
    BY PlaceCases
  <2>7. ScheduledOnce'
    BY <1>1, <1>2, <2>5, <2>6, PlaceTaken
  <2>8. QED
    BY <2>2, <2>3, <2>4, <2>7
<1>5. CASE ~Full(w)
  <2>1. queue' = [queue EXCEPT ![w] = Append(@, r)] /\ Dispatched /\ UNCHANGED mtx
    BY <1>5 DEF Dispatch
  <2>2. /\ due' \in Seq(Chans) /\ poller' \in {"poll", "dispatch"}
        /\ poller' = "dispatch" => due' # <<>>
    BY <1>1, <2>1, DispatchedList
  <2>3. /\ w \in Workers /\ n \in Slots /\ queue' \in [Workers -> Seq(Nat)] /\ Homes'
        /\ \A s : \A v \in Workers, i \in Slots :
             InQueue(s, v, i)' <=> InQueue(s, v, i) \/ (s = r /\ v = w /\ i = n)
    BY <1>1, <1>2, <1>5, <2>1, Enqueue
  <2>4. Types'
    BY <1>1, <1>3, <2>2, <2>3 DEF Types
  <2>5. InHand'
    BY <1>1, <2>1, <2>2 DEF InHand
  <2>6. <<w, n>> \in Places /\ <<w, n>> # PollerPlace
    BY <2>3, PlaceCases, ChannelPoolAssumption DEF Slots
  <2>7. ASSUME NEW s \in Readers, NEW q \in Places
        PROVE  Waits(s, q)' <=> Waits(s, q) \/ (s = r /\ q = <<w, n>>)
    <3>1. CASE q = PollerPlace
      BY <1>0, <1>1, <2>2, <2>4, <2>6, <3>1, WaitsAt, WaitsAtNext
    <3>2. ASSUME NEW v \in Workers, q = <<v, 0>>
          PROVE  Waits(s, q)' <=> Waits(s, q) \/ (s = r /\ q = <<w, n>>)
      <4>1. q # <<w, n>>
        BY <2>3, <3>2 DEF Slots
      <4>2. Waits(s, q)' <=> Waits(s, q)
        <5>1. Waits(s, <<v, 0>>) <=> at[v] = "begin" /\ task[v] = s
          BY <1>0, WaitsAt
        <5>2. Waits(s, <<v, 0>>)' <=> at'[v] = "begin" /\ task'[v] = s
          BY <2>4, WaitsAtNext
        <5>3. QED
          BY <1>1, <3>2, <5>1, <5>2
      <4>3. QED
        BY <4>1, <4>2
    <3>3. ASSUME NEW v \in Workers, NEW i \in Slots, q = <<v, i>>
          PROVE  Waits(s, q)' <=> Waits(s, q) \/ (s = r /\ q = <<w, n>>)
      <4>1. /\ Waits(s, q) <=> InQueue(s, v, i)
            /\ Waits(s, q)' <=> InQueue(s, v, i)'
        BY <1>0, <2>4, <3>3, WaitsAt, WaitsAtNext
      <4>2. q = <<w, n>> <=> v = w /\ i = n
        BY <3>3
      <4>3. QED
        BY <2>3, <4>1, <4>2
    <3>4. QED
      BY <3>1, <3>2, <3>3, PlaceCases
  <2>8. ScheduledOnce'
    BY <1>1, <1>2, <2>6, <2>7, PlaceTaken
  <2>9. QED
    BY <2>3, <2>4, <2>5, <2>8
<1>6. QED
  BY <1>4, <1>5

(* The queue has room again: the reader moves from the poller's hands to it. *)
LEMMA PushStep ==
  ASSUME PoolInv, PushWaits
  PROVE  PoolInv'
<1> USE DEF PoolInv
<1> DEFINE r == map[Head(due)]
           w == Index(r)
           n == Len(queue[w]) + 1
<1>0. Types
  OBVIOUS
<1>1. /\ poller = "push" /\ r # NoReader /\ due # <<>> /\ ~Full(w) /\ Dispatched
      /\ mtx' = FALSE /\ queue' = [queue EXCEPT ![w] = Append(@, r)]
      /\ UNCHANGED <<stage, map, chan, home, sched, at, task>>
  BY DEF PushWaits, InHand, poolVars, readerVars, workVars
<1>2. r \in Readers
  <2>1. Head(due) \in Chans
    BY <1>1, HeadTailProperties DEF Types
  <2>2. Readers = 1..Len(chan) /\ Len(chan) \in Nat
    BY LenProperties DEF Types, Readers
  <2>3. r \in Nat /\ r <= Len(chan) /\ r # 0
    BY <1>1, <2>1 DEF Types, NoReader
  <2>4. QED
    BY <2>2, <2>3
<1>3. /\ due' \in Seq(Chans) /\ poller' \in {"poll", "dispatch"}
      /\ poller' = "dispatch" => due' # <<>>
  BY <1>1, DispatchedList
<1>4. /\ w \in Workers /\ n \in Slots /\ queue' \in [Workers -> Seq(Nat)] /\ Homes'
      /\ \A s : \A v \in Workers, i \in Slots :
           InQueue(s, v, i)' <=> InQueue(s, v, i) \/ (s = r /\ v = w /\ i = n)
  BY <1>1, <1>2, Enqueue
<1>5. Types'
  BY <1>1, <1>3, <1>4 DEF Types
<1>6. InHand'
  BY <1>1, <1>3 DEF InHand
<1>7. /\ <<w, n>> \in Places /\ <<w, n>> # PollerPlace /\ PollerPlace \in Places
      /\ \A v \in Workers, i \in 0..Capacity : <<v, i>> # PollerPlace
  BY <1>4, PlaceCases, ChannelPoolAssumption DEF Slots
<1>8. Waits(r, PollerPlace) /\ \A s \in Readers : s # r => ~Waits(s, PollerPlace)
  BY <1>0, <1>1, WaitsAt
<1>9. ASSUME NEW s \in Readers, NEW q \in Places
      PROVE  Waits(s, q)' <=> (Waits(s, q) /\ q # PollerPlace) \/ (s = r /\ q = <<w, n>>)
  <2>1. CASE q = PollerPlace
    BY <1>3, <1>5, <1>7, <2>1, WaitsAtNext
  <2>2. ASSUME NEW v \in Workers, q = <<v, 0>>
        PROVE  Waits(s, q)' <=> (Waits(s, q) /\ q # PollerPlace) \/ (s = r /\ q = <<w, n>>)
    <3>1. q # <<w, n>> /\ q # PollerPlace
      BY <1>4, <1>7, <2>2, ChannelPoolAssumption DEF Slots
    <3>2. Waits(s, q)' <=> Waits(s, q)
      <4>1. Waits(s, <<v, 0>>) <=> at[v] = "begin" /\ task[v] = s
        BY <1>0, WaitsAt
      <4>2. Waits(s, <<v, 0>>)' <=> at'[v] = "begin" /\ task'[v] = s
        BY <1>5, WaitsAtNext
      <4>3. QED
        BY <1>1, <2>2, <4>1, <4>2
    <3>3. QED
      BY <3>1, <3>2
  <2>3. ASSUME NEW v \in Workers, NEW i \in Slots, q = <<v, i>>
        PROVE  Waits(s, q)' <=> (Waits(s, q) /\ q # PollerPlace) \/ (s = r /\ q = <<w, n>>)
    <3>1. /\ Waits(s, q) <=> InQueue(s, v, i)
          /\ Waits(s, q)' <=> InQueue(s, v, i)'
      BY <1>0, <1>5, <2>3, WaitsAt, WaitsAtNext
    <3>2. (q = <<w, n>> <=> v = w /\ i = n) /\ q # PollerPlace
      BY <1>7, <2>3, ChannelPoolAssumption DEF Slots
    <3>3. QED
      BY <1>4, <3>1, <3>2
  <2>4. QED
    BY <2>1, <2>2, <2>3, PlaceCases
<1>10. ScheduledOnce'
  BY <1>1, <1>2, <1>7, <1>8, <1>9, PlaceChanged
<1>11. QED
  BY <1>4, <1>5, <1>6, <1>10

(* Every step keeps the invariant of the pool.                               *)
LEMMA NextPool == PoolInv /\ [Next]_vars => PoolInv'
<1> SUFFICES ASSUME PoolInv, [Next]_vars PROVE PoolInv'
  OBVIOUS
<1>1. CASE Owner
  BY <1>1, StageStep, ReaderStep DEF Owner
<1>2. CASE PollerStep
  BY <1>2, PollStep, DispatchStep, PushStep DEF PollerStep
<1>3. ASSUME NEW w \in Workers, Worker(w) PROVE PoolInv'
  BY <1>3, PopStep, BeginStep, ExecuteStep DEF Worker
<1>4. CASE UNCHANGED vars \/ \E c \in Chans : Produce(c)
  <2>1. UNCHANGED <<stage, mtx, map, poller, due, chan, home, sched, queue, at, task>>
    BY <1>4 DEF Produce, vars, poolVars, readerVars, workVars
  <2>2. Types' /\ InHand'
    BY <2>1 DEF PoolInv, Types, InHand
  <2>3. Homes'
    BY <2>1 DEF PoolInv, Homes, AtHome, Readers
  <2>4. ScheduledOnce'
    <3>1. \A r, p : Waits(r, p)' <=> Waits(r, p)
      BY <2>1 DEF Waits
    <3>2. QED
      BY <2>1, <3>1, PlacesStay DEF PoolInv
  <2>5. QED
    BY <2>2, <2>3, <2>4 DEF PoolInv
<1>5. QED
  BY <1>1, <1>2, <1>3, <1>4 DEF Next, Stopped

-----------------------------------------------------------------------------
(* A reader waits at one place exactly while isScheduling_ is set, although  *)
(* the poller may stand in Push, and only the worker that its hash selects   *)
(* executes it.                                                              *)
THEOREM PoolInductive == Spec => []PoolInv
  BY InitPool, NextPool, PTL DEF Spec

(* The reader of a channel is executed by one worker at a time, for every    *)
(* number of channels, workers and places, although Execute clears the flag  *)
(* before it reads, and readers come and go.                                 *)
THEOREM ReadersAreNotReentered == Spec => []OneExecutor
<1>1. PoolInv => OneExecutor
  BY DEF PoolInv, OneExecutor, NotReentered, Homes, AtHome
<1>2. QED
  BY <1>1, PoolInductive, PTL

-----------------------------------------------------------------------------
(* The data of the channels: lengths and records.                           *)

(* Lengths and records.                                                      *)

(* A number of bytes is whole records and a rest.                            *)
LEMMA Division ==
  ASSUME NEW n \in Nat
  PROVE  /\ n \div RecLen \in Nat /\ n % RecLen \in Nat /\ n % RecLen < RecLen
         /\ n = (n \div RecLen) * RecLen + (n % RecLen)
  BY ChannelPoolAssumption

(* A product of naturals grows with its factors.                             *)
LEMMA Multiples ==
  ASSUME NEW i \in Nat, NEW k \in Nat, i <= k
  PROVE  i * RecLen \in Nat /\ k * RecLen \in Nat /\ i * RecLen <= k * RecLen
<1>1. PICK d \in Nat : k = i + d
  <2>1. k - i \in Nat /\ k = i + (k - i)
    OBVIOUS
  <2>2. QED
    BY <2>1
<1>2. i * RecLen \in Nat /\ d * RecLen \in Nat
  BY ChannelPoolAssumption
<1>3. k * RecLen = i * RecLen + d * RecLen
  BY <1>1, ChannelPoolAssumption
<1>4. QED
  BY <1>2, <1>3

(* One record more is RecLen bytes more.                                     *)
LEMMA OneMore ==
  ASSUME NEW k \in Nat
  PROVE  (k + 1) * RecLen = k * RecLen + RecLen /\ k * RecLen \in Nat
  BY ChannelPoolAssumption

(* What is less than a record beyond k records is k records and a rest.      *)
LEMMA Remainder ==
  ASSUME NEW k \in Nat, NEW m \in Nat, NEW r \in Nat, r < RecLen,
         m * RecLen + r = k * RecLen
  PROVE  m = k /\ r = 0
<1> USE ChannelPoolAssumption
<1>1. ~(m < k)
  <2> SUFFICES ASSUME m < k PROVE FALSE
    OBVIOUS
  <2>1. (m + 1) * RecLen <= k * RecLen
    BY Multiples
  <2>2. QED
    BY <2>1, OneMore
<1>2. m * RecLen \in Nat /\ k * RecLen \in Nat
  OBVIOUS
<1>3. ~(m > k)
  <2> SUFFICES ASSUME m > k PROVE FALSE
    OBVIOUS
  <2>1. (k + 1) * RecLen <= m * RecLen
    BY Multiples
  <2>2. QED
    BY <1>2, <2>1, OneMore
<1>4. QED
  BY <1>1, <1>2, <1>3

(* Whole records leave no rest.                                              *)
LEMMA Quotient ==
  ASSUME NEW k \in Nat
  PROVE  (k * RecLen) \div RecLen = k
<1> DEFINE n == k * RecLen
<1>1. n \in Nat
  BY OneMore
<1>2. /\ n \div RecLen \in Nat /\ n % RecLen \in Nat /\ n % RecLen < RecLen
      /\ n = (n \div RecLen) * RecLen + (n % RecLen)
  BY <1>1, Division
<1>3. QED
  BY <1>2, Remainder

(* A part of a sequence, from lo on.                                         *)
LEMMA Slice ==
  ASSUME NEW b, NEW lo \in Nat, NEW hi \in Nat, lo <= hi,
         \A i \in (lo + 1)..hi : b[i] \in Nat
  PROVE  /\ SubSeq(b, lo + 1, hi) \in Seq(Nat) /\ Len(SubSeq(b, lo + 1, hi)) = hi - lo
         /\ \A i \in 1..(hi - lo) : SubSeq(b, lo + 1, hi)[i] = b[lo + i]
<1> DEFINE s == SubSeq(b, lo + 1, hi)
<1>1. lo + 1 \in Int /\ hi \in Int
  OBVIOUS
<1>2. /\ s \in Seq(Nat)
      /\ Len(s) = IF lo + 1 <= hi THEN hi - (lo + 1) + 1 ELSE 0
      /\ \A i \in 1..(hi - (lo + 1) + 1) : s[i] = b[lo + 1 + i - 1]
  BY <1>1, SubSeqProperties
<1> HIDE DEF s
<1>3. hi - (lo + 1) + 1 = hi - lo
  OBVIOUS
<1>4. Len(s) = hi - lo
  <2>1. CASE lo + 1 <= hi
    BY <1>2, <1>3, <2>1
  <2>2. CASE ~(lo + 1 <= hi)
    <3>1. Len(s) = 0 /\ hi - lo = 0
      BY <1>2, <2>2
    <3>2. QED
      BY <3>1
  <2>3. QED
    BY <2>1, <2>2
<1>5. ASSUME NEW i \in 1..(hi - lo) PROVE s[i] = b[lo + i]
  <2>1. lo + 1 + i - 1 = lo + i
    OBVIOUS
  <2>2. QED
    BY <1>2, <1>3, <2>1
<1>6. QED
  BY <1>2, <1>4, <1>5 DEF s

(* Where Parse cuts a buffer.                                                *)
LEMMA Cutting ==
  ASSUME NEW b \in Seq(Nat)
  PROVE  /\ Whole(b) \in Nat /\ Whole(b) * RecLen \in Nat /\ Whole(b) * RecLen <= Len(b)
         /\ Carried(b) \in Seq(Nat) /\ Len(Carried(b)) = Len(b) - Whole(b) * RecLen
         /\ Len(Carried(b)) < RecLen
         /\ \A i \in 1..Len(Carried(b)) : Carried(b)[i] = b[Whole(b) * RecLen + i]
<1> DEFINE k == Whole(b) * RecLen
<1>1. Len(b) \in Nat
  BY LenProperties
<1>2. /\ Whole(b) \in Nat /\ k \in Nat /\ k <= Len(b) /\ Len(b) - k < RecLen
  <2>1. Whole(b) \in Nat
    BY <1>1, Division DEF Whole
  <2>2. k \in Nat
    BY <2>1, OneMore
  <2>3. /\ Len(b) % RecLen \in Nat /\ Len(b) % RecLen < RecLen
        /\ Len(b) = k + (Len(b) % RecLen)
    BY <1>1, Division DEF Whole
  <2> HIDE DEF k
  <2>4. QED
    BY <1>1, <2>1, <2>2, <2>3, ChannelPoolAssumption
<1> HIDE DEF k
<1>3. \A i \in (k + 1)..Len(b) : b[i] \in Nat
  BY <1>1, <1>2, ElementOfSeq
<1> DEFINE tail == SubSeq(b, k + 1, Len(b))
<1>4. /\ tail \in Seq(Nat) /\ Len(tail) = Len(b) - k
      /\ \A i \in 1..(Len(b) - k) : tail[i] = b[k + i]
  BY <1>1, <1>2, <1>3, Slice
<1>5. QED
  BY <1>1, <1>2, <1>4 DEF Carried, k, tail

(* The buffer holds consecutive bytes, the first of which begins record n.   *)
InOrder(b, n) == \A i \in 1..Len(b) : b[i] = n * RecLen + i - 1

(* Records cut from consecutive bytes are the records in turn, and the tail  *)
(* begins the one after them.                                                *)
LEMMA Records ==
  ASSUME NEW b \in Seq(Nat), NEW n \in Nat, InOrder(b, n)
  PROVE  /\ \A i \in 1..Whole(b) : InBuffer(b, i) = RecordBytes(n + i - 1)
         /\ InOrder(Carried(b), n + Whole(b))
<1>1. /\ Len(b) \in Nat /\ RecLen \in Nat /\ n * RecLen \in Nat
  BY LenProperties, OneMore, ChannelPoolAssumption
<1>2. ASSUME NEW i \in 1..Whole(b) PROVE InBuffer(b, i) = RecordBytes(n + i - 1)
  <2> DEFINE o == (i - 1) * RecLen
             s == SubSeq(b, o + 1, o + RecLen)
  <2>1. i \in Nat /\ i - 1 \in Nat /\ i <= Whole(b) /\ Whole(b) \in Nat
    BY Cutting
  <2>2. o \in Nat /\ i * RecLen = o + RecLen
    <3>1. (i - 1) + 1 = i
      BY <2>1
    <3>2. ((i - 1) + 1) * RecLen = o + RecLen /\ o \in Nat
      BY <2>1, OneMore
    <3>3. QED
      BY <3>1, <3>2
  <2>3. o + RecLen <= Len(b)
    <3>1. i * RecLen <= Whole(b) * RecLen
      BY <2>1, Multiples
    <3>2. Whole(b) * RecLen \in Nat /\ Whole(b) * RecLen <= Len(b)
      BY Cutting
    <3> HIDE DEF o
    <3>3. QED
      BY <1>1, <2>2, <3>1, <3>2
  <2>4. (n + i - 1) * RecLen = n * RecLen + o
    BY <2>1, ChannelPoolAssumption
  <2> HIDE DEF o
  <2>5. \A j \in (o + 1)..(o + RecLen) : b[j] \in Nat
    <3>1. \A j \in (o + 1)..(o + RecLen) : j \in 1..Len(b)
      BY <1>1, <2>2, <2>3
    <3>2. QED
      BY <3>1, ElementOfSeq
  <2>6. /\ s \in Seq(Nat) /\ Len(s) = RecLen
        /\ \A j \in 1..RecLen : s[j] = b[o + j]
    <3> DEFINE hi == o + RecLen
    <3>1. hi \in Nat /\ o <= hi /\ hi - o = RecLen
      BY <1>1, <2>2
    <3> HIDE DEF hi
    <3>2. QED
      BY <2>2, <2>5, <3>1, Slice DEF hi
  <2> HIDE DEF s
  <2>7. s \in [1..RecLen -> Nat]
    BY <2>6, LenProperties
  <2>8. ASSUME NEW j \in 1..RecLen PROVE s[j] = (n + i - 1) * RecLen + j - 1
    <3>1. o + j \in 1..Len(b)
      BY <1>1, <2>2, <2>3
    <3>2. b[o + j] = n * RecLen + (o + j) - 1
      BY <3>1 DEF InOrder
    <3> DEFINE first == n * RecLen
    <3> HIDE DEF first
    <3>3. first + (o + j) - 1 = first + o + j - 1
      BY <1>1, <2>2 DEF first
    <3>4. QED
      BY <2>4, <2>6, <3>2, <3>3 DEF first
  <2>9. s = RecordBytes(n + i - 1)
    BY <2>7, <2>8 DEF RecordBytes
  <2>10. QED
    BY <2>2, <2>9 DEF InBuffer, s, o
<1>3. ASSUME NEW i \in 1..Len(Carried(b))
      PROVE  Carried(b)[i] = (n + Whole(b)) * RecLen + i - 1
  <2> DEFINE k     == Whole(b) * RecLen
             first == n * RecLen
  <2>1. Whole(b) \in Nat /\ (n + Whole(b)) * RecLen = first + k
    BY Cutting, ChannelPoolAssumption
  <2>2. /\ k \in Nat /\ k + i \in 1..Len(b) /\ i \in Nat
        /\ Carried(b)[i] = b[k + i]
    <3>1. /\ k \in Nat /\ k <= Len(b) /\ Len(Carried(b)) = Len(b) - k
          /\ Carried(b)[i] = b[k + i]
      BY Cutting
    <3> HIDE DEF k
    <3>2. QED
      BY <1>1, <3>1
  <2>3. b[k + i] = first + (k + i) - 1
    BY <2>2 DEF InOrder
  <2> HIDE DEF k, first
  <2>4. first + (k + i) - 1 = first + k + i - 1
    BY <1>1, <2>2 DEF first
  <2>5. QED
    BY <2>1, <2>2, <2>3, <2>4
<1>4. QED
  BY <1>2, <1>3 DEF InOrder

(* A read appends the bytes that follow those in the buffer.                 *)
LEMMA Reading ==
  ASSUME NEW b \in Seq(Nat), NEW n \in Nat, InOrder(b, n),
         NEW p \in Nat, n * RecLen + Len(b) = p, NEW k \in Nat
  PROVE  LET bb == b \o [i \in 1..k |-> p + i - 1]
         IN  /\ bb \in Seq(Nat) /\ Len(bb) = Len(b) + k
             /\ InOrder(bb, n)
<1> DEFINE read == [i \in 1..k |-> p + i - 1]
           bb   == b \o read
<1>1. Len(b) \in Nat /\ n * RecLen \in Nat
  BY LenProperties, OneMore
<1>2. read \in [1..k -> Nat]
  OBVIOUS
<1>3. read \in Seq(Nat) /\ Len(read) = k
  BY <1>2, SeqDef, LenProperties
<1>4. /\ bb \in Seq(Nat) /\ Len(bb) = Len(b) + k
      /\ \A i \in 1..(Len(b) + k) : bb[i] = IF i <= Len(b) THEN b[i] ELSE read[i - Len(b)]
  BY <1>3, ConcatProperties
<1>5. ASSUME NEW i \in 1..(Len(b) + k) PROVE bb[i] = n * RecLen + i - 1
  <2>1. CASE i <= Len(b)
    BY <1>1, <1>4, <2>1 DEF InOrder
  <2>2. CASE ~(i <= Len(b))
    <3>1. i - Len(b) \in 1..k
      BY <1>1, <2>2
    <3>2. bb[i] = p + (i - Len(b)) - 1
      BY <1>4, <2>2, <3>1
    <3> DEFINE first == n * RecLen
    <3>3. first + Len(b) = p /\ first \in Nat
      BY <1>1
    <3> HIDE DEF first
    <3>4. p + (i - Len(b)) - 1 = first + i - 1
      BY <1>1, <3>3
    <3>5. QED
      BY <3>2, <3>4 DEF first
  <2>3. QED
    BY <2>1, <2>2
<1>6. QED
  BY <1>4, <1>5 DEF InOrder

-----------------------------------------------------------------------------
(* The inductive invariant, beside that of the pool.                         *)

DataTypes ==
  /\ wr \in [Chans -> Nat] /\ rd \in [Chans -> Nat] /\ next \in [Chans -> Nat]
  /\ buf \in [Workers -> Seq(Nat)]
  /\ live \in Seq(BOOLEAN) /\ Len(live) = Len(chan)
  /\ broken \subseteq lossy

(* The device writes whole records, before they are read.                    *)
Written == \A c \in Chans : rd[c] <= wr[c] /\ \E k \in Nat : wr[c] = k * RecLen

(* The reader of a channel has not been stopped.                             *)
Registered ==
  \A c \in Chans : map[c] # NoReader => chan[map[c]] = c /\ live[map[c]]

(* A worker that executes nothing has no bytes, and before a read it has     *)
(* less than a record.                                                       *)
BufferOf(w) ==
  /\ at[w] \in {"off", "pop", "done"} => task[w] = NoReader
  /\ at[w] \notin {"loop", "read", "parse"} => buf[w] = <<>>
  /\ at[w] # "parse" => Len(buf[w]) < RecLen

Buffers == \A w \in Workers : BufferOf(w)

(* Between two executions all that was read has been parsed; during one the  *)
(* bytes in the buffer are those that were read and not yet parsed.          *)
IntactOf(c) ==
  map[c] # NoReader =>
    /\ (\A w \in Workers : task[w] # map[c]) => next[c] * RecLen = rd[c]
    /\ \A w \in Workers : task[w] = map[c] =>
         next[c] * RecLen + Len(buf[w]) = rd[c] /\ InOrder(buf[w], next[c])

Intact == \A c \in Chans \ lossy : IntactOf(c)

DataInv == DataTypes /\ Written /\ Registered /\ Buffers /\ Intact

dataVars == <<chan, live, map, at, task, buf, wr, rd, next, broken, lossy>>

(* At the start every buffer is empty and every channel at its first byte.   *)
LEMMA InitData == Init => DataInv
<1> SUFFICES ASSUME Init PROVE DataInv
  OBVIOUS
<1>1. DataTypes
  BY DEF Init, DataTypes
<1>2. Written
  <2>1. 0 = 0 * RecLen
    BY ChannelPoolAssumption
  <2>2. QED
    BY <2>1 DEF Init, Written
<1>3. Buffers
  BY ChannelPoolAssumption DEF Init, Buffers, BufferOf, NoReader
<1>4. QED
  BY <1>1, <1>2, <1>3 DEF Init, DataInv, Registered, Intact, IntactOf

(* A step that leaves the data's variables alone keeps DataInv.              *)
LEMMA DataStays ==
  ASSUME DataInv, UNCHANGED dataVars
  PROVE  DataInv'
  BY DEF DataInv, DataTypes, Written, Registered, Buffers, BufferOf, Intact, IntactOf,
         InOrder, dataVars

(* The threads start when there is no reader yet.                            *)
LEMMA StartData ==
  ASSUME PoolInv, DataInv, Start
  PROVE  DataInv'
<1>1. /\ UNCHANGED <<chan, live, map, task, buf, wr, rd, next, broken, lossy>>
      /\ at' = [w \in Workers |-> "pop"] /\ \A w \in Workers : at[w] = "off"
  BY DEF Start, PoolInv, InHand, readerVars, driverVars, histVars
<1>2. Buffers'
  BY <1>1 DEF DataInv, Buffers, BufferOf
<1>3. QED
  BY <1>1, <1>2 DEF DataInv, DataTypes, Written, Registered, Intact, IntactOf, InOrder

(* A new reader starts at what the driver has, between two records; the one  *)
(* that had the channel before has another number.                           *)
LEMMA AddData ==
  ASSUME PoolInv, DataInv, NEW c \in Chans, NEW w \in Workers, AddReader(c, w)
  PROVE  DataInv'
<1> DEFINE n == Len(chan) + 1
<1>1. /\ UNCHANGED <<at, task, buf, wr>> /\ map[c] = NoReader
      /\ chan' = Append(chan, c) /\ live' = Append(live, TRUE)
      /\ map' = [map EXCEPT ![c] = Len(chan')] /\ rd' = [rd EXCEPT ![c] = wr[c]]
      /\ next' = [next EXCEPT ![c] = wr[c] \div RecLen]
      /\ broken' = broken \ {c} /\ lossy' = lossy \ {c}
  BY DEF AddReader, workVars
<1>2. /\ Len(chan) \in Nat /\ Len(chan') = n /\ chan'[n] = c
      /\ \A i \in 1..Len(chan) : chan'[i] = chan[i]
  <2>1. chan \in Seq(Chans)
    BY DEF PoolInv, Types
  <2>2. QED
    BY <1>1, <2>1, AppendProperties, LenProperties
<1>3. /\ live' \in Seq(BOOLEAN) /\ Len(live') = n /\ live'[n]
      /\ \A i \in 1..Len(chan) : live'[i] = live[i]
  <2>1. live \in Seq(BOOLEAN) /\ Len(live) = Len(chan) /\ TRUE \in BOOLEAN
    BY DEF DataInv, DataTypes
  <2>2. /\ live' \in Seq(BOOLEAN) /\ Len(live') = Len(live) + 1
        /\ \A i \in 1..Len(live) : live'[i] = live[i]
        /\ live'[Len(live) + 1] = TRUE
    <3>1. PICK e \in BOOLEAN : e = TRUE
      OBVIOUS
    <3>2. /\ Append(live, e) \in Seq(BOOLEAN) /\ Len(Append(live, e)) = Len(live) + 1
          /\ \A i \in 1..Len(live) : Append(live, e)[i] = live[i]
          /\ Append(live, e)[Len(live) + 1] = e
      BY <2>1, AppendProperties
    <3>3. live' = Append(live, e)
      BY <1>1, <3>1
    <3>4. QED
      BY <3>1, <3>2, <3>3
  <2>3. QED
    BY <2>1, <2>2
<1>4. /\ wr[c] \in Nat /\ next'[c] \in Nat /\ rd'[c] = wr[c]
      /\ next'[c] * RecLen = rd'[c]
  <2>1. PICK k \in Nat : wr[c] = k * RecLen
    BY DEF DataInv, Written
  <2>2. wr[c] \div RecLen = k
    BY <2>1, Quotient
  <2>3. next'[c] = k /\ rd'[c] = wr[c]
    BY <1>1, <2>2 DEF DataInv, DataTypes
  <2>4. QED
    BY <2>1, <2>3 DEF DataInv, DataTypes
<1>5. DataTypes'
  BY <1>1, <1>2, <1>3, <1>4 DEF DataInv, DataTypes
<1>6. Written'
  BY <1>1, <1>4 DEF DataInv, DataTypes, Written
<1>7. map'[c] = n /\ \A d \in Chans : d # c => map'[d] = map[d]
  BY <1>1, <1>2 DEF PoolInv, Types
<1>8. \A d \in Chans : map[d] # NoReader => map[d] \in 1..Len(chan)
  BY <1>2 DEF PoolInv, Types, NoReader
<1>9. Registered'
  <2> SUFFICES ASSUME NEW d \in Chans, map'[d] # NoReader
               PROVE  chan'[map'[d]] = d /\ live'[map'[d]]
    BY DEF Registered
  <2>1. CASE d = c
    BY <1>2, <1>3, <1>7, <2>1
  <2>2. CASE d # c
    BY <1>2, <1>3, <1>7, <1>8, <2>2 DEF DataInv, Registered
  <2>3. QED
    BY <2>1, <2>2
<1>10. Buffers'
  BY <1>1 DEF DataInv, Buffers, BufferOf
<1>11. ASSUME NEW d \in Chans \ lossy' PROVE IntactOf(d)'
  <2>1. CASE d = c
    <3>1. \A v \in Workers : task'[v] # map'[c]
      <4>1. \A v \in Workers : task[v] # NoReader => task[v] \in 1..Len(chan)
        BY <1>2, LenProperties DEF PoolInv, Types, Homes, AtHome, Readers
      <4>2. \A v \in Workers : task[v] # n
        BY <1>2, <4>1 DEF NoReader
      <4>3. QED
        BY <1>1, <1>7, <4>2
    <3>2. QED
      BY <1>4, <2>1, <3>1 DEF IntactOf
  <2>2. CASE d # c
    <3>1. d \notin lossy /\ map'[d] = map[d] /\ rd'[d] = rd[d] /\ next'[d] = next[d]
      BY <1>1, <1>7, <2>2 DEF DataInv, DataTypes
    <3>2. IntactOf(d)
      BY <3>1 DEF DataInv, Intact
    <3>3. QED
      BY <1>1, <3>1, <3>2 DEF IntactOf, InOrder
  <2>3. QED
    BY <2>1, <2>2
<1>12. QED
  BY <1>5, <1>6, <1>9, <1>10, <1>11 DEF DataInv, Intact

(* The other readers are untouched.                                          *)
LEMMA RemoveData ==
  ASSUME PoolInv, DataInv, NEW c \in Chans, RemoveReader(c)
  PROVE  DataInv'
<1>1. /\ UNCHANGED <<chan, at, task, buf, wr, rd, next, broken, lossy>>
      /\ map[c] # NoReader /\ live' = [live EXCEPT ![map[c]] = FALSE]
      /\ map' = [map EXCEPT ![c] = NoReader]
  BY DEF RemoveReader, workVars, driverVars, histVars
<1>2. map[c] \in 1..Len(live)
  BY <1>1, LenProperties DEF PoolInv, Types, DataInv, DataTypes, NoReader
<1>3. /\ live' \in Seq(BOOLEAN) /\ Len(live') = Len(live)
      /\ \A i \in 1..Len(live) : i # map[c] => live'[i] = live[i]
  <2>1. live \in Seq(BOOLEAN) /\ FALSE \in BOOLEAN
    BY DEF DataInv, DataTypes
  <2>2. QED
    BY <1>1, <1>2, <2>1, ExceptSeq
<1>4. DataTypes'
  BY <1>1, <1>3 DEF DataInv, DataTypes
<1>5. map'[c] = NoReader /\ \A d \in Chans : d # c => map'[d] = map[d]
  BY <1>1 DEF PoolInv, Types
<1>6. Registered'
  <2> SUFFICES ASSUME NEW d \in Chans, map'[d] # NoReader
               PROVE  chan'[map'[d]] = d /\ live'[map'[d]]
    BY DEF Registered
  <2>1. d # c /\ map'[d] = map[d]
    BY <1>5
  <2>2. chan[map[d]] = d /\ live[map[d]] /\ chan[map[c]] = c
    BY <1>1, <2>1 DEF DataInv, Registered
  <2>3. map[d] \in 1..Len(live)
    BY <2>1, LenProperties DEF PoolInv, Types, DataInv, DataTypes, NoReader
  <2>4. map[d] # map[c]
    BY <2>1, <2>2
  <2>5. live'[map[d]] = live[map[d]]
    BY <1>3, <2>3, <2>4
  <2>6. QED
    BY <1>1, <2>1, <2>2, <2>5
<1>7. Intact'
  BY <1>1, <1>5 DEF DataInv, Intact, IntactOf, InOrder
<1>8. QED
  BY <1>1, <1>4, <1>6, <1>7 DEF DataInv, Written, Buffers, BufferOf

(* The device adds a whole record.                                           *)
LEMMA ProduceData ==
  ASSUME PoolInv, DataInv, NEW c \in Chans, Produce(c)
  PROVE  DataInv'
<1>1. /\ UNCHANGED <<chan, live, map, at, task, buf, rd, next, broken, lossy>>
      /\ wr' = [wr EXCEPT ![c] = wr[c] + RecLen]
  BY DEF Produce, readerVars, workVars, histVars
<1>2. /\ wr'[c] = wr[c] + RecLen /\ wr[c] \in Nat /\ wr'[c] \in Nat
      /\ \A d \in Chans : d # c => wr'[d] = wr[d]
  BY <1>1, ChannelPoolAssumption DEF DataInv, DataTypes
<1>3. DataTypes'
  BY <1>1, <1>2 DEF DataInv, DataTypes
<1>4. Written'
  <2> SUFFICES ASSUME NEW d \in Chans
               PROVE  rd[d] <= wr'[d] /\ \E k \in Nat : wr'[d] = k * RecLen
    BY <1>1 DEF Written
  <2>1. rd[d] \in Nat /\ rd[d] <= wr[d]
    BY DEF DataInv, DataTypes, Written
  <2>2. PICK k \in Nat : wr[d] = k * RecLen
    BY DEF DataInv, Written
  <2>3. CASE d = c
    <3>1. wr'[d] = (k + 1) * RecLen /\ k + 1 \in Nat
      BY <1>2, <2>2, <2>3, OneMore
    <3>2. rd[d] <= wr'[d]
      BY <1>2, <2>1, <2>3, ChannelPoolAssumption
    <3>3. QED
      BY <3>1, <3>2
  <2>4. CASE d # c
    BY <1>2, <2>1, <2>2, <2>4
  <2>5. QED
    BY <2>3, <2>4
<1>5. QED
  BY <1>1, <1>3, <1>4
     DEF DataInv, Registered, Buffers, BufferOf, Intact, IntactOf, InOrder

-----------------------------------------------------------------------------
(* The workers.                                                              *)

(* A worker that executes has a reader that no other has.                    *)
LEMMA Executing ==
  ASSUME PoolInv, DataInv, NEW w \in Workers, at[w] \in {"begin", "loop", "read", "parse"}
  PROVE  /\ task[w] # NoReader /\ Chan(w) \in Chans
         /\ \A d \in Chans : map[d] = task[w] => d = Chan(w)
         /\ \A v \in Workers : v # w => task[v] # task[w]
<1>1. /\ task[w] # NoReader /\ task[w] \in Readers /\ home[task[w]] = w
      /\ \A v \in Workers : task[v] # NoReader => home[task[v]] = v
  BY DEF PoolInv, Homes, AtHome
<1>2. Chan(w) \in Chans
  BY <1>1, LenProperties DEF PoolInv, Types, Readers, Chan
<1>3. \A d \in Chans : map[d] = task[w] => d = Chan(w)
  BY <1>1 DEF DataInv, Registered, Chan
<1>4. QED
  BY <1>1, <1>2, <1>3

(* The channels that a step of a worker does not concern.                    *)
LEMMA Elsewhere ==
  ASSUME NEW w \in Workers, NEW d \in Chans, IntactOf(d),
         map[d] # task[w], map[d] # task'[w],
         map'[d] = map[d], rd'[d] = rd[d], next'[d] = next[d],
         \A v \in Workers : v # w => task'[v] = task[v] /\ buf'[v] = buf[v]
  PROVE  IntactOf(d)'
  BY DEF IntactOf, InOrder

(* The reader that is taken from the queue is with no other worker.          *)
LEMMA PopData ==
  ASSUME PoolInv, DataInv, NEW w \in Workers, WorkerPop(w)
  PROVE  DataInv'
<1> DEFINE r == Head(queue[w])
<1>1. /\ UNCHANGED <<chan, live, map, buf, wr, rd, next, broken, lossy>>
      /\ at[w] = "pop" /\ queue[w] # <<>>
      /\ task' = [task EXCEPT ![w] = r] /\ at' = [at EXCEPT ![w] = "begin"]
  BY DEF WorkerPop, readerVars, driverVars, histVars
<1>2. /\ task \in [Workers -> Nat] /\ at'[w] = "begin" /\ task'[w] = r
      /\ \A v \in Workers : v # w => at'[v] = at[v] /\ task'[v] = task[v]
  BY <1>1 DEF PoolInv, Types
<1>3. task[w] = NoReader /\ buf[w] = <<>>
  BY <1>1 DEF DataInv, Buffers, BufferOf
<1>4. r # NoReader /\ \A v \in Workers : task[v] # r
  <2>1. queue[w] \in Seq(Nat) /\ 1 \in 1..Len(queue[w]) /\ r = queue[w][1]
    BY <1>1, HeadTailProperties, EmptySeq, LenProperties DEF PoolInv, Types
  <2>2. r \in Readers /\ home[r] = w
    BY <2>1 DEF PoolInv, Homes, AtHome
  <2>3. Readers = 1..Len(chan) /\ Len(chan) \in Nat
    BY LenProperties DEF PoolInv, Types, Readers
  <2>4. r # NoReader
    BY <2>2, <2>3 DEF NoReader
  <2>5. \A v \in Workers : v # w /\ task[v] # NoReader => home[task[v]] = v
    BY DEF PoolInv, Homes, AtHome
  <2>6. QED
    BY <1>3, <2>2, <2>4, <2>5
<1>5. Buffers'
  BY <1>1, <1>2, <1>3, ChannelPoolAssumption DEF DataInv, Buffers, BufferOf
<1>6. ASSUME NEW d \in Chans \ lossy, map[d] # NoReader PROVE IntactOf(d)'
  <2>1. IntactOf(d)
    BY DEF DataInv, Intact
  <2>2. CASE map[d] = r
    <3>1. next[d] * RecLen = rd[d] /\ rd[d] \in Nat
      BY <1>4, <1>6, <2>1, <2>2 DEF IntactOf, DataInv, DataTypes
    <3>2. \A v \in Workers : task'[v] = r => v = w
      BY <1>2, <1>4
    <3>3. Len(buf[w]) = 0 /\ InOrder(buf[w], next[d]) /\ rd[d] + 0 = rd[d]
      BY <1>3, <3>1 DEF InOrder
    <3>4. QED
      BY <1>1, <1>2, <2>2, <3>1, <3>2, <3>3 DEF IntactOf, InOrder
  <2>3. CASE map[d] # r
    BY <1>1, <1>2, <1>3, <1>6, <2>1, <2>3, Elsewhere
  <2>4. QED
    BY <2>2, <2>3
<1>7. Intact'
  BY <1>1, <1>6 DEF Intact, IntactOf
<1>8. QED
  BY <1>1, <1>5, <1>7 DEF DataInv, DataTypes, Written, Registered

(* A worker goes on, with what it has.                                       *)
LEMMA MoveData ==
  ASSUME PoolInv, DataInv, NEW w \in Workers,
         WorkerExit(w) \/ ExecuteBegin(w) \/ ExecuteLoop(w)
  PROVE  DataInv'
<1>1. /\ UNCHANGED <<chan, live, map, task, buf, wr, rd, next, broken, lossy>>
      /\ at[w] \in {"pop", "begin", "loop"}
      /\ at' = [at EXCEPT ![w] = IF at[w] = "pop" THEN "done"
                                 ELSE IF at[w] = "begin" THEN "loop" ELSE "read"]
  BY DEF WorkerExit, ExecuteBegin, ExecuteLoop, readerVars, driverVars, histVars
<1>2. Buffers'
  BY <1>1, ChannelPoolAssumption DEF PoolInv, Types, DataInv, Buffers, BufferOf
<1>3. QED
  BY <1>1, <1>2 DEF DataInv, DataTypes, Written, Registered, Intact, IntactOf, InOrder

(* An execution ends: the buffer of a channel that is not excused is empty.  *)
LEMMA EndData ==
  ASSUME PoolInv, DataInv, NEW w \in Workers, at[w] \in {"loop", "read"}, ExecuteEnd(w),
         lossy \subseteq lossy',
         \A c \in Chans \ lossy' : map[c] = task[w] => Len(buf[w]) = 0
  PROVE  DataInv'
<1>1. /\ UNCHANGED <<chan, live, map, wr, rd, next, broken>>
      /\ at' = [at EXCEPT ![w] = "pop"] /\ task' = [task EXCEPT ![w] = NoReader]
      /\ buf' = [buf EXCEPT ![w] = <<>>]
  BY DEF ExecuteEnd, readerVars, driverVars
<1>2. /\ at'[w] = "pop" /\ task'[w] = NoReader /\ buf'[w] = <<>>
      /\ \A v \in Workers :
           v # w => at'[v] = at[v] /\ task'[v] = task[v] /\ buf'[v] = buf[v]
  BY <1>1 DEF PoolInv, Types, DataInv, DataTypes
<1>3. DataTypes'
  BY <1>1 DEF DataInv, DataTypes
<1>4. Buffers'
  BY <1>2, ChannelPoolAssumption DEF DataInv, Buffers, BufferOf
<1>5. ASSUME NEW d \in Chans \ lossy', map[d] # NoReader PROVE IntactOf(d)'
  <2>1. IntactOf(d)
    BY DEF DataInv, Intact
  <2>2. CASE map[d] = task[w]
    <3>1. next[d] * RecLen + Len(buf[w]) = rd[d] /\ Len(buf[w]) = 0
      BY <1>5, <2>1, <2>2 DEF IntactOf
    <3>2. next[d] * RecLen \in Nat
      BY OneMore DEF DataInv, DataTypes
    <3>3. next[d] * RecLen = rd[d]
      BY <3>1, <3>2
    <3>4. \A v \in Workers : task'[v] # map[d]
      BY <1>2, <1>5, <2>2, Executing
    <3>5. QED
      BY <1>1, <3>3, <3>4 DEF IntactOf
  <2>3. CASE map[d] # task[w]
    BY <1>1, <1>2, <1>5, <2>1, <2>3, Elsewhere
  <2>4. QED
    BY <2>2, <2>3
<1>6. Intact'
  BY <1>1, <1>5 DEF Intact, IntactOf
<1>7. QED
  BY <1>1, <1>3, <1>4, <1>6 DEF DataInv, Written, Registered

(* What a read may take.                                                     *)
LEMMA LengthOf ==
  ASSUME PoolInv, DataInv, NEW w \in Workers, at[w] = "read"
  PROVE  LET c == Chan(w)
         IN  /\ Length(w) \in Nat /\ Length(w) <= wr[c] - rd[c] /\ Length(w) <= Room(w)
             /\ Length(w) = 0 => wr[c] = rd[c]
<1> DEFINE c == Chan(w)
           a == Room(w)
           b == wr[c] - rd[c]
<1>1. /\ wr[c] \in Nat /\ rd[c] \in Nat /\ rd[c] <= wr[c]
  BY Executing DEF DataInv, DataTypes, Written
<1>2. b \in Nat /\ (b = 0 => wr[c] = rd[c])
  BY <1>1
<1>3. a \in Nat /\ a # 0
  <2>1. Len(buf[w]) \in Nat
    BY LenProperties DEF DataInv, DataTypes
  <2>2. Len(buf[w]) < RecLen
    BY DEF DataInv, Buffers, BufferOf
  <2>3. QED
    BY <2>1, <2>2, ChannelPoolAssumption DEF Room
<1> HIDE DEF a, b
<1>4. Min({a, b}) \in {a, b} /\ Min({a, b}) <= a /\ Min({a, b}) <= b
  <2>1. \E x \in {a, b} : \A y \in {a, b} : x <= y
    BY <1>2, <1>3
  <2>2. QED
    BY <2>1 DEF Min
<1>5. Length(w) = Min({a, b})
  BY DEF Length, a, b
<1>6. QED
  BY <1>2, <1>3, <1>4, <1>5 DEF a, b

(* The reader was stopped, the driver has nothing more, or the read failed.  *)
(* Nothing more means no tail either: whole records were written.            *)
LEMMA EndsData ==
  ASSUME PoolInv, DataInv, NEW w \in Workers,
         ExecuteStopped(w) \/ ReadNothing(w) \/ ReadFails(w)
  PROVE  DataInv'
<1>1. CASE ExecuteStopped(w)
  <2>1. at[w] = "loop" /\ ExecuteEnd(w) /\ lossy' = lossy /\ ~live[task[w]]
    BY <1>1 DEF ExecuteStopped
  <2>2. \A c \in Chans : map[c] # task[w]
    BY <2>1, Executing DEF DataInv, Registered
  <2>3. QED
    BY <2>1, <2>2, EndData
<1>2. CASE ReadNothing(w)
  <2>1. at[w] = "read" /\ ExecuteEnd(w) /\ lossy' = lossy /\ Length(w) = 0
    BY <1>2 DEF ReadNothing
  <2>2. ASSUME NEW c \in Chans \ lossy, map[c] = task[w] PROVE Len(buf[w]) = 0
    <3>1. map[c] # NoReader /\ c = Chan(w)
      BY <2>1, <2>2, Executing
    <3>2. next[c] * RecLen + Len(buf[w]) = rd[c]
      BY <2>2, <3>1 DEF DataInv, Intact, IntactOf
    <3>3. rd[c] = wr[c]
      BY <2>1, <3>1, LengthOf
    <3>4. PICK k \in Nat : wr[c] = k * RecLen
      BY DEF DataInv, Written
    <3>5. Len(buf[w]) \in Nat /\ Len(buf[w]) < RecLen /\ next[c] \in Nat
      BY <2>1, LenProperties DEF DataInv, DataTypes, Buffers, BufferOf
    <3>6. QED
      BY <3>2, <3>3, <3>4, <3>5, Remainder
  <2>3. QED
    BY <2>1, <2>2, EndData
<1>3. CASE ReadFails(w)
  <2>1. /\ at[w] = "read" /\ ExecuteEnd(w)
        /\ lossy' = IF buf[w] = <<>> THEN lossy ELSE lossy \union {Chan(w)}
    BY <1>3 DEF ReadFails
  <2>2. ASSUME NEW c \in Chans \ lossy', map[c] = task[w] PROVE Len(buf[w]) = 0
    <3>1. c = Chan(w)
      BY <2>1, <2>2, Executing
    <3>2. buf[w] = <<>>
      BY <2>1, <2>2, <3>1
    <3>3. QED
      BY <3>2
  <2>3. lossy \subseteq lossy'
    BY <2>1
  <2>4. QED
    BY <2>1, <2>2, <2>3, EndData
<1>4. QED
  BY <1>1, <1>2, <1>3

(* A read takes the bytes that follow those in the buffer, or the channel is *)
(* not the reader's any more.                                                *)
LEMMA ReadData ==
  ASSUME PoolInv, DataInv, NEW w \in Workers, Read(w)
  PROVE  DataInv'
<1> DEFINE c    == Chan(w)
           n    == Length(w)
           more == [i \in 1..n |-> rd[c] + i - 1]
<1>1. /\ UNCHANGED <<chan, live, map, task, wr, next, broken>> /\ at[w] = "read"
      /\ at' = [at EXCEPT ![w] = "parse"] /\ buf' = [buf EXCEPT ![w] = buf[w] \o more]
      /\ rd' = [rd EXCEPT ![c] = rd[c] + n]
      /\ lossy' = IF map[c] = task[w] THEN lossy ELSE lossy \union {c}
  BY DEF Read, readerVars
<1>2. /\ c \in Chans /\ n \in Nat /\ n <= wr[c] - rd[c]
      /\ wr[c] \in Nat /\ rd[c] \in Nat /\ buf[w] \in Seq(Nat)
  BY <1>1, Executing, LengthOf DEF DataInv, DataTypes
<1>3. /\ at'[w] = "parse" /\ buf'[w] = buf[w] \o more /\ rd'[c] = rd[c] + n
      /\ \A v \in Workers : v # w => at'[v] = at[v] /\ buf'[v] = buf[v]
      /\ \A d \in Chans : d # c => rd'[d] = rd[d]
  BY <1>1, <1>2 DEF PoolInv, Types, DataInv, DataTypes
<1>4. buf[w] \o more \in Seq(Nat)
  <2>1. more \in [1..n -> Nat]
    BY <1>2
  <2>2. PICK m \in [1..n -> Nat] : m = more
    BY <2>1
  <2>3. m \in Seq(Nat)
    BY <1>2, SeqDef
  <2>4. buf[w] \o m \in Seq(Nat)
    BY <1>2, <2>3, ConcatProperties
  <2>5. QED
    BY <2>2, <2>4
<1>5. rd'[c] \in Nat /\ rd'[c] <= wr[c]
  BY <1>2, <1>3
<1>6. lossy \subseteq lossy'
  BY <1>1
<1>7. DataTypes'
  BY <1>1, <1>4, <1>5, <1>6 DEF DataInv, DataTypes
<1>8. Written'
  BY <1>1, <1>3, <1>5 DEF DataInv, Written
<1>9. Buffers'
  BY <1>1, <1>3, Executing DEF DataInv, Buffers, BufferOf
<1>10. ASSUME NEW d \in Chans \ lossy', map[d] # NoReader PROVE IntactOf(d)'
  <2>1. IntactOf(d)
    BY <1>6 DEF DataInv, Intact
  <2>2. CASE d = c
    <3>1. map[c] = task[w]
      BY <1>1, <1>10, <2>2
    <3>2. /\ next[c] \in Nat /\ InOrder(buf[w], next[c])
          /\ next[c] * RecLen + Len(buf[w]) = rd[c]
      BY <1>10, <2>1, <2>2, <3>1 DEF IntactOf, DataInv, DataTypes
    <3>3. Len(buf'[w]) = Len(buf[w]) + n /\ InOrder(buf'[w], next[c])
      BY <1>2, <1>3, <3>2, Reading
    <3>4. next[c] * RecLen + Len(buf'[w]) = rd'[c]
      <4>1. next[c] * RecLen \in Nat /\ Len(buf[w]) \in Nat
        BY <1>2, <3>2, OneMore, LenProperties
      <4>2. QED
        BY <1>2, <1>3, <3>2, <3>3, <4>1
    <3>5. \A v \in Workers : task'[v] = map[c] => v = w
      BY <1>1, <3>1, Executing
    <3>6. QED
      BY <1>1, <2>2, <3>1, <3>3, <3>4, <3>5 DEF IntactOf, InOrder
  <2>3. CASE d # c
    <3>1. map[d] # task[w]
      BY <1>1, <2>3, Executing
    <3>2. QED
      BY <1>1, <1>3, <2>1, <2>3, <3>1, Elsewhere
  <2>4. QED
    BY <2>2, <2>3
<1>11. Intact'
  BY <1>1, <1>10 DEF Intact, IntactOf
<1>12. QED
  BY <1>1, <1>7, <1>8, <1>9, <1>11 DEF DataInv, Registered

(* Parse takes the whole records out of the buffer, each at its turn.        *)
LEMMA ParseData ==
  ASSUME PoolInv, DataInv, NEW w \in Workers, Parse(w)
  PROVE  DataInv'
<1> DEFINE c == Chan(w)
           b == buf[w]
<1>1. /\ UNCHANGED <<chan, live, map, task, wr, rd, lossy>> /\ at[w] = "parse"
      /\ at' = [at EXCEPT ![w] = "loop"] /\ buf' = [buf EXCEPT ![w] = Carried(b)]
      /\ next' = IF map[c] = task[w] THEN [next EXCEPT ![c] = next[c] + Whole(b)] ELSE next
      /\ broken' = IF map[c] = task[w] /\ ~(\A i \in 1..Whole(b) :
                                             InBuffer(b, i) = RecordBytes(next[c] + i - 1))
                   THEN broken \union {c} ELSE broken
  BY DEF Parse, readerVars, driverVars
<1>2. /\ c \in Chans /\ b \in Seq(Nat) /\ next[c] \in Nat /\ rd[c] \in Nat /\ task[w] # NoReader
  BY <1>1, Executing DEF DataInv, DataTypes
<1>3. /\ Whole(b) \in Nat /\ Carried(b) \in Seq(Nat) /\ Len(Carried(b)) < RecLen
      /\ Len(Carried(b)) = Len(b) - Whole(b) * RecLen
  BY <1>2, Cutting
<1>4. /\ at'[w] = "loop" /\ buf'[w] = Carried(b)
      /\ \A v \in Workers : v # w => at'[v] = at[v] /\ buf'[v] = buf[v]
      /\ \A d \in Chans : d # c => next'[d] = next[d]
      /\ next' \in [Chans -> Nat]
  BY <1>1, <1>2, <1>3 DEF PoolInv, Types, DataInv, DataTypes
<1>5. ASSUME c \notin lossy, map[c] = task[w]
      PROVE  InOrder(b, next[c]) /\ next[c] * RecLen + Len(b) = rd[c]
  BY <1>2, <1>5 DEF DataInv, Intact, IntactOf
<1>6. broken' \subseteq lossy
  <2>1. CASE c \notin lossy /\ map[c] = task[w]
    <3>1. \A i \in 1..Whole(b) : InBuffer(b, i) = RecordBytes(next[c] + i - 1)
      BY <1>2, <1>5, <2>1, Records
    <3>2. QED
      BY <1>1, <3>1 DEF DataInv, DataTypes
  <2>2. CASE ~(c \notin lossy /\ map[c] = task[w])
    BY <1>1, <2>2 DEF DataInv, DataTypes
  <2>3. QED
    BY <2>1, <2>2
<1>7. DataTypes'
  BY <1>1, <1>3, <1>4, <1>6 DEF DataInv, DataTypes
<1>8. Buffers'
  BY <1>1, <1>3, <1>4, Executing DEF DataInv, Buffers, BufferOf
<1>9. ASSUME NEW d \in Chans \ lossy, map[d] # NoReader PROVE IntactOf(d)'
  <2>1. IntactOf(d)
    BY DEF DataInv, Intact
  <2>2. CASE map[d] = task[w]
    <3>1. d = c
      BY <1>1, <2>2, Executing
    <3>2. InOrder(b, next[c]) /\ next[c] * RecLen + Len(b) = rd[c]
      BY <1>5, <1>9, <2>2, <3>1
    <3>3. next'[c] = next[c] + Whole(b)
      BY <1>1, <1>2, <2>2, <3>1 DEF DataInv, DataTypes
    <3>4. InOrder(Carried(b), next'[c])
      BY <1>2, <3>2, <3>3, Records
    <3>5. next'[c] * RecLen + Len(Carried(b)) = rd[c]
      <4> DEFINE k == Whole(b) * RecLen
                 m == next[c] * RecLen
      <4>1. next'[c] * RecLen = m + k
        BY <1>2, <1>3, <3>3, ChannelPoolAssumption
      <4>2. m \in Nat /\ k \in Nat /\ Len(b) \in Nat
        BY <1>2, <1>3, OneMore, LenProperties
      <4> HIDE DEF k, m
      <4>3. m + Len(b) = rd[c] /\ Len(Carried(b)) = Len(b) - k
        BY <1>3, <3>2 DEF k, m
      <4>4. QED
        BY <4>1, <4>2, <4>3
    <3>6. \A v \in Workers : task'[v] = map[d] => v = w
      BY <1>1, <2>2, Executing
    <3>7. QED
      BY <1>1, <1>4, <2>2, <3>1, <3>4, <3>5, <3>6 DEF IntactOf, InOrder
  <2>3. CASE map[d] # task[w]
    <3>1. next'[d] = next[d]
      BY <1>1, <1>2, <2>3 DEF DataInv, DataTypes
    <3>2. QED
      BY <1>1, <1>4, <2>1, <2>3, <3>1, Elsewhere
  <2>4. QED
    BY <2>2, <2>3
<1>10. Intact'
  BY <1>1, <1>9 DEF Intact, IntactOf
<1>11. QED
  BY <1>1, <1>7, <1>8, <1>10 DEF DataInv, Written, Registered

-----------------------------------------------------------------------------
(* Every step keeps DataInv.                                                 *)
LEMMA NextDataInv == PoolInv /\ DataInv /\ [Next]_vars => DataInv'
<1> SUFFICES ASSUME PoolInv, DataInv, [Next]_vars PROVE DataInv'
  OBVIOUS
<1>1. ASSUME \/ Stop \/ StopFirst \/ PollerStep \/ UNCHANGED vars
             \/ \E w \in Workers : StopWorker(w) \/ StopLast(w)
      PROVE  DataInv'
  <2>1. UNCHANGED dataVars
    BY <1>1 DEF Stop, StopFirst, StopWorker, StopLast, StopNext, PollerStep, Poll, PollEnds,
                PollFails, DispatchSkip, Dispatch, PushWaits, vars, dataVars,
                readerVars, workVars, driverVars, histVars
  <2>2. QED
    BY <2>1, DataStays
<1>2. CASE Owner
  BY <1>1, <1>2, StartData, AddData, RemoveData DEF Owner
<1>3. ASSUME NEW w \in Workers, Worker(w) PROVE DataInv'
  BY <1>3, PopData, MoveData, EndsData, ReadData, ParseData DEF Worker
<1>4. QED
  BY <1>1, <1>2, <1>3, ProduceData DEF Next, Stopped

(* Between reads the bytes in a worker's buffer are those that were read and *)
(* not yet parsed, from the start of the record that comes next.             *)
THEOREM DataInductive == Spec => [](PoolInv /\ DataInv)
<1>1. Init => PoolInv /\ DataInv
  BY InitPool, InitData
<1>2. PoolInv /\ DataInv /\ [Next]_vars => (PoolInv /\ DataInv)'
  BY NextPool, NextDataInv
<1>3. QED
  BY <1>1, <1>2, PTL DEF Spec

(* The parsers get the records that the device wrote, in order, whole and    *)
(* once, whatever the lengths of records, buffer and reads, the number of    *)
(* workers, and the readers that come and go (Execute and                    *)
(* TransDataToActivityBuffer, channel_reader.cpp:78-161).                    *)
THEOREM ParsersGetRecords == Spec => []RecordsIntact
<1>1. DataInv => RecordsIntact
  BY DEF DataInv, DataTypes, Intact, IntactOf, RecordsIntact
<1>2. QED
  BY <1>1, DataInductive, PTL

-----------------------------------------------------------------------------
(* The bounds of TypeOK.                                                     *)

Bounds ==
  /\ started \in BOOLEAN /\ mtx \in BOOLEAN
  /\ poller \notin {"dispatch", "push"} => due = <<>>
  /\ Len(chan) <= MaxReaders
  /\ open \in [Workers -> BOOLEAN]
  /\ faults \in Nat /\ faults <= MaxFaults
  /\ lossy \subseteq Chans
  /\ written \in Nat /\ written <= MaxRecords
  /\ \A c \in Chans : wr[c] <= written * RecLen

(* The records a parser got were read, also those of a channel whose reader  *)
(* was removed with bytes in its buffer; the buffer holds no more than fits. *)
BehindOf(c) ==
  /\ next[c] * RecLen <= rd[c]
  /\ map[c] # NoReader => \A w \in Workers : task[w] = map[c] =>
       next[c] * RecLen + Len(buf[w]) <= rd[c]

Fills ==
  /\ \A w \in Workers : Len(buf[w]) <= BufLen
  /\ \A c \in Chans : BehindOf(c)

(* At the start nothing is written, read or counted.                         *)
LEMMA InitBounds == Init => Bounds /\ Fills
<1> SUFFICES ASSUME Init PROVE Bounds /\ Fills
  OBVIOUS
<1>1. 0 * RecLen = 0
  BY ChannelPoolAssumption
<1>2. Bounds
  <2>1. \A c \in Chans : wr[c] <= written * RecLen
    BY <1>1 DEF Init
  <2>2. Len(chan) <= MaxReaders
    BY ChannelPoolAssumption DEF Init
  <2>3. /\ started = FALSE /\ mtx = FALSE /\ due = <<>> /\ faults = 0 /\ lossy = {} /\ written = 0
        /\ open \in [Workers -> BOOLEAN]
    BY DEF Init
  <2>4. /\ faults \in Nat /\ faults <= MaxFaults
        /\ written \in Nat /\ written <= MaxRecords
    BY <2>3, ChannelPoolAssumption
  <2>5. started \in BOOLEAN /\ mtx \in BOOLEAN /\ lossy \subseteq Chans
    BY <2>3
  <2>6. QED
    BY <2>1, <2>2, <2>3, <2>4, <2>5 DEF Bounds
<1>3. Fills
  BY <1>1, ChannelPoolAssumption DEF Init, Fills, BehindOf
<1>4. QED
  BY <1>2, <1>3

(* One more record is written, and as many bytes as it has.                  *)
LEMMA ProduceBounds ==
  ASSUME PoolInv, DataInv, Bounds, NEW c \in Chans, Produce(c)
  PROVE  Bounds'
<1>1. /\ UNCHANGED <<started, mtx, poller, due, chan, open, faults, lossy>>
      /\ written < MaxRecords /\ written' = written + 1
      /\ wr' = [wr EXCEPT ![c] = wr[c] + RecLen]
  BY DEF Produce, poolVars, readerVars, histVars
<1>2. written' * RecLen = written * RecLen + RecLen /\ written * RecLen \in Nat
  BY <1>1, OneMore DEF Bounds
<1>3. PICK n \in Nat : n = written * RecLen
  BY <1>2
<1>4. ASSUME NEW d \in Chans PROVE wr'[d] <= n + RecLen
  <2>1. wr[d] \in Nat /\ wr[d] <= n
    BY <1>3 DEF DataInv, DataTypes, Bounds
  <2>2. wr'[d] = IF d = c THEN wr[d] + RecLen ELSE wr[d]
    BY <1>1 DEF DataInv, DataTypes
  <2>3. QED
    BY <2>1, <2>2, ChannelPoolAssumption
<1>5. \A d \in Chans : wr'[d] <= written' * RecLen
  BY <1>2, <1>3, <1>4
<1>6. written' \in Nat /\ written' <= MaxRecords
  BY <1>1, ChannelPoolAssumption DEF Bounds
<1>7. QED
  BY <1>1, <1>5, <1>6 DEF Bounds

(* No step of the pool, its poller, its workers or the device goes past a    *)
(* bound.                                                                    *)
LEMMA NextBounds ==
  ASSUME PoolInv, DataInv, Bounds, [Next]_vars
  PROVE  Bounds'
<1>1. CASE UNCHANGED vars
  BY <1>1 DEF vars, poolVars, readerVars, driverVars, histVars, Bounds
<1>2. CASE Start \/ Stop \/ StopFirst \/ \E w \in Workers : StopWorker(w) \/ StopLast(w)
  <2>1. /\ UNCHANGED <<mtx, due, chan, written, wr, faults, lossy>>
        /\ poller' = poller \/ (poller = "off" /\ poller' = "poll")
    BY <1>2 DEF Start, Stop, StopFirst, StopWorker, StopLast, StopNext, readerVars, driverVars,
                histVars, PoolInv, InHand
  <2>2. started' \in BOOLEAN /\ open' \in [Workers -> BOOLEAN]
    BY <1>2 DEF Start, Stop, StopFirst, StopWorker, StopLast, StopNext, Bounds
  <2>3. QED
    BY <2>1, <2>2 DEF Bounds
<1>3. ASSUME NEW c \in Chans, NEW w \in Workers, AddReader(c, w) PROVE Bounds'
  <2>1. Len(chan') = Len(chan) + 1 /\ Len(chan) < MaxReaders /\ Len(chan) \in Nat
    BY <1>3, AppendProperties, LenProperties DEF AddReader, PoolInv, Types
  <2>2. /\ UNCHANGED <<started, mtx, poller, due, open, faults, written, wr>>
        /\ lossy' = lossy \ {c}
    BY <1>3 DEF AddReader, poolVars
  <2>3. QED
    BY <2>1, <2>2, ChannelPoolAssumption DEF Bounds
<1>4. ASSUME NEW c \in Chans, RemoveReader(c) PROVE Bounds'
  BY <1>4 DEF RemoveReader, poolVars, driverVars, histVars, Bounds
<1>5. CASE PollerStep
  <2>1. /\ UNCHANGED <<started, chan, open, written, wr, lossy>> /\ mtx' \in BOOLEAN
        /\ poller' \notin {"dispatch", "push"} => due' = <<>>
    BY <1>5 DEF PollerStep, Poll, PollEnds, PollFails, DispatchSkip, Dispatch, PushWaits,
                Dispatched, poolVars, readerVars, driverVars, histVars, Bounds
  <2>2. faults' \in Nat /\ faults' <= MaxFaults
    BY <1>5, ChannelPoolAssumption
       DEF PollerStep, Poll, PollEnds, PollFails, DispatchSkip, Dispatch, PushWaits, Bounds
  <2>3. QED
    BY <2>1, <2>2 DEF Bounds
<1>6. ASSUME NEW w \in Workers, Worker(w) PROVE Bounds'
  <2>1. UNCHANGED <<started, mtx, poller, due, chan, open, written, wr>>
    BY <1>6 DEF Worker, WorkerPop, WorkerExit, ExecuteBegin, ExecuteLoop, ExecuteStopped,
                Read, ReadNothing, ReadFails, Parse, ExecuteEnd, poolVars, readerVars, driverVars
  <2>2. faults' \in Nat /\ faults' <= MaxFaults
    BY <1>6, ChannelPoolAssumption
       DEF Worker, WorkerPop, WorkerExit, ExecuteBegin, ExecuteLoop, ExecuteStopped,
           Read, ReadNothing, ReadFails, Parse, Bounds
  <2>3. lossy' \subseteq Chans
    <3>1. at[w] = "read" => Chan(w) \in Chans
      BY Executing
    <3>2. lossy' = lossy \/ (at[w] = "read" /\ lossy' = lossy \union {Chan(w)})
      BY <1>6 DEF Worker, WorkerPop, WorkerExit, ExecuteBegin, ExecuteLoop, ExecuteStopped,
                  Read, ReadNothing, ReadFails, Parse, histVars
    <3>3. QED
      BY <3>1, <3>2 DEF Bounds
  <2>4. QED
    BY <2>1, <2>2, <2>3 DEF Bounds
<1>7. QED
  BY <1>1, <1>2, <1>3, <1>4, <1>5, <1>6, ProduceBounds DEF Next, Owner, Stopped

(* What was parsed and what is in the buffer stays behind what was read, and *)
(* a read leaves no more in the buffer than there was room for.              *)
LEMMA FillsStay ==
  ASSUME Fills, UNCHANGED <<map, task, buf, rd, next>>
  PROVE  Fills'
  BY DEF Fills, BehindOf

(* A reader that is added starts where the device has come to, and no        *)
(* worker has it yet.                                                        *)
LEMMA AddFills ==
  ASSUME PoolInv, DataInv, Fills, NEW c \in Chans, NEW w \in Workers, AddReader(c, w)
  PROVE  Fills'
<1>1. /\ UNCHANGED <<task, buf, wr>> /\ map[c] = NoReader
      /\ chan' = Append(chan, c)
      /\ map' = [map EXCEPT ![c] = Len(chan')] /\ rd' = [rd EXCEPT ![c] = wr[c]]
      /\ next' = [next EXCEPT ![c] = wr[c] \div RecLen]
  BY DEF AddReader, workVars
<1>2. Len(chan') = Len(chan) + 1 /\ Len(chan) \in Nat
  BY <1>1, AppendProperties, LenProperties DEF PoolInv, Types
<1>3. next'[c] * RecLen = rd'[c] /\ rd'[c] \in Nat
  <2>1. PICK k \in Nat : wr[c] = k * RecLen
    BY DEF DataInv, Written
  <2>2. wr[c] \div RecLen = k
    BY <2>1, Quotient
  <2>3. next'[c] = k /\ rd'[c] = wr[c] /\ wr[c] \in Nat
    BY <1>1, <2>2 DEF DataInv, DataTypes
  <2>4. QED
    BY <2>1, <2>3
<1>4. \A v \in Workers : task[v] # Len(chan) + 1
  <2>1. \A v \in Workers : task[v] # NoReader => task[v] \in 1..Len(chan)
    BY <1>2, LenProperties DEF PoolInv, Types, Homes, AtHome, Readers
  <2>2. QED
    BY <1>2, <2>1 DEF NoReader
<1>5. /\ map'[c] = Len(chan) + 1
      /\ \A d \in Chans : d # c => map'[d] = map[d] /\ rd'[d] = rd[d] /\ next'[d] = next[d]
  BY <1>1, <1>2 DEF PoolInv, Types, DataInv, DataTypes
<1>6. ASSUME NEW d \in Chans PROVE BehindOf(d)'
  <2>1. CASE d = c
    BY <1>1, <1>3, <1>4, <1>5, <2>1 DEF BehindOf
  <2>2. CASE d # c
    BY <1>1, <1>5, <2>2 DEF Fills, BehindOf
  <2>3. QED
    BY <2>1, <2>2
<1>7. QED
  BY <1>1, <1>6 DEF Fills

(* A worker takes its next reader with an empty buffer.                      *)
LEMMA PopFills ==
  ASSUME PoolInv, DataInv, Fills, NEW w \in Workers, WorkerPop(w)
  PROVE  Fills'
<1>1. /\ UNCHANGED <<map, buf, rd, next>> /\ at[w] = "pop"
      /\ task' = [task EXCEPT ![w] = Head(queue[w])]
  BY DEF WorkerPop, driverVars, histVars
<1>2. \A v \in Workers : v # w => task'[v] = task[v]
  BY <1>1 DEF PoolInv, Types
<1>3. Len(buf[w]) = 0
  BY <1>1 DEF DataInv, Buffers, BufferOf
<1>4. ASSUME NEW d \in Chans PROVE BehindOf(d)'
  <2>1. next[d] * RecLen \in Nat /\ next[d] * RecLen <= rd[d]
    BY OneMore DEF DataInv, DataTypes, Fills, BehindOf
  <2>2. next[d] * RecLen + Len(buf[w]) <= rd[d]
    BY <1>3, <2>1
  <2>3. \A v \in Workers : v # w /\ map[d] # NoReader /\ task[v] = map[d] =>
          next[d] * RecLen + Len(buf[v]) <= rd[d]
    BY DEF Fills, BehindOf
  <2>4. QED
    BY <1>1, <1>2, <2>1, <2>2, <2>3 DEF BehindOf
<1>5. QED
  BY <1>1, <1>4 DEF Fills

(* At the end of Execute the buffer is given up.                             *)
LEMMA EndFills ==
  ASSUME PoolInv, DataInv, Fills, NEW w \in Workers, ExecuteEnd(w)
  PROVE  Fills'
<1>1. /\ UNCHANGED <<map, rd, next>>
      /\ task' = [task EXCEPT ![w] = NoReader] /\ buf' = [buf EXCEPT ![w] = <<>>]
  BY DEF ExecuteEnd, driverVars
<1>2. /\ task'[w] = NoReader /\ Len(buf'[w]) = 0
      /\ \A v \in Workers : v # w => task'[v] = task[v] /\ buf'[v] = buf[v]
  BY <1>1 DEF PoolInv, Types, DataInv, DataTypes
<1>3. \A v \in Workers : Len(buf'[v]) <= BufLen
  BY <1>2, ChannelPoolAssumption DEF Fills
<1>4. ASSUME NEW d \in Chans PROVE BehindOf(d)'
  BY <1>1, <1>2 DEF Fills, BehindOf
<1>5. QED
  BY <1>3, <1>4 DEF Fills

(* A read advances rd by as many bytes as it adds to the buffer.             *)
LEMMA ReadFills ==
  ASSUME PoolInv, DataInv, Fills, NEW w \in Workers, Read(w)
  PROVE  Fills'
<1> DEFINE c    == Chan(w)
           n    == Length(w)
           more == [i \in 1..n |-> rd[c] + i - 1]
<1>1. /\ UNCHANGED <<map, task, next>> /\ at[w] = "read"
      /\ buf' = [buf EXCEPT ![w] = buf[w] \o more] /\ rd' = [rd EXCEPT ![c] = rd[c] + n]
  BY DEF Read
<1>2. /\ c \in Chans /\ n \in Nat /\ n <= Room(w) /\ rd[c] \in Nat
      /\ buf[w] \in Seq(Nat) /\ Len(buf[w]) \in Nat
  BY <1>1, Executing, LengthOf, LenProperties DEF DataInv, DataTypes
<1>3. /\ buf'[w] = buf[w] \o more /\ rd'[c] = rd[c] + n
      /\ \A v \in Workers : v # w => buf'[v] = buf[v]
      /\ \A d \in Chans : d # c => rd'[d] = rd[d]
  BY <1>1, <1>2 DEF DataInv, DataTypes
<1>4. Len(buf'[w]) = Len(buf[w]) + n
  <2>1. more \in [1..n -> Nat]
    BY <1>2
  <2>2. more \in Seq(Nat) /\ Len(more) = n
    BY <1>2, <2>1, SeqDef, LenProperties
  <2>3. QED
    BY <1>2, <1>3, <2>2, ConcatProperties
<1>5. Len(buf[w]) + n <= BufLen
  BY <1>2, ChannelPoolAssumption DEF Room
<1>6. ASSUME NEW d \in Chans PROVE BehindOf(d)'
  <2>1. PICK p \in Nat : p = next[d] * RecLen
    BY OneMore DEF DataInv, DataTypes
  <2>2. /\ p <= rd[d] /\ rd[d] \in Nat
        /\ \A v \in Workers : map[d] # NoReader /\ task[v] = map[d] => p + Len(buf[v]) <= rd[d]
    BY <2>1 DEF Fills, BehindOf, DataInv, DataTypes
  <2>3. CASE d = c
    <3>1. p <= rd'[d]
      BY <1>2, <1>3, <2>2, <2>3
    <3>2. ASSUME NEW v \in Workers, map[d] # NoReader, task[v] = map[d]
          PROVE  p + Len(buf'[v]) <= rd'[d]
      <4>1. p + Len(buf[v]) <= rd[d] /\ Len(buf[v]) \in Nat
        BY <2>2, <3>2, LenProperties DEF DataInv, DataTypes
      <4>2. CASE v = w
        BY <1>2, <1>3, <1>4, <2>3, <4>1, <4>2
      <4>3. CASE v # w
        BY <1>2, <1>3, <2>3, <4>1, <4>3
      <4>4. QED
        BY <4>2, <4>3
    <3>3. QED
      BY <1>1, <2>1, <3>1, <3>2 DEF BehindOf
  <2>4. CASE d # c
    <3>1. map[d] # NoReader => task[w] # map[d]
      BY <1>1, <2>4, Executing
    <3>2. QED
      BY <1>1, <1>3, <2>4, <3>1 DEF Fills, BehindOf
  <2>5. QED
    BY <2>3, <2>4
<1>7. \A v \in Workers : Len(buf'[v]) <= BufLen
  BY <1>3, <1>4, <1>5 DEF Fills
<1>8. QED
  BY <1>6, <1>7 DEF Fills

(* Parsing moves whole records from the buffer to next.                      *)
LEMMA ParseFills ==
  ASSUME PoolInv, DataInv, Fills, NEW w \in Workers, Parse(w)
  PROVE  Fills'
<1> DEFINE c == Chan(w)
           b == buf[w]
<1>1. /\ UNCHANGED <<map, task, rd>> /\ at[w] = "parse"
      /\ buf' = [buf EXCEPT ![w] = Carried(b)]
      /\ next' = IF map[c] = task[w] THEN [next EXCEPT ![c] = next[c] + Whole(b)] ELSE next
  BY DEF Parse, driverVars
<1>2. /\ c \in Chans /\ b \in Seq(Nat) /\ next[c] \in Nat /\ rd[c] \in Nat /\ task[w] # NoReader
      /\ \A d \in Chans : map[d] = task[w] => d = c
  BY <1>1, Executing DEF DataInv, DataTypes
<1>3. /\ Whole(b) \in Nat /\ Len(Carried(b)) < RecLen /\ Len(b) \in Nat
      /\ Whole(b) * RecLen \in Nat /\ Len(Carried(b)) = Len(b) - Whole(b) * RecLen
      /\ Len(Carried(b)) \in Nat
  BY <1>2, Cutting, LenProperties
<1>4. /\ buf'[w] = Carried(b) /\ \A v \in Workers : v # w => buf'[v] = buf[v]
      /\ \A d \in Chans : map[d] # task[w] => next'[d] = next[d]
      /\ map[c] = task[w] => next'[c] = next[c] + Whole(b)
  BY <1>1, <1>2 DEF DataInv, DataTypes
<1>5. ASSUME NEW d \in Chans PROVE BehindOf(d)'
  <2>1. CASE map[d] = task[w]
    <3>1. d = c
      BY <1>2, <2>1
    <3>2. PICK m \in Nat, k \in Nat : m = next[c] * RecLen /\ k = Whole(b) * RecLen
      BY <1>2, <1>3, OneMore
    <3>3. next'[c] * RecLen = m + k
      <4>1. next'[c] = next[c] + Whole(b)
        BY <1>4, <2>1, <3>1
      <4>2. (next[c] + Whole(b)) * RecLen = next[c] * RecLen + Whole(b) * RecLen
        BY <1>2, <1>3, ChannelPoolAssumption
      <4>3. QED
        BY <3>2, <4>1, <4>2
    <3>4. m + Len(b) <= rd[c]
      BY <1>2, <2>1, <3>1, <3>2 DEF Fills, BehindOf
    <3>5. m + k + Len(Carried(b)) <= rd[c] /\ m + k <= rd[c]
      BY <1>2, <1>3, <3>2, <3>4
    <3>6. \A v \in Workers : task[v] = map[d] => v = w
      BY <1>1, <2>1, Executing
    <3>7. QED
      BY <1>1, <1>4, <3>1, <3>3, <3>5, <3>6 DEF BehindOf
  <2>2. CASE map[d] # task[w]
    BY <1>1, <1>4, <2>2 DEF Fills, BehindOf
  <2>3. QED
    BY <2>1, <2>2
<1>6. \A v \in Workers : Len(buf'[v]) <= BufLen
  <2>1. Len(buf'[w]) <= BufLen
    BY <1>3, <1>4, ChannelPoolAssumption
  <2>2. QED
    BY <1>4, <2>1 DEF Fills
<1>7. QED
  BY <1>5, <1>6 DEF Fills

(* Every step keeps the counts behind each other.                            *)
LEMMA NextFills ==
  ASSUME PoolInv, DataInv, Fills, [Next]_vars
  PROVE  Fills'
<1>1. CASE \/ Start \/ Stop \/ StopFirst \/ PollerStep \/ UNCHANGED vars
           \/ \E w \in Workers : \/ StopWorker(w) \/ StopLast(w) \/ WorkerExit(w)
                                 \/ ExecuteBegin(w) \/ ExecuteLoop(w)
           \/ \E c \in Chans : Produce(c)
  <2>1. UNCHANGED <<map, task, buf, rd, next>>
    BY <1>1 DEF Start, Stop, StopFirst, StopWorker, StopLast, StopNext, PollerStep, Poll,
                PollEnds, PollFails, DispatchSkip, Dispatch, PushWaits, WorkerExit, ExecuteBegin,
                ExecuteLoop, Produce, vars, workVars, driverVars, histVars
  <2>2. QED
    BY <2>1, FillsStay
<1>2. ASSUME NEW c \in Chans, RemoveReader(c) PROVE Fills'
  <2>1. UNCHANGED <<task, buf, rd, next>> /\ map' = [map EXCEPT ![c] = NoReader]
    BY <1>2 DEF RemoveReader, workVars, driverVars, histVars
  <2>2. \A d \in Chans : map'[d] # NoReader => map'[d] = map[d]
    BY <2>1 DEF PoolInv, Types
  <2>3. QED
    BY <2>1, <2>2 DEF Fills, BehindOf
<1>3. ASSUME NEW w \in Workers, ExecuteStopped(w) \/ ReadNothing(w) \/ ReadFails(w)
      PROVE  Fills'
  BY <1>3, EndFills DEF ExecuteStopped, ReadNothing, ReadFails
<1>4. QED
  BY <1>1, <1>2, <1>3, AddFills, PopFills, ReadFills, ParseFills DEF Next, Owner, Stopped, Worker

(* Every variable of ChannelPool keeps its type: no queue outgrows its       *)
(* capacity, no read its buffer, no parser what was read (thread_pool.h,     *)
(* bound_queue.h, channel_reader.cpp:78-108).                                *)
THEOREM TypeCorrect == Spec => []TypeOK
<1> DEFINE Inv == PoolInv /\ DataInv /\ Bounds /\ Fills
<1>1. Init => Inv
  BY InitPool, InitData, InitBounds
<1>2. Inv /\ [Next]_vars => Inv'
  BY NextPool, NextDataInv, NextBounds, NextFills
<1>3. ASSUME Inv PROVE TypeOK
  <2>1. Types /\ InHand /\ Homes
    BY <1>3 DEF PoolInv
  <2>2. Readers = 1..Len(chan) /\ Len(chan) \in Nat
    BY <2>1, LenProperties DEF Types, Readers
  <2>3. map \in [Chans -> Readers \union {NoReader}]
    BY <2>1, <2>2 DEF Types, NoReader
  <2>4. home \in [Readers -> Workers] /\ live \in [Readers -> BOOLEAN] /\ sched \in [Readers -> BOOLEAN]
    BY <1>3, <2>1, <2>2, LenProperties DEF Types, DataInv, DataTypes
  <2>5. task \in [Workers -> Readers \union {NoReader}]
    BY <2>1 DEF Types, Homes, AtHome
  <2>6. ASSUME NEW w \in Workers
        PROVE  Range(queue[w]) \subseteq Readers /\ Len(queue[w]) <= Capacity /\ Len(buf[w]) <= BufLen
    <3>1. DOMAIN queue[w] = 1..Len(queue[w])
      BY <2>1, LenProperties DEF Types
    <3>2. QED
      BY <1>3, <2>1, <3>1 DEF Homes, AtHome, Range, Fills
  <2>7. ASSUME NEW c \in Chans
        PROVE  /\ wr[c] \in 0..MaxRecords * RecLen /\ rd[c] \in 0..wr[c]
               /\ next[c] \in 0..MaxRecords
    <3>1. /\ wr[c] \in Nat /\ rd[c] \in Nat /\ next[c] \in Nat /\ rd[c] <= wr[c]
          /\ written \in Nat /\ written <= MaxRecords /\ MaxRecords \in Nat
      BY <1>3, ChannelPoolAssumption DEF DataInv, DataTypes, Written, Bounds
    <3>2. PICK m \in Nat, p \in Nat, q \in Nat :
            m = MaxRecords * RecLen /\ p = written * RecLen /\ q = next[c] * RecLen
      BY <3>1, OneMore
    <3>3. p <= m
      BY <3>1, <3>2, Multiples
    <3>4. wr[c] <= p /\ q <= rd[c]
      BY <1>3, <3>2 DEF Bounds, Fills, BehindOf
    <3>5. wr[c] <= m /\ q <= m
      BY <3>1, <3>3, <3>4
    <3>6. next[c] <= MaxRecords
      <4> SUFFICES ASSUME ~(next[c] <= MaxRecords) PROVE FALSE
        OBVIOUS
      <4>1. (MaxRecords + 1) * RecLen <= q
        BY <3>1, <3>2, Multiples
      <4>2. (MaxRecords + 1) * RecLen = m + RecLen
        BY <3>1, <3>2, OneMore
      <4>3. QED
        BY <3>5, <4>1, <4>2, ChannelPoolAssumption
    <3>7. QED
      BY <3>1, <3>2, <3>5, <3>6
  <2>8. due \in Seq(Chans) /\ (due = <<>> <=> poller \notin {"dispatch", "push"})
    BY <1>3, <2>1 DEF Types, InHand, Bounds
  <2>9. written \in 0..MaxRecords /\ faults \in 0..MaxFaults /\ broken \union lossy \subseteq Chans
    BY <1>3, ChannelPoolAssumption DEF Bounds, DataInv, DataTypes
  <2>10. {started, mtx} \subseteq BOOLEAN /\ Len(chan) <= MaxReaders /\ open \in [Workers -> BOOLEAN]
    BY <1>3 DEF Bounds
  <2>11. QED
    BY <2>1, <2>3, <2>4, <2>5, <2>6, <2>7, <2>8, <2>9, <2>10 DEF Types, TypeOK
<1>4. QED
  BY <1>1, <1>2, <1>3, PTL DEF Spec
=============================================================================
