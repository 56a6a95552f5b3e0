---------------------------- MODULE DevTask_proof ----------------------------
(***************************************************************************)
(* Proofs about DevTask for every set of threads, devices, kinds and       *)
(* channels, whatever the tables of the platform say and the driver does:  *)
(* first of the tasks and the channels they need, then of the calls that   *)
(* meet, Register, SetDevice and ResetAllDevice.                           *)
(***************************************************************************)
EXTENDS DevTask, FiniteSetTheorems, SequenceTheorems, WellFoundedInduction, TLAPS

(* A set of naturals that is not empty has a least element.                 *)
LEMMA MinIsMember ==
  ASSUME NEW S \in SUBSET Nat, S # {}
  PROVE  Min(S) \in S
<1>1. PICK x \in S : \A y \in S : <<y, x>> \notin OpToRel(<, Nat)
  BY WFMin, NatLessThanWellFounded
<1>2. \A y \in S : ~(y < x)
  BY <1>1, Zenon DEF OpToRel
<1>3. \A y \in S : x <= y
  BY <1>2
<1>4. QED
  BY <1>3 DEF Min

(* An enumeration of a finite set of devices is a sequence of devices.       *)
LEMMA EnumerationIsSeq ==
  ASSUME NEW S \in SUBSET Devices, IsFiniteSet(S), NEW s \in SetToSeqs(S)
  PROVE  s \in Seq(Devices)
<1>1. Cardinality(S) \in Nat
  BY FS_CardinalityType
<1>2. s \in [1..Cardinality(S) -> Devices]
  BY DEF SetToSeqs
<1>3. QED
  BY <1>1, <1>2, SeqDef

-----------------------------------------------------------------------------
(* The inductive invariant.                                                  *)

(* The state of the managers, of the driver and of CANN.                     *)
Types ==
  /\ switch \subseteq Kinds /\ append \subseteq Kinds
  /\ devices \subseteq Devices /\ IsFiniteSet(devices)
  /\ devMtx \in Threads \union {NoThread} /\ taskMtx \in Threads \union {NoThread}
  /\ tasks \subseteq Devices \X Kinds /\ excused \subseteq Devices \X Kinds
  /\ ref \in [Devices \X Channels -> Nat]
  /\ {profSwitch, subscribed, pool, alone} \subseteq BOOLEAN
  /\ readers \union running \union notStarted \union notStopped \union unread
       \subseteq Devices \X Channels
  /\ cann \union cannLeft \subseteq Devices /\ calls \in 0..MaxCalls

(* The threads: one in a loop over devices has one in hand, and one in the   *)
(* loop over the kinds has a kind left.                                      *)
Frames ==
  /\ pc \in [Threads -> {"idle", "append", "copy", "check", "start", "tasks", "kinds",
                         "stop", "reset", "uninit", "poolgone", "pool"}]
  /\ op \in [Threads -> {"none", "Register", "SetDevice", "Reset"}]
  /\ want \in [Threads -> SUBSET Kinds] /\ left \in [Threads -> SUBSET Kinds]
  /\ todo \in [Threads -> Seq(Devices)]
  /\ \A t \in Threads :
       /\ pc[t] \in {"check", "start", "tasks", "kinds", "stop"} => todo[t] # <<>>
       /\ pc[t] = "kinds" => left[t] # {}

IndInv == Types /\ Frames /\ RefCountsMatchTasks /\ ChannelServed

(* The counts and the jobs agree at the start.                               *)
LEMMA InitInv == Init => IndInv
<1> SUFFICES ASSUME Init PROVE IndInv
  OBVIOUS
<1>1. Types
  <2>1. IsFiniteSet(devices)
    BY FS_EmptySet DEF Init
  <2>2. calls \in 0..MaxCalls /\ ref \in [Devices \X Channels -> Nat]
    BY DevTaskAssumption DEF Init
  <2>3. {profSwitch, subscribed, pool, alone} \subseteq BOOLEAN
    BY DEF Init
  <2>4. QED
    BY <2>1, <2>2, <2>3 DEF Init, Types
<1>2. Frames
  BY DEF Init, Frames
<1>3. RefCountsMatchTasks
  <2> SUFFICES ASSUME NEW d \in Devices, NEW c \in Channels
               PROVE ref[<<d, c>>] =
                       Cardinality({k \in Kinds : <<d, k>> \in tasks /\ c \in ChannelsOf[k]})
    BY DEF RefCountsMatchTasks
  <2>1. {k \in Kinds : <<d, k>> \in tasks /\ c \in ChannelsOf[k]} = {}
    BY DEF Init
  <2>2. QED
    BY <2>1, FS_EmptySet DEF Init
<1>4. ChannelServed
  BY DEF Init, ChannelServed, ChannelRunsWhileNeeded, RunningIsDrained
<1>5. QED
  BY <1>1, <1>2, <1>3, <1>4 DEF IndInv

-----------------------------------------------------------------------------
(* The threads.                                                              *)

(* A thread has a device in hand, and in the loop over the kinds a kind.     *)
LEMMA InHand ==
  ASSUME Frames, NEW t \in Threads
  PROVE  /\ pc[t] \in {"check", "start", "tasks", "kinds", "stop"} =>
              /\ Device(t) \in Devices
              /\ NextDevices(t) \in Seq(Devices)
         /\ pc[t] = "kinds" => Min(left[t]) \in Kinds
<1>1. pc[t] \in {"check", "start", "tasks", "kinds", "stop"} => 
        Device(t) \in Devices /\ NextDevices(t) \in Seq(Devices)
  <2> SUFFICES ASSUME todo[t] # <<>> 
               PROVE Device(t) \in Devices /\ NextDevices(t) \in Seq(Devices)
    BY DEF Frames
  <2>1. todo[t] \in Seq(Devices)
    BY DEF Frames
  <2>2. QED
    BY <2>1, HeadTailProperties DEF Device, NextDevices
<1>2. ASSUME pc[t] = "kinds" PROVE Min(left[t]) \in Kinds
  <2>1. left[t] # {} /\ left[t] \subseteq Kinds
    BY <1>2 DEF Frames
  <2>2. left[t] \in SUBSET Nat
    BY <2>1, DevTaskAssumption
  <2>3. QED
    BY <2>1, <2>2, MinIsMember
<1>3. QED
  BY <1>1, <1>2

(* To go on with a loop, or to leave it, keeps the frames; in the meantime   *)
(* the thread may have dealt with a kind.                                    *)
LEMMA DevLoopFrames ==
  ASSUME Frames, NEW t \in Threads, NEW s \in Seq(Devices), DevLoop(t, s),
         NEW K \in SUBSET Kinds, left' = [left EXCEPT ![t] = K] \/ UNCHANGED left
  PROVE  Frames'
<1>1. /\ pc' \in [Threads -> {"idle", "append", "copy", "check", "start", "tasks", "kinds",
                              "stop", "reset", "uninit", "poolgone", "pool"}]
      /\ op' \in [Threads -> {"none", "Register", "SetDevice", "Reset"}]
  BY DEF Frames, DevLoop
<1>2. /\ want' \in [Threads -> SUBSET Kinds] /\ left' \in [Threads -> SUBSET Kinds]
      /\ todo' \in [Threads -> Seq(Devices)]
  BY DEF Frames, DevLoop
<1>3. ASSUME NEW u \in Threads
      PROVE  /\ pc'[u] \in {"check", "start", "tasks", "kinds", "stop"} => todo'[u] # <<>>
             /\ pc'[u] = "kinds" => left'[u] # {}
  <2>1. CASE u # t
    <3>1. pc'[u] = pc[u] /\ todo'[u] = todo[u] /\ left'[u] = left[u]
      BY <2>1 DEF Frames, DevLoop
    <3>2. QED
      BY <3>1 DEF Frames
  <2>2. CASE u = t
    <3>1. todo'[t] = s
      BY DEF Frames, DevLoop
    <3>2. pc'[t] \in {"idle", "reset"} \/ (pc'[t] \in {"stop", "start"} /\ s # <<>>)
      <4>1. pc'[t] = CASE s = <<>> /\ op[t] # "Reset" -> "idle"
                       [] s = <<>> /\ ~(s = <<>> /\ op[t] # "Reset") -> "reset"
                       [] s # <<>> /\ op[t] = "Reset" -> "stop"
                       [] s # <<>> /\ op[t] # "Reset" -> "start"
        BY DEF Frames, DevLoop
      <4>2. CASE s = <<>> /\ op[t] # "Reset"
        BY <4>1, <4>2
      <4>3. CASE s = <<>> /\ op[t] = "Reset"
        BY <4>1, <4>3
      <4>4. CASE s # <<>>
        BY <4>1, <4>4
      <4>5. QED
        BY <4>2, <4>3, <4>4
    <3>3. QED
      BY <2>2, <3>1, <3>2
  <2>3. QED
    BY <2>1, <2>2
<1>4. QED
  BY <1>1, <1>2, <1>3 DEF Frames

(* The end of a kind.                                                        *)
LEMMA NextKindFrames ==
  ASSUME Frames, NEW t \in Threads, pc[t] = "kinds", NextKind(t)
  PROVE  Frames'
<1>1. left' = [left EXCEPT ![t] = left[t] \ {Min(left[t])}]
  BY DEF NextKind
<1>2. left[t] \ {Min(left[t])} \in SUBSET Kinds
  BY DEF Frames
<1>3. CASE left'[t] = {}
  <2>1. DevLoop(t, NextDevices(t))
    BY <1>3 DEF NextKind
  <2>2. NextDevices(t) \in Seq(Devices)
    BY InHand
  <2>3. QED
    BY <1>1, <1>2, <2>1, <2>2, DevLoopFrames
<1>4. CASE left'[t] # {}
  <2>1. UNCHANGED <<pc, op, want, todo>>
    BY <1>4 DEF NextKind
  <2>2. left' \in [Threads -> SUBSET Kinds] /\ \A u \in Threads \ {t} : left'[u] = left[u]
    BY <1>1, <1>2 DEF Frames
  <2>3. QED
    BY <1>4, <2>1, <2>2 DEF Frames
<1>5. QED
  BY <1>3, <1>4

-----------------------------------------------------------------------------
(* Tasks that start and stop.                                                *)

(* The kinds of device d whose task uses channel c.                          *)
Users(d, c) == {k \in Kinds : <<d, k>> \in tasks /\ c \in ChannelsOf[k]}

(* There are no more users of a channel than kinds.                          *)
LEMMA UsersAreFinite ==
  ASSUME NEW d, NEW c
  PROVE  /\ IsFiniteSet(Users(d, c)) /\ Cardinality(Users(d, c)) \in Nat
         /\ Cardinality(Users(d, c)) <= Cardinality(Kinds)
  BY DevTaskAssumption, FS_Subset, FS_CardinalityType DEF Users

(* The first task of a kind on a device takes its channels.                  *)
LEMMA StartKeepsCounts ==
  ASSUME Types, RefCountsMatchTasks, NEW d \in Devices, NEW k \in Kinds,
         ~Runs(d, k), tasks' = tasks \union {<<d, k>>}, StartTasks(d, ChannelsOf[k])
  PROVE  ref' \in [Devices \X Channels -> Nat] /\ RefCountsMatchTasks'
<1>1. ref' = [x \in Devices \X Channels |->
                IF x \in {d} \X ChannelsOf[k] THEN ref[x] + 1 ELSE ref[x]]
  BY DEF StartTasks, Types
<1>2. ref' \in [Devices \X Channels -> Nat]
  BY <1>1 DEF Types
<1>3. ASSUME NEW e \in Devices, NEW c \in Channels
      PROVE  ref'[<<e, c>>] = Cardinality(Users(e, c)')
  <2>1. ref[<<e, c>>] = Cardinality(Users(e, c))
    BY DEF RefCountsMatchTasks, Users
  <2>2. CASE e = d /\ c \in ChannelsOf[k]
    <3>1. Users(e, c)' = Users(e, c) \union {k} /\ k \notin Users(e, c)
      BY <2>2 DEF Users, Runs
    <3>2. Cardinality(Users(e, c)') = Cardinality(Users(e, c)) + 1
      BY <3>1, UsersAreFinite, FS_AddElement
    <3>3. ref'[<<e, c>>] = ref[<<e, c>>] + 1
      BY <1>1, <2>2
    <3>4. QED
      BY <2>1, <3>2, <3>3
  <2>3. CASE ~(e = d /\ c \in ChannelsOf[k])
    <3>1. Users(e, c)' = Users(e, c)
      BY <2>3 DEF Users
    <3>2. ref'[<<e, c>>] = ref[<<e, c>>]
      BY <1>1, <2>3
    <3>3. QED
      BY <2>1, <3>1, <3>2
  <2>4. QED
    BY <2>2, <2>3
<1>4. QED
  BY <1>2, <1>3 DEF RefCountsMatchTasks, Users

(* A task that is stopped was counted on each of its channels.               *)
LEMMA StopKeepsCounts ==
  ASSUME Types, RefCountsMatchTasks, NEW d \in Devices, NEW k \in Kinds,
         Runs(d, k), tasks' = tasks \ {<<d, k>>}, StopTasks(d, ChannelsOf[k])
  PROVE  /\ ref' \in [Devices \X Channels -> Nat] /\ RefCountsMatchTasks'
         /\ \A x \in {d} \X ChannelsOf[k] : ref[x] > 0 /\ ref'[x] = ref[x] - 1
         /\ \A x \in Devices \X Channels : x \notin {d} \X ChannelsOf[k] => ref'[x] = ref[x]
<1>1. ref' = [x \in Devices \X Channels |->
                IF x \in {d} \X ChannelsOf[k] THEN ref[x] - 1 ELSE ref[x]]
  BY DEF StopTasks, Types
<1>2. ChannelsOf[k] \subseteq Channels
  BY DevTaskAssumption
<1>3. ASSUME NEW e \in Devices, NEW c \in Channels
      PROVE  /\ ref'[<<e, c>>] = Cardinality(Users(e, c)')
             /\ e = d /\ c \in ChannelsOf[k] => ref[<<e, c>>] > 0
  <2>1. ref[<<e, c>>] = Cardinality(Users(e, c))
    BY DEF RefCountsMatchTasks, Users
  <2>2. CASE e = d /\ c \in ChannelsOf[k]
    <3>1. Users(e, c)' = Users(e, c) \ {k} /\ k \in Users(e, c)
      BY <2>2 DEF Users, Runs
    <3>2. Cardinality(Users(e, c)') = Cardinality(Users(e, c)) - 1
      BY <3>1, UsersAreFinite, FS_RemoveElement
    <3>3. Cardinality(Users(e, c)) # 0 /\ Cardinality(Users(e, c)) \in Nat
      BY <3>1, UsersAreFinite, FS_EmptySet
    <3>4. ref'[<<e, c>>] = ref[<<e, c>>] - 1
      BY <1>1, <2>2
    <3>5. QED
      BY <2>1, <3>2, <3>3, <3>4
  <2>3. CASE ~(e = d /\ c \in ChannelsOf[k])
    <3>1. Users(e, c)' = Users(e, c)
      BY <2>3 DEF Users
    <3>2. ref'[<<e, c>>] = ref[<<e, c>>]
      BY <1>1, <2>3
    <3>3. QED
      BY <2>1, <2>3, <3>1, <3>2
  <2>4. QED
    BY <2>2, <2>3
<1>4. \A x \in {d} \X ChannelsOf[k] : ref[x] > 0 /\ ref'[x] = ref[x] - 1
  <2> SUFFICES ASSUME NEW c \in ChannelsOf[k]
               PROVE ref[<<d, c>>] > 0 /\ ref'[<<d, c>>] = ref[<<d, c>>] - 1
    OBVIOUS
  <2>1. <<d, c>> \in Devices \X Channels
    BY <1>2
  <2>2. QED
    BY <1>1, <1>2, <1>3, <2>1
<1>5. ref' \in [Devices \X Channels -> Nat]
  <2> SUFFICES ASSUME NEW x \in Devices \X Channels PROVE ref'[x] \in Nat
    BY <1>1
  <2>1. CASE x \in {d} \X ChannelsOf[k]
    BY <1>4, <2>1 DEF Types
  <2>2. CASE x \notin {d} \X ChannelsOf[k]
    BY <1>1, <2>2 DEF Types
  <2>3. QED
    BY <2>1, <2>2
<1>6. QED
  BY <1>1, <1>3, <1>4, <1>5 DEF RefCountsMatchTasks, Users

(* The channels of C with n users are pairs of the device and one of C.      *)
LEMMA UsedChannels ==
  ASSUME NEW d, NEW C, NEW n
  PROVE  /\ Used(d, C, n) \subseteq {d} \X C
         /\ \A x \in {d} \X C : x \in Used(d, C, n) <=> ref[x] = n
<1>1. ASSUME NEW x \in Used(d, C, n) PROVE x \in {d} \X C
  <2>1. PICK c \in C : x = <<d, c>>
    BY DEF Used
  <2>2. QED
    BY <2>1
<1>2. ASSUME NEW c \in C PROVE <<d, c>> \in Used(d, C, n) <=> ref[<<d, c>>] = n
  BY DEF Used
<1>3. QED
  BY <1>1, <1>2

(* Starting a task starts the channels that nobody used, and gives them a    *)
(* reader if there is a pool.                                                *)
LEMMA StartKeepsServed ==
  ASSUME Types, ChannelServed, NEW d \in Devices, NEW k \in Kinds,
         StartTasks(d, ChannelsOf[k]), UNCHANGED pool
  PROVE  /\ ChannelServed'
         /\ (readers \union running \union notStarted \union notStopped \union unread)'
              \subseteq Devices \X Channels
<1> DEFINE C     == ChannelsOf[k]
           first == Used(d, C, 0)
           tried == {x \in first : x[2] \in DevChannels[d]}
<1>1. C \subseteq Channels
  BY DevTaskAssumption
<1>2. PICK ok \in SUBSET tried :
         /\ running' = running \union ok
         /\ notStarted' = notStarted \union (first \ ok)
         /\ notStopped' = notStopped \ ok
  BY DEF StartTasks
<1>3. /\ readers' = IF pool THEN readers \union tried ELSE readers
      /\ unread' = IF pool THEN unread \ tried ELSE unread \union tried
  BY DEF StartTasks
<1>4. /\ \A x \in {d} \X C : ref'[x] = ref[x] + 1
      /\ \A x \in Devices \X Channels : x \notin {d} \X C => ref'[x] = ref[x]
  BY <1>1 DEF StartTasks, Types
<1>5. /\ first \subseteq {d} \X C /\ \A x \in {d} \X C : x \in first <=> ref[x] = 0
      /\ first \subseteq Devices \X Channels
  BY <1>1, UsedChannels
<1>6. \A x \in Devices \X Channels : ref[x] \in Nat
  BY DEF Types
<1>7. ChannelRunsWhileNeeded'
  <2> SUFFICES ASSUME NEW x \in Devices \X Channels
               PROVE /\ ref'[x] > 0 => x \in running' \union notStarted'
                     /\ ref'[x] = 0 => x \notin running' \/ x \in notStopped'
    BY DEF ChannelRunsWhileNeeded
  <2>1. /\ ref[x] > 0 => x \in running \union notStarted
        /\ ref[x] = 0 => x \notin running \/ x \in notStopped
    BY DEF ChannelServed, ChannelRunsWhileNeeded
  <2>2. CASE x \in {d} \X C
    BY <1>2, <1>4, <1>5, <1>6, <2>1, <2>2
  <2>3. CASE x \notin {d} \X C
    BY <1>2, <1>4, <1>5, <2>1, <2>3
  <2>4. QED
    BY <2>2, <2>3
<1>8. RunningIsDrained'
  <2>1. pool' => running' \subseteq readers' \union unread'
    BY <1>2, <1>3 DEF ChannelServed, RunningIsDrained
  <2>2. ASSUME NEW x \in readers' PROVE ref'[x] > 0 \/ x \in notStopped'
    <3>1. x \in Devices \X Channels
      BY <1>3, <1>5 DEF Types
    <3>2. CASE x \in {d} \X C
      BY <1>4, <1>6, <3>1, <3>2
    <3>3. CASE x \notin {d} \X C
      BY <1>2, <1>3, <1>4, <1>5, <3>1, <3>3 DEF ChannelServed, RunningIsDrained
    <3>4. QED
      BY <3>2, <3>3
  <2>3. QED
    BY <2>1, <2>2 DEF RunningIsDrained
<1>9. QED
  BY <1>2, <1>3, <1>5, <1>7, <1>8 DEF ChannelServed, Types

(* Stopping a task stops the channels that it used last.                     *)
LEMMA StopKeepsServed ==
  ASSUME Types, RefCountsMatchTasks, ChannelServed, NEW d \in Devices, NEW k \in Kinds,
         Runs(d, k), tasks' = tasks \ {<<d, k>>}, StopTasks(d, ChannelsOf[k]), UNCHANGED pool
  PROVE  /\ ChannelServed'
         /\ (readers \union running \union notStarted \union notStopped \union unread)'
              \subseteq Devices \X Channels
<1> DEFINE C    == ChannelsOf[k]
           last == LastUsed(d, C)
<1>1. C \subseteq Channels
  BY DevTaskAssumption
<1>2. PICK ok \in SUBSET last :
         /\ running' = running \ ok
         /\ readers' = readers \ ok
         /\ unread' = unread \ ok
         /\ notStopped' = (notStopped \ ok) \union (last \ ok)
  BY DEF StopTasks
<1>3. notStarted' = notStarted \ last
  BY DEF StopTasks
<1>4. /\ \A x \in {d} \X C : ref[x] > 0 /\ ref'[x] = ref[x] - 1
      /\ \A x \in Devices \X Channels : x \notin {d} \X C => ref'[x] = ref[x]
  BY StopKeepsCounts
<1>5. /\ last \subseteq {d} \X C /\ \A x \in {d} \X C : x \in last <=> ref[x] = 1
      /\ last \subseteq Devices \X Channels
  BY <1>1, UsedChannels DEF LastUsed
<1>6. \A x \in Devices \X Channels : ref[x] \in Nat
  BY DEF Types
<1>7. ChannelRunsWhileNeeded'
  <2> SUFFICES ASSUME NEW x \in Devices \X Channels
               PROVE /\ ref'[x] > 0 => x \in running' \union notStarted'
                     /\ ref'[x] = 0 => x \notin running' \/ x \in notStopped'
    BY DEF ChannelRunsWhileNeeded
  <2>1. /\ ref[x] > 0 => x \in running \union notStarted
        /\ ref[x] = 0 => x \notin running \/ x \in notStopped
    BY DEF ChannelServed, ChannelRunsWhileNeeded
  <2>2. CASE x \in {d} \X C
    BY <1>2, <1>3, <1>4, <1>5, <1>6, <2>1, <2>2
  <2>3. CASE x \notin {d} \X C
    BY <1>2, <1>3, <1>4, <1>5, <2>1, <2>3
  <2>4. QED
    BY <2>2, <2>3
<1>8. RunningIsDrained'
  <2>1. pool' => running' \subseteq readers' \union unread'
    BY <1>2 DEF ChannelServed, RunningIsDrained
  <2>2. ASSUME NEW x \in readers' PROVE ref'[x] > 0 \/ x \in notStopped'
    <3>1. x \in Devices \X Channels /\ (ref[x] > 0 \/ x \in notStopped)
      BY <1>2 DEF Types, ChannelServed, RunningIsDrained
    <3>2. CASE x \in {d} \X C
      BY <1>2, <1>4, <1>5, <1>6, <3>1, <3>2
    <3>3. CASE x \notin {d} \X C
      BY <1>2, <1>4, <1>5, <3>1, <3>3
    <3>4. QED
      BY <3>2, <3>3
  <2>3. QED
    BY <2>1, <2>2 DEF RunningIsDrained
<1>9. QED
  BY <1>2, <1>3, <1>5, <1>7, <1>8 DEF ChannelServed, Types

-----------------------------------------------------------------------------
(* Every step keeps the invariant.                                           *)

(* A step that touches neither side of an agreement keeps it.                *)
LEMMA Unchanged ==
  /\ RefCountsMatchTasks /\ UNCHANGED <<tasks, ref>> => RefCountsMatchTasks'
  /\ ChannelServed /\ UNCHANGED <<ref, pool, chanVars>> => ChannelServed'
<1>1. RefCountsMatchTasks /\ UNCHANGED <<tasks, ref>> => RefCountsMatchTasks'
  BY DEF RefCountsMatchTasks
<1>2. ChannelServed /\ UNCHANGED <<ref, pool, chanVars>> => ChannelServed'
  BY DEF ChannelServed, ChannelRunsWhileNeeded, RunningIsDrained, chanVars
<1>3. QED
  BY <1>1, <1>2

(* A call counts against the bound.                                          *)
LEMMA CallBound ==
  ASSUME Types, NEW t \in Threads, Call(t)
  PROVE  calls' \in 0..MaxCalls
  BY DevTaskAssumption DEF Types, Call

(* Enabling, disabling and setting a device, up to the loop over devices.    *)
LEMMA RegisterStep ==
  ASSUME IndInv, NEW t \in Threads,
         \/ \E k \in Kinds : RegisterSwitch(t, k) \/ UnRegister(t, k)
         \/ RegisterAppend(t) \/ RegisterCopy(t)
         \/ \E d \in Devices : SetDeviceInsert(t, d)
         \/ SetDeviceCheck(t)
  PROVE  IndInv'
<1> USE DEF IndInv
<1>1. ASSUME NEW k \in Kinds, RegisterSwitch(t, k) PROVE IndInv'
  <2>1. Types'
    BY <1>1, CallBound DEF RegisterSwitch, Begin, Types, taskVars, cannVars, subVars, chanVars
  <2>2. Frames'
    BY <1>1 DEF RegisterSwitch, Begin, Call, Frames
  <2>3. UNCHANGED <<tasks, ref, pool, chanVars>>
    BY <1>1 DEF RegisterSwitch, taskVars, subVars
  <2>4. QED
    BY <2>1, <2>2, <2>3, Unchanged
<1>2. ASSUME NEW k \in Kinds, UnRegister(t, k) PROVE IndInv'
  <2>1. Types'
    BY <1>2, CallBound DEF UnRegister, Types, taskVars, cannVars, subVars, chanVars, histVars
  <2>2. Frames'
    BY <1>2 DEF UnRegister, Frames, callVars
  <2>3. UNCHANGED <<tasks, ref, pool, chanVars>>
    BY <1>2 DEF UnRegister, taskVars, subVars
  <2>4. QED
    BY <2>1, <2>2, <2>3, Unchanged
<1>3. CASE RegisterAppend(t)
  <2>1. Types'
    BY <1>3 DEF RegisterAppend, Types, Frames, taskVars, cannVars, subVars, chanVars, histVars
  <2>2. Frames'
    BY <1>3 DEF RegisterAppend, Frames
  <2>3. UNCHANGED <<tasks, ref, pool, chanVars>>
    BY <1>3 DEF RegisterAppend, taskVars, subVars
  <2>4. QED
    BY <2>1, <2>2, <2>3, Unchanged
<1>4. CASE RegisterCopy(t)
  <2>1. Types'
    BY <1>4 DEF RegisterCopy, Types, amVars, taskVars, cannVars, subVars, chanVars, histVars
  <2>2. Frames'
    <3>1. PICK s \in SetToSeqs(devices) : DevLoop(t, s)
      BY <1>4 DEF RegisterCopy
    <3>2. s \in Seq(Devices)
      BY EnumerationIsSeq DEF Types
    <3>3. QED
      BY <1>4, <3>1, <3>2, DevLoopFrames DEF RegisterCopy
  <2>3. UNCHANGED <<tasks, ref, pool, chanVars>>
    BY <1>4 DEF RegisterCopy, taskVars, subVars
  <2>4. QED
    BY <2>1, <2>2, <2>3, Unchanged
<1>5. ASSUME NEW d \in Devices, SetDeviceInsert(t, d) PROVE IndInv'
  <2>1. Types'
    <3>1. IsFiniteSet(devices')
      BY <1>5, FS_AddElement DEF SetDeviceInsert, Types
    <3>2. QED
      BY <1>5, <3>1, CallBound DEF SetDeviceInsert, Begin, Types, taskVars, cannVars, subVars, chanVars
  <2>2. Frames'
    <3>1. <<d>> \in Seq(Devices) /\ <<d>> # <<>>
      OBVIOUS
    <3>2. QED
      BY <1>5, <3>1 DEF SetDeviceInsert, Begin, Call, Frames
  <2>3. UNCHANGED <<tasks, ref, pool, chanVars>>
    BY <1>5 DEF SetDeviceInsert, taskVars, subVars
  <2>4. QED
    BY <2>1, <2>2, <2>3, Unchanged
<1>6. CASE SetDeviceCheck(t)
  <2>1. Types'
    BY <1>6 DEF SetDeviceCheck, Types, amVars, taskVars, cannVars, subVars, chanVars, histVars
  <2>2. Frames'
    <3>1. (IF switch = {} THEN <<>> ELSE todo[t]) \in Seq(Devices)
      BY DEF Frames
    <3>2. QED
      BY <1>6, <3>1, DevLoopFrames DEF SetDeviceCheck
  <2>3. UNCHANGED <<tasks, ref, pool, chanVars>>
    BY <1>6 DEF SetDeviceCheck, taskVars, subVars
  <2>4. QED
    BY <2>1, <2>2, <2>3, Unchanged
<1>7. QED
  BY <1>1, <1>2, <1>3, <1>4, <1>5, <1>6

(* StartDevProfTask up to the loop over the kinds.                           *)
LEMMA StartStep ==
  ASSUME IndInv, NEW t \in Threads,
         StartCann(t) \/ StartUnreachable(t) \/ StartCannFails(t) \/ LockTasks(t)
  PROVE  IndInv'
<1> USE DEF IndInv
<1>1. CASE StartCann(t)
  <2>1. Device(t) \in Devices
    BY <1>1, InHand DEF StartCann
  <2>2. Configured(t) \in BOOLEAN
    BY DEF Configured, Types
  <2>3. Types'
    BY <1>1, <2>1, <2>2 DEF StartCann, Types, amVars, taskVars, subVars, chanVars, histVars
  <2>4. Frames'
    BY <1>1 DEF StartCann, Frames
  <2>5. UNCHANGED <<tasks, ref, pool, chanVars>>
    BY <1>1 DEF StartCann, taskVars, subVars
  <2>6. QED
    BY <2>3, <2>4, <2>5, Unchanged
<1>2. ASSUME pc[t] = "start", GiveUp(t), profSwitch' \in BOOLEAN PROVE IndInv'
  <2>1. Device(t) \in Devices /\ NextDevices(t) \in Seq(Devices)
    BY <1>2, InHand
  <2>2. KindsOf(t) \subseteq Kinds
    BY DEF KindsOf, EverEnabled, Types, Frames
  <2>3. Types'
    BY <1>2, <2>1, <2>2 DEF GiveUp, Types, amVars, taskVars, subVars, chanVars
  <2>4. Frames'
    BY <1>2, <2>1, DevLoopFrames DEF GiveUp
  <2>5. UNCHANGED <<tasks, ref, pool, chanVars>>
    BY <1>2 DEF GiveUp, taskVars, subVars
  <2>6. QED
    BY <2>3, <2>4, <2>5, Unchanged
<1>3. CASE StartUnreachable(t)
  BY <1>2, <1>3 DEF StartUnreachable, Types
<1>4. CASE StartCannFails(t)
  BY <1>2, <1>4 DEF StartCannFails
<1>5. CASE LockTasks(t)
  <2>1. Types'
    BY <1>5 DEF LockTasks, Types, amVars, cannVars, subVars, chanVars, histVars
  <2>2. Frames'
    BY <1>5, DevTaskAssumption DEF LockTasks, Frames
  <2>3. UNCHANGED <<tasks, ref, pool, chanVars>>
    BY <1>5 DEF LockTasks, subVars
  <2>4. QED
    BY <2>1, <2>2, <2>3, Unchanged
<1>6. QED
  BY <1>1, <1>3, <1>4, <1>5

(* The lock of the tasks after a kind.                                       *)
LEMMA NextKindLock ==
  ASSUME Types, NEW t \in Threads, NextKind(t)
  PROVE  taskMtx' \in Threads \union {NoThread}
  BY DEF NextKind, Types

(* A kind of the loop.                                                       *)
LEMMA KindStep ==
  ASSUME IndInv, NEW t \in Threads, StartKind(t) \/ SkipKind(t) \/ StopKind(t)
  PROVE  IndInv'
<1> USE DEF IndInv
<1> DEFINE k == Min(left[t])
           d == Device(t)
<1>1. pc[t] = "kinds" /\ NextKind(t)
  BY DEF StartKind, SkipKind, StopKind
<1>2. k \in Kinds /\ d \in Devices
  BY <1>1, InHand
<1>3. Frames' /\ taskMtx' \in Threads \union {NoThread}
  BY <1>1, NextKindFrames, NextKindLock
<1>4. CASE StartKind(t)
  <2>1. /\ ~Runs(d, k) /\ tasks' = tasks \union {<<d, k>>}
        /\ StartTasks(d, ChannelsOf[k]) /\ UNCHANGED pool
    BY <1>4 DEF StartKind, subVars
  <2>2. ref' \in [Devices \X Channels -> Nat] /\ RefCountsMatchTasks'
    BY <1>2, <2>1, StartKeepsCounts
  <2>3. /\ ChannelServed'
        /\ (readers \union running \union notStarted \union notStopped \union unread)'
             \subseteq Devices \X Channels
    BY <1>2, <2>1, StartKeepsServed
  <2>4. Types'
    BY <1>2, <1>3, <1>4, <2>1, <2>2, <2>3 DEF StartKind, Types, amVars, cannVars, subVars
  <2>5. QED
    BY <1>3, <2>2, <2>3, <2>4
<1>5. CASE SkipKind(t)
  <2>1. Types'
    BY <1>3, <1>5 DEF SkipKind, Types, amVars, cannVars, subVars, chanVars, histVars
  <2>2. UNCHANGED <<tasks, ref, pool, chanVars>>
    BY <1>5 DEF SkipKind, subVars
  <2>3. QED
    BY <1>3, <2>1, <2>2, Unchanged
<1>6. CASE StopKind(t)
  <2>1. /\ Runs(d, k) /\ tasks' = tasks \ {<<d, k>>}
        /\ StopTasks(d, ChannelsOf[k]) /\ UNCHANGED pool
    BY <1>6 DEF StopKind, subVars
  <2>2. ref' \in [Devices \X Channels -> Nat] /\ RefCountsMatchTasks'
    BY <1>2, <2>1, StopKeepsCounts
  <2>3. /\ ChannelServed'
        /\ (readers \union running \union notStarted \union notStopped \union unread)'
             \subseteq Devices \X Channels
    BY <1>2, <2>1, StopKeepsServed
  <2>4. Types'
    BY <1>2, <1>3, <1>6, <2>1, <2>2, <2>3 DEF StopKind, Types, amVars, cannVars, subVars
  <2>5. QED
    BY <1>3, <2>2, <2>3, <2>4
<1>7. QED
  BY <1>4, <1>5, <1>6

(* ResetAllDevice around its loop over the kinds.                            *)
LEMMA ResetStep ==
  ASSUME IndInv, NEW t \in Threads,
         ResetBegin(t) \/ StopCann(t) \/ StopGivesUp(t) \/ ResetEnd(t)
  PROVE  IndInv'
<1> USE DEF IndInv
<1>1. CASE ResetBegin(t)
  <2>1. Types'
    BY <1>1, CallBound DEF ResetBegin, Types, taskVars, cannVars, subVars, chanVars
  <2>2. Frames'
    <3>1. PICK s \in SetToSeqs(devices) :
             /\ todo' = [todo EXCEPT ![t] = s]
             /\ pc' = [pc EXCEPT ![t] = IF s = <<>> THEN "reset" ELSE "stop"]
      BY <1>1 DEF ResetBegin
    <3>2. s \in Seq(Devices)
      BY EnumerationIsSeq DEF Types
    <3>3. QED
      BY <1>1, <3>1, <3>2 DEF ResetBegin, Frames
  <2>3. UNCHANGED <<tasks, ref, pool, chanVars>>
    BY <1>1 DEF ResetBegin, taskVars, subVars
  <2>4. QED
    BY <2>1, <2>2, <2>3, Unchanged
<1>2. CASE StopCann(t)
  <2>1. Types'
    BY <1>2 DEF StopCann, Types, amVars, taskVars, subVars, chanVars
  <2>2. Frames'
    BY <1>2 DEF StopCann, Frames
  <2>3. UNCHANGED <<tasks, ref, pool, chanVars>>
    BY <1>2 DEF StopCann, taskVars, subVars
  <2>4. QED
    BY <2>1, <2>2, <2>3, Unchanged
<1>3. CASE StopGivesUp(t)
  <2>1. Device(t) \in Devices /\ NextDevices(t) \in Seq(Devices)
    BY <1>3, InHand DEF StopGivesUp
  <2>2. Types'
    BY <1>3, <2>1 DEF StopGivesUp, Types, amVars, taskVars, cannVars, subVars, chanVars
  <2>3. Frames'
    BY <1>3, <2>1, DevLoopFrames DEF StopGivesUp
  <2>4. UNCHANGED <<tasks, ref, pool, chanVars>>
    BY <1>3 DEF StopGivesUp, taskVars, subVars
  <2>5. QED
    BY <2>2, <2>3, <2>4, Unchanged
<1>4. CASE ResetEnd(t)
  <2>1. Types'
    BY <1>4 DEF ResetEnd, Types, taskVars, cannVars, subVars, chanVars, histVars
  <2>2. Frames'
    BY <1>4 DEF ResetEnd, Frames
  <2>3. UNCHANGED <<tasks, ref, pool, chanVars>>
    BY <1>4 DEF ResetEnd, taskVars, subVars
  <2>4. QED
    BY <2>1, <2>2, <2>3, Unchanged
<1>5. QED
  BY <1>1, <1>2, <1>3, <1>4

(* The device-state callback and the pool.                                   *)
LEMMA SubscribeStep ==
  ASSUME IndInv, NEW t \in Threads,
         \/ UnsubscribeCallbacks(t) \/ UnsubscribePool(t)
         \/ Subscribe(t) \/ SubscribePool(t)
  PROVE  IndInv'
<1> USE DEF IndInv
<1>1. CASE UnsubscribeCallbacks(t)
  <2>1. Types'
    BY <1>1 DEF UnsubscribeCallbacks, Types, amVars, taskVars, cannVars, chanVars, histVars
  <2>2. Frames'
    BY <1>1 DEF UnsubscribeCallbacks, Frames
  <2>3. UNCHANGED <<tasks, ref, pool, chanVars>>
    BY <1>1 DEF UnsubscribeCallbacks, taskVars
  <2>4. QED
    BY <2>1, <2>2, <2>3, Unchanged
<1>2. CASE UnsubscribePool(t)
  <2>1. Types'
    BY <1>2 DEF UnsubscribePool, Types, amVars, taskVars, cannVars, histVars
  <2>2. Frames'
    BY <1>2 DEF UnsubscribePool, Frames
  <2>3. RefCountsMatchTasks'
    BY <1>2, Unchanged DEF UnsubscribePool, taskVars
  <2>4. ChannelServed'
    BY <1>2 DEF UnsubscribePool, taskVars, ChannelServed, ChannelRunsWhileNeeded, RunningIsDrained
  <2>5. QED
    BY <2>1, <2>2, <2>3, <2>4
<1>3. CASE Subscribe(t)
  <2>1. Types'
    BY <1>3, CallBound DEF Subscribe, Types, amVars, taskVars, cannVars, chanVars, histVars
  <2>2. Frames'
    BY <1>3 DEF Subscribe, Call, Frames
  <2>3. UNCHANGED <<tasks, ref, pool, chanVars>>
    BY <1>3 DEF Subscribe, taskVars
  <2>4. QED
    BY <2>1, <2>2, <2>3, Unchanged
<1>4. CASE SubscribePool(t)
  <2>1. Types'
    BY <1>4 DEF SubscribePool, Types, amVars, taskVars, cannVars, histVars
  <2>2. Frames'
    BY <1>4 DEF SubscribePool, Frames
  <2>3. RefCountsMatchTasks'
    BY <1>4, Unchanged DEF SubscribePool, taskVars
  <2>4. ChannelServed'
    BY <1>4 DEF SubscribePool, taskVars, ChannelServed, ChannelRunsWhileNeeded, RunningIsDrained
  <2>5. QED
    BY <2>1, <2>2, <2>3, <2>4
<1>5. QED
  BY <1>1, <1>2, <1>3, <1>4

(* A stuttering step changes nothing the invariant reads.                    *)
LEMMA StutterInv == ASSUME IndInv, UNCHANGED vars PROVE IndInv'
<1>1. UNCHANGED <<tasks, ref, pool, chanVars>>
  BY DEF vars, taskVars, subVars
<1>2. Types'
  BY DEF IndInv, Types, vars, amVars, taskVars, cannVars, subVars, chanVars, histVars
<1>3. Frames'
  BY DEF IndInv, Frames, vars, callVars
<1>4. QED
  BY <1>1, <1>2, <1>3, Unchanged DEF IndInv

(* Every step keeps the inductive invariant of the counts.                   *)
LEMMA NextInv == IndInv /\ [Next]_vars => IndInv'
<1> SUFFICES ASSUME IndInv, [Next]_vars PROVE IndInv'
  OBVIOUS
<1>1. ASSUME NEW t \in Threads,
             \/ \E k \in Kinds : RegisterSwitch(t, k) \/ UnRegister(t, k)
             \/ RegisterAppend(t) \/ RegisterCopy(t)
             \/ \E d \in Devices : SetDeviceInsert(t, d)
             \/ SetDeviceCheck(t)
      PROVE  IndInv'
  BY <1>1, RegisterStep
<1>2. ASSUME NEW t \in Threads,
             \/ StartCann(t) \/ StartUnreachable(t) \/ StartCannFails(t)
             \/ LockTasks(t) \/ StartKind(t) \/ SkipKind(t)
             \/ ResetBegin(t) \/ StopCann(t) \/ StopGivesUp(t) \/ StopKind(t) \/ ResetEnd(t)
             \/ UnsubscribeCallbacks(t) \/ UnsubscribePool(t)
             \/ Subscribe(t) \/ SubscribePool(t)
      PROVE  IndInv'
  BY <1>2, StartStep, KindStep, ResetStep, SubscribeStep
<1>3. CASE UNCHANGED vars
  BY <1>3, StutterInv
<1>4. QED
  BY <1>1, <1>2, <1>3 DEF Next, Step, AllDone

-----------------------------------------------------------------------------
(* The state of the device tasks satisfies the inductive invariant, whatever *)
(* the threads do and the driver and CANN refuse.                            *)
THEOREM Inductive == Spec => []IndInv
  BY InitInv, NextInv, PTL DEF Spec

(* Every variable keeps its type; in particular no channel has more users    *)
(* than there are kinds.                                                     *)
THEOREM TypeCorrect == Spec => []TypeOK
<1>1. IndInv => TypeOK
  <2> SUFFICES ASSUME IndInv PROVE TypeOK
    OBVIOUS
  <2>1. ASSUME NEW d \in Devices, NEW c \in Channels
        PROVE  ref[<<d, c>>] \in 0..Cardinality(Kinds)
    <3>1. ref[<<d, c>>] = Cardinality(Users(d, c))
      BY DEF IndInv, RefCountsMatchTasks, Users
    <3>2. Cardinality(Kinds) \in Nat
      BY DevTaskAssumption, FS_CardinalityType
    <3>3. QED
      BY <3>1, <3>2, UsersAreFinite
  <2>2. ref \in [Devices \X Channels -> 0..Cardinality(Kinds)]
    BY <2>1 DEF IndInv, Types
  <2>3. \A t \in Threads : /\ want[t] \subseteq Kinds /\ left[t] \subseteq Kinds
                          /\ Range(todo[t]) \subseteq Devices
    BY RangeOfSeq DEF IndInv, Frames
  <2>4. QED
    BY <2>2, <2>3 DEF IndInv, Types, Frames, TypeOK
<1>2. QED
  BY <1>1, Inductive, PTL

(* A channel's count is the number of the kinds whose task uses it, however  *)
(* enabling, setting devices and unsubscribing interleave.                   *)
THEOREM CountsMatch == Spec => []RefCountsMatchTasks
<1>1. IndInv => RefCountsMatchTasks
  BY DEF IndInv
<1>2. QED
  BY <1>1, Inductive, PTL

(* The driver's job of a channel runs exactly while a task needs it, and its *)
(* data is read, except where the driver refused.                            *)
THEOREM ChannelsAreServed == Spec => []ChannelServed
<1>1. IndInv => ChannelServed
  BY DEF IndInv
<1>2. QED
  BY <1>1, Inductive, PTL

-----------------------------------------------------------------------------
(* Calls that meet: an enabled kind is started on every device that is set, *)
(* whichever of Register and SetDevice comes first, and ResetAllDevice      *)
(* stops what was started.                                                  *)

(* The devices of a loop.                                                    *)
LEMMA TailRange ==
  ASSUME NEW S, NEW s \in Seq(S), s # <<>>
  PROVE  /\ Range(Tail(s)) \subseteq Range(s) /\ Head(s) \in Range(s)
         /\ \A x \in Range(s) : x = Head(s) \/ x \in Range(Tail(s))
<1>1. /\ Len(s) \in Nat /\ Len(s) # 0 /\ DOMAIN s = 1..Len(s)
      /\ Tail(s) \in Seq(S) /\ Len(Tail(s)) = Len(s) - 1
      /\ \A i \in 1..Len(Tail(s)) : Tail(s)[i] = s[i + 1]
  BY HeadTailProperties, LenProperties, EmptySeq
<1>2. DOMAIN Tail(s) = 1..(Len(s) - 1) /\ Head(s) = s[1]
  BY <1>1, LenProperties
<1>3. ASSUME NEW i \in 1..Len(s), i # 1 PROVE s[i] \in Range(Tail(s))
  <2>1. i - 1 \in 1..Len(Tail(s)) /\ Tail(s)[i - 1] = s[i]
    BY <1>1, <1>3
  <2>2. QED
    BY <1>1, <1>2, <2>1 DEF Range
<1>4. ASSUME NEW i \in 1..Len(Tail(s)) PROVE Tail(s)[i] \in Range(s)
  BY <1>1 DEF Range
<1>5. Range(Tail(s)) \subseteq Range(s)
  BY <1>1, <1>2, <1>4 DEF Range
<1>6. Head(s) \in Range(s)
  BY <1>1, <1>2 DEF Range
<1>7. \A x \in Range(s) : x = Head(s) \/ x \in Range(Tail(s))
  BY <1>1, <1>2, <1>3 DEF Range
<1>8. QED
  BY <1>5, <1>6, <1>7

(* A sequence that enumerates a set has that set as its range.               *)
LEMMA EnumerationRange ==
  ASSUME NEW S, IsFiniteSet(S), NEW s \in SetToSeqs(S)
  PROVE  Range(s) = S
<1> DEFINE D == 1..Cardinality(S)
<1>1. /\ Cardinality(S) \in Nat /\ s \in [D -> S]
      /\ \A i, j \in D : i # j => s[i] # s[j]
  BY FS_CardinalityType DEF SetToSeqs
<1>2. Range(s) \subseteq S
  BY <1>1 DEF Range
<1>3. s \in Bijection(D, Range(s))
  BY <1>1 DEF Bijection, Injection, Surjection, IsInjective, Range
<1>4. IsFiniteSet(D) /\ Cardinality(D) = Cardinality(S)
  BY <1>1, FS_Interval
<1>5. Cardinality(Range(s)) = Cardinality(S)
  BY <1>3, <1>4, FS_Bijection DEF ExistsBijection
<1>6. QED
  BY <1>2, <1>5, FS_Subset

-----------------------------------------------------------------------------
(* The inductive invariant.                                                  *)

(* What a thread's place says of its call, its loop, and the lock.           *)
PlaceOf(t) ==
  /\ pc[t] \in {"append", "copy"} => op[t] = "Register"
  /\ pc[t] = "check" => op[t] = "SetDevice"
  /\ pc[t] = "start" => op[t] \in {"Register", "SetDevice"}
  /\ pc[t] \in {"stop", "reset"} => op[t] = "Reset"
  /\ pc[t] \in {"tasks", "kinds"} => op[t] # "none" /\ Device(t) \in Online
  /\ pc[t] \in {"idle", "uninit", "poolgone", "pool"} => op[t] = "none"
  /\ pc[t] = "reset" => todo[t] = <<>>
  /\ op[t] = "Reset" => devMtx = t
  /\ op[t] = "Register" /\ pc[t] # "append" => want[t] \subseteq append
  /\ Range(todo[t]) \subseteq devices

Places == \A t \in Threads : PlaceOf(t)

(* No start overlaps a reset that is alone.                                  *)
Quiet == alone => \A t \in Threads : op[t] \notin {"Register", "SetDevice"}

(* A kind that was ever enabled is, or is about to be, in append.            *)
IsKnown(k) == k \in append \/ \E t \in Threads : pc[t] = "append" /\ k \in want[t]

(* Tasks and CANN's START are of devices that are set and can be reached,    *)
(* and of known kinds.                                                       *)
Origins ==
  /\ tasks \subseteq (devices \intersect Online) \X Kinds
  /\ \A x \in tasks : IsKnown(x[2])
  /\ \A k \in switch : IsKnown(k)
  /\ cann \subseteq devices \intersect Online
  /\ ~profSwitch => cann = {}

(* Thread t has still to deal with kind k on device d.                       *)
Pending(t, d, k) ==
  \/ pc[t] \in {"append", "copy"} /\ k \in want[t]
  \/ /\ (op[t] = "Register" /\ k \in want[t]) \/ op[t] = "SetDevice"
     /\ pc[t] \in {"check", "start", "tasks", "kinds"}
     /\ d \in Range(todo[t])
     /\ pc[t] = "kinds" /\ d = Device(t) => k \in left[t]

Settled == tasks \union excused

(* An enabled kind has been dealt with on each device, or somebody will.     *)
Covered ==
  \A d \in devices, k \in switch :
    <<d, k>> \in Settled \/ \E t \in Threads : Pending(t, d, k)

(* What is left of the work of the reset of t.                               *)
ProgressOf(t) ==
  /\ \A x \in tasks : \/ x[1] \in cannLeft
                      \/ /\ x[1] \in Range(todo[t])
                         /\ pc[t] = "kinds" /\ x[1] = Device(t) => x[2] \in left[t]
  /\ \A d \in cann : \/ d \in cannLeft
                     \/ /\ d \in Range(todo[t])
                        /\ pc[t] \in {"tasks", "kinds"} => d # Device(t)

Progress == \A t \in Threads : alone /\ op[t] = "Reset" => ProgressOf(t)

CallsInv == Places /\ Quiet /\ Origins /\ Covered /\ Progress

(* At the start no call is under way.                                        *)
LEMMA InitCalls == Init => CallsInv
<1> SUFFICES ASSUME Init PROVE CallsInv
  OBVIOUS
<1>1. Places
  BY DEF Init, Places, PlaceOf, Range
<1>2. QED
  BY <1>1 DEF Init, CallsInv, Quiet, Origins, Covered, Progress

-----------------------------------------------------------------------------
(* What a step of one thread leaves alone.                                   *)

(* The frames of the other threads stay as they are.                         *)
Local(t) ==
  \A u \in Threads \ {t} :
    /\ pc'[u] = pc[u] /\ op'[u] = op[u] /\ want'[u] = want[u]
    /\ todo'[u] = todo[u] /\ left'[u] = left[u]

(* A step of one thread that only adds devices and kinds leaves the other    *)
(* threads' places true.                                                     *)
LEMMA PlacesOfOthers ==
  ASSUME Places, NEW t \in Threads, Local(t), PlaceOf(t)',
         devices \subseteq devices', append \subseteq append',
         devMtx \in {NoThread, t} \/ UNCHANGED devMtx
  PROVE  Places'
<1>1. ASSUME NEW u \in Threads \ {t} PROVE PlaceOf(u)'
  <2>1. PlaceOf(u)
    BY DEF Places
  <2>2. op[u] = "Reset" => devMtx' = u
    BY <2>1, DevTaskAssumption DEF PlaceOf
  <2>3. /\ pc'[u] = pc[u] /\ op'[u] = op[u] /\ want'[u] = want[u]
        /\ todo'[u] = todo[u] /\ Device(u)' = Device(u)
    BY DEF Local, Device
  <2>4. QED
    BY <2>1, <2>2, <2>3 DEF PlaceOf
<1>2. QED
  BY <1>1 DEF Places

(* A kind that is known to the others stays so while kinds are only          *)
(* appended.                                                                 *)
LEMMA KnownStays ==
  ASSUME NEW t \in Threads, Local(t), append \subseteq append',
         pc[t] = "append" => want[t] \subseteq append', NEW k, IsKnown(k)
  PROVE  IsKnown(k)'
<1>1. CASE k \in append
  BY <1>1 DEF IsKnown
<1>2. ASSUME NEW u \in Threads, pc[u] = "append", k \in want[u] PROVE IsKnown(k)'
  <2>1. CASE u = t
    BY <1>2, <2>1 DEF IsKnown
  <2>2. CASE u # t
    BY <1>2, <2>2 DEF IsKnown, Local
  <2>3. QED
    BY <2>1, <2>2
<1>3. QED
  BY <1>1, <1>2 DEF IsKnown

(* A step of t keeps kinds and devices covered if it deals with what t had   *)
(* pending, and with what is new.                                            *)
LEMMA CoveredStep ==
  ASSUME Covered, NEW t \in Threads, Local(t), Settled \subseteq Settled',
         \A d \in devices', k \in switch' :
           (d \in devices /\ k \in switch => Pending(t, d, k)) =>
             <<d, k>> \in Settled' \/ Pending(t, d, k)'
  PROVE  Covered'
<1> SUFFICES ASSUME NEW d \in devices', NEW k \in switch'
             PROVE <<d, k>> \in Settled' \/ \E u \in Threads : Pending(u, d, k)'
  BY DEF Covered
<1>1. CASE d \notin devices \/ k \notin switch
  BY <1>1
<1>2. CASE d \in devices /\ k \in switch
  <2>1. CASE <<d, k>> \in Settled
    BY <2>1
  <2>2. ASSUME NEW u \in Threads \ {t}, Pending(u, d, k) PROVE Pending(u, d, k)'
    BY <2>2 DEF Pending, Local, Device
  <2>3. CASE Pending(t, d, k)
    BY <2>3
  <2>4. QED
    BY <1>2, <2>1, <2>2, <2>3 DEF Covered
<1>3. QED
  BY <1>1, <1>2

(* A thread in a call that starts or resets does not meet the reset of       *)
(* another that is alone.                                                    *)
LEMMA ProgressStep ==
  ASSUME CallsInv, NEW t \in Threads, Local(t), alone' => alone,
         op[t] # "none" \/ UNCHANGED <<tasks, cann, cannLeft>>,
         op[t] \in {"none", "Register", "SetDevice", "Reset"},
         alone' /\ op'[t] = "Reset" => ProgressOf(t)'
  PROVE  Progress'
<1> SUFFICES ASSUME NEW u \in Threads, alone', op'[u] = "Reset" PROVE ProgressOf(u)'
  BY DEF Progress
<1>1. CASE u = t
  BY <1>1
<1>2. CASE u # t
  <2>1. op[u] = "Reset" /\ devMtx = u /\ alone
    BY <1>2 DEF Local, CallsInv, Places, PlaceOf
  <2>2. op[t] = "none"
    BY <1>2, <2>1 DEF CallsInv, Places, PlaceOf, Quiet
  <2>3. ProgressOf(u)
    BY <2>1 DEF CallsInv, Progress
  <2>4. QED
    BY <1>2, <2>2, <2>3 DEF ProgressOf, Local, Device
<1>3. QED
  BY <1>1, <1>2

(* Where a loop over devices goes.                                           *)
LEMMA DevLoopPlaces ==
  ASSUME Frames, NEW t \in Threads, NEW s, DevLoop(t, s)
  PROVE  /\ todo'[t] = s
         /\ s = <<>> /\ op[t] # "Reset" => pc'[t] = "idle" /\ op'[t] = "none"
         /\ s = <<>> /\ op[t] = "Reset" => pc'[t] = "reset"
         /\ s # <<>> /\ op[t] = "Reset" => pc'[t] = "stop"
         /\ s # <<>> /\ op[t] # "Reset" => pc'[t] = "start"
         /\ s # <<>> \/ op[t] = "Reset" => op'[t] = op[t] /\ want'[t] = want[t]
         /\ \A u \in Threads \ {t} : /\ pc'[u] = pc[u] /\ op'[u] = op[u]
                                     /\ want'[u] = want[u] /\ todo'[u] = todo[u]
<1> DEFINE over == s = <<>> /\ op[t] # "Reset"
<1>1. /\ todo'[t] = s
      /\ op'[t] = IF over THEN "none" ELSE op[t]
      /\ want'[t] = IF over THEN {} ELSE want[t]
  BY DEF DevLoop, Frames
<1>2. pc'[t] = CASE over                        -> "idle"
                 [] s = <<>> /\ ~over           -> "reset"
                 [] s # <<>> /\ op[t] = "Reset" -> "stop"
                 [] s # <<>> /\ op[t] # "Reset" -> "start"
  BY DEF DevLoop, Frames
<1>3. \A u \in Threads \ {t} : /\ pc'[u] = pc[u] /\ op'[u] = op[u]
                               /\ want'[u] = want[u] /\ todo'[u] = todo[u]
  BY DEF DevLoop, Frames
<1>4. CASE over
  BY <1>1, <1>2, <1>3, <1>4
<1>5. CASE s = <<>> /\ op[t] = "Reset"
  BY <1>1, <1>2, <1>3, <1>5
<1>6. CASE s # <<>> /\ op[t] = "Reset"
  BY <1>1, <1>2, <1>3, <1>6
<1>7. CASE s # <<>> /\ op[t] # "Reset"
  BY <1>1, <1>2, <1>3, <1>7
<1>8. QED
  BY <1>4, <1>5, <1>6, <1>7

(* A thread in a loop has its place after it, too.                           *)
LEMMA DevLoopPlace ==
  ASSUME Frames, NEW t \in Threads, PlaceOf(t), op[t] # "none", pc[t] # "append",
         NEW s, DevLoop(t, s), Range(s) \subseteq devices,
         UNCHANGED <<append, devices, devMtx>>
  PROVE  PlaceOf(t)'
<1>1. CASE s = <<>> /\ op[t] # "Reset"
  <2>1. pc'[t] = "idle" /\ op'[t] = "none" /\ todo'[t] = s
    BY <1>1, DevLoopPlaces
  <2>2. QED
    BY <2>1 DEF PlaceOf
<1>2. CASE op[t] = "Reset"
  <2>1. /\ pc'[t] \in {"stop", "reset"} /\ (pc'[t] = "reset" => s = <<>>)
        /\ op'[t] = "Reset" /\ todo'[t] = s
    BY <1>2, DevLoopPlaces
  <2>2. QED
    BY <1>2, <2>1 DEF PlaceOf
<1>3. CASE s # <<>> /\ op[t] # "Reset"
  <2>1. pc'[t] = "start" /\ op'[t] = op[t] /\ want'[t] = want[t] /\ todo'[t] = s
    BY <1>3, DevLoopPlaces
  <2>2. op[t] \in {"Register", "SetDevice"}
    BY <1>3 DEF Frames
  <2>3. QED
    BY <2>1, <2>2 DEF PlaceOf
<1>4. QED
  BY <1>1, <1>2, <1>3

(* What is in the rest of the loop stays pending.                            *)
LEMMA DevLoopPending ==
  ASSUME Frames, NEW t \in Threads, op[t] \in {"Register", "SetDevice"},
         NEW s, DevLoop(t, s), NEW d \in Range(s), NEW k,
         op[t] = "Register" => k \in want[t]
  PROVE  Pending(t, d, k)'
<1>1. s # <<>>
  BY DEF Range
<1>2. pc'[t] = "start" /\ op'[t] = op[t] /\ want'[t] = want[t] /\ todo'[t] = s
  BY <1>1, DevLoopPlaces
<1>3. QED
  BY <1>2 DEF Pending

(* A kind is done: what that means for the thread's place, for what it still *)
(* has to start, and for what it still has to stop.                          *)
LEMMA NextKindPlace ==
  ASSUME Frames, NEW t \in Threads, PlaceOf(t), pc[t] = "kinds", NextKind(t),
         UNCHANGED <<append, devices, devMtx>>
  PROVE  PlaceOf(t)' /\ Local(t)
<1>1. /\ todo[t] \in Seq(Devices) /\ todo[t] # <<>> /\ op[t] # "none"
      /\ Range(NextDevices(t)) \subseteq devices
  <2>1. todo[t] \in Seq(Devices) /\ todo[t] # <<>> /\ op[t] # "none"
    BY DEF Frames, PlaceOf
  <2>2. QED
    BY <2>1, TailRange DEF NextDevices, PlaceOf
<1>2. \A u \in Threads \ {t} : left'[u] = left[u]
  BY DEF NextKind, Frames
<1>3. CASE left'[t] = {}
  <2>1. DevLoop(t, NextDevices(t))
    BY <1>3 DEF NextKind
  <2>2. PlaceOf(t)'
    BY <1>1, <2>1, DevLoopPlace
  <2>3. Local(t)
    BY <1>2, <2>1, DevLoopPlaces DEF Local
  <2>4. QED
    BY <2>2, <2>3
<1>4. CASE left'[t] # {}
  <2>1. UNCHANGED <<pc, op, want, todo>>
    BY <1>4 DEF NextKind
  <2>2. PlaceOf(t)'
    BY <2>1 DEF PlaceOf, Device
  <2>3. Local(t)
    BY <1>2, <2>1 DEF Local
  <2>4. QED
    BY <2>2, <2>3
<1>5. QED
  BY <1>3, <1>4

(* A thread that takes its next kind still has the other pairs before it.    *)
LEMMA NextKindPending ==
  ASSUME Frames, NEW t \in Threads, op[t] \in {"Register", "SetDevice"},
         pc[t] = "kinds", NextKind(t), NEW d, NEW k, Pending(t, d, k),
         ~(d = Device(t) /\ k = Min(left[t]))
  PROVE  Pending(t, d, k)'
<1>1. /\ left'[t] = left[t] \ {Min(left[t])}
      /\ d \in Range(todo[t]) /\ (d = Device(t) => k \in left[t])
      /\ op[t] = "Register" => k \in want[t]
  BY DEF NextKind, Frames, Pending
<1>2. CASE left'[t] = {}
  <2>1. DevLoop(t, NextDevices(t)) /\ d # Device(t)
    BY <1>1, <1>2 DEF NextKind
  <2>2. todo[t] \in Seq(Devices) /\ todo[t] # <<>>
    BY DEF Frames
  <2>3. d \in Range(NextDevices(t))
    BY <1>1, <2>1, <2>2, TailRange DEF NextDevices, Device
  <2>4. QED
    BY <1>1, <2>1, <2>3, DevLoopPending
<1>3. CASE left'[t] # {}
  <2>1. UNCHANGED <<pc, op, want, todo>>
    BY <1>3 DEF NextKind
  <2>2. QED
    BY <1>1, <2>1 DEF Pending, Device
<1>4. QED
  BY <1>2, <1>3

(* A reset that stops its next kind has stopped all it has passed.           *)
LEMMA NextKindProgress ==
  ASSUME Frames, NEW t \in Threads, op[t] = "Reset", pc[t] = "kinds", NextKind(t),
         ProgressOf(t), tasks' \subseteq tasks, <<Device(t), Min(left[t])>> \notin tasks',
         UNCHANGED <<cann, cannLeft>>, tasks \subseteq Devices \X Kinds
  PROVE  ProgressOf(t)'
<1> DEFINE m == Min(left[t])
<1>1. left'[t] = left[t] \ {m} /\ todo[t] \in Seq(Devices) /\ todo[t] # <<>>
  BY DEF NextKind, Frames
<1>2. ASSUME NEW x \in tasks', x[1] \notin cannLeft
      PROVE  /\ x[1] \in Range(todo[t])
             /\ x[1] = Device(t) => x[2] \in left[t] /\ x[2] # m
  <2>1. x = <<x[1], x[2]>>
    OBVIOUS
  <2>2. QED
    BY <1>2, <2>1 DEF ProgressOf
<1>3. ASSUME NEW e \in cann, e \notin cannLeft
      PROVE  e \in Range(todo[t]) /\ e # Device(t)
  BY <1>3 DEF ProgressOf
<1>4. CASE left'[t] = {}
  <2>1. DevLoop(t, NextDevices(t))
    BY <1>4 DEF NextKind
  <2>2. todo'[t] = NextDevices(t) /\ pc'[t] \in {"stop", "reset"}
    BY <2>1, DevLoopPlaces
  <2>3. \A y \in Range(todo[t]) : y # Device(t) => y \in Range(todo'[t])
    BY <1>1, <2>2, TailRange DEF NextDevices, Device
  <2>4. \A x \in tasks' : x[1] \in cannLeft \/ x[1] \in Range(todo'[t])
    BY <1>1, <1>2, <1>4, <2>3
  <2>5. \A e \in cann : e \in cannLeft \/ e \in Range(todo'[t])
    BY <1>3, <2>3
  <2>6. QED
    BY <2>2, <2>4, <2>5 DEF ProgressOf
<1>5. CASE left'[t] # {}
  <2>1. UNCHANGED <<pc, op, want, todo>>
    BY <1>5 DEF NextKind
  <2>2. QED
    BY <1>1, <1>2, <1>3, <2>1 DEF ProgressOf, Device
<1>6. QED
  BY <1>4, <1>5

-----------------------------------------------------------------------------
(* Every step keeps the invariant.                                           *)

(* Disabling a kind, and the callback and the pool: the thread has no loop.  *)
LEMMA SubscriptionCalls ==
  ASSUME Frames, CallsInv, NEW t \in Threads,
         \/ \E k \in Kinds : UnRegister(t, k)
         \/ UnsubscribeCallbacks(t) \/ UnsubscribePool(t)
         \/ Subscribe(t) \/ SubscribePool(t)
  PROVE  CallsInv'
<1> DEFINE Rest == {"idle", "uninit", "poolgone", "pool"}
<1>1. /\ pc[t] \in Rest /\ pc'[t] \in Rest /\ \A u \in Threads \ {t} : pc'[u] = pc[u]
      /\ switch' \subseteq switch
      /\ UNCHANGED <<append, devices, devMtx, tasks, profSwitch, cann, op, want,
                     todo, left, excused, cannLeft, alone>>
  BY DEF Frames, Call, UnRegister, UnsubscribeCallbacks, UnsubscribePool, Subscribe,
         SubscribePool, amVars, taskVars, cannVars, callVars, histVars
<1>2. PlaceOf(t) /\ op[t] = "none"
  BY <1>1 DEF CallsInv, Places, PlaceOf
<1>3. Local(t)
  BY <1>1 DEF Local
<1>4. PlaceOf(t)'
  BY <1>1, <1>2 DEF PlaceOf
<1>5. Places'
  BY <1>1, <1>3, <1>4, PlacesOfOthers DEF CallsInv
<1>6. Quiet'
  BY <1>1 DEF CallsInv, Quiet
<1>7. Origins'
  <2>1. \A k : IsKnown(k) => IsKnown(k)'
    BY <1>1, <1>3, KnownStays
  <2>2. QED
    BY <1>1, <2>1 DEF CallsInv, Origins
<1>8. Covered'
  <2>1. \A d, k : ~Pending(t, d, k)
    BY <1>1 DEF Pending
  <2>2. QED
    BY <1>1, <1>3, <2>1, CoveredStep DEF CallsInv, Settled
<1>9. Progress'
  BY <1>1, <1>2, <1>3, ProgressStep
<1>10. QED
  BY <1>5, <1>6, <1>7, <1>8, <1>9 DEF CallsInv

(* A new kind: pending with the thread until the devices are copied, and     *)
(* then on each of them.                                                     *)
LEMMA RegisterCalls ==
  ASSUME Types, Frames, CallsInv, NEW t \in Threads,
         \/ \E k \in Kinds : RegisterSwitch(t, k)
         \/ RegisterAppend(t) \/ RegisterCopy(t)
  PROVE  CallsInv'
<1>0. PlaceOf(t)
  BY DEF CallsInv, Places
<1>1. ASSUME NEW k \in Kinds, RegisterSwitch(t, k) PROVE CallsInv'
  <2>1. /\ pc[t] = "idle" /\ pc'[t] = "append" /\ op'[t] = "Register" /\ want'[t] = {k}
        /\ switch' = switch \union {k} /\ alone' = FALSE
        /\ UNCHANGED <<append, devices, devMtx, tasks, profSwitch, cann, todo, left, excused>>
    BY <1>1 DEF RegisterSwitch, Begin, Call, Frames, taskVars, cannVars
  <2>2. Local(t)
    BY <1>1 DEF RegisterSwitch, Begin, Frames, Local
  <2>3. PlaceOf(t)'
    BY <1>0, <2>1 DEF PlaceOf
  <2>4. Places'
    BY <2>1, <2>2, <2>3, PlacesOfOthers DEF CallsInv
  <2>5. Origins'
    <3>1. \A j : IsKnown(j) => IsKnown(j)'
      BY <2>1, <2>2, KnownStays
    <3>2. IsKnown(k)'
      BY <2>1 DEF IsKnown
    <3>3. QED
      BY <2>1, <3>1, <3>2 DEF CallsInv, Origins
  <2>6. Covered'
    <3>1. /\ \A d : Pending(t, d, k)'
          /\ \A d, j : ~Pending(t, d, j)
      BY <2>1 DEF Pending
    <3>2. QED
      BY <2>1, <2>2, <3>1, CoveredStep DEF CallsInv, Settled
  <2>7. QED
    BY <2>1, <2>4, <2>5, <2>6 DEF CallsInv, Quiet, Progress
<1>2. CASE RegisterAppend(t)
  <2>1. /\ pc[t] = "append" /\ pc'[t] = "copy" /\ append' = append \union want[t]
        /\ UNCHANGED <<switch, devices, devMtx, tasks, profSwitch, cann, op, want,
                       todo, left, excused, alone>>
    BY <1>2 DEF RegisterAppend, Frames, taskVars, cannVars, histVars
  <2>2. Local(t)
    BY <1>2 DEF RegisterAppend, Frames, Local
  <2>3. PlaceOf(t)' /\ op[t] = "Register"
    BY <1>0, <2>1 DEF PlaceOf
  <2>4. Places'
    BY <2>1, <2>2, <2>3, PlacesOfOthers DEF CallsInv
  <2>5. Origins'
    <3>1. \A j : IsKnown(j) => IsKnown(j)'
      BY <2>1, <2>2, KnownStays
    <3>2. QED
      BY <2>1, <3>1 DEF CallsInv, Origins
  <2>6. Covered'
    <3>1. \A d, j : Pending(t, d, j) => Pending(t, d, j)'
      BY <2>1 DEF Pending
    <3>2. QED
      BY <2>1, <2>2, <3>1, CoveredStep DEF CallsInv, Settled
  <2>7. ~alone
    BY <2>3 DEF CallsInv, Quiet
  <2>8. QED
    BY <2>1, <2>4, <2>5, <2>6, <2>7 DEF CallsInv, Quiet, Progress
<1>3. CASE RegisterCopy(t)
  <2>1. PICK s \in SetToSeqs(devices) : DevLoop(t, s)
    BY <1>3 DEF RegisterCopy
  <2>2. Range(s) = devices
    BY EnumerationRange DEF Types
  <2>3. /\ pc[t] = "copy"
        /\ UNCHANGED <<switch, append, devices, devMtx, tasks, profSwitch, cann, left,
                       excused, alone>>
    BY <1>3 DEF RegisterCopy, amVars, taskVars, cannVars, histVars
  <2>4. op[t] = "Register"
    BY <1>0, <2>3 DEF PlaceOf
  <2>5. PlaceOf(t)'
    BY <1>0, <2>1, <2>2, <2>3, <2>4, DevLoopPlace
  <2>6. Local(t)
    BY <2>1, <2>3, DevLoopPlaces DEF Local
  <2>7. Places'
    BY <2>3, <2>5, <2>6, PlacesOfOthers DEF CallsInv
  <2>8. Origins'
    <3>1. \A j : IsKnown(j) => IsKnown(j)'
      BY <2>3, <2>6, KnownStays
    <3>2. QED
      BY <2>3, <3>1 DEF CallsInv, Origins
  <2>9. Covered'
    <3>1. ASSUME NEW d \in devices, NEW j, Pending(t, d, j) PROVE Pending(t, d, j)'
      <4>1. j \in want[t]
        BY <2>3, <3>1 DEF Pending
      <4>2. QED
        BY <2>1, <2>2, <2>4, <4>1, DevLoopPending
    <3>2. QED
      BY <2>3, <2>6, <3>1, CoveredStep DEF CallsInv, Settled
  <2>10. ~alone
    BY <2>4 DEF CallsInv, Quiet
  <2>11. QED
    BY <2>3, <2>7, <2>8, <2>9, <2>10 DEF CallsInv, Quiet, Progress
<1>4. QED
  BY <1>1, <1>2, <1>3

(* A new device: pending with the thread for each kind of the switch.        *)
LEMMA SetDeviceCalls ==
  ASSUME Types, Frames, CallsInv, NEW t \in Threads,
         (\E d \in Devices : SetDeviceInsert(t, d)) \/ SetDeviceCheck(t)
  PROVE  CallsInv'
<1>0. PlaceOf(t)
  BY DEF CallsInv, Places
<1>1. ASSUME NEW d \in Devices, SetDeviceInsert(t, d) PROVE CallsInv'
  <2>1. /\ pc[t] = "idle" /\ pc'[t] = "check" /\ op'[t] = "SetDevice" /\ todo'[t] = <<d>>
        /\ devices' = devices \union {d} /\ alone' = FALSE
        /\ UNCHANGED <<switch, append, devMtx, tasks, profSwitch, cann, want, left, excused>>
    BY <1>1 DEF SetDeviceInsert, Begin, Call, Frames, taskVars, cannVars
  <2>2. Local(t)
    BY <1>1 DEF SetDeviceInsert, Begin, Frames, Local
  <2>3. Range(<<d>>) = {d}
    BY DEF Range
  <2>4. PlaceOf(t)'
    BY <2>1, <2>3 DEF PlaceOf
  <2>5. Places'
    BY <2>1, <2>2, <2>4, PlacesOfOthers DEF CallsInv
  <2>6. Origins'
    <3>1. \A j : IsKnown(j) => IsKnown(j)'
      BY <2>1, <2>2, KnownStays
    <3>2. QED
      BY <2>1, <3>1 DEF CallsInv, Origins
  <2>7. Covered'
    <3>1. /\ \A j : Pending(t, d, j)'
          /\ \A e, j : ~Pending(t, e, j)
      BY <2>1, <2>3 DEF Pending
    <3>2. QED
      BY <2>1, <2>2, <3>1, CoveredStep DEF CallsInv, Settled
  <2>8. QED
    BY <2>1, <2>5, <2>6, <2>7 DEF CallsInv, Quiet, Progress
<1>2. CASE SetDeviceCheck(t)
  <2> DEFINE s == IF switch = {} THEN <<>> ELSE todo[t]
  <2>1. /\ pc[t] = "check" /\ DevLoop(t, s)
        /\ UNCHANGED <<switch, append, devices, devMtx, tasks, profSwitch, cann, left,
                       excused, alone>>
    BY <1>2 DEF SetDeviceCheck, amVars, taskVars, cannVars, histVars
  <2>2. op[t] = "SetDevice" /\ Range(todo[t]) \subseteq devices
    BY <1>0, <2>1 DEF PlaceOf
  <2>3. Range(s) \subseteq devices
    BY <2>2 DEF Range
  <2>4. PlaceOf(t)'
    BY <1>0, <2>1, <2>2, <2>3, DevLoopPlace
  <2>5. Local(t)
    BY <2>1, DevLoopPlaces DEF Local
  <2>6. Places'
    BY <2>1, <2>4, <2>5, PlacesOfOthers DEF CallsInv
  <2>7. Origins'
    <3>1. \A j : IsKnown(j) => IsKnown(j)'
      BY <2>1, <2>5, KnownStays
    <3>2. QED
      BY <2>1, <3>1 DEF CallsInv, Origins
  <2>8. Covered'
    <3>1. ASSUME NEW d \in devices, NEW j \in switch, Pending(t, d, j)
          PROVE  Pending(t, d, j)'
      <4>1. d \in Range(s)
        BY <2>1, <3>1 DEF Pending
      <4>2. QED
        BY <2>1, <2>2, <4>1, DevLoopPending
    <3>2. QED
      BY <2>1, <2>5, <3>1, CoveredStep DEF CallsInv, Settled
  <2>9. ~alone
    BY <2>2 DEF CallsInv, Quiet
  <2>10. QED
    BY <2>1, <2>6, <2>7, <2>8, <2>9 DEF CallsInv, Quiet, Progress
<1>3. QED
  BY <1>1, <1>2

(* The device in hand is one that is set, and so are those after it.         *)
LEMMA DeviceInHand ==
  ASSUME Frames, NEW t \in Threads, PlaceOf(t),
         pc[t] \in {"start", "tasks", "kinds", "stop"}
  PROVE  /\ Device(t) \in devices /\ Device(t) \in Range(todo[t])
         /\ Range(NextDevices(t)) \subseteq devices
         /\ \A d \in Range(todo[t]) : d = Device(t) \/ d \in Range(NextDevices(t))
<1>1. todo[t] \in Seq(Devices) /\ todo[t] # <<>>
  BY DEF Frames
<1>2. QED
  BY <1>1, TailRange DEF PlaceOf, Device, NextDevices

(* A start that goes on.                                                     *)
LEMMA StartCalls ==
  ASSUME Types, Frames, CallsInv, NEW t \in Threads,
         StartCann(t) \/ StartUnreachable(t) \/ StartCannFails(t)
  PROVE  CallsInv'
<1>1. /\ PlaceOf(t) /\ pc[t] = "start" /\ op[t] \in {"Register", "SetDevice"}
      /\ ~alone
  <2>1. PlaceOf(t) /\ pc[t] = "start"
    BY DEF CallsInv, Places, StartCann, StartUnreachable, StartCannFails
  <2>2. QED
    BY <2>1 DEF PlaceOf, CallsInv, Quiet
<1>2. Device(t) \in devices
  BY <1>1, DeviceInHand
<1>3. CASE StartCann(t)
  <2>1. /\ pc' = [pc EXCEPT ![t] = "tasks"] /\ Device(t) \in Online
        /\ profSwitch' = Configured(t)
        /\ cann' = IF Configured(t) THEN cann \union {Device(t)} ELSE cann
        /\ UNCHANGED <<switch, append, devices, devMtx, tasks, op, want, todo,
                       left, excused, alone>>
    BY <1>3 DEF StartCann, Reachable, amVars, taskVars, histVars
  <2>2. pc'[t] = "tasks" /\ Local(t)
    BY <2>1 DEF Local, Frames
  <2>3. PlaceOf(t)'
    BY <1>1, <2>1, <2>2 DEF PlaceOf, Device
  <2>4. Places'
    BY <2>1, <2>2, <2>3, PlacesOfOthers DEF CallsInv
  <2>5. Origins'
    <3>1. \A j : IsKnown(j) => IsKnown(j)'
      BY <1>1, <2>1, <2>2, KnownStays
    <3>2. ~Configured(t) => ~profSwitch
      BY DEF Configured
    <3>3. QED
      BY <1>2, <2>1, <3>1, <3>2 DEF CallsInv, Origins
  <2>6. Covered'
    <3>1. \A d, j : Pending(t, d, j) => Pending(t, d, j)'
      BY <1>1, <2>1, <2>2 DEF Pending
    <3>2. QED
      BY <2>1, <2>2, <3>1, CoveredStep DEF CallsInv, Settled
  <2>7. QED
    BY <1>1, <2>1, <2>4, <2>5, <2>6 DEF CallsInv, Quiet, Progress
<1>4. CASE StartUnreachable(t) \/ StartCannFails(t)
  <2>1. /\ GiveUp(t) /\ DevLoop(t, NextDevices(t))
        /\ excused' = excused \union ({Device(t)} \X KindsOf(t))
        /\ ~profSwitch' => ~profSwitch
        /\ UNCHANGED <<switch, append, devices, devMtx, tasks, cann, left, alone>>
    BY <1>4 DEF StartUnreachable, StartCannFails, GiveUp, amVars, taskVars
  <2>2. Local(t)
    BY <2>1, DevLoopPlaces DEF Local
  <2>3. PlaceOf(t)'
    BY <1>1, <2>1, DeviceInHand, DevLoopPlace
  <2>4. Places'
    BY <2>1, <2>2, <2>3, PlacesOfOthers DEF CallsInv
  <2>5. Origins'
    <3>1. \A j : IsKnown(j) => IsKnown(j)'
      BY <1>1, <2>1, <2>2, KnownStays
    <3>2. QED
      BY <2>1, <3>1 DEF CallsInv, Origins
  <2>6. Covered'
    <3>1. ASSUME NEW d \in devices, NEW j \in switch, Pending(t, d, j)
          PROVE  <<d, j>> \in Settled' \/ Pending(t, d, j)'
      <4>1. d \in Range(todo[t]) /\ (op[t] = "Register" => j \in want[t])
        BY <1>1, <3>1 DEF Pending
      <4>2. j \in KindsOf(t)
        BY <1>1, <4>1 DEF KindsOf
      <4>3. CASE d = Device(t)
        BY <2>1, <4>2, <4>3 DEF Settled
      <4>4. CASE d # Device(t)
        <5>1. d \in Range(NextDevices(t))
          BY <1>1, <4>1, <4>4, DeviceInHand
        <5>2. QED
          BY <1>1, <2>1, <4>1, <5>1, DevLoopPending
      <4>5. QED
        BY <4>3, <4>4
    <3>2. Settled \subseteq Settled'
      BY <2>1 DEF Settled
    <3>3. QED
      BY <2>1, <2>2, <3>1, <3>2, CoveredStep DEF CallsInv
  <2>7. QED
    BY <1>1, <2>1, <2>4, <2>5, <2>6 DEF CallsInv, Quiet, Progress
<1>5. QED
  BY <1>3, <1>4

(* The lock of the tasks is taken: every kind is left.                       *)
LEMMA LockCalls ==
  ASSUME Types, Frames, CallsInv, NEW t \in Threads, LockTasks(t)
  PROVE  CallsInv'
<1>1. /\ pc[t] = "tasks" /\ pc'[t] = "kinds" /\ left'[t] = Kinds /\ Local(t)
      /\ UNCHANGED <<switch, append, devices, devMtx, tasks, profSwitch, cann, op, want,
                     todo, excused, cannLeft, alone>>
  BY DEF LockTasks, Frames, Local, amVars, cannVars, histVars
<1>2. PlaceOf(t) /\ op[t] # "none" /\ op[t] \in {"none", "Register", "SetDevice", "Reset"}
  BY <1>1 DEF CallsInv, Places, PlaceOf, Frames
<1>3. PlaceOf(t)'
  BY <1>1, <1>2 DEF PlaceOf, Device
<1>4. Places'
  BY <1>1, <1>3, PlacesOfOthers DEF CallsInv
<1>5. Quiet'
  BY <1>1 DEF CallsInv, Quiet
<1>6. Origins'
  <2>1. \A j : IsKnown(j) => IsKnown(j)'
    BY <1>1, KnownStays
  <2>2. QED
    BY <1>1, <2>1 DEF CallsInv, Origins
<1>7. Covered'
  <2>1. \A d : \A j \in Kinds : Pending(t, d, j) => Pending(t, d, j)'
    BY <1>1 DEF Pending
  <2>2. switch \subseteq Kinds
    BY DEF Types
  <2>3. QED
    BY <1>1, <2>1, <2>2, CoveredStep DEF CallsInv, Settled
<1>8. Progress'
  <2>1. alone' /\ op'[t] = "Reset" => ProgressOf(t)'
    <3> SUFFICES ASSUME alone, op[t] = "Reset" PROVE ProgressOf(t)'
      BY <1>1
    <3>1. ProgressOf(t)
      BY DEF CallsInv, Progress
    <3>2. \A x \in tasks : x[2] \in Kinds
      BY DEF Types
    <3>3. QED
      BY <1>1, <3>1, <3>2 DEF ProgressOf, Device
  <2>2. QED
    BY <1>1, <1>2, <2>1, ProgressStep
<1>9. QED
  BY <1>4, <1>5, <1>6, <1>7, <1>8 DEF CallsInv

(* A kind of the loop: a start deals with it if it is wanted, and a reset    *)
(* if it runs, for it is then a known kind.                                  *)
LEMMA KindCalls ==
  ASSUME Types, Frames, CallsInv, NEW t \in Threads,
         StartKind(t) \/ SkipKind(t) \/ StopKind(t)
  PROVE  CallsInv'
<1> DEFINE k == Min(left[t])
           d == Device(t)
<1>1. /\ pc[t] = "kinds" /\ NextKind(t)
      /\ UNCHANGED <<switch, append, devices, devMtx, profSwitch, cann, cannLeft, alone>>
  BY DEF StartKind, SkipKind, StopKind, amVars, cannVars, histVars
<1>2. /\ PlaceOf(t) /\ d \in Online
      /\ op[t] \in {"Register", "SetDevice", "Reset"}
  BY <1>1 DEF CallsInv, Places, PlaceOf, Frames
<1>3. k \in Kinds /\ d \in devices
  BY <1>1, <1>2, InHand, DeviceInHand
<1>4. PlaceOf(t)' /\ Local(t)
  BY <1>1, <1>2, NextKindPlace
<1>5. Places'
  BY <1>1, <1>4, PlacesOfOthers DEF CallsInv
<1>6. \A j : IsKnown(j) => IsKnown(j)'
  BY <1>1, <1>4, KnownStays
<1>7. CASE op[t] \in {"Register", "SetDevice"}
  <2>1. /\ ~alone
        /\ tasks \subseteq tasks' /\ tasks' \subseteq tasks \union {<<d, k>>}
        /\ Settled \subseteq Settled'
        /\ k \in KindsOf(t) => <<d, k>> \in tasks'
        /\ k \notin KindsOf(t) => tasks' = tasks
    <3>1. ~StopKind(t) /\ ~alone
      BY <1>7 DEF StopKind, CallsInv, Quiet
    <3>2. CASE StartKind(t)
      BY <3>1, <3>2 DEF StartKind, Settled
    <3>3. CASE SkipKind(t)
      BY <1>7, <3>1, <3>3 DEF SkipKind, Runs, Settled, histVars
    <3>4. QED
      BY <3>1, <3>2, <3>3
  <2>2. ASSUME NEW e \in devices, NEW j \in switch, Pending(t, e, j)
        PROVE  <<e, j>> \in Settled' \/ Pending(t, e, j)'
    <3>1. CASE e = d /\ j = k
      <4>1. k \in KindsOf(t)
        BY <1>1, <1>7, <2>2, <3>1 DEF Pending, KindsOf
      <4>2. QED
        BY <2>1, <3>1, <4>1 DEF Settled
    <3>2. CASE ~(e = d /\ j = k)
      BY <1>1, <1>7, <2>2, <3>2, NextKindPending
    <3>3. QED
      BY <3>1, <3>2
  <2>3. Covered'
    BY <1>1, <1>4, <2>1, <2>2, CoveredStep DEF CallsInv
  <2>4. k \in KindsOf(t) => IsKnown(k)
    <3>1. CASE op[t] = "Register"
      BY <1>1, <1>2, <3>1 DEF KindsOf, IsKnown, PlaceOf
    <3>2. CASE op[t] = "SetDevice"
      BY <3>2 DEF KindsOf, CallsInv, Origins
    <3>3. QED
      BY <1>7, <3>1, <3>2
  <2>5. Origins'
    <3>1. tasks' \subseteq (devices \intersect Online) \X Kinds
      BY <1>2, <1>3, <2>1 DEF CallsInv, Origins
    <3>2. \A x \in tasks' : IsKnown(x[2])
      BY <2>1, <2>4 DEF CallsInv, Origins
    <3>3. QED
      BY <1>1, <1>6, <3>1, <3>2 DEF CallsInv, Origins
  <2>6. QED
    BY <1>1, <1>5, <2>1, <2>3, <2>5 DEF CallsInv, Quiet, Progress
<1>8. CASE op[t] = "Reset"
  <2>1. /\ tasks' \subseteq tasks /\ Settled \subseteq Settled'
        /\ <<d, k>> \in tasks' => k \notin append
    <3>1. CASE StartKind(t)
      BY <1>8, <3>1 DEF StartKind
    <3>2. CASE SkipKind(t)
      BY <1>8, <3>2 DEF SkipKind, Runs, KindsOf, EverEnabled, Settled, histVars
    <3>3. CASE StopKind(t)
      BY <3>3 DEF StopKind, Settled
    <3>4. QED
      BY <3>1, <3>2, <3>3
  <2>2. \A e, j : ~Pending(t, e, j)
    BY <1>1, <1>8 DEF Pending
  <2>3. Covered'
    BY <1>1, <1>4, <2>1, <2>2, CoveredStep DEF CallsInv
  <2>4. Origins'
    BY <1>1, <1>6, <2>1 DEF CallsInv, Origins
  <2>5. Quiet'
    <3> SUFFICES ASSUME alone PROVE \A u \in Threads : op'[u] \notin {"Register", "SetDevice"}
      BY <1>1 DEF Quiet
    <3>1. op'[t] \in {"none", "Reset"}
      <4>1. CASE left'[t] = {}
        <5>1. DevLoop(t, NextDevices(t))
          BY <1>1, <4>1 DEF NextKind
        <5>2. QED
          BY <1>8, <5>1, DevLoopPlaces
      <4>2. CASE left'[t] # {}
        <5>1. UNCHANGED <<pc, op, want, todo>>
          BY <1>1, <4>2 DEF NextKind
        <5>2. QED
          BY <1>8, <5>1
      <4>3. QED
        BY <4>1, <4>2
    <3>2. QED
      BY <1>4, <3>1 DEF CallsInv, Quiet, Local
  <2>6. alone => ProgressOf(t)'
    <3> SUFFICES ASSUME alone PROVE ProgressOf(t)'
      OBVIOUS
    <3>1. ProgressOf(t)
      BY <1>8 DEF CallsInv, Progress
    <3>2. \A j : IsKnown(j) => j \in append
      <4>1. \A u \in Threads : pc[u] # "append"
        BY DEF CallsInv, Quiet, Places, PlaceOf
      <4>2. QED
        BY <4>1 DEF IsKnown
    <3>3. <<d, k>> \notin tasks'
      BY <2>1, <3>2 DEF CallsInv, Origins
    <3>4. QED
      BY <1>1, <1>8, <2>1, <3>1, <3>3, NextKindProgress DEF Types
  <2>7. Progress'
    BY <1>1, <1>2, <1>4, <2>6, ProgressStep
  <2>8. QED
    BY <1>5, <2>3, <2>4, <2>5, <2>7 DEF CallsInv
<1>9. QED
  BY <1>2, <1>7, <1>8

(* ResetAllDevice around its loop over the kinds: at its begin everything    *)
(* that runs is on a device of the loop.                                     *)
LEMMA ResetCalls ==
  ASSUME Types, Frames, CallsInv, NEW t \in Threads,
         ResetBegin(t) \/ StopCann(t) \/ StopGivesUp(t) \/ ResetEnd(t)
  PROVE  CallsInv'
<1>0. PlaceOf(t)
  BY DEF CallsInv, Places
<1>1. CASE ResetBegin(t)
  <2>1. PICK s \in SetToSeqs(devices) :
          /\ todo' = [todo EXCEPT ![t] = s]
          /\ pc' = [pc EXCEPT ![t] = IF s = <<>> THEN "reset" ELSE "stop"]
    BY <1>1 DEF ResetBegin
  <2>2. Range(s) = devices
    BY EnumerationRange DEF Types
  <2>3. /\ pc[t] = "idle" /\ devMtx = NoThread /\ devMtx' = t /\ op'[t] = "Reset"
        /\ alone' = \A u \in Threads : op[u] \notin {"Register", "SetDevice"}
        /\ UNCHANGED <<switch, append, devices, tasks, profSwitch, cann, want, left,
                       excused, cannLeft>>
    BY <1>1 DEF ResetBegin, Call, Frames, taskVars, cannVars
  <2>4. /\ todo'[t] = s /\ (s = <<>> => pc'[t] = "reset") /\ (s # <<>> => pc'[t] = "stop")
        /\ Local(t)
    BY <1>1, <2>1 DEF ResetBegin, Frames, Local
  <2>5. PlaceOf(t)'
    BY <1>0, <2>2, <2>3, <2>4 DEF PlaceOf
  <2>6. Places'
    BY <2>3, <2>4, <2>5, PlacesOfOthers DEF CallsInv
  <2>7. Quiet'
    BY <2>3, <2>4 DEF Quiet, Local
  <2>8. Origins'
    <3>1. \A j : IsKnown(j) => IsKnown(j)'
      BY <2>3, <2>4, KnownStays
    <3>2. QED
      BY <2>3, <3>1 DEF CallsInv, Origins
  <2>9. Covered'
    <3>1. \A d, j : ~Pending(t, d, j)
      BY <2>3 DEF Pending
    <3>2. QED
      BY <2>3, <2>4, <3>1, CoveredStep DEF CallsInv, Settled
  <2>10. Progress'
    <3> SUFFICES ASSUME NEW u \in Threads, op'[u] = "Reset" PROVE ProgressOf(u)'
      BY DEF Progress
    <3>1. u = t
      BY <2>3, <2>4, DevTaskAssumption DEF Local, CallsInv, Places, PlaceOf
    <3>2. tasks \subseteq devices \X Kinds /\ cann \subseteq devices
      BY DEF CallsInv, Origins
    <3>3. pc'[t] \in {"reset", "stop"}
      BY <2>4
    <3>4. QED
      BY <2>2, <2>3, <2>4, <3>1, <3>2, <3>3 DEF ProgressOf
  <2>11. QED
    BY <2>6, <2>7, <2>8, <2>9, <2>10 DEF CallsInv
<1>2. CASE StopCann(t)
  <2>1. /\ pc[t] = "stop" /\ pc'[t] = "tasks" /\ Device(t) \in Online
        /\ cann' = IF profSwitch THEN cann \ {Device(t)} ELSE cann
        /\ cannLeft' = cannLeft \ {Device(t)} /\ Local(t)
        /\ UNCHANGED <<switch, append, devices, devMtx, tasks, profSwitch, op, want,
                       todo, left, excused, alone>>
    BY <1>2 DEF StopCann, Frames, Local, amVars, taskVars
  <2>2. op[t] = "Reset"
    BY <1>0, <2>1 DEF PlaceOf
  <2>3. PlaceOf(t)'
    BY <1>0, <2>1, <2>2 DEF PlaceOf, Device
  <2>4. Places'
    BY <2>1, <2>3, PlacesOfOthers DEF CallsInv
  <2>5. Quiet'
    BY <2>1 DEF CallsInv, Quiet
  <2>6. Origins'
    <3>1. \A j : IsKnown(j) => IsKnown(j)'
      BY <2>1, KnownStays
    <3>2. QED
      BY <2>1, <3>1 DEF CallsInv, Origins
  <2>7. Covered'
    <3>1. \A d, j : ~Pending(t, d, j)
      BY <2>1, <2>2 DEF Pending
    <3>2. QED
      BY <2>1, <3>1, CoveredStep DEF CallsInv, Settled
  <2>8. alone => ProgressOf(t)'
    <3> SUFFICES ASSUME alone PROVE ProgressOf(t)'
      OBVIOUS
    <3>1. ProgressOf(t)
      BY <2>2 DEF CallsInv, Progress
    <3>2. Device(t) \in Range(todo[t])
      BY <1>0, <2>1, DeviceInHand
    <3>3. Device(t) \notin cann'
      BY <2>1 DEF CallsInv, Origins
    <3>4. QED
      BY <2>1, <3>1, <3>2, <3>3 DEF ProgressOf, Device
  <2>9. Progress'
    BY <2>1, <2>2, <2>8, ProgressStep
  <2>10. QED
    BY <2>4, <2>5, <2>6, <2>7, <2>9 DEF CallsInv
<1>3. CASE StopGivesUp(t)
  <2>1. /\ pc[t] = "stop" /\ DevLoop(t, NextDevices(t))
        /\ cannLeft \subseteq cannLeft'
        /\ Device(t) \in Online => Device(t) \in cannLeft'
        /\ UNCHANGED <<switch, append, devices, devMtx, tasks, profSwitch, cann,
                       left, excused, alone>>
    BY <1>3 DEF StopGivesUp, amVars, taskVars, cannVars
  <2>2. op[t] = "Reset"
    BY <1>0, <2>1 DEF PlaceOf
  <2>3. /\ Local(t) /\ todo'[t] = NextDevices(t) /\ pc'[t] \in {"stop", "reset"}
        /\ op'[t] = "Reset"
    BY <2>1, <2>2, DevLoopPlaces DEF Local
  <2>4. PlaceOf(t)'
    BY <1>0, <2>1, <2>2, DeviceInHand, DevLoopPlace
  <2>5. Places'
    BY <2>1, <2>3, <2>4, PlacesOfOthers DEF CallsInv
  <2>6. Quiet'
    BY <2>1, <2>3 DEF CallsInv, Quiet, Local
  <2>7. Origins'
    <3>1. \A j : IsKnown(j) => IsKnown(j)'
      BY <2>1, <2>3, KnownStays
    <3>2. QED
      BY <2>1, <3>1 DEF CallsInv, Origins
  <2>8. Covered'
    <3>1. \A d, j : ~Pending(t, d, j)
      BY <2>1, <2>2 DEF Pending
    <3>2. QED
      BY <2>1, <2>3, <3>1, CoveredStep DEF CallsInv, Settled
  <2>9. alone => ProgressOf(t)'
    <3> SUFFICES ASSUME alone PROVE ProgressOf(t)'
      OBVIOUS
    <3>1. ProgressOf(t)
      BY <2>2 DEF CallsInv, Progress
    <3>2. \A d \in Range(todo[t]) : d = Device(t) \/ d \in Range(todo'[t])
      BY <1>0, <2>1, <2>3, DeviceInHand
    <3>3. tasks \subseteq Online \X Kinds /\ cann \subseteq Online
      BY DEF CallsInv, Origins
    <3>4. \A x \in tasks : x[1] \in cannLeft' \/ x[1] \in Range(todo'[t])
      BY <2>1, <3>1, <3>2, <3>3 DEF ProgressOf
    <3>5. \A d \in cann : d \in cannLeft' \/ d \in Range(todo'[t])
      BY <2>1, <3>1, <3>2, <3>3 DEF ProgressOf
    <3>6. QED
      BY <2>1, <2>3, <3>4, <3>5 DEF ProgressOf
  <2>10. Progress'
    BY <2>1, <2>2, <2>3, <2>9, ProgressStep
  <2>11. QED
    BY <2>5, <2>6, <2>7, <2>8, <2>10 DEF CallsInv
<1>4. CASE ResetEnd(t)
  <2>1. /\ pc[t] = "reset" /\ pc'[t] \in {"uninit", "idle"} /\ op'[t] = "none"
        /\ devMtx' = NoThread /\ Local(t)
        /\ UNCHANGED <<switch, append, devices, tasks, profSwitch, cann, want, todo,
                       left, excused, cannLeft, alone>>
    BY <1>4 DEF ResetEnd, Frames, Local, taskVars, cannVars, histVars
  <2>2. op[t] = "Reset" /\ devMtx = t
    BY <1>0, <2>1 DEF PlaceOf
  <2>3. PlaceOf(t)'
    BY <1>0, <2>1 DEF PlaceOf
  <2>4. Places'
    BY <2>1, <2>2, <2>3, PlacesOfOthers DEF CallsInv
  <2>5. Quiet'
    BY <2>1 DEF CallsInv, Quiet, Local
  <2>6. Origins'
    <3>1. \A j : IsKnown(j) => IsKnown(j)'
      BY <2>1, KnownStays
    <3>2. QED
      BY <2>1, <3>1 DEF CallsInv, Origins
  <2>7. Covered'
    <3>1. \A d, j : ~Pending(t, d, j)
      BY <2>1 DEF Pending
    <3>2. QED
      BY <2>1, <3>1, CoveredStep DEF CallsInv, Settled
  <2>8. Progress'
    BY <2>1, <2>2, ProgressStep
  <2>9. QED
    BY <2>4, <2>5, <2>6, <2>7, <2>8 DEF CallsInv
<1>5. QED
  BY <1>1, <1>2, <1>3, <1>4

(* A stuttering step changes nothing the calls' invariant reads.             *)
LEMMA StutterCalls == ASSUME CallsInv, UNCHANGED vars PROVE CallsInv'
<1> USE DEF vars, amVars, taskVars, cannVars, histVars, callVars
<1>1. Places' /\ Quiet'
  BY DEF CallsInv, Places, PlaceOf, Device, Quiet
<1>2. Origins'
  BY DEF CallsInv, Origins, IsKnown
<1>3. Covered'
  <2>1. \A t \in Threads : \A d, k : Pending(t, d, k) => Pending(t, d, k)'
    BY DEF Pending, Device
  <2>2. Settled' = Settled /\ devices' = devices /\ switch' = switch
    BY DEF Settled
  <2>3. QED
    BY <2>1, <2>2 DEF CallsInv, Covered
<1>4. Progress'
  BY DEF CallsInv, Progress, ProgressOf, Device
<1>5. QED
  BY <1>1, <1>2, <1>3, <1>4 DEF CallsInv

(* Every step keeps the invariant of the calls.                              *)
LEMMA NextCalls == IndInv /\ CallsInv /\ [Next]_vars => CallsInv'
<1> SUFFICES ASSUME IndInv, CallsInv, [Next]_vars PROVE CallsInv'
  OBVIOUS
<1>1. Types /\ Frames
  BY DEF IndInv
<1>2. ASSUME NEW t \in Threads,
             \/ \E k \in Kinds : RegisterSwitch(t, k) \/ UnRegister(t, k)
             \/ RegisterAppend(t) \/ RegisterCopy(t)
             \/ \E d \in Devices : SetDeviceInsert(t, d)
             \/ SetDeviceCheck(t)
      PROVE  CallsInv'
  BY <1>1, <1>2, RegisterCalls, SetDeviceCalls, SubscriptionCalls
<1>3. ASSUME NEW t \in Threads,
             \/ StartCann(t) \/ StartUnreachable(t) \/ StartCannFails(t)
             \/ LockTasks(t) \/ StartKind(t) \/ SkipKind(t)
             \/ ResetBegin(t) \/ StopCann(t) \/ StopGivesUp(t) \/ StopKind(t) \/ ResetEnd(t)
             \/ UnsubscribeCallbacks(t) \/ UnsubscribePool(t)
             \/ Subscribe(t) \/ SubscribePool(t)
      PROVE  CallsInv'
  BY <1>1, <1>3, StartCalls, LockCalls, KindCalls, ResetCalls, SubscriptionCalls
<1>4. CASE UNCHANGED vars
  BY <1>4, StutterCalls
<1>5. QED
  BY <1>2, <1>3, <1>4 DEF Next, Step, AllDone

-----------------------------------------------------------------------------
(* What is enabled has been dealt with or is somebody's business, and what   *)
(* runs is known and on a device that a reset will find.                     *)
THEOREM CallsInductive == Spec => [](IndInv /\ CallsInv)
<1>1. Init => IndInv /\ CallsInv
  BY InitInv, InitCalls
<1>2. IndInv /\ CallsInv /\ [Next]_vars => (IndInv /\ CallsInv)'
  BY NextInv, NextCalls
<1>3. QED
  BY <1>1, <1>2, PTL DEF Spec

(* When the calls have returned, every kind that is enabled has its task on  *)
(* every device that is set, in whatever order Register and SetDevice came.  *)
THEOREM EnabledStarts == Spec => []EnabledIsStarted
<1>1. IndInv /\ CallsInv => EnabledIsStarted
  <2> SUFFICES ASSUME CallsInv, Quiescent, NEW d \in devices, NEW k \in switch
               PROVE <<d, k>> \in tasks \union excused
    BY DEF EnabledIsStarted
  <2>1. \A t \in Threads : ~Pending(t, d, k)
    BY DEF Quiescent, Pending
  <2>2. QED
    BY <2>1 DEF CallsInv, Covered, Settled
<1>2. QED
  BY <1>1, CallsInductive, PTL

(* A reset that no start overlaps leaves no task, no job of the driver and   *)
(* no device of CANN behind, but for those that refused to stop.             *)
THEOREM ResetStops == Spec => []UnsubscribeStopsAll
<1>1. IndInv /\ CallsInv => UnsubscribeStopsAll
  <2> SUFFICES ASSUME IndInv, CallsInv, NEW t \in Threads, pc[t] = "reset", alone
               PROVE /\ \A x \in tasks : x[1] \in cannLeft
                     /\ \A x \in running : x[1] \in cannLeft \/ x \in notStopped
                     /\ cann \subseteq cannLeft
    BY DEF UnsubscribeStopsAll
  <2>1. op[t] = "Reset" /\ Range(todo[t]) = {}
    BY DEF CallsInv, Places, PlaceOf, Range
  <2>2. ProgressOf(t)
    BY <2>1 DEF CallsInv, Progress
  <2>3. \A x \in tasks : x[1] \in cannLeft
    BY <2>1, <2>2 DEF ProgressOf
  <2>4. cann \subseteq cannLeft
    BY <2>1, <2>2 DEF ProgressOf
  <2>5. ASSUME NEW d \in Devices, NEW c \in Channels, <<d, c>> \in running,
               <<d, c>> \notin notStopped
        PROVE  d \in cannLeft
    <3>1. ref[<<d, c>>] # 0
      BY <2>5 DEF IndInv, ChannelServed, ChannelRunsWhileNeeded
    <3>2. Users(d, c) # {}
      BY <3>1, FS_EmptySet DEF IndInv, RefCountsMatchTasks, Users
    <3>3. PICK k \in Kinds : <<d, k>> \in tasks
      BY <3>2 DEF Users
    <3>4. QED
      BY <2>3, <3>3
  <2>6. running \subseteq Devices \X Channels
    BY DEF IndInv, Types
  <2>7. QED
    BY <2>3, <2>4, <2>5, <2>6
<1>2. QED
  BY <1>1, CallsInductive, PTL
=============================================================================
