------------------------ MODULE CallbackManager_proof ------------------------
(***************************************************************************)
(* Proofs about CallbackManager: with one owner, that is one thread that   *)
(* subscribes and unsubscribes, no call that begins outside of UnInit      *)
(* follows a freed subscriber, whatever the number of threads that enable  *)
(* ids or run traced functions, and of addresses, domains and ids.         *)
(***************************************************************************)
EXTENDS CallbackManager, TLAPS

(* Owners that overlap are refuted already by OneSubscriber.                 *)
OneOwner == \E o : Owners = {o}

Services     == {"report", "sync", "mstx", "pool"}
Core         == {"report", "sync", "mstx"}
OwnerPlaces  == {"idle", "make", "clear", "publish", "start", "unsub", "wipe", "stop"}
AskerPlaces  == {"idle", "match", "set"}
CallerPlaces == {"idle", "enabled", "load", "test", "reload", "fetch", "call"}

Types ==
  /\ init \in BOOLEAN /\ crashed \in BOOLEAN /\ mixed \in BOOLEAN
  /\ ptr \in Addrs \cup {Null} /\ alive = {ptr} \ {Null} /\ filled \subseteq alive
  /\ bits \subseteq Pairs /\ asked \subseteq Pairs /\ on \subseteq Services
  /\ arg \in [Threads -> Addrs \cup {Null}] /\ mine \in [Owners -> Addrs \cup {Null}]
  /\ id \in [Callers -> Pairs] /\ raced \subseteq Callers
  /\ enable \in [Askers -> BOOLEAN] /\ serve \in [Owners -> Seq(Services)]
  /\ rest \in [Owners \cup Askers -> SUBSET (Domains \cup Pairs)]
  /\ \A t \in Owners : rest[t] \subseteq Domains
  /\ \A t \in Askers : rest[t] \subseteq Pairs

Places ==
  /\ pc \in [Threads -> OwnerPlaces \cup AskerPlaces \cup CallerPlaces]
  /\ \A t \in Owners  : pc[t] \in OwnerPlaces
  /\ \A t \in Askers  : pc[t] \in AskerPlaces
  /\ \A t \in Callers : pc[t] \in CallerPlaces

(* What the owner's place says of init_ and of the subscriber.               *)
Stages ==
  \A t \in Owners :
    /\ pc[t] \in {"make", "clear", "publish", "stop"} => ~init
    /\ pc[t] \in {"start", "unsub", "wipe"} => init
    /\ pc[t] \in {"make", "wipe", "stop"} => ptr = Null
    /\ pc[t] \in {"clear", "publish", "start", "unsub"} => ptr # Null
    /\ pc[t] = "idle" => (init <=> ptr # Null)
    /\ rest[t] # {} => pc[t] \in {"clear", "wipe"}
    /\ serve[t] # <<>> => pc[t] \in {"start", "stop"}

(* What a sequence of services holds.                                        *)
Held(s) == {s[i] : i \in DOMAIN s}

(* The services that run, and those the owner has still to start or to stop. *)
Due(t) == Held(serve[t])

Served ==
  \A t \in Owners :
    /\ pc[t] = "start" => Core \subseteq on \cup Due(t)
    /\ pc[t] \in {"idle", "unsub", "wipe"} /\ init => Core \subseteq on
    /\ pc[t] = "stop" => on \subseteq Due(t)
    /\ pc[t] \in {"idle", "make", "clear", "publish"} /\ ~init => on = {}

(* A subscriber that found no call under way has the bits it asked for.      *)
Asked ==
  ~mixed =>
    /\ \A t \in Owners :
         /\ pc[t] \in {"make", "clear", "publish"} => \A a \in Askers : pc[a] = "idle"
         /\ pc[t] = "clear" => \A b \in bits : b[1] \in rest[t]
         /\ pc[t] = "publish" => bits = {}
    /\ init /\ ptr # Null =>
         /\ bits = asked
         /\ \A a \in Askers : pc[a] = "set" => arg[a] = ptr

(* A call that no UnInit overlapped has the present subscriber in hand.      *)
InHand ==
  \A t \in Callers :
    pc[t] # "idle" /\ t \notin raced =>
      init /\ ptr # Null /\ (pc[t] \in {"test", "fetch"} => arg[t] = ptr)

IndInv == Types /\ Places /\ Stages /\ Served /\ Asked /\ InHand

USE DEF Moves, Leaves, Goes, Threads, subVars, ownVars, histVars

-----------------------------------------------------------------------------
(* The services a list holds are its head and those of its tail.             *)
LEMMA HeadAndTail ==
  ASSUME NEW s \in Seq(Services), s # <<>>
  PROVE  /\ Head(s) \in Services /\ Tail(s) \in Seq(Services)
         /\ Held(s) = {Head(s)} \cup Held(Tail(s))
<1>1. DOMAIN s = 1..Len(s) /\ Len(s) \in Nat \ {0}
  OBVIOUS
<1>2. /\ Head(s) = s[1] /\ Head(s) \in Services /\ Tail(s) \in Seq(Services)
      /\ DOMAIN Tail(s) = 1..(Len(s) - 1)
      /\ \A i \in 1..(Len(s) - 1) : Tail(s)[i] = s[i + 1]
  BY <1>1
<1>3. ASSUME NEW i \in DOMAIN s PROVE s[i] \in {Head(s)} \cup Held(Tail(s))
  <2>1. CASE i = 1
    BY <1>2, <2>1
  <2>2. CASE i # 1
    <3>1. i - 1 \in DOMAIN Tail(s) /\ Tail(s)[i - 1] = s[i]
      BY <1>1, <1>2, <2>2
    <3>2. QED
      BY <3>1 DEF Held
  <2>3. QED
    BY <2>1, <2>2
<1>4. ASSUME NEW i \in DOMAIN Tail(s) PROVE Tail(s)[i] \in Held(s)
  <2>1. i + 1 \in DOMAIN s /\ Tail(s)[i] = s[i + 1]
    BY <1>1, <1>2
  <2>2. QED
    BY <2>1 DEF Held
<1>5. Head(s) \in Held(s)
  BY <1>1, <1>2 DEF Held
<1>6. QED
  BY <1>2, <1>3, <1>4, <1>5 DEF Held

(* Both orders of starting and stopping name every service.                  *)
LEMMA StartsAndStops ==
  /\ Starts \in Seq(Services) /\ Stops \in Seq(Services)
  /\ Held(Starts) = Services /\ Held(Stops) = Services
<1>1. Starts \in Seq(Services) /\ DOMAIN Starts = 1..4
  BY DEF Starts, Services
<1>2. Stops \in Seq(Services) /\ DOMAIN Stops = 1..4
  BY DEF Stops, Services
<1>3. Starts[1] = "report" /\ Starts[2] = "sync" /\ Starts[3] = "mstx" /\ Starts[4] = "pool"
  BY DEF Starts
<1>4. Stops[1] = "mstx" /\ Stops[2] = "sync" /\ Stops[3] = "report" /\ Stops[4] = "pool"
  BY DEF Stops
<1>5. 1..4 = {1, 2, 3, 4}
  OBVIOUS
<1>6. QED
  BY <1>1, <1>2, <1>3, <1>4, <1>5 DEF Held, Services

(* msptiEnableCallback and msptiEnableDomain differ in the pairs they set.   *)
LEMMA AskedPairs ==
  ASSUME NEW t, NEW e, NEW h, EnableCallback(t, e, h) \/ EnableDomain(t, e, h)
  PROVE  \E P \in SUBSET Pairs : Ask(t, e, h, P)
BY CallbackManagerAssumption DEF EnableCallback, EnableDomain

(* Every step keeps the types.                                               *)
LEMMA TypesStep ==
  ASSUME Types, Places, Stages, Next
  PROVE  Types'
<1>1. ASSUME NEW t \in Owners, Owner(t) PROVE Types'
  <2>1. CASE Subscribe(t)
    BY <2>1 DEF Subscribe, Types
  <2>2. CASE FillSubscriber(t)
    BY <2>2 DEF FillSubscriber, Types
  <2>3. CASE FillNothing(t)
    BY <2>3 DEF FillNothing, Types
  <2>4. CASE Publish(t)
    BY <2>4, StartsAndStops DEF Publish, Types
  <2>5. CASE StartService(t)
    BY <2>5, HeadAndTail DEF StartService, Types
  <2>6. CASE OwnerReturns(t)
    BY <2>6 DEF OwnerReturns, Types
  <2>7. CASE FreeSubscriber(t)
    BY <2>7, CallbackManagerAssumption DEF FreeSubscriber, Types
  <2>8. CASE WrongSubscriber(t)
    BY <2>8 DEF WrongSubscriber, Types
  <2>9. CASE Retract(t)
    BY <2>9, StartsAndStops DEF Retract, Types
  <2>10. CASE StopService(t)
    BY <2>10, HeadAndTail DEF StopService, Types
  <2>11. ASSUME NEW a \in Addrs, MakeSubscriber(t, a) PROVE Types'
    BY <2>11, CallbackManagerAssumption DEF MakeSubscriber, Types
  <2>12. ASSUME NEW d \in Domains, ClearBits(t, d) PROVE Types'
    BY <2>12 DEF ClearBits, Cleared, Types
  <2>13. ASSUME NEW h \in Handles, Unsubscribe(t, h) PROVE Types'
    BY <2>13 DEF Unsubscribe, Types
  <2>14. QED
    BY <1>1, <2>1, <2>2, <2>3, <2>4, <2>5, <2>6, <2>7, <2>8, <2>9, <2>10, <2>11, <2>12, <2>13
       DEF Owner
<1>2. ASSUME NEW t \in Askers, Asker(t) PROVE Types'
  <2>1. CASE Match(t)
    BY <2>1 DEF Match, Types
  <2>2. CASE AskerReturns(t)
    BY <2>2 DEF AskerReturns, Types
  <2>3. ASSUME NEW e \in BOOLEAN, NEW h \in Handles, EnableCallback(t, e, h) \/ EnableDomain(t, e, h)
        PROVE  Types'
    <3>1. PICK P \in SUBSET Pairs : Ask(t, e, h, P)
      BY <2>3, AskedPairs
    <3>2. QED
      BY <3>1, CallbackManagerAssumption DEF Ask, Handles, Types
  <2>4. ASSUME NEW b \in Pairs, SetBit(t, b) PROVE Types'
    BY <2>4 DEF SetBit, Switched, Types
  <2>5. QED
    BY <1>2, <2>1, <2>2, <2>3, <2>4 DEF Asker
<1>3. ASSUME NEW t \in Callers, Caller(t) PROVE Types'
  <2>1. CASE IsCallbackIdEnable(t)
    BY <2>1 DEF IsCallbackIdEnable, Types
  <2>2. CASE Load(t)
    BY <2>2 DEF Load, Types
  <2>3. CASE Test(t)
    BY <2>3 DEF Test, Types
  <2>4. CASE Fetch(t)
    BY <2>4 DEF Fetch, Types
  <2>5. CASE Fault(t)
    BY <2>5 DEF Fault, Types
  <2>6. CASE Invoke(t)
    BY <2>6 DEF Invoke, Types
  <2>7. ASSUME NEW b \in Pairs, Execute(t, b) PROVE Types'
    BY <2>7 DEF Execute, Types
  <2>8. QED
    BY <1>3, <2>1, <2>2, <2>3, <2>4, <2>5, <2>6, <2>7 DEF Caller
<1>4. QED
  BY <1>1, <1>2, <1>3 DEF Next

(* Every step takes each thread to a place of the call it is in.             *)
LEMMA PlacesStep ==
  ASSUME Types, Places, Next
  PROVE  Places'
<1>1. ASSUME NEW t \in Owners, Owner(t) PROVE Places'
  <2>1. CASE Subscribe(t)
    BY <2>1, CallbackManagerAssumption DEF Subscribe, Places, OwnerPlaces
  <2>2. CASE FillSubscriber(t)
    BY <2>2, CallbackManagerAssumption DEF FillSubscriber, Places, OwnerPlaces
  <2>3. CASE FillNothing(t)
    BY <2>3 DEF FillNothing, Places
  <2>4. CASE Publish(t)
    BY <2>4, CallbackManagerAssumption DEF Publish, Places, OwnerPlaces
  <2>5. CASE StartService(t)
    BY <2>5 DEF StartService, Places
  <2>6. CASE OwnerReturns(t)
    BY <2>6, CallbackManagerAssumption DEF OwnerReturns, Places, OwnerPlaces
  <2>7. CASE FreeSubscriber(t)
    BY <2>7, CallbackManagerAssumption DEF FreeSubscriber, Places, OwnerPlaces
  <2>8. CASE WrongSubscriber(t)
    BY <2>8, CallbackManagerAssumption DEF WrongSubscriber, Places, OwnerPlaces
  <2>9. CASE Retract(t)
    BY <2>9, CallbackManagerAssumption DEF Retract, Places, OwnerPlaces
  <2>10. CASE StopService(t)
    BY <2>10 DEF StopService, Places
  <2>11. ASSUME NEW a \in Addrs, MakeSubscriber(t, a) PROVE Places'
    BY <2>11, CallbackManagerAssumption DEF MakeSubscriber, Places, OwnerPlaces
  <2>12. ASSUME NEW d \in Domains, ClearBits(t, d) PROVE Places'
    BY <2>12 DEF ClearBits, Cleared, Places
  <2>13. ASSUME NEW h \in Handles, Unsubscribe(t, h) PROVE Places'
    BY <2>13, CallbackManagerAssumption DEF Unsubscribe, Places, OwnerPlaces
  <2>14. QED
    BY <1>1, <2>1, <2>2, <2>3, <2>4, <2>5, <2>6, <2>7, <2>8, <2>9, <2>10, <2>11, <2>12, <2>13
       DEF Owner
<1>2. ASSUME NEW t \in Askers, Asker(t) PROVE Places'
  <2>1. CASE Match(t)
    BY <2>1, CallbackManagerAssumption DEF Match, Places, AskerPlaces
  <2>2. CASE AskerReturns(t)
    BY <2>2, CallbackManagerAssumption DEF AskerReturns, Places, AskerPlaces
  <2>3. ASSUME NEW e \in BOOLEAN, NEW h \in Handles, EnableCallback(t, e, h) \/ EnableDomain(t, e, h)
        PROVE  Places'
    <3>1. PICK P \in SUBSET Pairs : Ask(t, e, h, P)
      BY <2>3, AskedPairs
    <3>2. QED
      BY <3>1, CallbackManagerAssumption DEF Ask, Places, AskerPlaces
  <2>4. ASSUME NEW b \in Pairs, SetBit(t, b) PROVE Places'
    BY <2>4 DEF SetBit, Switched, Places
  <2>5. QED
    BY <1>2, <2>1, <2>2, <2>3, <2>4 DEF Asker
<1>3. ASSUME NEW t \in Callers, Caller(t) PROVE Places'
  <2>1. CASE IsCallbackIdEnable(t)
    BY <2>1, CallbackManagerAssumption DEF IsCallbackIdEnable, Places, CallerPlaces
  <2>2. CASE Load(t)
    BY <2>2, CallbackManagerAssumption DEF Load, Places, CallerPlaces
  <2>3. CASE Test(t)
    BY <2>3, CallbackManagerAssumption DEF Test, Places, CallerPlaces
  <2>4. CASE Fetch(t)
    BY <2>4, CallbackManagerAssumption DEF Fetch, Places, CallerPlaces
  <2>5. CASE Fault(t)
    BY <2>5 DEF Fault, Places
  <2>6. CASE Invoke(t)
    BY <2>6, CallbackManagerAssumption DEF Invoke, Places, CallerPlaces
  <2>7. ASSUME NEW b \in Pairs, Execute(t, b) PROVE Places'
    BY <2>7, CallbackManagerAssumption DEF Execute, Places, CallerPlaces
  <2>8. QED
    BY <1>3, <2>1, <2>2, <2>3, <2>4, <2>5, <2>6, <2>7 DEF Caller
<1>4. QED
  BY <1>1, <1>2, <1>3 DEF Next

(* Every step keeps what the owner's place says of the subscriber.           *)
LEMMA StagesStep ==
  ASSUME OneOwner, Types, Places, Stages, Next
  PROVE  Stages'
<1>1. ASSUME NEW t \in Owners, Owner(t) PROVE Stages'
  <2>1. CASE Subscribe(t)
    BY <2>1 DEF Subscribe, Stages
  <2>2. CASE FillSubscriber(t)
    BY <2>2 DEF FillSubscriber, Stages
  <2>3. CASE FillNothing(t)
    BY <2>3 DEF FillNothing, Stages
  <2>4. CASE Publish(t)
    BY <2>4 DEF Publish, OneOwner, Places, Stages
  <2>5. CASE StartService(t)
    BY <2>5 DEF StartService, Stages
  <2>6. CASE OwnerReturns(t)
    BY <2>6 DEF OwnerReturns, Places, Stages
  <2>7. CASE FreeSubscriber(t)
    BY <2>7 DEF FreeSubscriber, OneOwner, Places, Stages
  <2>8. CASE WrongSubscriber(t)
    BY <2>8 DEF WrongSubscriber, Stages
  <2>9. CASE Retract(t)
    BY <2>9 DEF Retract, OneOwner, Places, Stages
  <2>10. CASE StopService(t)
    BY <2>10 DEF StopService, Stages
  <2>11. ASSUME NEW a \in Addrs, MakeSubscriber(t, a) PROVE Stages'
    BY <2>11, CallbackManagerAssumption DEF MakeSubscriber, OneOwner, Places, Stages
  <2>12. ASSUME NEW d \in Domains, ClearBits(t, d) PROVE Stages'
    BY <2>12 DEF ClearBits, Cleared, Stages
  <2>13. ASSUME NEW h \in Handles, Unsubscribe(t, h) PROVE Stages'
    BY <2>13 DEF Unsubscribe, Stages
  <2>14. QED
    BY <1>1, <2>1, <2>2, <2>3, <2>4, <2>5, <2>6, <2>7, <2>8, <2>9, <2>10, <2>11, <2>12, <2>13
       DEF Owner
<1>2. ASSUME NEW t \in Askers, Asker(t) PROVE Stages'
  <2>1. CASE Match(t)
    BY <2>1, CallbackManagerAssumption DEF Match, Places, Stages
  <2>2. CASE AskerReturns(t)
    BY <2>2, CallbackManagerAssumption DEF AskerReturns, Stages
  <2>3. ASSUME NEW e \in BOOLEAN, NEW h \in Handles, EnableCallback(t, e, h) \/ EnableDomain(t, e, h)
        PROVE  Stages'
    <3>1. PICK P \in SUBSET Pairs : Ask(t, e, h, P)
      BY <2>3, AskedPairs
    <3>2. QED
      BY <3>1, CallbackManagerAssumption DEF Ask, Stages
  <2>4. ASSUME NEW b \in Pairs, SetBit(t, b) PROVE Stages'
    BY <2>4 DEF SetBit, Switched, Stages
  <2>5. QED
    BY <1>2, <2>1, <2>2, <2>3, <2>4 DEF Asker
<1>3. ASSUME NEW t \in Callers, Caller(t) PROVE Stages'
  <2>1. CASE IsCallbackIdEnable(t)
    BY <2>1, CallbackManagerAssumption DEF IsCallbackIdEnable, Places, Stages
  <2>2. CASE Load(t)
    BY <2>2 DEF Load, Places, Stages
  <2>3. CASE Test(t)
    BY <2>3, CallbackManagerAssumption DEF Test, Places, Stages
  <2>4. CASE Fetch(t)
    BY <2>4 DEF Fetch, Stages
  <2>5. CASE Fault(t)
    BY <2>5 DEF Fault, Stages
  <2>6. CASE Invoke(t)
    BY <2>6, CallbackManagerAssumption DEF Invoke, Stages
  <2>7. ASSUME NEW b \in Pairs, Execute(t, b) PROVE Stages'
    BY <2>7 DEF Execute, Stages
  <2>8. QED
    BY <1>3, <2>1, <2>2, <2>3, <2>4, <2>5, <2>6, <2>7 DEF Caller
<1>4. QED
  BY <1>1, <1>2, <1>3 DEF Next

(* Every step keeps what the owner's place says of the services.             *)
LEMMA ServedStep ==
  ASSUME OneOwner, Types, Places, Stages, Served, Next
  PROVE  Served'
<1>1. ASSUME NEW t \in Owners, Owner(t) PROVE Served'
  <2>1. CASE Subscribe(t)
    BY <2>1 DEF Subscribe, Served, Due
  <2>2. CASE FillSubscriber(t)
    BY <2>2 DEF FillSubscriber, Served, Due
  <2>3. CASE FillNothing(t)
    BY <2>3 DEF FillNothing, Served, Due
  <2>4. CASE Publish(t)
    BY <2>4, StartsAndStops DEF Publish, OneOwner, Types, Served, Due, Core, Services
  <2>5. CASE StartService(t)
    BY <2>5, HeadAndTail DEF StartService, OneOwner, Types, Served, Due, Core
  <2>6. CASE OwnerReturns(t)
    <3>1. Due(t) = {} /\ Owners = {t}
      BY <2>6 DEF OwnerReturns, OneOwner, Due, Held
    <3>2. /\ pc' = [pc EXCEPT ![t] = "idle"] /\ pc[t] \in {"start", "stop"}
          /\ UNCHANGED <<init, on, serve>>
      BY <2>6 DEF OwnerReturns
    <3>3. init => Core \subseteq on
      BY <3>1, <3>2 DEF Stages, Served
    <3>4. ~init => on = {}
      BY <3>1, <3>2 DEF Stages, Served
    <3>5. pc'[t] = "idle"
      BY <3>2 DEF Places
    <3>6. QED
      BY <3>1, <3>2, <3>3, <3>4, <3>5 DEF Served
  <2>7. CASE FreeSubscriber(t)
    BY <2>7 DEF FreeSubscriber, Served, Due
  <2>8. CASE WrongSubscriber(t)
    BY <2>8 DEF WrongSubscriber, Stages, Served
  <2>9. CASE Retract(t)
    BY <2>9, StartsAndStops DEF Retract, OneOwner, Types, Served, Due
  <2>10. CASE StopService(t)
    BY <2>10, HeadAndTail DEF StopService, OneOwner, Types, Served, Due
  <2>11. ASSUME NEW a \in Addrs, MakeSubscriber(t, a) PROVE Served'
    BY <2>11 DEF MakeSubscriber, Served, Due
  <2>12. ASSUME NEW d \in Domains, ClearBits(t, d) PROVE Served'
    BY <2>12 DEF ClearBits, Cleared, Served, Due
  <2>13. ASSUME NEW h \in Handles, Unsubscribe(t, h) PROVE Served'
    BY <2>13 DEF Unsubscribe, Served, Due
  <2>14. QED
    BY <1>1, <2>1, <2>2, <2>3, <2>4, <2>5, <2>6, <2>7, <2>8, <2>9, <2>10, <2>11, <2>12, <2>13
       DEF Owner
<1>2. ASSUME NEW t \in Askers, Asker(t) PROVE Served'
  <2>1. CASE Match(t)
    BY <2>1, CallbackManagerAssumption DEF Match, Places, Served, Due
  <2>2. CASE AskerReturns(t)
    BY <2>2, CallbackManagerAssumption DEF AskerReturns, Served, Due
  <2>3. ASSUME NEW e \in BOOLEAN, NEW h \in Handles, EnableCallback(t, e, h) \/ EnableDomain(t, e, h)
        PROVE  Served'
    <3>1. PICK P \in SUBSET Pairs : Ask(t, e, h, P)
      BY <2>3, AskedPairs
    <3>2. QED
      BY <3>1 DEF Ask, Served, Due
  <2>4. ASSUME NEW b \in Pairs, SetBit(t, b) PROVE Served'
    BY <2>4 DEF SetBit, Switched, Served, Due
  <2>5. QED
    BY <1>2, <2>1, <2>2, <2>3, <2>4 DEF Asker
<1>3. ASSUME NEW t \in Callers, Caller(t) PROVE Served'
  <2>1. CASE IsCallbackIdEnable(t)
    BY <2>1, CallbackManagerAssumption DEF IsCallbackIdEnable, Places, Served, Due
  <2>2. CASE Load(t)
    BY <2>2 DEF Load, Places, Served, Due
  <2>3. CASE Test(t)
    BY <2>3, CallbackManagerAssumption DEF Test, Places, Served, Due
  <2>4. CASE Fetch(t)
    BY <2>4 DEF Fetch, Served, Due
  <2>5. CASE Fault(t)
    BY <2>5 DEF Fault, Served, Due
  <2>6. CASE Invoke(t)
    BY <2>6, CallbackManagerAssumption DEF Invoke, Served, Due
  <2>7. ASSUME NEW b \in Pairs, Execute(t, b) PROVE Served'
    BY <2>7 DEF Execute, Served, Due
  <2>8. QED
    BY <1>3, <2>1, <2>2, <2>3, <2>4, <2>5, <2>6, <2>7 DEF Caller
<1>4. QED
  BY <1>1, <1>2, <1>3 DEF Next

(* Every step keeps the enabled bits among those that were asked for.        *)
LEMMA AskedStep ==
  ASSUME OneOwner, Types, Places, Stages, Asked, Next
  PROVE  Asked'
<1>1. ASSUME NEW t \in Owners, Owner(t) PROVE Asked'
  <2>1. CASE Subscribe(t)
    BY <2>1, CallbackManagerAssumption DEF Subscribe, OneOwner, Asked
  <2>2. CASE FillSubscriber(t)
    BY <2>2 DEF FillSubscriber, Asked
  <2>3. CASE FillNothing(t)
    BY <2>3 DEF FillNothing, Asked
  <2>4. CASE Publish(t)
    BY <2>4 DEF Publish, Asked
  <2>5. CASE StartService(t)
    BY <2>5 DEF StartService, Asked
  <2>6. CASE OwnerReturns(t)
    BY <2>6 DEF OwnerReturns, Types, Places, Asked
  <2>7. CASE FreeSubscriber(t)
    BY <2>7 DEF FreeSubscriber, Asked
  <2>8. CASE WrongSubscriber(t)
    BY <2>8 DEF WrongSubscriber, Asked
  <2>9. CASE Retract(t)
    BY <2>9 DEF Retract, Asked
  <2>10. CASE StopService(t)
    BY <2>10 DEF StopService, Asked
  <2>11. ASSUME NEW a \in Addrs, MakeSubscriber(t, a) PROVE Asked'
    BY <2>11, CallbackManagerAssumption DEF MakeSubscriber, Types, Stages, Asked
  <2>12. ASSUME NEW d \in Domains, ClearBits(t, d) PROVE Asked'
    BY <2>12 DEF ClearBits, Cleared, Stages, Asked
  <2>13. ASSUME NEW h \in Handles, Unsubscribe(t, h) PROVE Asked'
    BY <2>13, CallbackManagerAssumption DEF Unsubscribe, Asked
  <2>14. QED
    BY <1>1, <2>1, <2>2, <2>3, <2>4, <2>5, <2>6, <2>7, <2>8, <2>9, <2>10, <2>11, <2>12, <2>13
       DEF Owner
<1>2. ASSUME NEW t \in Askers, Asker(t) PROVE Asked'
  <2>1. CASE Match(t)
    BY <2>1 DEF Match, Types, Places, Asked
  <2>2. CASE AskerReturns(t)
    BY <2>2 DEF AskerReturns, Places, Asked
  <2>3. ASSUME NEW e \in BOOLEAN, NEW h \in Handles, EnableCallback(t, e, h) \/ EnableDomain(t, e, h)
        PROVE  Asked'
    <3>1. PICK P \in SUBSET Pairs : Ask(t, e, h, P)
      BY <2>3, AskedPairs
    <3>2. QED
      BY <3>1 DEF Ask, Stages, Asked
  <2>4. ASSUME NEW b \in Pairs, SetBit(t, b) PROVE Asked'
    BY <2>4 DEF SetBit, Switched, Asked
  <2>5. QED
    BY <1>2, <2>1, <2>2, <2>3, <2>4 DEF Asker
<1>3. ASSUME NEW t \in Callers, Caller(t) PROVE Asked'
  <2>1. CASE IsCallbackIdEnable(t)
    BY <2>1 DEF IsCallbackIdEnable, Types, Places, Asked
  <2>2. CASE Load(t)
    BY <2>2 DEF Load, Places, Asked
  <2>3. CASE Test(t)
    BY <2>3 DEF Test, Types, Places, Asked
  <2>4. CASE Fetch(t)
    BY <2>4 DEF Fetch, Asked
  <2>5. CASE Fault(t)
    BY <2>5 DEF Fault, Asked
  <2>6. CASE Invoke(t)
    BY <2>6 DEF Invoke, Asked
  <2>7. ASSUME NEW b \in Pairs, Execute(t, b) PROVE Asked'
    BY <2>7, CallbackManagerAssumption DEF Execute, Asked
  <2>8. QED
    BY <1>3, <2>1, <2>2, <2>3, <2>4, <2>5, <2>6, <2>7 DEF Caller
<1>4. QED
  BY <1>1, <1>2, <1>3 DEF Next

(* Every step keeps the subscriber in place while a call that no one raced   *)
(* follows it.                                                               *)
LEMMA InHandStep ==
  ASSUME OneOwner, Types, Places, Stages, InHand, Next
  PROVE  InHand'
<1>1. ASSUME NEW t \in Owners, Owner(t) PROVE InHand'
  <2>1. CASE Subscribe(t)
    BY <2>1, CallbackManagerAssumption DEF Subscribe, InHand
  <2>2. CASE FillSubscriber(t)
    BY <2>2 DEF FillSubscriber, InHand
  <2>3. CASE FillNothing(t)
    BY <2>3 DEF FillNothing, InHand
  <2>4. CASE Publish(t)
    BY <2>4 DEF Publish, InHand
  <2>5. CASE StartService(t)
    BY <2>5 DEF StartService, InHand
  <2>6. CASE OwnerReturns(t)
    BY <2>6 DEF OwnerReturns, Types, Places, InHand
  <2>7. CASE FreeSubscriber(t)
    BY <2>7 DEF FreeSubscriber, InHand
  <2>8. CASE WrongSubscriber(t)
    BY <2>8 DEF WrongSubscriber, InHand
  <2>9. CASE Retract(t)
    BY <2>9 DEF Retract, Stages, InHand
  <2>10. CASE StopService(t)
    BY <2>10 DEF StopService, InHand
  <2>11. ASSUME NEW a \in Addrs, MakeSubscriber(t, a) PROVE InHand'
    BY <2>11 DEF MakeSubscriber, Stages, InHand
  <2>12. ASSUME NEW d \in Domains, ClearBits(t, d) PROVE InHand'
    BY <2>12 DEF ClearBits, Cleared, InHand
  <2>13. ASSUME NEW h \in Handles, Unsubscribe(t, h) PROVE InHand'
    BY <2>13, CallbackManagerAssumption DEF Unsubscribe, InHand
  <2>14. QED
    BY <1>1, <2>1, <2>2, <2>3, <2>4, <2>5, <2>6, <2>7, <2>8, <2>9, <2>10, <2>11, <2>12, <2>13
       DEF Owner
<1>2. ASSUME NEW t \in Askers, Asker(t) PROVE InHand'
  <2>1. CASE Match(t)
    BY <2>1 DEF Match, Types, Places, InHand
  <2>2. CASE AskerReturns(t)
    BY <2>2 DEF AskerReturns, InHand
  <2>3. ASSUME NEW e \in BOOLEAN, NEW h \in Handles, EnableCallback(t, e, h) \/ EnableDomain(t, e, h)
        PROVE  InHand'
    <3>1. PICK P \in SUBSET Pairs : Ask(t, e, h, P)
      BY <2>3, AskedPairs
    <3>2. QED
      BY <3>1, CallbackManagerAssumption DEF Ask, InHand
  <2>4. ASSUME NEW b \in Pairs, SetBit(t, b) PROVE InHand'
    BY <2>4 DEF SetBit, Switched, InHand
  <2>5. QED
    BY <1>2, <2>1, <2>2, <2>3, <2>4 DEF Asker
<1>3. ASSUME NEW t \in Callers, Caller(t) PROVE InHand'
  <2>1. CASE IsCallbackIdEnable(t)
    BY <2>1 DEF IsCallbackIdEnable, Types, Places, InHand
  <2>2. CASE Load(t)
    BY <2>2 DEF Load, Types, Places, InHand
  <2>3. CASE Test(t)
    BY <2>3 DEF Test, Types, Places, InHand
  <2>4. CASE Fetch(t)
    BY <2>4 DEF Fetch, InHand
  <2>5. CASE Fault(t)
    BY <2>5 DEF Fault, InHand
  <2>6. CASE Invoke(t)
    BY <2>6 DEF Invoke, InHand
  <2>7. ASSUME NEW b \in Pairs, Execute(t, b) PROVE InHand'
    <3>1. PICK o : Owners = {o}
      BY DEF OneOwner
    <3>2. t \notin raced' => pc[o] # "wipe"
      BY <2>7, <3>1 DEF Execute
    <3>3. t \notin raced' => init /\ ptr # Null
      BY <2>7, <3>1, <3>2 DEF Execute, Places, OwnerPlaces, Stages
    <3>4. pc' = [pc EXCEPT ![t] = "enabled"] /\ UNCHANGED <<init, ptr, arg>>
      BY <2>7 DEF Execute
    <3>5. raced' = raced \cup {t} \/ raced' = raced \ {t}
      BY <2>7 DEF Execute
    <3>6. pc'[t] = "enabled"
      BY <3>4 DEF Places
    <3>7. QED
      BY <3>3, <3>4, <3>5, <3>6 DEF InHand
  <2>8. QED
    BY <1>3, <2>1, <2>2, <2>3, <2>4, <2>5, <2>6, <2>7 DEF Caller
<1>4. QED
  BY <1>1, <1>2, <1>3 DEF Next
-----------------------------------------------------------------------------
(* The invariant holds in every reachable state, with one owner.             *)
THEOREM OneOwnerInductive == ASSUME OneOwner PROVE Spec => []IndInv
<1>1. ASSUME Init PROVE IndInv
  <2>1. <<>> \in Seq(Services)
    OBVIOUS
  <2>2. Types
    BY <1>1, <2>1, CallbackManagerAssumption DEF Init, Types
  <2>3. Places /\ Stages /\ InHand
    BY <1>1, CallbackManagerAssumption
       DEF Init, Places, OwnerPlaces, AskerPlaces, CallerPlaces, Stages, InHand
  <2>4. Served /\ Asked
    BY <1>1, CallbackManagerAssumption DEF Init, Served, Asked
  <2>5. QED
    BY <2>2, <2>3, <2>4 DEF IndInv
<1>2. IndInv /\ [Next]_vars => IndInv'
  <2>1. ASSUME IndInv, Next PROVE IndInv'
    BY <2>1, TypesStep, PlacesStep, StagesStep, ServedStep, AskedStep, InHandStep
       DEF IndInv
  <2>2. ASSUME IndInv, UNCHANGED vars PROVE IndInv'
    BY <2>2
       DEF vars, IndInv, Types, Places, Stages, Served, Due, Held, Asked, InHand
  <2>3. QED
    BY <2>1, <2>2
<1>3. QED
  BY <1>1, <1>2, PTL DEF Spec

(* TypeOK.                                                                   *)
THEOREM SubscriberTypes == ASSUME OneOwner PROVE Spec => []TypeOK
<1>1. IndInv => TypeOK
  <2>1. {Starts[i] : i \in DOMAIN Starts} = Services
    BY StartsAndStops DEF Held
  <2>2. QED
    BY <2>1 DEF IndInv, Types, Places, Stages, TypeOK
<1>2. QED
  BY <1>1, OneOwnerInductive, PTL

(* A call follows a null or a freed subscriber only when it overlaps UnInit. *)
THEOREM NothingDangles == ASSUME OneOwner PROVE Spec => []NoDanglingCall
<1>1. IndInv => NoDanglingCall
  BY DEF IndInv, Types, Places, InHand, NoDanglingCall, Dangling
<1>2. QED
  BY <1>1, OneOwnerInductive, PTL

(* Between the calls of the owner the services run exactly for a subscriber. *)
THEOREM SubscriberIsServed == ASSUME OneOwner PROVE Spec => []SubscribedIsServed
<1>1. IndInv => SubscribedIsServed
  BY CallbackManagerAssumption
     DEF IndInv, OneOwner, Types, Stages, Served, Core, SubscribedIsServed
<1>2. QED
  BY <1>1, OneOwnerInductive, PTL

(* The ids that are enabled are those the subscriber asked for.              *)
THEOREM EnabledAreAsked == ASSUME OneOwner PROVE Spec => []EnabledIsAsked
<1>1. IndInv => EnabledIsAsked
  BY DEF IndInv, Asked, EnabledIsAsked
<1>2. QED
  BY <1>1, OneOwnerInductive, PTL
=============================================================================
