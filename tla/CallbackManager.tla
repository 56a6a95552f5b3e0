---------------------------- MODULE CallbackManager ----------------------------
(***************************************************************************)
(* The callback subscriber:                                                *)
(*   csrc/callback/callback_manager.{h,cpp}                                *)
(*                                                                         *)
(* Nothing in CallbackManager is locked: init_ and the bitmaps of enabled  *)
(* ids are atomics, subscriber_ptr_ is a plain unique_ptr.  Owners call    *)
(* msptiSubscribe and msptiUnsubscribe, askers msptiEnableCallback and     *)
(* msptiEnableDomain, callers a traced API, which calls ExecuteCallback on *)
(* its way in and out.  One step is one access to the shared state.        *)
(*                                                                         *)
(* A subscriber is an address, which the allocator may give out again.     *)
(* msptiUnsubscribe stops the devices before UnInit: see DevTask.  A call  *)
(* that returns before it changes anything is not a step.                  *)
(***************************************************************************)
EXTENDS Naturals, Sequences

CONSTANTS
  Owners, Askers, Callers,  (* threads, by what they call                   *)
  Addrs, Null,              (* where a subscriber may be allocated; nullptr *)
  Domains, Pairs,           (* valid domains, and (domain, cbid) pairs      *)
  Listed                    (* those of domain_cbid_map_                    *)

ASSUME CallbackManagerAssumption ==
  /\ Null \notin Addrs
  /\ Owners \cap Askers = {} /\ Owners \cap Callers = {} /\ Askers \cap Callers = {}
  /\ Listed \subseteq Pairs /\ \A b \in Pairs : b[1] \in Domains

VARIABLES
  init,        (* init_                                                    *)
  ptr,         (* subscriber_ptr_                                          *)
  alive,       (* the subscribers that are allocated                       *)
  filled,      (* those whose handle is not null                           *)
  bits,        (* cbid_map_: the pairs that are enabled                    *)
  on,          (* the services that run for the subscriber                 *)
  pc,          (* where each thread is                                     *)
  arg,         (* the handle it passes, or the pointer it last read        *)
  rest,        (* of an owner: domains to clear; of an asker: pairs to set *)
  serve,       (* of an owner: the services still to start or stop         *)
  enable,      (* of an asker: the argument enable                         *)
  id,          (* of a caller: the pair of its API                         *)
  crashed,     (* a null or freed pointer was followed, and that was fatal *)
  \* --- history, read by properties and inputs only
  mine,        (* the handle msptiSubscribe gave an owner                  *)
  asked,       (* pairs enabled by calls with the present subscriber       *)
  mixed,       (* such a call was under way when the subscriber was set    *)
  raced        (* callers that overlap an UnInit                           *)

subVars  == <<init, ptr, alive, filled>>
ownVars  == <<rest, serve, enable, id>>
histVars == <<mine, asked, mixed, raced>>
vars     == <<subVars, bits, on, pc, arg, ownVars, crashed, histVars>>

Threads  == Owners \cup Askers \cup Callers
Starts   == <<"report", "sync", "mstx", "pool">>
BugStops == <<"mstx", "sync", "report">>
Stops    == <<"mstx", "sync", "report", "pool">>
Handles  == {mine[o] : o \in Owners} \cup {Null}

Init ==
  /\ init = FALSE /\ ptr = Null /\ alive = {} /\ filled = {} /\ bits = {}
  /\ on = {}
  /\ pc = [t \in Threads |-> "idle"] /\ arg = [t \in Threads |-> Null]
  /\ rest = [t \in Owners \cup Askers |-> {}]
  /\ serve = [t \in Owners |-> <<>>] /\ enable = [t \in Askers |-> FALSE]
  /\ id \in [Callers -> Pairs] /\ crashed = FALSE
  /\ mine = [t \in Owners |-> Null] /\ asked = {} /\ mixed = FALSE /\ raced = {}

(* Thread t is at pc from and goes on to pc to.                              *)
Moves(t, from, to) == pc[t] = from /\ pc' = [pc EXCEPT ![t] = to]

(* The same with what it keeps in arg; a thread that returns keeps nothing.  *)
Leaves(t, from)   == Moves(t, from, "idle") /\ arg' = [arg EXCEPT ![t] = Null]
Goes(t, from, to) == Moves(t, from, to) /\ UNCHANGED arg

-----------------------------------------------------------------------------
(* msptiSubscribe                                                            *)
Subscribe(t) ==
  /\ Moves(t, "idle", "make") /\ ~init
  /\ mixed' = \E a \in Askers : pc[a] # "idle"
  /\ UNCHANGED <<subVars, bits, on, arg, ownVars, crashed, mine, asked,
                 raced>>

(* make_unique, whose assignment frees the subscriber it replaces.           *)
MakeSubscriber(t, a) ==
  /\ Moves(t, "make", "clear") /\ a \notin alive
  /\ ptr' = a /\ alive' = (alive \ {ptr}) \cup {a}
  /\ filled' = filled \ {ptr, a}
  /\ rest' = [rest EXCEPT ![t] = Domains]
  /\ UNCHANGED <<init, bits, on, arg, serve, enable, id, crashed, histVars>>

BugCleared(d) == bits
Cleared(d) == {b \in bits : b[1] # d}

(* The stores of the loop are relaxed: they come in any order.               *)
ClearBits(t, d) ==
  /\ pc[t] \in {"clear", "wipe"} /\ d \in rest[t]
  /\ bits' = Cleared(d)
  /\ rest' = [rest EXCEPT ![t] = @ \ {d}]
  /\ UNCHANGED <<subVars, on, pc, arg, serve, enable, id, crashed, histVars>>

(* The handle and the result are written through subscriber_ptr_, whoever    *)
(* set it; the caller may have passed a null callback.                       *)
FillSubscriber(t) ==
  /\ rest[t] = {} /\ ptr \in alive
  /\ Moves(t, "clear", "publish")
  /\ filled' \in {filled, filled \cup {ptr}}
  /\ mine' = [mine EXCEPT ![t] = ptr]
  /\ UNCHANGED <<init, ptr, alive, bits, on, arg, ownVars, crashed, asked,
                 mixed, raced>>

FillNothing(t) ==
  /\ rest[t] = {} /\ ptr = Null /\ pc[t] = "clear"
  /\ crashed' = TRUE
  /\ UNCHANGED <<subVars, bits, on, pc, arg, ownVars, histVars>>

Publish(t) ==
  /\ Moves(t, "publish", "start")
  /\ init' = TRUE /\ asked' = {}
  /\ serve' = [serve EXCEPT ![t] = Starts]
  /\ UNCHANGED <<ptr, alive, filled, bits, on, arg, rest, enable, id,
                 crashed, mine, mixed, raced>>

(* The result of ChannelPoolManager::Init, which fails when there are no     *)
(* devices, is ignored; the other services are started once.                 *)
StartService(t) ==
  /\ pc[t] = "start" /\ serve[t] # <<>>
  /\ \/ on' = on \cup {Head(serve[t])}
     \/ Head(serve[t]) = "pool" /\ UNCHANGED on
  /\ serve' = [serve EXCEPT ![t] = Tail(@)]
  /\ UNCHANGED <<subVars, bits, pc, arg, rest, enable, id, crashed, histVars>>

(* msptiSubscribe or msptiUnsubscribe returns.                               *)
OwnerReturns(t) ==
  /\ serve[t] = <<>>
  /\ Leaves(t, "start") \/ Leaves(t, "stop")
  /\ UNCHANGED <<subVars, bits, on, ownVars, crashed, histVars>>

-----------------------------------------------------------------------------
(* msptiUnsubscribe, of the caller's own handle or of nullptr                *)
Unsubscribe(t, h) ==
  /\ Moves(t, "idle", "unsub") /\ init /\ h \in {mine[t], Null}
  /\ arg' = [arg EXCEPT ![t] = h]
  /\ UNCHANGED <<subVars, bits, on, ownVars, crashed, histVars>>

BugFreeSubscriber(t) ==
  /\ arg[t] = ptr /\ Moves(t, "unsub", "wipe")
  /\ alive' = alive \ {ptr} /\ filled' = filled \ {ptr}
  /\ rest' = [rest EXCEPT ![t] = Domains]
  /\ mine' = [mine EXCEPT ![t] = IF @ = ptr THEN Null ELSE @]
  /\ raced' = raced \cup {c \in Callers : pc[c] # "idle"}
  /\ UNCHANGED <<init, ptr, bits, on, arg, serve, enable, id, crashed,
                 asked, mixed>>

FreeSubscriber(t) ==
  /\ arg[t] = ptr /\ Moves(t, "unsub", "wipe")
  /\ ptr' = Null /\ alive' = alive \ {ptr} /\ filled' = filled \ {ptr}
  /\ rest' = [rest EXCEPT ![t] = Domains]
  /\ mine' = [mine EXCEPT ![t] = IF @ = ptr THEN Null ELSE @]
  /\ raced' = raced \cup {c \in Callers : pc[c] # "idle"}
  /\ UNCHANGED <<init, bits, on, arg, serve, enable, id, crashed, asked,
                 mixed>>

WrongSubscriber(t) ==
  /\ arg[t] # ptr /\ Leaves(t, "unsub")
  /\ UNCHANGED <<subVars, bits, on, ownVars, crashed, histVars>>

Retract(t) ==
  /\ rest[t] = {} /\ Moves(t, "wipe", "stop")
  /\ init' = FALSE
  /\ serve' = [serve EXCEPT ![t] = Stops]
  /\ UNCHANGED <<ptr, alive, filled, bits, on, arg, rest, enable, id,
                 crashed, histVars>>

StopService(t) ==
  /\ pc[t] = "stop" /\ serve[t] # <<>>
  /\ on' = on \ {Head(serve[t])}
  /\ serve' = [serve EXCEPT ![t] = Tail(@)]
  /\ UNCHANGED <<subVars, bits, pc, arg, rest, enable, id, crashed, histVars>>

-----------------------------------------------------------------------------
(* msptiEnableCallback of one pair, msptiEnableDomain of those of a domain   *)
Ask(t, e, h, P) ==
  /\ Moves(t, "idle", "match") /\ init /\ h \in Handles
  /\ arg' = [arg EXCEPT ![t] = h]
  /\ enable' = [enable EXCEPT ![t] = e] /\ rest' = [rest EXCEPT ![t] = P]
  /\ UNCHANGED <<subVars, bits, on, serve, id, crashed, histVars>>

EnableCallback(t, e, h) == \E b \in Pairs : Ask(t, e, h, {b})
EnableDomain(t, e, h)   ==
  \E d \in Domains : Ask(t, e, h, {b \in Listed : b[1] = d})

Match(t) ==
  /\ \/ arg[t] = ptr /\ Goes(t, "match", "set")
     \/ arg[t] # ptr /\ Leaves(t, "match")
  /\ UNCHANGED <<subVars, bits, on, ownVars, crashed, histVars>>

Switched(S, b, e) == IF e THEN S \cup {b} ELSE S \ {b}

(* Register and UnRegister                                                   *)
SetBit(t, b) ==
  /\ pc[t] = "set" /\ b \in rest[t]
  /\ bits' = Switched(bits, b, enable[t])
  /\ asked' = IF arg[t] = ptr THEN Switched(asked, b, enable[t]) ELSE asked
  /\ rest' = [rest EXCEPT ![t] = @ \ {b}]
  /\ UNCHANGED <<subVars, on, pc, arg, serve, enable, id, crashed, mine,
                 mixed, raced>>

AskerReturns(t) ==
  /\ rest[t] = {} /\ Leaves(t, "set")
  /\ UNCHANGED <<subVars, bits, on, ownVars, crashed, histVars>>

-----------------------------------------------------------------------------
(* ExecuteCallback, of a CallbackScope's constructor or destructor           *)
BugExecute(t, b) ==
  /\ Moves(t, "idle", "enabled")
  /\ id' = [id EXCEPT ![t] = b]
  /\ raced' = IF \E o \in Owners : pc[o] = "wipe" THEN raced \cup {t}
                                                 ELSE raced \ {t}
  /\ UNCHANGED <<subVars, bits, on, arg, rest, serve, enable, crashed, mine,
                 asked, mixed>>

Execute(t, b) ==
  /\ Moves(t, "idle", "enabled") /\ init
  /\ id' = [id EXCEPT ![t] = b]
  /\ raced' = IF \E o \in Owners : pc[o] = "wipe" THEN raced \cup {t}
                                                 ELSE raced \ {t}
  /\ UNCHANGED <<subVars, bits, on, arg, rest, serve, enable, crashed, mine,
                 asked, mixed>>

IsCallbackIdEnable(t) ==
  /\ \/ id[t] \in bits /\ Goes(t, "enabled", "load")
     \/ id[t] \notin bits /\ Leaves(t, "enabled")
  /\ UNCHANGED <<subVars, bits, on, ownVars, crashed, histVars>>

(* subscriber_ptr_ is read for the test of the handle and again for the call.*)
Load(t) ==
  /\ Moves(t, "load", "test") \/ Moves(t, "reload", "fetch")
  /\ arg' = [arg EXCEPT ![t] = ptr]
  /\ UNCHANGED <<subVars, bits, on, ownVars, crashed, histVars>>

(* What a thread may find at arg: nothing is known of a freed subscriber.    *)
Dangling(t) == arg[t] \notin alive
Found(t)    == IF arg[t] = Null THEN {}
               ELSE IF Dangling(t) THEN BOOLEAN ELSE {arg[t] \in filled}

Test(t) ==
  /\ \/ TRUE  \in Found(t) /\ Goes(t, "test", "reload")
     \/ FALSE \in Found(t) /\ Leaves(t, "test")
  /\ UNCHANGED <<subVars, bits, on, ownVars, crashed, histVars>>

(* The handle and the userdata are in registers.                             *)
Fetch(t) ==
  /\ TRUE \in Found(t) /\ Moves(t, "fetch", "call")
  /\ UNCHANGED <<subVars, bits, on, arg, ownVars, crashed, histVars>>

(* The process dies at a null or freed subscriber, or of a null handle.      *)
Fault(t) ==
  /\ \/ pc[t] \in {"test", "fetch"} /\ Dangling(t)
     \/ pc[t] = "fetch" /\ FALSE \in Found(t)
  /\ crashed' = TRUE
  /\ UNCHANGED <<subVars, bits, on, pc, arg, ownVars, histVars>>

(* The user's callback is entered.                                           *)
Invoke(t) ==
  /\ Leaves(t, "call")
  /\ UNCHANGED <<subVars, bits, on, ownVars, crashed, histVars>>

-----------------------------------------------------------------------------
Owner(t) ==
  \/ Subscribe(t) \/ FillSubscriber(t) \/ FillNothing(t) \/ Publish(t)
  \/ StartService(t) \/ OwnerReturns(t) \/ FreeSubscriber(t)
  \/ WrongSubscriber(t) \/ Retract(t) \/ StopService(t)
  \/ \E a \in Addrs : MakeSubscriber(t, a)
  \/ \E d \in Domains : ClearBits(t, d)
  \/ \E h \in Handles : Unsubscribe(t, h)

Asker(t) ==
  \/ \E e \in BOOLEAN, h \in Handles : EnableCallback(t, e, h) \/ EnableDomain(t, e, h)
  \/ Match(t) \/ AskerReturns(t)
  \/ \E b \in Pairs : SetBit(t, b)

Caller(t) ==
  \/ \E b \in Pairs : Execute(t, b)
  \/ IsCallbackIdEnable(t) \/ Load(t) \/ Test(t) \/ Fetch(t) \/ Fault(t) \/ Invoke(t)

Next ==
  /\ ~crashed
  /\ \/ \E t \in Owners  : Owner(t)
     \/ \E t \in Askers  : Asker(t)
     \/ \E t \in Callers : Caller(t)

Spec == Init /\ [][Next]_vars

-----------------------------------------------------------------------------
(* The state that the other properties take for granted: what each thread's  *)
(* place says of its arguments, and that a published subscriber is allocated *)
(* until UnInit has begun.                                                   *)
TypeOK ==
  /\ init \in BOOLEAN /\ crashed \in BOOLEAN /\ mixed \in BOOLEAN
  /\ ptr \in alive \cup {Null} /\ alive \subseteq Addrs /\ filled \subseteq alive
  /\ bits \subseteq Pairs /\ asked \subseteq Pairs
  /\ on \subseteq {Starts[i] : i \in DOMAIN Starts}
  /\ arg \in [Threads -> Addrs \cup {Null}] /\ mine \in [Owners -> Addrs \cup {Null}]
  /\ \A t \in Owners : /\ rest[t] \subseteq Domains
                       /\ rest[t] # {} => pc[t] \in {"clear", "wipe"}
                       /\ serve[t] # <<>> => pc[t] \in {"start", "stop"}
  /\ \A t \in Askers : rest[t] \subseteq Pairs
  /\ id \in [Callers -> Pairs] /\ raced \subseteq Callers

(* ExecuteCallback follows a null or a freed subscriber only when it overlaps *)
(* the part of UnInit between the free and init_ = false.  A call that begins *)
(* later is stopped by init_, also when an EnableCallback under way set a bit *)
(* after UnInit cleared it; a call that begins during Init by the order in    *)
(* which Init sets the subscriber and init_ (callback_manager.cpp:96-107,     *)
(* 125-129, 216-227).                                                         *)
NoDanglingCall ==
  \A t \in Callers : pc[t] \in {"test", "fetch"} /\ Dangling(t) => t \in raced

(* When no owner is in a call, the reporters, the time synchronisation and    *)
(* mstx serve if and only if there is a subscriber, and the channel pool only *)
(* then (callback_manager.cpp:107-111, 129-133).                              *)
SubscribedIsServed ==
  (\A o \in Owners : pc[o] = "idle") =>
     /\ init => {"report", "sync", "mstx"} \subseteq on /\ ptr \in alive
     /\ ~init => on = {} /\ ptr = Null /\ alive = {}

(* A subscriber starts with no id enabled, whatever the one before enabled or *)
(* left half enabled, and then has those that it asked for; unless a call of  *)
(* the one before is still under way when it subscribes                       *)
(* (callback_manager.cpp:101-103, 136-160; mspti_callback.h:178).             *)
EnabledIsAsked == init /\ ptr # Null /\ ~mixed => bits = asked

(* "Only a single subscriber can be registered at a time", "this function is  *)
(* thread safe" (mspti_callback.h:174, 179): two owners do not both hold a    *)
(* subscription that msptiSubscribe reported as a success.                    *)
OneSubscriber ==
  \A o, p \in Owners : mine[o] # Null /\ mine[p] # Null => o = p
=============================================================================
