--------------------------- MODULE RecordDelivery ---------------------------
(***************************************************************************)
(* What the activity API promises a subscriber about its records           *)
(* (include/mspti_activity.h, the comments of                              *)
(* msptiBuffersCallbackCompleteFunc and msptiActivityRegisterCallbacks):   *)
(* records are accepted one by one into an open batch, a batch that is     *)
(* sealed never changes again, and every batch is handed over at most once *)
(* and consumed before it is given up.                                     *)
(*                                                                         *)
(* No lock, no thread and no queue appears here: ActivityManager.tla is    *)
(* shown to implement this module through a refinement mapping.            *)
(***************************************************************************)
EXTENDS Naturals

CONSTANT MaxBatches     (* bound on the number of batches *)

VARIABLES
  opened,       (* batches opened so far; they are numbered 1..opened     *)
  phase,        (* life of a batch: unborn, open, sealed, running, over   *)
  content,      (* the records of a batch                                 *)
  accepted      (* records accepted so far; they are numbered 1..accepted *)

dvars == <<opened, phase, content, accepted>>

Batches == 1..MaxBatches

Init ==
  /\ opened = 0
  /\ phase = [b \in Batches |-> "unborn"]
  /\ content = [b \in Batches |-> {}]
  /\ accepted = 0

Accept(b) ==
  /\ accepted' = accepted + 1
  /\ content' = [content EXCEPT ![b] = @ \union {accepted + 1}]

(* A record goes to the open batch. *)
Append(b) ==
  /\ phase[b] = "open"
  /\ Accept(b)
  /\ UNCHANGED <<opened, phase>>

(* The open batch, if there is one, is sealed. *)
Sealed == [b \in Batches |-> IF phase[b] = "open" THEN "sealed" ELSE phase[b]]

Seal ==
  /\ phase' = Sealed
  /\ UNCHANGED <<opened, content, accepted>>

(* A new batch opens; it may be too small to accept a record. *)
OpenBatch ==
  /\ opened < MaxBatches
  /\ opened' = opened + 1
  /\ phase' = [Sealed EXCEPT ![opened + 1] = "open"]
  /\ \/ Accept(opened + 1)
     \/ UNCHANGED <<content, accepted>>

(* The subscriber's completion callback starts on a batch ... *)
HandOver(b) ==
  /\ phase[b] \in {"open", "sealed"}
  /\ phase' = [phase EXCEPT ![b] = "running"]
  /\ UNCHANGED <<opened, content, accepted>>

(* ... and returns. *)
Consumed(b) ==
  /\ phase[b] = "running"
  /\ phase' = [phase EXCEPT ![b] = "over"]
  /\ UNCHANGED <<opened, content, accepted>>

Next ==
  \/ Seal
  \/ OpenBatch
  \/ \E b \in Batches : Append(b) \/ HandOver(b) \/ Consumed(b)

Spec == Init /\ [][Next]_dvars
=============================================================================
