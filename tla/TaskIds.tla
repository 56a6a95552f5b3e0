------------------------------- MODULE TaskIds -------------------------------
(***************************************************************************)
(* The stream and task ids under which host and device know a task:        *)
(*   csrc/activity/ascend/channel/stars_common.{h,cpp}                     *)
(*   csrc/activity/ascend/channel/soclog_convert.cpp                       *)
(* Reports and logs carry two 16-bit words.  A flag in the stream word     *)
(* says how the ids are packed in both; streams are below 2^11, or below   *)
(* 2^15 when the device has announced expanded streams.  A V6 device has   *)
(* one 32-bit id and no stream.                                            *)
(***************************************************************************)
EXTENDS Naturals

Bit(x, n)  == (x \div 2^n) % 2 = 1
Low(x, n)  == x % 2^n                        \* x & (2^n - 1)
High(x, n) == x - Low(x, n)                  \* x & ~(2^n - 1)

GetStreamId(expand, s, t) ==
  IF expand THEN Low(IF Bit(s, 15) THEN t ELSE s, 15)
            ELSE Low(IF ~Bit(s, 12) /\ Bit(s, 13) THEN Low(t, 12) ELSE s, 11)

(* Bug: the flag of the swapped ids is tested first.                        *)
BugGetTaskId(expand, s, t) ==
  IF expand THEN IF Bit(s, 15) THEN High(t, 15) + Low(s, 15) ELSE t
  ELSE IF Bit(s, 13) THEN Low(s, 12) + High(t, 12)
  ELSE IF Bit(s, 12) THEN Low(t, 13) + High(s, 13) ELSE t

GetTaskId(expand, s, t) ==
  IF expand THEN IF Bit(s, 15) THEN High(t, 15) + Low(s, 15) ELSE t
  ELSE IF Bit(s, 12) THEN Low(t, 13) + High(s, 13)
  ELSE IF Bit(s, 13) THEN Low(s, 12) + High(t, 12) ELSE t

(* A task as KernelParser, as CommunicationCalculator and as a log name it; *)
(* on V6 info is the 32-bit id.                                             *)
GetHostTaskId(v6, expand, s, info) ==
  IF v6 THEN info ELSE GetTaskId(expand, s, Low(info, 16))
KernelKey(v6, expand, s, info) ==
  <<IF v6 THEN 0 ELSE GetStreamId(expand, s, Low(info, 16)), GetHostTaskId(v6, expand, s, info)>>
CommunicationKey(v6, expand, s, info) ==
  <<IF v6 THEN 0 ELSE GetStreamId(expand, s, Low(info, 16)), GetTaskId(expand, s, Low(info, 16))>>
SocLogKey(v6, expand, s, t) ==
  IF v6 THEN <<0, t>> ELSE <<GetStreamId(expand, s, t), GetTaskId(expand, s, t)>>

(* How the device packs a stream and a task: plain; the high bits of the    *)
(* task in the stream word; the low bits of the two swapped.                *)
Packings == {"plain", "high", "swapped"}
Pack(expand, p, s, t) ==
  IF p = "plain" THEN <<s, t>>
  ELSE IF p = "high" THEN <<s + 2^12 + High(t, 13), Low(t, 13)>>
  ELSE IF expand THEN <<2^15 + Low(t, 15), High(t, 15) + s>>
  ELSE <<2^13 + Low(t, 12), High(t, 12) + s>>

(* Streams have as many bits as the device has announced.                   *)
NumStreams(expand) == IF expand THEN 2^15 ELSE 2^11

(* The values around every mask.                                            *)
Edges(max) == {n \in UNION {{2^i - 1, 2^i, 2^i + 5} : i \in 0 .. 16} : n < max}

(* A stream and a task are read back from the words of report and log as    *)
(* just these two.                                                          *)
ReadBack(expand, p, s, t) ==
  LET w == Pack(expand, p, s, t)
  IN  /\ SocLogKey(FALSE, expand, w[1], w[2]) = <<s, t>>
      /\ KernelKey(FALSE, expand, w[1], w[2]) = <<s, t>>
      /\ CommunicationKey(FALSE, expand, w[1], w[2]) = <<s, t>>

(* On V6 CommunicationCalculator cuts the id to 16 bits: its tasks are found *)
(* while ids are below 2^16 only.                                           *)
V6Agrees(id) ==
  /\ KernelKey(TRUE, FALSE, 0, id) = SocLogKey(TRUE, FALSE, 0, id)
  /\ id < 2^16 => CommunicationKey(TRUE, FALSE, 0, id) = SocLogKey(TRUE, FALSE, 0, id)

(* Every packing is read back, and report and logs of a task have one key.   *)
PackedIdsAgree ==
  /\ \A expand \in BOOLEAN, p \in Packings : ~(expand /\ p = "high") =>
       \A s \in Edges(NumStreams(expand)), t \in Edges(2^16) : ReadBack(expand, p, s, t)
  /\ \A id \in {2^30 - 1, 65536} \cup Edges(2^16) : V6Agrees(id)
=============================================================================
