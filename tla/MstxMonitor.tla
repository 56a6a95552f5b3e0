----------------------------- MODULE MstxMonitor -----------------------------
(***************************************************************************)
(* How the Python monitor of markers puts the ends of a range together:    *)
(*   src/mspti/monitor/mstx_monitor.py                                     *)
(*                                                                         *)
(* The records of the markers come in the order in which their buffers are *)
(* completed, by the worker of a full buffer and by FlushAll, which is not *)
(* the order in which they were made; the end of a range may come first.   *)
(* The monitor is a value: data_dict and what the user's callbacks were    *)
(* given.  They are set as long as the monitor is started.                 *)
(***************************************************************************)
EXTENDS Naturals, FiniteSets, Bags

Put(f, x, y)  == [z \in DOMAIN f \cup {x} |-> IF z = x THEN y ELSE f[z]]
Without(f, x) == [z \in DOMAIN f \ {x} |-> f[z]]
Once(x)       == SetToBag({x})

(* An entry holds what came of each end; that of a new key is empty.         *)
NoEnds    == [flag \in {"start", "end"} |-> {}]
NoRecords == [data_dict |-> <<>>, marks |-> EmptyBag, ranges |-> EmptyBag]

unique_id(mark) == <<mark.id, mark.source>>

assemble_start_end(start, end) ==
  [id |-> start.id, source |-> start.source, start |-> start.time, end |-> end.time]

Complete(ends)    == ends.start # {} /\ ends.end # {}

(* _append_data.  Also a single mark makes an entry, which stays empty.      *)
append_data(m, mark) ==
  LET key  == unique_id(mark)
      old  == IF key \in DOMAIN m.data_dict THEN m.data_dict[key] ELSE NoEnds
      ends == IF mark.flag = "mark" THEN old ELSE [old EXCEPT ![mark.flag] = {mark}]
  IN  [data_dict |-> IF Complete(ends) THEN Without(m.data_dict, key)
                                       ELSE Put(m.data_dict, key, ends),
       marks     |-> IF mark.flag = "mark" THEN m.marks (+) Once(mark) ELSE m.marks,
       ranges    |-> IF Complete(ends)
                     THEN m.ranges (+) SetToBag({assemble_start_end(s, e) :
                                                   s \in ends.start, e \in ends.end})
                     ELSE m.ranges]

-----------------------------------------------------------------------------
(* What the monitor should have made of a set of records.                    *)
Half(records, flag) == {r \in records : r.flag = flag}

Expected(records) ==
  LET pairs == {p \in Half(records, "start") \X Half(records, "end") :
                  unique_id(p[1]) = unique_id(p[2])}
      kept  == {unique_id(r) : r \in records} \ {unique_id(p[1]) : p \in pairs}
  IN  [data_dict |-> [key \in kept |->
         [flag \in {"start", "end"} |-> {r \in Half(records, flag) : unique_id(r) = key}]],
       marks     |-> SetToBag(Half(records, "mark")),
       ranges    |-> SetToBag({assemble_start_end(p[1], p[2]) : p \in pairs})]

(* In whatever order the records come: by induction over those that came.    *)
PairedInAnyOrder(records) ==
  /\ Expected({}) = NoRecords
  /\ \A came \in SUBSET records : \A r \in records \ came :
       append_data(Expected(came), r) = Expected(came \cup {r})
=============================================================================
