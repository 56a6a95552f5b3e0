------------------------------ MODULE MCDevTask ------------------------------
(* A small instance of DevTask: kinds by the values of msptiActivityKind,    *)
(* channels and CANN configuration from the tables of the code.              *)
EXTENDS DevTask

CONSTANTS TsFw, Stars, Dev0, Dev1

Marker == 1
Kernel == 2
Communication == 9

KindToChannel ==
  [k \in Kinds |-> CASE k = Marker        -> {TsFw}
                     [] k = Kernel        -> {Stars}
                     [] k = Communication -> {TsFw, Stars}]
CannConfig == Kinds \ {Marker}

(* Dev0 lists both channels, Dev1 only the time-stamp one.                   *)
Listed == [d \in Devices |-> IF d = Dev0 THEN {TsFw, Stars} ELSE {TsFw}]

Symmetry == Permutations(Threads)
=============================================================================
