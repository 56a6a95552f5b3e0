---------------------------- MODULE MCHostRecords ----------------------------
(* Small instances of HostRecords.                                           *)
EXTENDS HostRecords, TLC

Symmetry == Permutations(Threads)
=============================================================================
