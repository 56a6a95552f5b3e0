--------------------------- MODULE MCKernelRecords ---------------------------
(* Small instances of KernelRecords; no property tells the threads apart.    *)
EXTENDS KernelRecords, TLC

Symmetry == Permutations(Threads)
=============================================================================
