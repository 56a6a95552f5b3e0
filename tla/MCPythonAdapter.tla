--------------------------- MODULE MCPythonAdapter ---------------------------
(* Instances of PythonAdapter for TLC.                                     *)
EXTENDS PythonAdapter, TLC

CONSTANTS t1, t2, b1, b2

MCThreads == {t1, t2}
MCBufs    == {b1, b2}
Sym       == Permutations(MCThreads) \cup Permutations(MCBufs)
=============================================================================
