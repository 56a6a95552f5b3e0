--------------------------- MODULE MCCommunication ---------------------------
(* Small instances of Communication; no property tells the threads apart.    *)
EXTENDS Communication, TLC

(* On the stream with and without subtasks, and captured.                    *)
MixedShapes == {<<NoKey, FALSE>>, <<NoKey, TRUE>>} \cup GraphKeys \X {FALSE}
FftsGraphs  == GraphKeys \X {TRUE}

Symmetry == Permutations(Threads)
=============================================================================
