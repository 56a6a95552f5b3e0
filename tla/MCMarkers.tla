------------------------------ MODULE MCMarkers ------------------------------
(* Small instances of Markers.                                               *)
EXTENDS Markers, TLC

CONSTANTS a, ab

(* The name ab begins with a.                                                *)
NamePrefixes == {<<a, a>>, <<ab, ab>>, <<ab, a>>}

Symmetry == Permutations(Threads)
=============================================================================
