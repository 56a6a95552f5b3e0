-------------------------- MODULE MCActivityManager --------------------------
(* Small instances of ActivityManager for TLC.  Threads of one kind behave   *)
(* alike, so that a safety run may identify states up to a permutation of    *)
(* them.                                                                     *)
EXTENDS ActivityManager, TLC

Symmetry == Permutations(Producers) \union Permutations(Flushers)
=============================================================================
