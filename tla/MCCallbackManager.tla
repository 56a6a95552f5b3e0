-------------------------- MODULE MCCallbackManager --------------------------
(* Small instances of CallbackManager: two domains, one of them with two ids *)
(* that msptiEnableDomain sets one after the other.                          *)
EXTENDS CallbackManager, TLC

CONSTANTS Runtime, Hccl

MCDomains == {Runtime, Hccl}
MCPairs   == {<<Runtime, 1>>, <<Runtime, 2>>, <<Hccl, 1>>}
MCListed  == {<<Runtime, 1>>, <<Runtime, 2>>}
Symmetry  == Permutations(Addrs)
=============================================================================
