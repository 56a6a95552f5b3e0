---------------------------- MODULE MCChannelPool ----------------------------
(* Small instances of ChannelPool.  A record is two bytes and the buffer     *)
(* three, so that a read that fills it ends inside a record.                 *)
EXTENDS ChannelPool

Symmetry == Permutations(Chans)
=============================================================================
