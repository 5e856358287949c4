--------------------------- MODULE MCSocketCache ---------------------------
(* SocketCache on a few descriptors, any of which may be any socket. *)
EXTENDS SocketCache, TLC

Symmetry == Permutations(Fd)
=============================================================================
