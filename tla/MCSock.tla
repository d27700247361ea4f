--------------------------------- MODULE MCSock ---------------------------------
(* Sock on small instances *)
EXTENDS Sock, TLC

PoolSymmetry == Permutations(Pool)
=================================================================================
