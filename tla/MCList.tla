--------------------------------- MODULE MCList ---------------------------------
(* List on small instances *)
EXTENDS List, TLC

ListSymmetry == Permutations(Lists)
=================================================================================
