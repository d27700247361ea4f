------------------------------ MODULE MCByteBuffer ------------------------------
(* ByteBuffer on small instances *)
EXTENDS ByteBuffer, TLC

BufSymmetry == Permutations(Bufs)
=================================================================================
