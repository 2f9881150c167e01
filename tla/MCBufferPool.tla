---------------------------- MODULE MCBufferPool ----------------------------
(* Instances of the buffer pool for TLC.  Clients are interchangeable: no  *)
(* action compares them except for equality.                               *)
EXTENDS BufferPoolOrder, TLC

ClientSymmetry == Permutations(Client)
=============================================================================
