---------------------------- MODULE MCOpenFiles -----------------------------
(* Instances for TLC.  Paths are interchangeable, and so are descriptors:  *)
(* no action compares them except for equality.                            *)
EXTENDS OpenFiles, TLC

FileSymmetry == Permutations(Path) \cup Permutations(Fd)
=============================================================================
