--------------------------- MODULE MCBufferCache ---------------------------
(***************************************************************************)
(* Instances of BufferCache for TLC.                                       *)
(***************************************************************************)
EXTENDS BufferCache, TLC

MCSymmetry == Permutations(Proc) \cup Permutations(Buf) \cup Permutations(Block)
=============================================================================
