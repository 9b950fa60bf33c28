----------------------------- MODULE MCProcess -----------------------------
(* Instances of Process for TLC.                                           *)
EXTENDS Process, TLC

Symmetry == Permutations(Proc \ {init})

(* Any child, that exits, stops or continues, or one that exits.           *)
AnyOrOne == {<<None, TRUE>>} \cup (Proc \X {FALSE})
=============================================================================
