------------------------------- MODULE MCSem -------------------------------
(***************************************************************************)
(* Instances of Sem for TLC.  The operation lists cover a V, a wait for    *)
(* zero, and lists of two operations of which the second one may have to   *)
(* wait or fail, with and without SEM_UNDO and IPC_NOWAIT.                 *)
(***************************************************************************)
EXTENDS Sem, TLC

o(n, v, u, w) == [num |-> n, op |-> v, undo |-> u, nowait |-> w]

\* Lists that name a semaphore at most once.
MCOpLists == {
  <<o(0, 1, TRUE, FALSE)>>,
  <<o(0, 0, FALSE, FALSE)>>,
  <<o(0, -1, TRUE, FALSE), o(1, -1, FALSE, FALSE)>>,
  <<o(1, 1, TRUE, FALSE), o(0, -1, TRUE, TRUE)>> }

\* A single operation, for the runs about removal.
MCOpListsShort == { <<o(0, -1, TRUE, FALSE)>> }

MCSymmetry == Permutations(Proc)
=============================================================================
