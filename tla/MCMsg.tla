------------------------------- MODULE MCMsg -------------------------------
(***************************************************************************)
(* Instances of Msg for TLC.                                               *)
(***************************************************************************)
EXTENDS Msg, TLC

S(n, t, w) == [size |-> n, typ |-> t, nowait |-> w]
R(n, t, w, e) == [size |-> n, typ |-> t, nowait |-> w, noerror |-> e]

\* An empty message, with IPC_NOWAIT, and one that needs both segments.
MCSndArgs == {S(0, 2, TRUE), S(3, 1, FALSE)}

\* The three kinds of msgtyp, with and without IPC_NOWAIT and MSG_NOERROR.
MCRcvArgs == {R(3, 0, TRUE, FALSE), R(0, 2, FALSE, TRUE), R(0, -2, TRUE, FALSE)}

MCSymmetry == Permutations(Proc)
=============================================================================
