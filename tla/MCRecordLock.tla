---------------------------- MODULE MCRecordLock ----------------------------
(* Instances of RecordLock for TLC.                                        *)
EXTENDS RecordLock, TLC

Symmetry == Permutations(Proc)

(* Every region of the file, or only those of one byte.                    *)
AnyRegion == {r \in Byte \X Byte : r[1] <= r[2]}
OneByte == {<<b, b>> : b \in Byte}
=============================================================================
