----------------------------- MODULE FileLocks -----------------------------
(***************************************************************************)
(* What fcntl() record locking promises about one file, without the lists  *)
(* of os/flock.c: every byte is either free, read by any number of owners, *)
(* or written by one; and a lock is given on all its bytes at once.        *)
(***************************************************************************)
EXTENDS Integers

CONSTANTS
  Owner,   \* processes, identified by l_pid and l_sysid
  Byte     \* the bytes of the file

VARIABLE
  held     \* who has which lock on which byte

Type == {"F_RDLCK", "F_WRLCK"}

(* Two locks exclude each other when one of them is for writing.           *)
Excludes(x, y) == x[1] # y[1] /\ x[2] = y[2] /\ "F_WRLCK" \in {x[3], y[3]}

Of(o, r) == {x \in held : x[1] = o /\ x[2] \in r}

Init == held = {}

(* o gets a lock of type t on the bytes r, in place of what it had there.  *)
Set(o, t, r) ==
  /\ \A x \in {o} \X r \X {t}, y \in held : ~Excludes(x, y)
  /\ held' = (held \ Of(o, r)) \cup ({o} \X r \X {t})

(* The locks of o on the bytes r are released: by F_UNLCK or close(), or by*)
(* a request that failed half way.                                         *)
Release(o, r) == held' = held \ Of(o, r)

Next ==
  \E o \in Owner, r \in SUBSET Byte :
    Release(o, r) \/ \E t \in Type : Set(o, t, r)

Spec == Init /\ [][Next]_held

(* Two owners never hold locks on one byte that exclude each other.        *)
NoConflict == \A x, y \in held : ~Excludes(x, y)
=============================================================================
