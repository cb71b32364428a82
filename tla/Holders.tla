------------------------------- MODULE Holders -------------------------------
(***************************************************************************)
(* What the row of a lease names when it names no process that is alive      *)
(* (persistence/store.py): one pair of names for every module with a lease.  *)
(***************************************************************************)
CONSTANTS Free,     \* no row with that name
          Orphan    \* a row whose token no live process knows any more
=============================================================================
