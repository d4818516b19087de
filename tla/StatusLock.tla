------------------------------ MODULE StatusLock ------------------------------
(***************************************************************************)
(* The per-service lock of packages/shared/src/utils/statusLock.ts: one    *)
(* Redlock key "status:lock:<serviceId>" on a single Redis.  The key holds *)
(* the token of its owner until the owner releases it or its time to live  *)
(* ends.  acquire() is retried ten times and then throws; nothing extends  *)
(* a lease, so a slow owner may go on after its key is gone.               *)
(***************************************************************************)
CONSTANTS
  Free,          \* the key does not exist
  Orphaned,      \* the key exists and the process that wrote it is dead
  LockTimeouts   \* BOOLEAN: may an acquire() use up its ten retries?

VARIABLE lock    \* Free, Orphaned, or the client whose token the key holds

-------------------------------------------------------------------------------
(* redlock.acquire succeeds only when the key does not exist (SET NX).     *)
AcquireStatusLock(c) ==
  /\ lock = Free
  /\ lock' = c

(* The key stayed taken through every retry: acquireStatusLock throws.     *)
StatusLockRefused ==
  /\ LockTimeouts
  /\ lock # Free
  /\ UNCHANGED lock

(* lock.release deletes the key only if it still holds the caller's token, *)
(* and releaseStatusLock swallows the error otherwise.                     *)
ReleaseStatusLock(c) == lock' = IF lock = c THEN Free ELSE lock

(* withStatusLock never reaches its finally block when the process dies.   *)
AbandonStatusLock(c) == lock' = IF lock = c THEN Orphaned ELSE lock

(* The time to live of the key ends, whatever its owner is doing.          *)
LeaseExpires ==
  /\ lock # Free
  /\ lock' = Free
===============================================================================
