----------------------------- MODULE DeviceLock -----------------------------
(***************************************************************************)
(* The lock of lib/utils_device_locking.c for a block device               *)
(* (DEV_LOCK_BDEV) or a named resource (DEV_LOCK_NAME): flock(2) on a file *)
(* in the locking directory that the last user unlinks.  Every system call *)
(* is one action, so the calls of different processes interleave freely.   *)
(*                                                                         *)
(* One resource is modelled; resources with different names do not share   *)
(* state.  An inode is an element of Inodes; a number is free for reuse    *)
(* once no directory entry and no descriptor refers to it, as in a file    *)
(* system.  Opening the locking directory (mkdirat racing with another     *)
(* process included) always ends in the same directory or in an error.     *)
(***************************************************************************)
EXTENDS Naturals, FiniteSets

CONSTANTS
  Procs,       \* processes (one crypt_device context each)
  Inodes,      \* inode numbers of the locking file system
  None,        \* no inode / no descriptor
  MaxRef,      \* bound on nested device_*_lock calls of one context
  MaxCrashes   \* bound on killed processes

ASSUME LockConstants ==
  /\ None \notin Inodes
  /\ IsFiniteSet(Procs) /\ IsFiniteSet(Inodes)
  /\ Cardinality(Inodes) > Cardinality(Procs)
  /\ MaxRef \in Nat \ {0}
  /\ MaxCrashes \in Nat

VARIABLES
  path,      \* inode the resource file name refers to, or None
  fd,        \* fd[p]: inode behind h->flock_fd, or None
  flk,       \* flk[p]: the flock mode of that descriptor
  pc,        \* pc[p]: next system call of p
  type,      \* type[p]: requested / held mode (h->type)
  blocking,  \* blocking[p]: flock without LOCK_NB
  again,     \* again[p]: the handle being released will be acquired again
  refcnt,    \* refcnt[p]: h->refcnt
  crashes    \* processes killed so far

vars == <<path, fd, flk, pc, type, blocking, again, refcnt, crashes>>

Modes == {"sh", "ex"}
Steps == {"idle", "open", "flock", "verify", "held", "unlock",
          "relock", "stat", "unlink", "close"}

Init ==
  /\ path = None
  /\ fd = [p \in Procs |-> None]
  /\ flk = [p \in Procs |-> "un"]
  /\ pc = [p \in Procs |-> "idle"]
  /\ type = [p \in Procs |-> "sh"]
  /\ blocking = [p \in Procs |-> TRUE]
  /\ again = [p \in Procs |-> FALSE]
  /\ refcnt = [p \in Procs |-> 0]
  /\ crashes = 0

Goto(p, from, to) == pc[p] = from /\ pc' = [pc EXCEPT ![p] = to]

(* flock(2): the mode m is granted on p's descriptor when no other         *)
(* descriptor of the same inode holds a conflicting one.                   *)
Grantable(p, m) ==
  \A q \in Procs \ {p} :
    fd[q] = fd[p] /\ flk[q] # "un" => m = "sh" /\ flk[q] = "sh"

-----------------------------------------------------------------------------
(* Acquiring *)

(* device_read_lock_internal and device_write_lock_internal without a      *)
(* handle, crypt_read_lock and crypt_write_lock: enter acquire_and_verify. *)
LockRequest(p, m, b) ==
  /\ Goto(p, "idle", "open")
  /\ type' = [type EXCEPT ![p] = m]
  /\ blocking' = [blocking EXCEPT ![p] = b]
  /\ UNCHANGED <<path, fd, flk, again, refcnt, crashes>>

(* device_*_lock_internal with a handle: only the counter moves.  The      *)
(* assertion of device_write_lock excludes a write request on a read lock. *)
LockNested(p, m) ==
  /\ pc[p] = "held"
  /\ m = "ex" => type[p] = "ex"
  /\ refcnt[p] < MaxRef
  /\ refcnt' = [refcnt EXCEPT ![p] = @ + 1]
  /\ UNCHANGED <<path, fd, flk, pc, type, blocking, again, crashes>>

(* open_resource: openat(O_CREAT).  A missing file is created on a fresh   *)
(* inode.                                                                  *)
OpenResource(p) ==
  /\ Goto(p, "open", "flock")
  /\ IF path # None
       THEN fd' = [fd EXCEPT ![p] = path] /\ UNCHANGED path
       ELSE \E i \in Inodes \ {fd[q] : q \in Procs} :
              /\ path' = i
              /\ fd' = [fd EXCEPT ![p] = i]
  /\ UNCHANGED <<flk, type, blocking, again, refcnt, crashes>>

(* open_lock_dir or openat failed: acquire_and_verify returns the error. *)
OpenResourceFails(p) ==
  /\ Goto(p, "open", "idle")
  /\ UNCHANGED <<path, fd, flk, type, blocking, again, refcnt, crashes>>

(* flock(LOCK_SH or LOCK_EX): waits until the mode is granted. *)
Flock(p) ==
  /\ Goto(p, "flock", "verify")
  /\ Grantable(p, type[p])
  /\ flk' = [flk EXCEPT ![p] = type[p]]
  /\ UNCHANGED <<path, fd, type, blocking, again, refcnt, crashes>>

(* flock with LOCK_NB failed with EWOULDBLOCK: -EBUSY after releasing. *)
FlockWouldBlock(p) ==
  /\ Goto(p, "flock", "relock")
  /\ ~blocking[p]
  /\ ~Grantable(p, type[p])
  /\ again' = [again EXCEPT ![p] = FALSE]
  /\ UNCHANGED <<path, fd, flk, type, blocking, refcnt, crashes>>

(* Mutant: the locked inode is not compared with the named one. *)
VerifyLockHandleMut(p) ==
  /\ Goto(p, "verify", "held")
  /\ refcnt' = [refcnt EXCEPT ![p] = 1]
  /\ UNCHANGED <<path, fd, flk, type, blocking, again, crashes>>

(* verify_lock_handle: the name must still refer to the locked inode.  The *)
(* caller sets h->type and h->refcnt and installs the handle.              *)
VerifyLockHandle(p) ==
  /\ path = fd[p]
  /\ Goto(p, "verify", "held")
  /\ refcnt' = [refcnt EXCEPT ![p] = 1]
  /\ UNCHANGED <<path, fd, flk, type, blocking, again, crashes>>

(* Mutant: the retry locks the same descriptor again. *)
VerifyStaleMut(p) ==
  /\ path # fd[p]
  /\ Goto(p, "verify", "flock")
  /\ flk' = [flk EXCEPT ![p] = "un"]
  /\ UNCHANGED <<path, fd, type, blocking, again, refcnt, crashes>>

(* verify_lock_handle returned -EAGAIN: another process removed the file   *)
(* before this one locked it.  LOCK_UN, release, try again.                *)
VerifyStale(p) ==
  /\ path # fd[p]
  /\ Goto(p, "verify", "relock")
  /\ flk' = [flk EXCEPT ![p] = "un"]
  /\ again' = [again EXCEPT ![p] = TRUE]
  /\ UNCHANGED <<path, fd, type, blocking, refcnt, crashes>>

-----------------------------------------------------------------------------
(* Releasing *)

(* device_unlock_internal or crypt_unlock_internal: the last reference     *)
(* goes on to unlock_internal.                                             *)
Unlock(p) ==
  /\ pc[p] = "held"
  /\ refcnt' = [refcnt EXCEPT ![p] = @ - 1]
  /\ pc' = [pc EXCEPT ![p] = IF refcnt[p] = 1 THEN "unlock" ELSE "held"]
  /\ UNCHANGED <<path, fd, flk, type, blocking, again, crashes>>

(* unlock_internal: flock(LOCK_UN) before release_lock_handle. *)
FlockUn(p) ==
  /\ Goto(p, "unlock", "relock")
  /\ flk' = [flk EXCEPT ![p] = "un"]
  /\ again' = [again EXCEPT ![p] = FALSE]
  /\ UNCHANGED <<path, fd, type, blocking, refcnt, crashes>>

(* Mutant: the file is dropped without the exclusive lock. *)
RelockMut(p) ==
  /\ Goto(p, "relock", "stat")
  /\ UNCHANGED <<path, fd, flk, type, blocking, again, refcnt, crashes>>

(* release_lock_handle: flock(LOCK_EX | LOCK_NB), "lock to drop the file". *)
Relock(p) ==
  /\ Goto(p, "relock", "stat")
  /\ Grantable(p, "ex")
  /\ flk' = [flk EXCEPT ![p] = "ex"]
  /\ UNCHANGED <<path, fd, type, blocking, again, refcnt, crashes>>

RelockBusy(p) ==
  /\ Goto(p, "relock", "close")
  /\ ~Grantable(p, "ex")
  /\ UNCHANGED <<path, fd, flk, type, blocking, again, refcnt, crashes>>

(* Mutant: the comparison of the inodes is inverted. *)
StatResourceMut(p) ==
  /\ Goto(p, "stat", IF path # fd[p] THEN "unlink" ELSE "close")
  /\ UNCHANGED <<path, fd, flk, type, blocking, again, refcnt, crashes>>

(* release_lock_handle: fstat, stat and same_inode. *)
StatResource(p) ==
  /\ Goto(p, "stat", IF path = fd[p] THEN "unlink" ELSE "close")
  /\ UNCHANGED <<path, fd, flk, type, blocking, again, refcnt, crashes>>

(* release_lock_handle: unlink(res) removes whatever the name refers to,   *)
(* which another process may have changed since the stat.                  *)
UnlinkResource(p) ==
  /\ Goto(p, "unlink", "close")
  /\ path' = None
  /\ UNCHANGED <<fd, flk, type, blocking, again, refcnt, crashes>>

(* close(h->flock_fd) drops the flock; acquire_and_verify loops or returns. *)
CloseHandle(p) ==
  /\ Goto(p, "close", IF again[p] THEN "open" ELSE "idle")
  /\ fd' = [fd EXCEPT ![p] = None]
  /\ flk' = [flk EXCEPT ![p] = "un"]
  /\ UNCHANGED <<path, type, blocking, again, refcnt, crashes>>

(* A process is killed: the kernel closes its descriptor.  The resource    *)
(* file stays.                                                             *)
Crash(p) ==
  /\ crashes < MaxCrashes
  /\ pc[p] # "idle"
  /\ crashes' = crashes + 1
  /\ pc' = [pc EXCEPT ![p] = "idle"]
  /\ fd' = [fd EXCEPT ![p] = None]
  /\ flk' = [flk EXCEPT ![p] = "un"]
  /\ refcnt' = [refcnt EXCEPT ![p] = 0]
  /\ UNCHANGED <<path, type, blocking, again>>

-----------------------------------------------------------------------------
(* Steps p takes on its own once it asked for, or gave up, the lock. *)
Progress(p) ==
  \/ OpenResource(p) \/ Flock(p) \/ FlockWouldBlock(p)
  \/ VerifyLockHandle(p) \/ VerifyStale(p)
  \/ FlockUn(p) \/ Relock(p) \/ RelockBusy(p)
  \/ StatResource(p) \/ UnlinkResource(p) \/ CloseHandle(p)

Next ==
  \E p \in Procs :
    \/ \E m \in Modes : LockNested(p, m) \/ \E b \in BOOLEAN : LockRequest(p, m, b)
    \/ Unlock(p) \/ OpenResourceFails(p) \/ Crash(p) \/ Progress(p)

Spec == Init /\ [][Next]_vars

(* A running process executes its next system call; a blocked flock is     *)
(* granted once it stays grantable.  Callers need not release, requests    *)
(* need not come.                                                          *)
Fairness == \A p \in Procs : WF_vars(Progress(p))

FairSpec == Spec /\ Fairness

-----------------------------------------------------------------------------
(* Type invariant. *)
TypeOK ==
  /\ path \in Inodes \cup {None}
  /\ fd \in [Procs -> Inodes \cup {None}]
  /\ flk \in [Procs -> {"un"} \cup Modes]
  /\ pc \in [Procs -> Steps]
  /\ type \in [Procs -> Modes]
  /\ blocking \in [Procs -> BOOLEAN]
  /\ again \in [Procs -> BOOLEAN]
  /\ refcnt \in [Procs -> 0 .. MaxRef]
  /\ crashes \in 0 .. MaxCrashes

Held(p) == pc[p] = "held"

(* Between a successful acquire_and_verify and the unlock, a writer is     *)
(* alone: although the lock file is unlinked and recreated by other users, *)
(* no two processes ever hold the lock in conflicting modes.               *)
MutualExclusion ==
  \A p, q \in Procs :
    p # q /\ Held(p) /\ Held(q) => type[p] = "sh" /\ type[q] = "sh"

(* While the lock is held the resource name refers to the locked inode:    *)
(* release_lock_handle of another process never unlinks a file in use, so  *)
(* device_locked_verify succeeds for as long as the lock is held.          *)
HeldFileLinked == \A p \in Procs : Held(p) => path = fd[p]

(* When nobody uses the lock and no process was killed, the locking        *)
(* directory is clean: of several users that leave at once, one always     *)
(* removes the file.                                                       *)
NoStaleFile ==
  (\A p \in Procs : pc[p] = "idle") /\ crashes = 0 => path = None

(* The readers/writer lock that callers see. *)
Abstract == INSTANCE RWLock WITH
  holds <- [p \in Procs |-> IF Held(p) THEN type[p] ELSE "un"]

(* acquire_and_verify, with its unlink and retry loop, implements RWLock. *)
ImplementsRWLock == Abstract!Spec

Acquiring(p) ==
  \/ pc[p] \in {"open", "flock", "verify"}
  \/ again[p] /\ pc[p] \in {"relock", "stat", "unlink", "close"}

(* The retry loop cannot spin for ever with nobody getting the lock: a     *)
(* process that wants it is followed by one that holds it, unless it gave  *)
(* up (error, LOCK_NB, killed).                                            *)
SomeoneGetsLock ==
  \A p \in Procs : Acquiring(p) ~> (~Acquiring(p) \/ \E q \in Procs : Held(q))
=============================================================================
