-------------------------- MODULE DeviceLockProofs --------------------------
(***************************************************************************)
(* Proofs about DeviceLock for any number of processes and inodes.         *)
(*                                                                         *)
(* MutualExclusion is not inductive: it needs to know that flock itself    *)
(* excludes (FlockExclusive), that a holder still has its flock on the     *)
(* inode the name refers to, and that whoever is about to unlink the name  *)
(* has that inode locked exclusively (StepInv).                            *)
(***************************************************************************)
EXTENDS DeviceLock, TLAPS

(* What flock guarantees between two descriptors of one inode. *)
FlockExclusive ==
  \A p, q \in Procs :
    p # q /\ fd[p] = fd[q] /\ flk[p] = "ex" => flk[q] = "un"

(* What each process knows at each of its steps. *)
StepInv ==
  \A p \in Procs :
    /\ pc[p] \in {"idle", "open"} => fd[p] = None /\ flk[p] = "un"
    /\ pc[p] \notin {"idle", "open"} => fd[p] \in Inodes
    /\ pc[p] = "verify" => flk[p] = type[p]
    /\ pc[p] = "held" => path = fd[p] /\ flk[p] = type[p] /\ refcnt[p] >= 1
    /\ pc[p] = "stat" => flk[p] = "ex"
    /\ pc[p] = "unlink" => flk[p] = "ex" /\ path = fd[p]

LockInv == TypeOK /\ FlockExclusive /\ StepInv

-----------------------------------------------------------------------------
(* Every reachable state satisfies the inductive invariant: one step per   *)
(* system call.                                                            *)
THEOREM LockInvariant == Spec => []LockInv
<1> USE LockConstants
<1>1. Init => LockInv
  BY DEF Init, LockInv, TypeOK, FlockExclusive, StepInv, Modes, Steps
<1>2. LockInv /\ [Next]_vars => LockInv'
  <2> SUFFICES ASSUME LockInv, [Next]_vars
               PROVE  LockInv'
    OBVIOUS
  <2> USE DEF LockInv, TypeOK, FlockExclusive, StepInv, Modes, Steps, Goto
  <2>1. ASSUME NEW p \in Procs, NEW m \in Modes, NEW b \in BOOLEAN,
               LockRequest(p, m, b)
        PROVE  LockInv'
    BY <2>1 DEF LockRequest
  <2>2. ASSUME NEW p \in Procs, NEW m \in Modes, LockNested(p, m)
        PROVE  LockInv'
    BY <2>2 DEF LockNested
  <2>3. ASSUME NEW p \in Procs, OpenResource(p)
        PROVE  LockInv'
    BY <2>3 DEF OpenResource
  <2>4. ASSUME NEW p \in Procs, OpenResourceFails(p)
        PROVE  LockInv'
    BY <2>4 DEF OpenResourceFails
  <2>5. ASSUME NEW p \in Procs, Flock(p)
        PROVE  LockInv'
    BY <2>5 DEF Flock, Grantable
  <2>6. ASSUME NEW p \in Procs, FlockWouldBlock(p)
        PROVE  LockInv'
    BY <2>6 DEF FlockWouldBlock
  <2>7. ASSUME NEW p \in Procs, VerifyLockHandle(p)
        PROVE  LockInv'
    BY <2>7 DEF VerifyLockHandle
  <2>8. ASSUME NEW p \in Procs, VerifyStale(p)
        PROVE  LockInv'
    BY <2>8 DEF VerifyStale
  <2>9. ASSUME NEW p \in Procs, Unlock(p)
        PROVE  LockInv'
    BY <2>9 DEF Unlock
  <2>10. ASSUME NEW p \in Procs, FlockUn(p)
         PROVE  LockInv'
    BY <2>10 DEF FlockUn
  <2>11. ASSUME NEW p \in Procs, Relock(p) \/ RelockBusy(p)
         PROVE  LockInv'
    BY <2>11 DEF Relock, RelockBusy, Grantable
  <2>12. ASSUME NEW p \in Procs, StatResource(p)
         PROVE  LockInv'
    BY <2>12 DEF StatResource
  <2>13. ASSUME NEW p \in Procs, UnlinkResource(p)
         PROVE  LockInv'
    BY <2>13 DEF UnlinkResource
  <2>14. ASSUME NEW p \in Procs, CloseHandle(p)
         PROVE  LockInv'
    BY <2>14 DEF CloseHandle
  <2>15. ASSUME NEW p \in Procs, Crash(p)
         PROVE  LockInv'
    BY <2>15 DEF Crash
  <2>16. CASE UNCHANGED vars
    BY <2>16 DEF vars
  <2>17. QED
    BY <2>1, <2>2, <2>3, <2>4, <2>5, <2>6, <2>7, <2>8, <2>9, <2>10, <2>11,
       <2>12, <2>13, <2>14, <2>15, <2>16 DEF Next, Progress
<1>3. QED
  BY <1>1, <1>2, PTL DEF Spec

(* The handles, flock modes and reference counts of lock_handle keep their *)
(* types, however the system calls of the processes interleave.            *)
THEOREM LockTypeCorrect == Spec => []TypeOK
<1>1. LockInv => TypeOK
  BY DEF LockInv
<1>2. QED
  BY <1>1, LockInvariant, PTL

(* No two processes hold the lock in conflicting modes: both would have    *)
(* their flock on the inode the name refers to.                            *)
THEOREM LockMutualExclusion == Spec => []MutualExclusion
<1>1. LockInv => MutualExclusion
  BY DEF LockInv, TypeOK, FlockExclusive, StepInv, MutualExclusion, Held, Modes
<1>2. QED
  BY <1>1, LockInvariant, PTL

(* A held lock's file is never unlinked by the release of another process. *)
THEOREM HeldFileStaysLinked == Spec => []HeldFileLinked
<1>1. LockInv => HeldFileLinked
  BY DEF LockInv, StepInv, HeldFileLinked, Held
<1>2. QED
  BY <1>1, LockInvariant, PTL

-----------------------------------------------------------------------------
(* Where a process still counts on the file or is going to remove it. *)
Using == {"flock", "verify", "held", "unlock", "relock", "stat", "unlink"}

(* Who keeps the lock file from being left behind: as long as nobody was   *)
(* killed, a linked file has a user that has not passed the decision to    *)
(* drop it.  A process that closes with the exclusive flock in its hands   *)
(* has dropped its file; so whoever makes another one skip the unlink      *)
(* (Relock finds the file busy) is such a user itself.                     *)
CleanInv ==
  /\ crashes = 0 /\ path # None =>
       \E p \in Procs : fd[p] = path /\ pc[p] \in Using
  /\ \A p \in Procs :
       /\ pc[p] \in {"flock", "relock"} => flk[p] = "un"
       /\ pc[p] = "close" /\ flk[p] # "un" => path # fd[p]

(* The lock directory is clean once all users that were not killed have    *)
(* left release_lock_handle, however their releases overlap.               *)
THEOREM LockDirectoryClean == Spec => []NoStaleFile
<1> USE LockConstants
<1>1. Init => CleanInv
  BY DEF Init, CleanInv
<1>2. LockInv /\ LockInv' /\ CleanInv /\ [Next]_vars => CleanInv'
  <2> SUFFICES ASSUME LockInv, LockInv', CleanInv, [Next]_vars
               PROVE  CleanInv'
    OBVIOUS
  <2> USE DEF LockInv, TypeOK, StepInv, CleanInv, Using, Steps, Modes, Goto
  <2>1. ASSUME NEW p \in Procs, NEW m \in Modes, NEW b \in BOOLEAN,
               LockRequest(p, m, b)
        PROVE  CleanInv'
    BY <2>1 DEF LockRequest
  <2>2. ASSUME NEW p \in Procs, NEW m \in Modes, LockNested(p, m)
        PROVE  CleanInv'
    BY <2>2 DEF LockNested
  <2>3. ASSUME NEW p \in Procs, OpenResource(p)
        PROVE  CleanInv'
    BY <2>3 DEF OpenResource
  <2>4. ASSUME NEW p \in Procs, OpenResourceFails(p)
        PROVE  CleanInv'
    BY <2>4 DEF OpenResourceFails
  <2>5. ASSUME NEW p \in Procs, Flock(p) \/ FlockWouldBlock(p)
        PROVE  CleanInv'
    BY <2>5 DEF Flock, FlockWouldBlock
  <2>6. ASSUME NEW p \in Procs, VerifyLockHandle(p) \/ VerifyStale(p)
        PROVE  CleanInv'
    BY <2>6 DEF VerifyLockHandle, VerifyStale
  <2>7. ASSUME NEW p \in Procs, Unlock(p) \/ FlockUn(p)
        PROVE  CleanInv'
    BY <2>7 DEF Unlock, FlockUn
  <2>8. ASSUME NEW p \in Procs, Relock(p)
        PROVE  CleanInv'
    BY <2>8 DEF Relock
  <2>9. ASSUME NEW p \in Procs, RelockBusy(p)
        PROVE  CleanInv'
    <3>1. PICK q \in Procs \ {p} : fd[q] = fd[p] /\ flk[q] # "un"
      BY <2>9 DEF RelockBusy, Grantable
    <3>2. path = fd[p] => pc[q] \in Using /\ fd[q] = path
      BY <2>9, <3>1 DEF RelockBusy
    <3>3. QED
      BY <2>9, <3>1, <3>2 DEF RelockBusy
  <2>10. ASSUME NEW p \in Procs, StatResource(p)
         PROVE  CleanInv'
    BY <2>10 DEF StatResource
  <2>11. ASSUME NEW p \in Procs, UnlinkResource(p)
         PROVE  CleanInv'
    BY <2>11 DEF UnlinkResource
  <2>12. ASSUME NEW p \in Procs, CloseHandle(p)
         PROVE  CleanInv'
    BY <2>12 DEF CloseHandle
  <2>13. ASSUME NEW p \in Procs, Crash(p)
         PROVE  CleanInv'
    BY <2>13 DEF Crash
  <2>14. CASE UNCHANGED vars
    BY <2>14 DEF vars
  <2>15. QED
    BY <2>1, <2>2, <2>3, <2>4, <2>5, <2>6, <2>7, <2>8, <2>9, <2>10, <2>11,
       <2>12, <2>13, <2>14 DEF Next, Progress
<1>3. CleanInv => NoStaleFile
  BY DEF CleanInv, NoStaleFile, Using
<1>4. QED
  BY <1>1, <1>2, <1>3, LockInvariant, PTL DEF Spec

-----------------------------------------------------------------------------
(* The flock protocol implements the abstract readers/writer lock.  Only   *)
(* VerifyLockHandle acquires; the last Unlock and a crash release; every   *)
(* other system call is a stuttering step of RWLock.                       *)
THEOREM DeviceLockImplementsRWLock == Spec => ImplementsRWLock
<1> DEFINE H == [p \in Procs |-> IF Held(p) THEN type[p] ELSE "un"]
<1> USE DEF Held
<1>1. Init => Abstract!Init
  BY DEF Init, Abstract!Init
<1>2. LockInv /\ LockInv' /\ [Next]_vars => [Abstract!Next]_H
  <2> SUFFICES ASSUME LockInv, LockInv', [Next]_vars
               PROVE  [Abstract!Next]_H
    OBVIOUS
  <2> USE DEF LockInv, TypeOK, Modes, Steps, Goto
  <2>1. ASSUME NEW p \in Procs, NEW m \in Modes, m = type[p], VerifyLockHandle(p)
        PROVE  Abstract!Acquire(p, m)
    <3>1. H[p] = "un"
      BY <2>1 DEF VerifyLockHandle
    <3>2. Abstract!Compatible(p, m)
      BY <2>1 DEF VerifyLockHandle, Abstract!Compatible, FlockExclusive, StepInv
    <3>3. H' = [H EXCEPT ![p] = m]
      BY <2>1 DEF VerifyLockHandle
    <3>4. QED
      BY <3>1, <3>2, <3>3 DEF Abstract!Acquire
  <2>2. ASSUME NEW p \in Procs, Unlock(p)
        PROVE  Abstract!Release(p) \/ H' = H
    <3>1. CASE refcnt[p] = 1
      <4>1. H[p] # "un"
        BY <2>2 DEF Unlock
      <4>2. H' = [H EXCEPT ![p] = "un"]
        BY <2>2, <3>1 DEF Unlock
      <4>3. QED
        BY <4>1, <4>2 DEF Abstract!Release
    <3>2. CASE refcnt[p] # 1
      BY <2>2, <3>2 DEF Unlock
    <3>3. QED
      BY <3>1, <3>2
  <2>3. ASSUME NEW p \in Procs, Crash(p)
        PROVE  Abstract!Release(p) \/ H' = H
    <3>1. CASE Held(p)
      <4>1. H[p] # "un"
        BY <3>1
      <4>2. H' = [H EXCEPT ![p] = "un"]
        BY <2>3 DEF Crash
      <4>3. QED
        BY <4>1, <4>2 DEF Abstract!Release
    <3>2. CASE ~Held(p)
      BY <2>3, <3>2 DEF Crash
    <3>3. QED
      BY <3>1, <3>2
  <2>4. ASSUME NEW p \in Procs, NEW m \in Modes, NEW b \in BOOLEAN,
               LockRequest(p, m, b) \/ LockNested(p, m)
        PROVE  H' = H
    BY <2>4 DEF LockRequest, LockNested
  <2>5. ASSUME NEW p \in Procs,
               \/ OpenResource(p) \/ OpenResourceFails(p) \/ Flock(p)
               \/ FlockWouldBlock(p) \/ VerifyStale(p) \/ FlockUn(p)
        PROVE  H' = H
    BY <2>5 DEF OpenResource, OpenResourceFails, Flock, FlockWouldBlock,
                VerifyStale, FlockUn
  <2>6. ASSUME NEW p \in Procs,
               \/ Relock(p) \/ RelockBusy(p) \/ StatResource(p)
               \/ UnlinkResource(p) \/ CloseHandle(p)
        PROVE  H' = H
    BY <2>6 DEF Relock, RelockBusy, StatResource, UnlinkResource, CloseHandle
  <2>7. CASE UNCHANGED vars
    BY <2>7 DEF vars
  <2>8. ASSUME NEW p \in Procs, VerifyLockHandle(p)
        PROVE  Abstract!Next
    <3>1. PICK m \in Modes : m = type[p]
      OBVIOUS
    <3>2. Abstract!Acquire(p, m)
      BY <2>1, <2>8, <3>1
    <3>3. m \in Abstract!Modes
      BY DEF Abstract!Modes
    <3> HIDE DEF H, LockInv, TypeOK, Modes, Steps, Goto, Held
    <3>4. QED
      BY <3>2, <3>3 DEF Abstract!Next
  <2>9. ASSUME NEW p \in Procs, Abstract!Release(p)
        PROVE  Abstract!Next
    BY <2>9 DEF Abstract!Next
  <2> HIDE DEF H, LockInv, TypeOK, Modes, Steps, Goto, Held
  <2>10. QED
    BY <2>2, <2>3, <2>4, <2>5, <2>6, <2>7, <2>8, <2>9 DEF Next, Progress
<1>3. QED
  BY <1>1, <1>2, LockInvariant, PTL DEF Spec, ImplementsRWLock, Abstract!Spec
=============================================================================
